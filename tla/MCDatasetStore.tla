---------------------------- MODULE MCDatasetStore ----------------------------
(* Three saves over two runs of datasets with at most one record.  The     *)
(* requests are not declared symmetric: store.cfg checks liveness too.     *)
EXTENDS DatasetStore
=============================================================================
