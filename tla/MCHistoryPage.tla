----------------------------- MODULE MCHistoryPage -----------------------------
(* Two cards and three requests under way.                                 *)
EXTENDS HistoryPage, TLC

CONSTANTS r1, r2, s1, s2, s3
MCRuns == {r1, r2}
MCSlots == {s1, s2, s3}
MCSymmetry == Permutations(MCRuns) \cup Permutations(MCSlots)
=============================================================================
