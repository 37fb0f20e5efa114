---------------------------- MODULE ConnectionPool ----------------------------
(***************************************************************************)
(* The connections of create_engine (a QueuePool): a session takes one at  *)
(* the first statement of a transaction and returns it with its commit or  *)
(* its end.  A request that finds none free waits, and fails when the wait *)
(* is over.                                                                *)
(***************************************************************************)
EXTENDS Integers, FiniteSets

CONSTANTS
  Slots,    \* the requests under way
  PoolSize  \* pool_size + max_overflow

ASSUME PoolAssumption == PoolSize \in Nat \ {0}
ASSUME SlotsAssumption == IsFiniteSet(Slots)  \* each has a worker thread

VARIABLE held  \* how many connections each request has taken

PoolInit == held = [r \in Slots |-> 0]

(* The connections taken, by request and session: a request has at most two*)
(* sessions.                                                               *)
Taken == {c \in Slots \X (1..2) : c[2] <= held[c[1]]}

Free == PoolSize - Cardinality(Taken)

(* The request's session number n, counted from 1, runs a statement.       *)
CanRun(r, n) == held[r] >= n \/ Free > 0

Statement(r, n) ==
  /\ CanRun(r, n)
  /\ held' = [held EXCEPT ![r] = IF @ < n THEN n ELSE @]

(* Wrong variant: the end of a request returns its last connection only.   *)
ReleaseOne(r) == held' = [held EXCEPT ![r] = IF @ = 0 THEN 0 ELSE @ - 1]

(* A commit of the request's only session, or the end of its sessions      *)
Release(r) == held' = [held EXCEPT ![r] = 0]

(* A commit or a rollback of the request's second session                  *)
ReleaseSecond(r) == held' = [held EXCEPT ![r] = IF @ > 1 THEN 1 ELSE @]
=============================================================================
