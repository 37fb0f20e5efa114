---------------------------- MODULE MCAuthSessions ----------------------------
(* Two emails and two workspaces, the first of each at hand.  Either two   *)
(* seed commands meet, or one seed command and a request, or two requests  *)
(* over a pool of two connections.                                         *)
EXTENDS AuthSessions

CONSTANTS a, b, w1, w2, s1, s2, r1, r2, t1, t2

MCFirstOwner == [g \in {w1, w2} |-> IF g = w1 THEN a ELSE Nobody]
MCActors == {{s1, s2}, {s1, r1}, {r1, r2}}
=============================================================================
