------------------------------ MODULE MCShellPage ------------------------------
(* Two drafts and three requests under way.                                *)
EXTENDS ShellPage, TLC

CONSTANTS r1, r2, s1, s2, s3
MCRuns == {r1, r2}
MCSlots == {s1, s2, s3}
MCSymmetry == Permutations(MCRuns) \cup Permutations(MCSlots)
=============================================================================
