---------------------------- MODULE MCBrowserPages ----------------------------
(* Two runs, two configurations and three requests under way, two of them  *)
(* on the history page; three horizons; four moves of the user.            *)
EXTENDS BrowserPages, TLC

CONSTANTS r1, r2, s1, s2, s3, c1, c2, h1, h2, h3
MCRuns == {r1, r2}
MCSlots == {s1, s2, s3}
MCHistorySlots == {s1, s2}
MCConfigs == {c1, c2}
MCHorizons == {h1, h2, h3}

(* The liveness property is about the states of the quality page, in which *)
(* no run, configuration or request of DatasetCalls occurs: permuting them *)
(* changes none of those states, so the reduction merges none of them.     *)
MCSymmetry ==
  Permutations(MCRuns) \cup Permutations(MCHistorySlots) \cup Permutations(MCConfigs)
=============================================================================
