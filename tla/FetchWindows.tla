----------------------------- MODULE FetchWindows -----------------------------
(***************************************************************************)
(* The loop of _bounded_fetch_windows: it groups the missing candle open   *)
(* times into at most MaxWindows provider calls and leaves the others for  *)
(* a later retry.                                                          *)
(***************************************************************************)
EXTENDS CandleWindows, Sequences

VARIABLES
  missing,  \* the open times to fetch
  rest,     \* those after sorted_open_times[index - 1]
  windows   \* the windows found so far

windowVars == <<missing, rest, windows>>

TypeOK ==
  /\ missing \subseteq Minutes
  /\ rest \subseteq missing
  /\ windows \in Seq(missing \X missing)
  /\ Len(windows) <= MaxWindows

Init ==
  /\ missing \in SUBSET Minutes
  /\ rest = missing
  /\ windows = <<>>

(* Wrong variant: the next window starts where this one could have ended.  *)
AddWindowAndSkip ==
  /\ Len(windows) < MaxWindows
  /\ \E w \in rest \X rest :
       /\ IsNextWindow(w, rest)
       /\ windows' = Append(windows, w)
       /\ rest' = {m \in rest : m > w[1] + MaxWindowMinutes}
  /\ UNCHANGED missing

AddWindow ==
  /\ Len(windows) < MaxWindows
  /\ \E w \in rest \X rest :
       /\ IsNextWindow(w, rest)
       /\ windows' = Append(windows, w)
       /\ rest' = Beyond(w, rest)
  /\ UNCHANGED missing

Next == AddWindow

Spec == Init /\ [][Next]_windowVars

-----------------------------------------------------------------------------
Covered(m) == \E i \in 1..Len(windows) : windows[i][1] <= m /\ m <= windows[i][2]

(* Each missing open time is in a provider call or still to be grouped,    *)
(* never both and never forgotten, so the number the budget warning gives  *)
(* is right.                                                               *)
WindowsCoverMissing == \A m \in missing : Covered(m) <=> m \notin rest

(* The calls ascend without overlapping and start a whole window apart: no *)
(* candle is fetched twice (ON CONFLICT would refuse it twice in a batch), *)
(* and no grouping into windows of that size needs fewer calls.            *)
WindowsAreApart ==
  \A i, j \in 1..Len(windows) :
    i < j => /\ windows[i][2] < windows[j][1]
             /\ windows[i][1] + MaxWindowMinutes <= windows[j][1]

(* The budget never leaves a minute out while the open times span at most  *)
(* MaxWindows * MaxWindowMinutes: 50 calls of 1000 minutes always cover a  *)
(* 30 day run with a 24 hour horizon.                                      *)
WithinBudget == \A m, n \in missing : n < m + MaxWindows * MaxWindowMinutes

BudgetSuffices == WithinBudget /\ Len(windows) = MaxWindows => rest = {}

(* The inductive invariant: what is left lies a whole window beyond the    *)
(* start of every call, and as many windows beyond some missing open time  *)
(* as there are calls.                                                     *)
FetchInv ==
  /\ WindowsCoverMissing
  /\ WindowsAreApart
  /\ \A m \in rest, i \in 1..Len(windows) :
       windows[i][2] < m /\ windows[i][1] + MaxWindowMinutes <= m
  /\ \A m \in rest : \E f \in missing :
       f + Len(windows) * MaxWindowMinutes <= m
=============================================================================
