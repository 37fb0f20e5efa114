----------------------------- MODULE CandleWindows -----------------------------
(***************************************************************************)
(* What one provider call of the price enrichment covers.  Minutes are the *)
(* open times of 1 minute candles.                                         *)
(***************************************************************************)
EXTENDS Integers

CONSTANTS
  Minutes,           \* candle open times
  MaxWindowMinutes,  \* _DEFAULT_MAX_FETCH_WINDOW_MINUTES
  MaxWindows         \* _DEFAULT_MAX_FETCH_WINDOWS

ASSUME MinutesAssumption == Minutes \subseteq Nat
ASSUME WindowAssumption == MaxWindowMinutes \in Nat \ {0} /\ MaxWindows \in Nat \ {0}

(* Wrong variant: a window may be one minute shorter than the limit only.  *)
IsShortWindow(w, times) ==
  /\ w \in times \X times
  /\ w[2] < w[1] + MaxWindowMinutes - 1 \/ w[1] = w[2]
  /\ \A m \in times : /\ w[1] <= m
                      /\ m <= w[2] \/ m >= w[1] + MaxWindowMinutes - 1

(* The window _bounded_fetch_windows puts first: from the earliest time to *)
(* the latest one that keeps it within the limit.                          *)
IsNextWindow(w, times) ==
  /\ w \in times \X times
  /\ w[2] <= w[1] + MaxWindowMinutes - 1
  /\ \A m \in times : /\ w[1] <= m
                      /\ m <= w[2] \/ m > w[1] + MaxWindowMinutes - 1

Beyond(w, times) == {m \in times : m > w[2]}

FirstWindow(times) == CHOOSE w \in times \X times : IsNextWindow(w, times)

(* What is left of times after k windows; after MaxWindows it is what the  *)
(* budget leaves for a later retry.                                        *)
LeftAfter(times) ==
  LET left[k \in 0..MaxWindows] ==
        IF k = 0 THEN times
        ELSE IF left[k - 1] = {} THEN {}
        ELSE Beyond(FirstWindow(left[k - 1]), left[k - 1])
  IN left

OverBudget(times) == LeftAfter(times)[MaxWindows]
=============================================================================
