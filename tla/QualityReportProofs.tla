--------------------------- MODULE QualityReportProofs ---------------------------
(***************************************************************************)
(* A quality report, for every set of minutes and records and every limit: *)
(* how the missing minutes fall into calls and pages, what the loop counts *)
(* and what its samples show.                                              *)
(***************************************************************************)
EXTENDS QualityReport, FiniteSetTheorems, TLAPS

(* What // computes.                                                       *)
LEMMA Quotient ==
  ASSUME NEW a \in Nat, NEW d \in Nat \ {0}
  PROVE  /\ a \div d \in Nat
         /\ d * (a \div d) <= a
         /\ a < d * (a \div d) + d
BY SMT

LEMMA QuotientOfMultiple ==
  ASSUME NEW q \in Nat, NEW d \in Nat \ {0}
  PROVE  (d * q) \div d = q
BY SMT

(* A dividend larger by at least the divisor has a larger quotient.        *)
LEMMA QuotientGrows ==
  ASSUME NEW a \in Nat, NEW b \in Nat, NEW d \in Nat \ {0}, a + d <= b
  PROVE  a \div d < b \div d
<1> DEFINE p == a \div d
           q == b \div d
<1>1. p \in Nat /\ q \in Nat /\ d * p <= a /\ b < d * q + d
  BY Quotient
<1> HIDE DEF p, q
<1>2. d * p + d < d * q + d
  <2>1. d * p \in Nat /\ d * q \in Nat
    BY <1>1
  <2> QED
    BY <1>1, <2>1
<1>3. ~(q <= p)
  <2> SUFFICES ASSUME q <= p PROVE FALSE
    OBVIOUS
  <2>1. PICK r \in Nat : p = q + r
    BY <1>1
  <2>2. d * p = d * q + d * r /\ d * r \in Nat /\ d * q \in Nat
    BY <1>1, <2>1
  <2> QED
    BY <1>2, <2>2
<1> QED
  BY <1>1, <1>3 DEF p, q
(* The positions a sample shows, counted from 0: they begin with the first *)
(* record, end with the last, and ascend without repeating one.            *)
LEMMA SampleIndexes ==
  ASSUME NEW n \in Nat, NEW max \in Nat, 2 <= max, max < n
  PROVE  /\ SampleIndex(0, n, max) = 0
         /\ SampleIndex(max - 1, n, max) = n - 1
         /\ \A k, l \in 0..(max - 1) :
              k < l => SampleIndex(k, n, max) < SampleIndex(l, n, max)
         /\ \A k \in 0..(max - 1) : SampleIndex(k, n, max) \in 0..(n - 1)
<1> DEFINE last == n - 1
           d == max - 1
<1>1. last \in Nat /\ d \in Nat \ {0} /\ d <= last
  OBVIOUS
<1>2. \A k \in Int : SampleIndex(k, n, max) = (k * last) \div d
  BY DEF SampleIndex
<1> HIDE DEF last, d
<1>3. SampleIndex(0, n, max) = 0
  <2>1. 0 * last = d * 0 /\ d * 0 = 0
    BY <1>1
  <2>2. (d * 0) \div d = 0
    BY <1>1, QuotientOfMultiple
  <2> QED
    BY <1>2, <2>1, <2>2
<1>4. SampleIndex(d, n, max) = last
  <2>1. (d * last) \div d = last
    BY <1>1, QuotientOfMultiple
  <2> QED
    BY <1>1, <1>2, <2>1
<1>5. ASSUME NEW k \in 0..d, NEW l \in 0..d, k < l
      PROVE  SampleIndex(k, n, max) < SampleIndex(l, n, max)
  <2>1. PICK j \in Nat : l = k + 1 + j
    <3>1. l - k - 1 \in Nat /\ l = k + 1 + (l - k - 1)
      BY <1>1, <1>5
    <3> QED
      BY <3>1
  <2>2. k \in Nat /\ l \in Nat
    BY <1>1
  <2>3. k * last \in Nat /\ j * last \in Nat
    BY <1>1, <2>1, <2>2
  <2>4. l * last = k * last + last + j * last
    BY <1>1, <2>1, <2>2
  <2>5. l * last \in Nat /\ k * last + d <= l * last
    BY <1>1, <2>3, <2>4
  <2>6. (k * last) \div d < (l * last) \div d
    BY <1>1, <2>3, <2>5, QuotientGrows
  <2> QED
    BY <1>2, <2>2, <2>6
<1>6. ASSUME NEW k \in 0..d PROVE SampleIndex(k, n, max) \in 0..last
  <2>1. k \in Int /\ k * last \in Nat
    BY <1>1
  <2>2. SampleIndex(k, n, max) \in Nat
    <3>1. (k * last) \div d \in Nat
      BY <1>1, <2>1, Quotient
    <3> QED
      BY <1>2, <2>1, <3>1
  <2>3. CASE k = d
    BY <1>1, <1>4, <2>3
  <2>4. CASE k # d
    <3>1. SampleIndex(k, n, max) < last
      BY <1>1, <1>4, <1>5, <2>4
    <3> QED
      BY <1>1, <2>2, <3>1
  <2> QED
    BY <2>3, <2>4
<1> QED
  BY <1>3, <1>4, <1>5, <1>6 DEF last, d

(* A sample of a longer sequence has the length of its limit, shows the    *)
(* first and the last record, and the others in their order.               *)
THEOREM SampleSpans ==
  ASSUME NEW S, NEW seq \in Seq(S), NEW max \in Nat, 2 <= max, max < Len(seq)
  PROVE  /\ Sample(seq, max) \in Seq(S) /\ Len(Sample(seq, max)) = max
         /\ Sample(seq, max)[1] = seq[1]
         /\ Sample(seq, max)[max] = seq[Len(seq)]
         /\ \A k, l \in 1..max : k < l =>
              \E i, j \in 1..Len(seq) :
                 i < j /\ Sample(seq, max)[k] = seq[i] /\ Sample(seq, max)[l] = seq[j]
<1> DEFINE n == Len(seq)
           place(k) == SampleIndex(k - 1, n, max) + 1
<1>1. n \in Nat /\ \A i \in 1..n : seq[i] \in S
  OBVIOUS
<1>2. Sample(seq, max) = [k \in 1..max |-> seq[place(k)]]
  BY DEF Sample
<1> HIDE DEF n
<1>3. /\ place(1) = 1 /\ place(max) = n
      /\ \A k \in 1..max : place(k) \in 1..n
      /\ \A k, l \in 1..max : k < l => place(k) < place(l)
  <2>1. n > max
    BY DEF n
  <2>2. \A k \in 1..max : k - 1 \in 0..(max - 1)
    OBVIOUS
  <2>3. /\ SampleIndex(0, n, max) = 0 /\ SampleIndex(max - 1, n, max) = n - 1
        /\ \A k, l \in 0..(max - 1) : k < l => SampleIndex(k, n, max) < SampleIndex(l, n, max)
        /\ \A k \in 0..(max - 1) : SampleIndex(k, n, max) \in 0..(n - 1)
    BY <1>1, <2>1, SampleIndexes
  <2>4. place(1) = 1 /\ place(max) = n
    BY <1>1, <2>3
  <2>5. ASSUME NEW k \in 1..max PROVE place(k) \in 1..n
    BY <1>1, <2>2, <2>3
  <2>6. ASSUME NEW k \in 1..max, NEW l \in 1..max, k < l PROVE place(k) < place(l)
    <3>1. /\ k - 1 \in 0..(max - 1) /\ l - 1 \in 0..(max - 1) /\ k - 1 < l - 1
      BY <2>6
    <3>2. /\ SampleIndex(k - 1, n, max) < SampleIndex(l - 1, n, max)
          /\ SampleIndex(k - 1, n, max) \in Int /\ SampleIndex(l - 1, n, max) \in Int
      BY <2>3, <3>1
    <3> QED
      BY <3>2
  <2> QED
    BY <2>4, <2>5, <2>6
<1> HIDE DEF place
<1>4. Sample(seq, max) \in Seq(S) /\ Len(Sample(seq, max)) = max
  BY <1>1, <1>2, <1>3
<1>5. ASSUME NEW k \in 1..max, NEW l \in 1..max, k < l
      PROVE  \E i, j \in 1..n :
                i < j /\ Sample(seq, max)[k] = seq[i] /\ Sample(seq, max)[l] = seq[j]
  BY <1>2, <1>3, <1>5
<1> QED
  BY <1>2, <1>3, <1>4, <1>5 DEF n

(* What a sample keeps of a sequence, whatever the limit.                  *)
LEMMA SampleOf ==
  ASSUME NEW S, NEW seq \in Seq(S), NEW max \in Nat
  PROVE  /\ Len(Sample(seq, max)) = IF Len(seq) < max THEN Len(seq) ELSE max
         /\ \A k, l \in DOMAIN Sample(seq, max) : k < l =>
              \E i, j \in 1..Len(seq) :
                 i < j /\ Sample(seq, max)[k] = seq[i] /\ Sample(seq, max)[l] = seq[j]
<1>0. Len(seq) \in Nat
  OBVIOUS
<1>1. CASE Len(seq) <= max
  <2>1. Sample(seq, max) = seq
    BY <1>1 DEF Sample
  <2>2. DOMAIN seq = 1..Len(seq)
    OBVIOUS
  <2>3. Len(seq) = max \/ Len(seq) < max
    BY <1>0, <1>1
  <2> QED
    BY <2>1, <2>2, <2>3
<1>2. CASE Len(seq) > max /\ max = 0
  <2>1. Sample(seq, max) = <<>>
    BY <1>2 DEF Sample
  <2> QED
    BY <1>2, <2>1
<1>3. CASE Len(seq) > max /\ max = 1
  <2>1. Sample(seq, max) = <<seq[1]>>
    BY <1>3 DEF Sample
  <2> QED
    BY <1>3, <2>1
<1>4. CASE Len(seq) > max /\ max >= 2
  <2>1. /\ Sample(seq, max) \in Seq(S) /\ Len(Sample(seq, max)) = max
        /\ \A k, l \in 1..max : k < l =>
             \E i, j \in 1..Len(seq) :
                i < j /\ Sample(seq, max)[k] = seq[i] /\ Sample(seq, max)[l] = seq[j]
    BY <1>4, SampleSpans
  <2>2. DOMAIN Sample(seq, max) = 1..max
    BY <2>1
  <2>3. ~(Len(seq) < max)
    BY <1>0, <1>4
  <2>4. Len(Sample(seq, max)) = IF Len(seq) < max THEN Len(seq) ELSE max
    BY <2>1, <2>3, Zenon
  <2>5. ASSUME NEW k \in DOMAIN Sample(seq, max), NEW l \in DOMAIN Sample(seq, max), k < l
        PROVE  \E i, j \in 1..Len(seq) :
                 i < j /\ Sample(seq, max)[k] = seq[i] /\ Sample(seq, max)[l] = seq[j]
    <3>1. k \in 1..max /\ l \in 1..max
      BY <2>2, Zenon
    <3> QED
      BY <2>1, <2>5, <3>1, Zenon
  <2> QED
    BY <2>4, <2>5, Zenon
<1> QED
  BY <1>0, <1>1, <1>2, <1>3, <1>4

(* Every traded minute has a close price, final or not.                    *)
LEMMA PriceIsAnInt == \A m \in Traded : Price[m] \in Int /\ Unfinished[m] \in Int
BY PriceAssumption

LEMMA CloseIsAnInt == \A m \in Traded : ClosePrices[m] \in Int
BY PriceIsAnInt DEF ClosePrices

(* The prices of a report are those that its property speaks of.           *)
LEMMA CloseIsKnown == request.early \subseteq Traded => ClosePrices = PricesButEarly
BY DEF ClosePrices, PricesButEarly, IsUnfinished, KnownEarly

-----------------------------------------------------------------------------
(* The minutes and the limits have their types initially and for ever.     *)
LEMMA FetchType == Spec => []TypeOK
<1>1. Init => TypeOK
  BY WindowAssumption DEF Init, TypeOK
<1>2. ASSUME TypeOK, AddWindow PROVE TypeOK'
  <2>1. PICK w \in rest \X rest :
          windows' = Append(windows, w) /\ rest' = Beyond(w, rest)
    BY <1>2 DEF AddWindow
  <2>2. /\ missing' = missing /\ Len(windows) < MaxWindows
        /\ windows \in Seq(missing \X missing) /\ rest \subseteq missing
        /\ MaxWindows \in Nat
    BY <1>2, WindowAssumption DEF AddWindow, TypeOK
  <2>3. w \in missing \X missing
    BY <2>2
  <2>4. /\ windows' \in Seq(missing \X missing)
        /\ Len(windows') = Len(windows) + 1 /\ Len(windows) \in Nat
    BY <2>1, <2>2, <2>3
  <2>5. rest' \subseteq missing
    BY <2>1, <2>2 DEF Beyond
  <2> QED
    BY <1>2, <2>2, <2>4, <2>5 DEF TypeOK
<1>3. TypeOK /\ UNCHANGED windowVars => TypeOK'
  BY DEF TypeOK, windowVars
<1> QED
  BY <1>1, <1>2, <1>3, PTL DEF Spec, Next

(* One more call is one more window's length.                              *)
LEMMA OneMoreWindow ==
  ASSUME NEW k \in Nat
  PROVE  /\ k * MaxWindowMinutes \in Nat
         /\ (k + 1) * MaxWindowMinutes = k * MaxWindowMinutes + MaxWindowMinutes
BY WindowAssumption

(* Before the first call nothing is covered and everything is left.        *)
LEMMA FetchInitially == Init => FetchInv
BY MinutesAssumption, WindowAssumption
   DEF Init, FetchInv, WindowsCoverMissing, WindowsAreApart, Covered

(* Adding the next window keeps the invariant.                             *)
LEMMA AddWindowKeeps ==
  ASSUME TypeOK, FetchInv, AddWindow
  PROVE  FetchInv'
<1>1. PICK w \in rest \X rest :
        /\ IsNextWindow(w, rest)
        /\ windows' = Append(windows, w)
        /\ rest' = Beyond(w, rest)
  BY DEF AddWindow
<1> DEFINE n == Len(windows)
<1>2. /\ n \in Nat /\ Len(windows') = n + 1 /\ windows'[n + 1] = w
      /\ \A i \in 1..n : windows'[i] = windows[i] /\ windows[i] \in missing \X missing
  BY <1>1 DEF TypeOK
<1>3. /\ missing' = missing /\ missing \subseteq Nat /\ rest \subseteq missing
      /\ MaxWindowMinutes \in Nat \ {0}
      /\ w[1] \in rest /\ w[2] \in rest
  BY MinutesAssumption, WindowAssumption DEF AddWindow, TypeOK
<1> DEFINE a == w[1]
           b == w[2]
<1>a. /\ a \in Nat /\ b \in Nat /\ \A m \in rest : m \in Nat
      /\ rest' = {m \in rest : m > b}
      /\ \A m \in rest : a <= m /\ (m <= b \/ m > a + MaxWindowMinutes - 1)
  BY <1>1, <1>3 DEF IsNextWindow, Beyond
<1>4. \A m \in rest' : m \in rest /\ b < m /\ a + MaxWindowMinutes <= m
  <2> HIDE DEF a, b
  <2> QED BY <1>3, <1>a
<1>5. /\ \A m \in rest : m \notin rest' => a <= m /\ m <= b
      /\ \A m \in missing : a <= m /\ m <= b => m \notin rest'
  <2> HIDE DEF a, b
  <2> QED BY <1>3, <1>a
<1>6. WindowsCoverMissing'
  <2>1. ASSUME NEW m \in missing PROVE Covered(m)' <=> Covered(m) \/ (w[1] <= m /\ m <= w[2])
    BY <1>2 DEF Covered
  <2>2. rest' \subseteq rest
    BY <1>a
  <2> QED
    BY <2>1, <2>2, <1>3, <1>5 DEF FetchInv, WindowsCoverMissing
<1>7. WindowsAreApart'
  <2> SUFFICES ASSUME NEW i \in 1..(n + 1), NEW j \in 1..(n + 1), i < j
               PROVE  /\ windows'[i][2] < windows'[j][1]
                      /\ windows'[i][1] + MaxWindowMinutes <= windows'[j][1]
    BY <1>2 DEF WindowsAreApart
  <2>1. i \in 1..n /\ windows'[i] = windows[i]
    BY <1>2
  <2>2. CASE j = n + 1
    BY <2>1, <2>2, <1>2, <1>3 DEF FetchInv
  <2>3. CASE j # n + 1
    <3>1. j \in 1..n /\ windows'[j] = windows[j]
      BY <2>3, <1>2
    <3> QED
      BY <2>1, <3>1, <1>3 DEF FetchInv, WindowsAreApart
  <2> QED
    BY <2>2, <2>3
<1>8. (\A m \in rest, i \in 1..Len(windows) :
        windows[i][2] < m /\ windows[i][1] + MaxWindowMinutes <= m)'
  BY <1>2, <1>4 DEF FetchInv
<1>9. (\A m \in rest : \E f \in missing : f + Len(windows) * MaxWindowMinutes <= m)'
  <2>1. PICK f \in missing : f + n * MaxWindowMinutes <= a
    BY <1>3 DEF FetchInv
  <2>2. /\ n * MaxWindowMinutes \in Nat
        /\ (n + 1) * MaxWindowMinutes = n * MaxWindowMinutes + MaxWindowMinutes
    BY <1>2, OneMoreWindow
  <2> HIDE DEF n
  <2>3. \A m \in rest' : f + (n + 1) * MaxWindowMinutes <= m
    <3> SUFFICES ASSUME NEW m \in rest' PROVE f + (n + 1) * MaxWindowMinutes <= m
      OBVIOUS
    <3> DEFINE covered == n * MaxWindowMinutes
    <3>1. /\ covered \in Nat /\ a \in Nat /\ m \in Nat /\ f \in Nat /\ MaxWindowMinutes \in Nat
          /\ f + covered <= a /\ a + MaxWindowMinutes <= m
      BY <2>1, <2>2, <1>3, <1>a, <1>4
    <3>2. f + (covered + MaxWindowMinutes) <= m
      <4> HIDE DEF covered, a
      <4> QED BY <3>1
    <3> QED
      BY <3>2, <2>2
  <2> QED
    BY <2>3, <1>2, <1>3
<1> QED
  BY <1>6, <1>7, <1>8, <1>9 DEF FetchInv

(* The inductive invariant holds whatever the minutes and the limits.      *)
THEOREM FetchInvariant == Spec => []FetchInv
<1>1. FetchInv /\ UNCHANGED windowVars => FetchInv'
  BY DEF FetchInv, WindowsCoverMissing, WindowsAreApart, Covered, windowVars
<1>2. TypeOK /\ FetchInv /\ [Next]_windowVars => FetchInv'
  BY <1>1, AddWindowKeeps DEF Next
<1> QED
  BY <1>2, FetchInitially, FetchType, PTL DEF Spec

(* No missing minute is fetched for nothing, twice, or forgotten: each one *)
(* is in a call or counted as left for a later retry.                      *)
THEOREM MinutesAreFetchedOrLeft == Spec => []WindowsCoverMissing
<1>1. FetchInv => WindowsCoverMissing
  BY DEF FetchInv
<1> QED
  BY <1>1, FetchInvariant, PTL

(* The calls are in ascending order, disjoint, a whole window apart.       *)
THEOREM CallsAreApart == Spec => []WindowsAreApart
<1>1. FetchInv => WindowsAreApart
  BY DEF FetchInv
<1> QED
  BY <1>1, FetchInvariant, PTL

LEMMA BudgetFollows == TypeOK /\ FetchInv => BudgetSuffices
<1> SUFFICES ASSUME TypeOK, FetchInv, WithinBudget, Len(windows) = MaxWindows,
                    NEW m \in rest
             PROVE  FALSE
  BY DEF BudgetSuffices
<1>1. PICK f \in missing : f + MaxWindows * MaxWindowMinutes <= m
  BY DEF FetchInv
<1>2. m < f + MaxWindows * MaxWindowMinutes
  BY <1>1 DEF WithinBudget, TypeOK
<1>3. MaxWindows * MaxWindowMinutes \in Nat /\ f \in Nat /\ m \in Nat
  BY <1>1, MinutesAssumption, WindowAssumption, OneMoreWindow DEF TypeOK
<1> DEFINE budget == MaxWindows * MaxWindowMinutes
<1> HIDE DEF budget
<1> QED
  BY <1>1, <1>2, <1>3 DEF budget

(* Open times that span at most MaxWindows * MaxWindowMinutes are all      *)
(* fetched in one report: with 50 calls of 1000 minutes no run of at most  *)
(* 30 days is cut short by the budget.                                     *)
THEOREM ShortRangesFitTheBudget == Spec => []BudgetSuffices
BY BudgetFollows, FetchInvariant, FetchType, PTL

-----------------------------------------------------------------------------
USE MinutesAssumption, WindowAssumption, TradedAssumption, PageLimitAssumption,
    OddPagesAssumption

(* The windows of KlinePages are those of FetchWindows.                    *)
LEMMA PagesWindowsType == PagesSpec => []TypeOK
<1>1. PagesInit => Init
  BY DEF PagesInit
<1>2. [PagesNext]_pagesVars => [Next]_windowVars
  BY DEF PagesNext, Step, LayOut, FetchPage, PageUnavailable, PageUnusable,
         ConfigurationFails, FixtureCall, Next, pagesVars
<1>3. PagesSpec => Spec
  BY <1>1, <1>2, PTL DEF PagesSpec, Spec
<1> QED
  BY <1>3, FetchType, PTL

(* The window of the call under way is one of minutes.                     *)
LEMMA WindowType ==
  ASSUME TypeOK, PagesTypeOK
  PROVE  /\ \A k \in 1..Len(windows) : windows[k][1] \in Nat /\ windows[k][2] \in Nat
         /\ Len(windows) \in Nat
         /\ calls < Len(windows) =>
              calls + 1 \in 1..Len(windows) /\ Window[1] \in Nat /\ Window[2] \in Nat
<1>1. \A k \in 1..Len(windows) : windows[k][1] \in Nat /\ windows[k][2] \in Nat
  <2>1. \A k \in 1..Len(windows) : windows[k] \in missing \X missing
    BY DEF TypeOK
  <2>2. missing \subseteq Nat
    BY DEF TypeOK
  <2> QED
    BY <2>1, <2>2
<1>2. Len(windows) \in Nat /\ calls \in Nat
  BY DEF TypeOK, PagesTypeOK
<1>3. calls < Len(windows) => calls + 1 \in 1..Len(windows)
  BY <1>2
<1>4. calls < Len(windows) => Window[1] \in Nat /\ Window[2] \in Nat
  BY <1>1, <1>3 DEF Window
<1> QED
  BY <1>1, <1>2, <1>3, <1>4

LEMMA PagesInitially == PagesInit => PagesInv
<1> SUFFICES ASSUME PagesInit PROVE PagesInv
  OBVIOUS
<1>1. windows = <<>> /\ Len(windows) = 0
  BY DEF PagesInit, Init
<1> QED
  BY <1>1 DEF PagesInit, PagesInv, PagesTypeOK, PagesAreComplete, Failures, NoPageYet

(* Laying out one more window: no call has been made yet.                  *)
LEMMA LayOutKeeps ==
  ASSUME TypeOK, TypeOK', PagesInv, LayOut
  PROVE  PagesInv'
<1>1. Len(windows) < MaxWindows /\ rest # {}
  BY DEF LayOut, AddWindow
<1>a. ~LaidOut
  <2>1. Len(windows) \in Nat
    BY DEF TypeOK
  <2> QED
    BY <1>1, <2>1 DEF LaidOut
<1>2. calls = 0 /\ NoPageYet
  BY <1>a DEF PagesInv
<1>3. fetched = {} \/ exchange # "honest"
  BY <1>2 DEF PagesInv, PagesAreComplete
<1>4. /\ calls' = 0 /\ page' = {} /\ current' = 0 /\ exchange' = exchange
      /\ fetched' = fetched /\ failure' = failure
  BY <1>2 DEF LayOut, callVars, NoPageYet
<1>5. PagesTypeOK'
  BY <1>4 DEF PagesInv, PagesTypeOK, TypeOK
<1>6. PagesAreComplete'
  BY <1>3, <1>4 DEF PagesAreComplete
<1>7. \A m \in Traded : ~(m < 0)
  OBVIOUS
<1> QED
  BY <1>4, <1>5, <1>6, <1>7 DEF PagesInv, NoPageYet

(* A page of an honest exchange that ends the call lists the rest of the   *)
(* window; one that does not lists it up to its last candle.               *)
LEMMA EndingPage ==
  ASSUME NEW p, NEW from \in Nat, IsListing(p, from, Window[2]),
         p \subseteq Listed(from, Window[2]), Window[2] \in Nat, Ends(p)
  PROVE  p = Listed(from, Window[2])
<1>1. CASE Cardinality(p) < PageLimit
  BY <1>1 DEF IsListing
<1>2. CASE \E m \in p : IsLast(m, p) /\ m + 1 > Window[2]
  <2>1. PICK m \in p : m + 1 > Window[2]
    BY <1>2
  <2>2. \A k \in Listed(from, Window[2]) : k <= m
    BY <2>1 DEF Listed
  <2> QED
    BY <2>1, <2>2 DEF IsListing
<1> QED
  BY <1>1, <1>2 DEF Ends

(* A call that has returned adds its whole window to what was fetched.     *)
LEMMA WindowFetched ==
  ASSUME TypeOK, PagesInv, calls < Len(windows),
         calls' = calls + 1, windows' = windows, exchange' = exchange,
         exchange = "honest" =>
           fetched' = fetched \cup {m \in Traded : InWindow(m, calls + 1)}
  PROVE  PagesAreComplete'
<1>1. calls \in Nat /\ Len(windows) \in Nat
  BY DEF PagesInv, PagesTypeOK, TypeOK
<1>2. \A k : k \in 1..(calls + 1) <=> k \in 1..calls \/ k = calls + 1
  BY <1>1
<1>3. \A m, k : InWindow(m, k)' <=> InWindow(m, k)
  BY DEF InWindow
<1> QED
  BY <1>2, <1>3 DEF PagesInv, PagesAreComplete, InWindow
(* The call goes on: the pages so far hold the window up to `current`.     *)
LEMMA ReturnKeeps ==
  ASSUME TypeOK, PagesInv, InCall, NEW p \in Pages, Return(p),
         UNCHANGED <<windowVars, exchange>>
  PROVE  PagesInv'
<1>1. /\ windows' = windows /\ rest' = rest /\ exchange' = exchange
      /\ calls' = calls + 1 /\ page' = {} /\ current' = 0 /\ failure' = failure
      /\ fetched' = fetched \cup page \cup Inside(p) /\ Ends(p)
  BY DEF Return, windowVars
<1>2. /\ LaidOut /\ calls < Len(windows) /\ calls \in Nat /\ current \in Nat
      /\ Window[1] \in Nat /\ Window[2] \in Nat
      /\ calls + 1 \in 0..Len(windows)
  BY WindowType DEF InCall, PagesInv, PagesTypeOK
<1>3. LaidOut'
  BY <1>1, <1>2 DEF LaidOut
<1>4. PagesTypeOK'
  <2>1. p \subseteq Minutes
    BY DEF Pages, Listed
  <2> QED
    BY <1>1, <1>2, <2>1 DEF PagesInv, PagesTypeOK, Inside
<1>5. ASSUME exchange = "honest"
      PROVE  fetched' = fetched \cup {m \in Traded : InWindow(m, calls + 1)}
  <2>1. FromMs \in Nat /\ FromMs >= Window[1] /\ (current = 0 => FromMs = Window[1])
        /\ (current # 0 => FromMs = current)
    BY <1>2 DEF PagesInv, FromMs
  <2>2. p \subseteq Listed(FromMs, Window[2]) /\ IsListing(p, FromMs, Window[2])
    BY <1>5 DEF Pages
  <2>3. p = Listed(FromMs, Window[2])
    BY <1>1, <1>2, <2>1, <2>2, EndingPage
  <2>4. page = {m \in Traded : InWindow(m, calls + 1) /\ m < current}
    BY <1>2, <1>5 DEF PagesInv
  <2>5. \A m : m \in page \cup Inside(p) <=> m \in Traded /\ InWindow(m, calls + 1)
    <3>1. \A m \in Traded : m \in Nat
      OBVIOUS
    <3>2. \A m : m \in Inside(p) <=> m \in Traded /\ FromMs <= m /\ m <= Window[2] /\ Window[1] <= m
      BY <2>3 DEF Inside, Listed
    <3>3. \A m : InWindow(m, calls + 1) <=> Window[1] <= m /\ m <= Window[2]
      BY DEF InWindow, Window
    <3> SUFFICES ASSUME NEW m \in Traded
                 PROVE  m \in page \cup Inside(p) <=> InWindow(m, calls + 1)
      BY <2>4, <3>2
    <3>4. CASE current = 0
      BY <1>2, <2>1, <2>4, <3>1, <3>2, <3>3, <3>4
    <3>5. CASE current # 0
      <4>1. Window[1] <= current
        BY <1>2, <3>5 DEF PagesInv
      <4> QED
        BY <1>2, <2>1, <2>4, <3>1, <3>2, <3>3, <3>5, <4>1
    <3> QED
      BY <3>4, <3>5
  <2> QED
    BY <1>1, <2>5
<1>6. PagesAreComplete'
  BY <1>1, <1>2, <1>5, WindowFetched
<1>7. \A m \in Traded : ~(m < 0)
  OBVIOUS
<1> QED
  BY <1>1, <1>3, <1>4, <1>6, <1>7 DEF PagesInv, NoPageYet

LEMMA AdvanceKeeps ==
  ASSUME TypeOK, PagesInv, InCall, NEW p \in Pages, Advance(p),
         UNCHANGED <<windowVars, exchange>>
  PROVE  PagesInv'
<1>1. PICK m \in p : IsLast(m, p) /\ m + 1 > FromMs /\ current' = m + 1
  BY DEF Advance, NextStart
<1>2. /\ windows' = windows /\ rest' = rest /\ exchange' = exchange
      /\ calls' = calls /\ failure' = failure /\ fetched' = fetched
      /\ page' = page \cup Inside(p) /\ ~Ends(p)
  BY DEF Advance, windowVars
<1>3. /\ LaidOut /\ calls < Len(windows) /\ calls \in Nat /\ current \in Nat
      /\ Len(windows) \in Nat
      /\ Window[1] \in Nat /\ Window[2] \in Nat /\ Window' = Window
  BY <1>2, WindowType DEF InCall, PagesInv, PagesTypeOK, Window
<1>4. p \subseteq Minutes /\ m \in Nat
  BY <1>1 DEF Pages, Listed
<1>5. FromMs \in Nat /\ FromMs >= Window[1] /\ (current = 0 => FromMs = Window[1])
      /\ (current # 0 => FromMs = current)
  BY <1>3 DEF PagesInv, FromMs
<1>6. m + 1 <= Window[2] /\ Window[1] < m + 1
  BY <1>1, <1>2, <1>3, <1>4, <1>5 DEF Ends
<1>7. LaidOut'
  BY <1>2, <1>3 DEF LaidOut
<1>8. PagesTypeOK'
  <2>1. current' \in Nat
    BY <1>1, <1>4
  <2>2. Inside(p) \subseteq Minutes
    BY <1>4 DEF Inside
  <2> QED
    BY <1>2, <2>1, <2>2 DEF PagesInv, PagesTypeOK
<1>9. PagesAreComplete'
  BY <1>2 DEF PagesInv, PagesAreComplete, InWindow
<1>10. ASSUME exchange = "honest"
       PROVE  page' = {k \in Traded : InWindow(k, calls + 1) /\ k < m + 1}
  <2>1. p \subseteq Listed(FromMs, Window[2]) /\ IsListing(p, FromMs, Window[2])
    BY <1>10 DEF Pages
  <2>2. \A k : k \in p <=> k \in Traded /\ FromMs <= k /\ k <= m
    <3>1. \A k \in p : k \in Traded /\ FromMs <= k /\ k <= m
      BY <1>1, <2>1 DEF Listed, IsLast
    <3>2. ASSUME NEW k \in Traded, FromMs <= k, k <= m PROVE k \in p
      <4> DEFINE end == Window[2]
      <4>a. k \in Nat
        OBVIOUS
      <4>b. end \in Nat /\ m \in Nat /\ m + 1 <= end
        BY <1>3, <1>4, <1>6
      <4> HIDE DEF end
      <4>c. k <= end
        BY <3>2, <4>a, <4>b
      <4>1. k \in Nat /\ k <= Window[2]
        BY <4>a, <4>c DEF end
      <4>2. k \in Listed(FromMs, Window[2])
        BY <3>2, <4>1 DEF Listed
      <4> QED
        BY <1>1, <2>1, <3>2, <4>2 DEF IsListing
    <3> QED
      BY <3>1, <3>2
  <2>3. page = {k \in Traded : InWindow(k, calls + 1) /\ k < current}
    BY <1>3, <1>10 DEF PagesInv
  <2>4. \A k : InWindow(k, calls + 1) <=> Window[1] <= k /\ k <= Window[2]
    BY DEF InWindow, Window
  <2>5. \A k \in Traded : k \in Nat
    OBVIOUS
  <2>6. \A k : k \in page \cup Inside(p) <=>
                k \in Traded /\ InWindow(k, calls + 1) /\ k < m + 1
    <3>1. \A k : k \in Inside(p) <=> k \in Traded /\ FromMs <= k /\ k <= m
                                     /\ Window[1] <= k /\ k <= Window[2]
      BY <2>2 DEF Inside
    <3> SUFFICES ASSUME NEW k \in Traded
                 PROVE  k \in page \cup Inside(p) <=> InWindow(k, calls + 1) /\ k < m + 1
      BY <2>3, <3>1
    <3>2. k < m + 1 <=> k <= m
      BY <1>4, <2>5
    <3>3. CASE current = 0
      BY <1>3, <1>4, <1>5, <1>6, <2>3, <2>4, <2>5, <3>1, <3>2, <3>3
    <3>4. CASE current # 0
      <4>1. current <= m
        BY <1>1, <1>3, <1>4, <1>5, <3>4
      <4>2. Window[1] <= current /\ m <= Window[2]
        BY <1>3, <1>4, <1>5, <1>6, <3>4
      <4> QED
        BY <1>3, <1>4, <1>5, <2>3, <2>4, <2>5, <3>1, <3>2, <3>4, <4>1, <4>2
    <3> QED
      BY <3>3, <3>4
  <2> QED
    BY <1>2, <2>6
<1>11. \A k : InWindow(k, calls + 1)' <=> InWindow(k, calls + 1)
  BY <1>2 DEF InWindow
<1>12. current' # 0
  BY <1>1, <1>4
<1> QED
  BY <1>1, <1>2, <1>3, <1>6, <1>7, <1>8, <1>9, <1>10, <1>11, <1>12 DEF PagesInv

(* A failure drops the pages of the call under way and keeps the rest.     *)
LEMMA FailureKeeps ==
  ASSUME TypeOK, PagesInv, InCall, NEW error \in Failures, Fail(error),
         UNCHANGED <<windowVars, exchange>>
  PROVE  PagesInv'
<1>1. /\ windows' = windows /\ rest' = rest /\ exchange' = exchange
      /\ calls' = calls /\ fetched' = fetched /\ failure' = error
      /\ page' = {} /\ current' = 0
  BY DEF Fail, windowVars
<1>2. PagesTypeOK' /\ PagesAreComplete'
  BY <1>1 DEF PagesInv, PagesTypeOK, PagesAreComplete, InWindow
<1>3. LaidOut' <=> LaidOut
  BY <1>1 DEF LaidOut
<1>4. \A m \in Traded : ~(m < 0)
  OBVIOUS
<1> QED
  BY <1>1, <1>2, <1>3, <1>4 DEF PagesInv, NoPageYet

LEMMA FixtureCallKeeps ==
  ASSUME TypeOK, PagesInv, FixtureCall
  PROVE  PagesInv'
<1>1. /\ windows' = windows /\ rest' = rest /\ exchange' = exchange
      /\ calls' = calls + 1 /\ page' = page /\ current' = current /\ failure' = failure
      /\ fetched' = fetched \cup Inside(Traded) /\ current = 0 /\ page = {}
  BY DEF FixtureCall, windowVars, PagesInv, NoPageYet
<1>2. LaidOut /\ calls < Len(windows) /\ calls \in Nat /\ calls + 1 \in 0..Len(windows)
  BY WindowType DEF FixtureCall, InCall, PagesInv, PagesTypeOK
<1>3. LaidOut'
  BY <1>1, <1>2 DEF LaidOut
<1>4. PagesTypeOK'
  BY <1>1, <1>2 DEF PagesInv, PagesTypeOK, Inside
<1>5. Inside(Traded) = {m \in Traded : InWindow(m, calls + 1)}
  BY DEF Inside, InWindow, Window
<1>6. PagesAreComplete'
  BY <1>1, <1>2, <1>5, WindowFetched
<1>7. \A m \in Traded : ~(m < 0)
  OBVIOUS
<1> QED
  BY <1>1, <1>3, <1>4, <1>6, <1>7 DEF PagesInv, NoPageYet

(* The inductive invariant holds whatever the exchange trades.             *)
THEOREM PagesInvariant == PagesSpec => []PagesInv
<1>1. ASSUME TypeOK, TypeOK', PagesInv, PagesNext PROVE PagesInv'
  <2>1. CASE LayOut
    BY <1>1, <2>1, LayOutKeeps
  <2>2. CASE FetchPage
    <3>1. PICK p \in Pages : Return(p) \/ Advance(p) \/ DoesNotAdvance(p)
      BY <2>2 DEF FetchPage
    <3>2. InCall /\ UNCHANGED <<windowVars, exchange>>
      BY <2>2 DEF FetchPage
    <3>3. CASE DoesNotAdvance(p)
      BY <1>1, <3>2, <3>3, FailureKeeps DEF DoesNotAdvance, Failures
    <3> QED
      BY <1>1, <3>1, <3>2, <3>3, ReturnKeeps, AdvanceKeeps
  <2>3. CASE PageUnavailable \/ PageUnusable
    BY <1>1, <2>3, FailureKeeps DEF PageUnavailable, PageUnusable, Failures
  <2>4. CASE ConfigurationFails
    BY <1>1, <2>4, FailureKeeps DEF ConfigurationFails, Failures
  <2>5. CASE FixtureCall
    BY <1>1, <2>5, FixtureCallKeeps
  <2> QED
    BY <1>1, <2>1, <2>2, <2>3, <2>4, <2>5 DEF PagesNext, Step
<1>2. ASSUME PagesInv, UNCHANGED pagesVars PROVE PagesInv'
  <2>1. /\ windows' = windows /\ rest' = rest /\ exchange' = exchange
        /\ calls' = calls /\ page' = page /\ current' = current /\ failure' = failure
        /\ fetched' = fetched
    BY <1>2 DEF pagesVars, windowVars, callVars
  <2> QED
    BY <1>2, <2>1 DEF PagesInv, PagesTypeOK, PagesAreComplete, InWindow, LaidOut, NoPageYet,
                      Window
<1>3. TypeOK /\ TypeOK' /\ PagesInv /\ [PagesNext]_pagesVars => PagesInv'
  BY <1>1, <1>2
<1> QED
  BY <1>3, PagesInitially, PagesWindowsType, PTL DEF PagesSpec

(* Against an exchange that keeps to its interface, what was fetched is    *)
(* what it has in the windows of the calls that returned.                  *)
THEOREM NoCandleIsLost == PagesSpec => []PagesAreComplete
<1>1. PagesInv => PagesAreComplete
  BY DEF PagesInv
<1> QED
  BY <1>1, PagesInvariant, PTL

-----------------------------------------------------------------------------
(* The calls of a report are those of KlinePages.                          *)
LEMMA ReportMakesPages ==
  /\ ReportInit => PagesInit
  /\ [Proceed]_vars => [PagesNext]_pagesVars
<1>1. ReportInit => PagesInit
  BY DEF ReportInit
<1>2. ASSUME Proceed PROVE PagesNext \/ UNCHANGED pagesVars
  <2>1. CASE Fetch
    BY <2>1 DEF Fetch, PagesNext, Step
  <2>2. CASE Refuse \/ UseFixture \/ ReadCache \/ Enrich \/ CountRecord \/ Answer
    BY <2>2 DEF Refuse, UseFixture, ReadCache, Enrich, CountRecord, Answer
  <2> QED
    BY <1>2, <2>1, <2>2 DEF Proceed
<1>3. UNCHANGED vars => UNCHANGED pagesVars
  BY DEF vars
<1> QED
  BY <1>1, <1>2, <1>3

LEMMA ReportFetches == ReportSpec => [](TypeOK /\ FetchInv /\ PagesInv)
<1>1. PagesSpec => Spec
  <2>1. PagesInit => Init
    BY DEF PagesInit
  <2>2. [PagesNext]_pagesVars => [Next]_windowVars
    BY DEF PagesNext, Step, LayOut, FetchPage, PageUnavailable, PageUnusable,
           ConfigurationFails, FixtureCall, Next, pagesVars
  <2> QED
    BY <2>1, <2>2, PTL DEF PagesSpec, Spec
<1>2. ReportSpec => PagesSpec
  BY ReportMakesPages, PTL DEF ReportSpec, PagesSpec
<1> QED
  BY <1>1, <1>2, FetchType, FetchInvariant, PagesInvariant, PTL

(* What a report asks for, and what of it was cached.                      *)
RequestInv ==
  /\ request.records \subseteq Records
  /\ request.cached \subseteq Traded /\ request.early \subseteq Traded
  /\ \A r \in request.records :
       /\ FloorToMinute(r.timestamp) \in missing \cup request.cached
       /\ HorizonTarget(r.timestamp, HorizonMinutes(request.horizon))
            \in missing \cup request.cached

(* The fetched candles are the exchange's, even those it was not asked for.*)
CandlesAreTraded == fetched \subseteq Traded /\ page \subseteq Traded

(* A record of the report; it has a return exactly when it has a direction.*)
InputRecord ==
  [recordId : Nat, timestamp : Nat, score : Int, bias : Biases,
   laterReturn : (Int \X Int) \cup {NoReturn}, direction : {"UP", "DOWN", "FLAT", NoDirection},
   relevance : Relevance]

Paired(r) == r.laterReturn = NoReturn <=> r.direction = NoDirection

InputsInv ==
  /\ inputs \in Seq(InputRecord)
  /\ \A i \in 1..Len(inputs) : Paired(inputs[i])
  /\ \A i, j \in 1..Len(inputs) : i < j => Earlier(inputs[i], inputs[j])

(* The loop has counted `at` records and drawn as many points.             *)
Outcomes == {"HIT", "MISS", "EXCLUDED"}

LoopInv ==
  /\ at \in 0..Len(inputs)
  /\ points \in Seq(Nat \X Outcomes) /\ Len(points) = at
  /\ pairs \in Seq(Int \X (Int \X Int))
  /\ counts \in [hit : Nat, miss : Nat, missing : Nat, flat : Nat, noise : Nat]
  /\ phase \in {"asked", "fetch"} => inputs = <<>>

ReportInv ==
  /\ RequestInv /\ CandlesAreTraded
  /\ InputsInv /\ LoopInv
  /\ CountersAddUp /\ ReportsAreOfPrices
  /\ phase = "fetch" => request.provider = "completed"

-----------------------------------------------------------------------------
(* A movement over candles that hold every traded minute it needs is the   *)
(* movement over all of them.                                              *)
LEMMA MovementType ==
  ASSUME NEW t, NEW h, NEW candles \in SUBSET Traded,
         NEW price, \A k \in Traded : price[k] \in Int
  PROVE  LET m == Movement(t, h, candles, price) IN
         /\ m.laterReturn \in (Int \X Int) \cup {NoReturn}
         /\ m.direction \in {"UP", "DOWN", "FLAT", NoDirection}
         /\ m.laterReturn = NoReturn <=> m.direction = NoDirection
<1> DEFINE event == FloorToMinute(t)
           target == HorizonTarget(t, h)
           m == Movement(t, h, candles, price)
<1>1. CASE event \notin candles \/ target \notin candles
  BY <1>1 DEF Movement, NoReturn, NoDirection
<1>2. CASE event \in candles /\ target \in candles
  <2>1. price[event] \in Int /\ price[target] \in Int
    BY <1>2
  <2>2. /\ m.laterReturn = <<price[target] - price[event], price[event]>>
        /\ m.direction = ClassifyRealizedDirection(price[event], price[target])
    BY <1>2 DEF Movement
  <2>3. m.laterReturn \in Int \X Int /\ m.laterReturn # NoReturn
    BY <2>1, <2>2 DEF NoReturn
  <2>4. m.direction \in {"UP", "DOWN", "FLAT"} /\ m.direction # NoDirection
    BY <2>2 DEF ClassifyRealizedDirection, NoDirection
  <2> QED
    BY <2>3, <2>4
<1> QED
  BY <1>1, <1>2

LEMMA MovementOverTraded ==
  ASSUME NEW t, NEW h, NEW candles \in SUBSET Traded, NEW price
  PROVE  LET m == Movement(t, h, candles, price)
             full == Movement(t, h, Traded, price)
         IN  \/ m.laterReturn = full.laterReturn /\ m.direction = full.direction
             \/ /\ m.laterReturn = NoReturn /\ m.direction = NoDirection
                /\ \E k \in {FloorToMinute(t), HorizonTarget(t, h)} : k \in Traded \ candles
<1> DEFINE event == FloorToMinute(t)
           target == HorizonTarget(t, h)
<1>1. CASE event \in candles /\ target \in candles
  BY <1>1 DEF Movement
<1>2. CASE event \notin Traded
  BY <1>2 DEF Movement
<1>3. CASE event \in candles /\ target \notin Traded
  BY <1>3 DEF Movement
<1>4. CASE event \in Traded \ candles
  BY <1>4 DEF Movement
<1>5. CASE event \in candles /\ target \in Traded \ candles
  BY <1>5 DEF Movement
<1> QED
  BY <1>1, <1>2, <1>3, <1>4, <1>5

LEMMA ReportInitially == ReportInit => ReportInv
<1> SUFFICES ASSUME ReportInit PROVE ReportInv
  OBVIOUS
<1>1. /\ phase = "asked" /\ inputs = <<>> /\ at = 0 /\ counts = NoCounts /\ pairs = <<>>
      /\ points = <<>> /\ fetched = {} /\ page = {}
  BY DEF ReportInit, PagesInit
<1>2. RequestInv
  <2>1. PICK h \in Horizons, env \in Environments, stored \in Stored, cacheFails \in BOOLEAN :
          LET timestamps == Timestamps(stored.records)
              required == RequiredOpenTimes(timestamps, HorizonMinutes(h))
          IN \E cached \in SUBSET (required \cap Traded),
                running \in SUBSET (required \cap LastTraded) :
               \E early \in EarlyOf(cached, running) :
                 /\ request = Request(h, env, stored, cached, early, running, cacheFails)
                 /\ missing = required \ cached
    BY DEF ReportInit
  <2> DEFINE required == RequiredOpenTimes(Timestamps(stored.records), HorizonMinutes(h))
  <2>2. PICK cached \in SUBSET (required \cap Traded),
             running \in SUBSET (required \cap LastTraded) :
          \E early \in EarlyOf(cached, running) :
            /\ request = Request(h, env, stored, cached, early, running, cacheFails)
            /\ missing = required \ cached
    BY <2>1
  <2> PICK early \in EarlyOf(cached, running) :
        request = Request(h, env, stored, cached, early, running, cacheFails)
    BY <2>2
  <2>3. /\ request.horizon = h /\ request.records = stored.records
        /\ request.cached = cached /\ request.early = early /\ early \subseteq cached
    BY DEF Request, EarlyOf
  <2>4. stored.records \subseteq Records
    BY DEF Stored
  <2>5. ASSUME NEW r \in stored.records
        PROVE  /\ FloorToMinute(r.timestamp) \in required
               /\ HorizonTarget(r.timestamp, HorizonMinutes(h)) \in required
    BY DEF RequiredOpenTimes, Timestamps
  <2> HIDE DEF required
  <2> QED
    BY <2>2, <2>3, <2>4, <2>5 DEF RequestInv
<1>3. PointsWith("HIT") = {} /\ PointsWith("EXCLUDED") = {}
  BY <1>1 DEF PointsWith
<1>4. CountersAddUp
  <2>1. Cardinality(PointsWith("HIT")) = 0 /\ Cardinality(PointsWith("EXCLUDED")) = 0
    BY <1>3, FS_EmptySet
  <2>2. /\ counts.hit = 0 /\ counts.miss = 0 /\ counts.missing = 0 /\ counts.flat = 0
        /\ counts.noise = 0 /\ Len(pairs) = 0 /\ at = 0
    BY <1>1 DEF NoCounts
  <2> QED
    BY <2>1, <2>2 DEF CountersAddUp
<1>5. InputsInv /\ LoopInv
  BY <1>1 DEF InputsInv, LoopInv, NoCounts
<1> QED
  BY <1>1, <1>2, <1>4, <1>5 DEF ReportInv, CandlesAreTraded, ReportsAreOfPrices

(* Steps before the loop, and its end: what was counted stays.             *)
LEMMA CountsStay ==
  ASSUME CountersAddUp, UNCHANGED <<counts, pairs, points, at>>
  PROVE  CountersAddUp'
BY DEF CountersAddUp, PointsWith

LEMMA FetchedIsTraded ==
  ASSUME CandlesAreTraded, PagesNext
  PROVE  CandlesAreTraded'
<1>1. CASE LayOut
  BY <1>1 DEF LayOut, callVars, CandlesAreTraded
<1>2. CASE FetchPage
  <2>1. PICK p \in Pages : Return(p) \/ Advance(p) \/ DoesNotAdvance(p)
    BY <1>2 DEF FetchPage
  <2>2. p \subseteq Traded
    BY OddPagesAssumption DEF Pages, Listed
  <2> QED
    BY <2>1, <2>2 DEF Return, Advance, DoesNotAdvance, Fail, Inside, CandlesAreTraded
<1>3. CASE PageUnavailable \/ PageUnusable \/ ConfigurationFails
  BY <1>3 DEF PageUnavailable, PageUnusable, ConfigurationFails, Fail, CandlesAreTraded
<1>4. CASE FixtureCall
  BY <1>4 DEF FixtureCall, Inside, CandlesAreTraded
<1> QED
  BY <1>1, <1>2, <1>3, <1>4 DEF PagesNext, Step

LEMMA RefuseKeeps ==
  ASSUME ReportInv, Refuse
  PROVE  ReportInv'
<1>1. /\ phase = "asked" /\ phase' = "answered"
      /\ UNCHANGED <<inputs, at, counts, pairs, points, request, missing, fetched, page>>
  BY DEF Refuse, Nothing, pagesVars, windowVars, callVars
<1>2. inputs = <<>>
  BY <1>1 DEF ReportInv, LoopInv
<1>3. RequestInv' /\ CandlesAreTraded' /\ InputsInv' /\ LoopInv'
  BY <1>1 DEF ReportInv, RequestInv, CandlesAreTraded, InputsInv, LoopInv
<1>4. CountersAddUp'
  BY <1>1, CountsStay DEF ReportInv
<1>5. ReportsAreOfPrices'
  BY <1>1, <1>2 DEF ReportsAreOfPrices
<1> QED
  BY <1>1, <1>3, <1>4, <1>5 DEF ReportInv

LEMMA FixtureRecord ==
  ASSUME NEW k \in 1..5, NEW score \in Int, NEW bias \in Biases, NEW change \in Int \X Int,
         NEW direction \in {"UP", "DOWN", "FLAT"}, NEW relevance \in Relevance
  PROVE  LET r == Fixture(k, score, bias, change, direction, relevance) IN
         r \in InputRecord /\ Paired(r) /\ r.timestamp = k * TicksPerMinute /\ r.recordId = k
<1>1. k * TicksPerMinute \in Nat
  BY TicksAssumption
<1>2. change # NoReturn /\ direction # NoDirection
  BY DEF NoReturn, NoDirection
<1> QED
  BY <1>1, <1>2 DEF Fixture, InputRecord, Paired

LEMMA UnknownFixtureRecord ==
  ASSUME NEW k \in 1..5, NEW score \in Int, NEW bias \in Biases, NEW relevance \in Relevance
  PROVE  LET r == Fixture(k, score, bias, NoReturn, NoDirection, relevance) IN
         r \in InputRecord /\ Paired(r) /\ r.timestamp = k * TicksPerMinute /\ r.recordId = k
<1>1. k * TicksPerMinute \in Nat
  BY TicksAssumption
<1> QED
  BY <1>1 DEF Fixture, InputRecord, Paired

(* The fixture's records are in order.                                     *)
LEMMA FixtureIsInOrder ==
  /\ FixtureInputs \in Seq(InputRecord) /\ Len(FixtureInputs) = 5
  /\ \A i \in 1..5 : Paired(FixtureInputs[i])
  /\ \A i, j \in 1..5 : i < j => Earlier(FixtureInputs[i], FixtureInputs[j])
<1>1. Len(FixtureInputs) = 5
  BY DEF FixtureInputs
<1>2. ASSUME NEW i \in 1..5
      PROVE  /\ FixtureInputs[i] \in InputRecord /\ Paired(FixtureInputs[i])
             /\ FixtureInputs[i].timestamp = i * TicksPerMinute
             /\ FixtureInputs[i].recordId = i
  <2>1. i = 1 \/ i = 2 \/ i = 3 \/ i = 4 \/ i = 5
    OBVIOUS
  <2> DEFINE IsRecord(r, k) ==
        r \in InputRecord /\ Paired(r) /\ r.timestamp = k * TicksPerMinute /\ r.recordId = k
  <2>2. IsRecord(FixtureInputs[1], 1)
    <3>1. FixtureInputs[1] = Fixture(1, 8, "LONG", <<4, 100>>, "UP", "RELEVANT")
      BY DEF FixtureInputs
    <3>2. 1 \in 1..5 /\ 8 \in Int /\ "LONG" \in Biases /\ "RELEVANT" \in Relevance
      BY DEF Biases, Relevance
    <3> QED
      BY <3>1, <3>2, FixtureRecord
  <2>3. IsRecord(FixtureInputs[2], 2)
    <3>1. FixtureInputs[2] = Fixture(2, -6, "SHORT", <<-3, 100>>, "DOWN", "RELEVANT")
      BY DEF FixtureInputs
    <3>2. 2 \in 1..5 /\ -6 \in Int /\ "SHORT" \in Biases /\ "RELEVANT" \in Relevance
      BY DEF Biases, Relevance
    <3> QED
      BY <3>1, <3>2, FixtureRecord
  <2>4. IsRecord(FixtureInputs[3], 3)
    <3>1. FixtureInputs[3] = Fixture(3, 0, "FLAT", <<0, 100>>, "FLAT", "RELEVANT")
      BY DEF FixtureInputs
    <3>2. 3 \in 1..5 /\ 0 \in Int /\ "FLAT" \in Biases /\ "RELEVANT" \in Relevance
      BY DEF Biases, Relevance
    <3> QED
      BY <3>1, <3>2, FixtureRecord
  <2>5. IsRecord(FixtureInputs[4], 4)
    <3>1. FixtureInputs[4] = Fixture(4, 5, "LONG", NoReturn, NoDirection, "RELEVANT")
      BY DEF FixtureInputs
    <3>2. 4 \in 1..5 /\ 5 \in Int /\ "LONG" \in Biases /\ "RELEVANT" \in Relevance
      BY DEF Biases, Relevance
    <3> QED
      BY <3>1, <3>2, UnknownFixtureRecord
  <2>6. IsRecord(FixtureInputs[5], 5)
    <3>1. FixtureInputs[5] = Fixture(5, -9, "SHORT", <<-2, 100>>, "DOWN", "NOISE")
      BY DEF FixtureInputs
    <3>2. 5 \in 1..5 /\ -9 \in Int /\ "SHORT" \in Biases /\ "NOISE" \in Relevance
      BY DEF Biases, Relevance
    <3> QED
      BY <3>1, <3>2, FixtureRecord
  <2> QED
    BY <2>1, <2>2, <2>3, <2>4, <2>5, <2>6
<1>3. FixtureInputs \in Seq(InputRecord)
  BY <1>1, <1>2 DEF FixtureInputs
<1>4. ASSUME NEW i \in 1..5, NEW j \in 1..5, i < j
      PROVE  Earlier(FixtureInputs[i], FixtureInputs[j])
  <2>1. i * TicksPerMinute < j * TicksPerMinute
    BY <1>4, TicksAssumption
  <2> QED
    BY <1>2, <2>1 DEF Earlier
<1> QED
  BY <1>1, <1>2, <1>3, <1>4

LEMMA UseFixtureKeeps ==
  ASSUME ReportInv, UseFixture
  PROVE  ReportInv'
<1>1. /\ phase = "asked" /\ phase' = "count" /\ request.provider = "fixture"
      /\ inputs' = FixtureInputs
      /\ UNCHANGED <<at, counts, pairs, points, request, missing, fetched, page>>
  BY DEF UseFixture, pagesVars, windowVars, callVars
<1>2. at = 0
  BY <1>1 DEF ReportInv, LoopInv
<1>3. RequestInv' /\ CandlesAreTraded'
  BY <1>1 DEF ReportInv, RequestInv, CandlesAreTraded
<1>4. InputsInv'
  BY <1>1, FixtureIsInOrder DEF InputsInv
<1>5. LoopInv'
  BY <1>1, <1>2, FixtureIsInOrder DEF ReportInv, LoopInv
<1>6. CountersAddUp'
  BY <1>1, CountsStay DEF ReportInv
<1>7. ReportsAreOfPrices'
  BY <1>1 DEF ReportsAreOfPrices
<1> QED
  BY <1>1, <1>3, <1>4, <1>5, <1>6, <1>7 DEF ReportInv

LEMMA ReadCacheKeeps ==
  ASSUME ReportInv, ReadCache
  PROVE  ReportInv'
<1>1. /\ phase = "asked" /\ phase' = "fetch" /\ request.provider = "completed"
      /\ UNCHANGED <<inputs, at, counts, pairs, points, request, missing, fetched, page>>
  BY DEF ReadCache, Nothing, pagesVars, windowVars, callVars
<1>3. RequestInv' /\ CandlesAreTraded' /\ InputsInv' /\ LoopInv'
  BY <1>1 DEF ReportInv, RequestInv, CandlesAreTraded, InputsInv, LoopInv
<1>4. CountersAddUp'
  BY <1>1, CountsStay DEF ReportInv
<1>5. ReportsAreOfPrices'
  BY <1>1 DEF ReportsAreOfPrices
<1> QED
  BY <1>1, <1>3, <1>4, <1>5 DEF ReportInv

LEMMA FetchKeeps ==
  ASSUME ReportInv, Fetch
  PROVE  ReportInv'
<1>1. /\ phase = "fetch" /\ phase' = "fetch"
      /\ UNCHANGED <<inputs, at, counts, pairs, points, request>>
  BY DEF Fetch, requestVars
<1>2. missing' = missing
  BY DEF Fetch, LayOut, AddWindow, FetchPage, PageUnavailable, PageUnusable,
     ConfigurationFails, FixtureCall, windowVars
<1>3. CandlesAreTraded'
  BY FetchedIsTraded DEF Fetch, PagesNext, Step, ReportInv
<1>4. RequestInv' /\ InputsInv' /\ LoopInv'
  BY <1>1, <1>2 DEF ReportInv, RequestInv, InputsInv, LoopInv
<1>5. CountersAddUp'
  BY <1>1, CountsStay DEF ReportInv
<1>6. ReportsAreOfPrices'
  BY <1>1 DEF ReportsAreOfPrices
<1> QED
  BY <1>1, <1>3, <1>4, <1>5, <1>6 DEF ReportInv

(* When the fetch ended well every traded minute that a record needs is at *)
(* hand.                                                                   *)
LEMMA NeededIsAtHand ==
  ASSUME TypeOK, FetchInv, PagesInv, RequestInv, FetchEnded,
         exchange = "honest", rest = {}, failure = "none",
         NEW r \in request.records
  PROVE  /\ FloorToMinute(r.timestamp) \in Traded => FloorToMinute(r.timestamp) \in Candles
         /\ HorizonTarget(r.timestamp, HorizonMinutes(request.horizon)) \in Traded =>
              HorizonTarget(r.timestamp, HorizonMinutes(request.horizon)) \in Candles
<1>1. calls = Len(windows)
  BY DEF FetchEnded
<1>2. ASSUME NEW m \in missing, m \in Traded PROVE m \in fetched
  <2>1. PICK k \in 1..Len(windows) : windows[k][1] <= m /\ m <= windows[k][2]
    BY <1>2 DEF FetchInv, WindowsCoverMissing, Covered
  <2> QED
    BY <1>1, <1>2, <2>1 DEF PagesInv, PagesAreComplete, InWindow
<1> QED
  BY <1>2 DEF RequestInv, Candles

LEMMA EnrichKeeps ==
  ASSUME TypeOK, FetchInv, PagesInv, ReportInv, Enrich
  PROVE  ReportInv'
<1> DEFINE rs == request.records
           n == Cardinality(rs)
<1>1. /\ phase = "fetch" /\ phase' = "count" /\ FetchEnded
      /\ UNCHANGED <<at, counts, pairs, points, request, missing, fetched, page, rest,
                     failure, exchange>>
  BY DEF Enrich, pagesVars, windowVars, callVars
<1>2. PICK ordered \in Sorted(rs) : inputs' = [i \in DOMAIN ordered |-> Input(ordered[i])]
  BY DEF Enrich
<1>3. n \in Nat /\ rs \subseteq StoredRecord
  BY RecordsAssumption, FS_Subset, FS_CardinalityType DEF ReportInv, RequestInv
<1>4. /\ DOMAIN ordered = 1..n /\ \A i \in 1..n : ordered[i] \in rs
      /\ \A i, j \in 1..n : i < j => Earlier(ordered[i], ordered[j])
  BY DEF Sorted
<1>5. Candles \in SUBSET Traded
  BY DEF ReportInv, RequestInv, CandlesAreTraded, Candles
<1>6. ASSUME NEW r \in rs
      PROVE  /\ Input(r) \in InputRecord /\ Paired(Input(r))
             /\ Input(r).timestamp = r.timestamp /\ Input(r).recordId = r.recordId
             /\ Input(r).laterReturn = MovementOf(r, Candles, ClosePrices).laterReturn
             /\ Input(r).direction = MovementOf(r, Candles, ClosePrices).direction
  <2> DEFINE m == MovementOf(r, Candles, ClosePrices)
  <2>1. /\ m.laterReturn \in (Int \X Int) \cup {NoReturn}
        /\ m.direction \in {"UP", "DOWN", "FLAT", NoDirection}
        /\ m.laterReturn = NoReturn <=> m.direction = NoDirection
    BY <1>5, MovementType, CloseIsAnInt DEF MovementOf
  <2>2. r \in StoredRecord
    BY <1>3
  <2> HIDE DEF m
  <2>3. Input(r) = [recordId |-> r.recordId, timestamp |-> r.timestamp, score |-> r.score,
                    bias |-> r.bias, laterReturn |-> m.laterReturn,
                    direction |-> m.direction, relevance |-> r.relevance]
    BY DEF Input, m
  <2>4. Input(r) \in InputRecord
    BY <2>1, <2>2, <2>3 DEF InputRecord, StoredRecord
  <2> QED
    BY <2>1, <2>3, <2>4 DEF Paired, m
<1>7. /\ inputs' \in Seq(InputRecord) /\ Len(inputs') = n
      /\ \A i \in 1..n : inputs'[i] = Input(ordered[i])
  <2>1. inputs' = [i \in 1..n |-> Input(ordered[i])]
    BY <1>2, <1>4
  <2> HIDE DEF n
  <2> QED
    BY <1>3, <1>4, <1>6, <2>1
<1> HIDE DEF n, rs
<1>8. InputsInv'
  <2>1. ASSUME NEW i \in 1..n, NEW j \in 1..n, i < j PROVE Earlier(inputs'[i], inputs'[j])
    BY <1>4, <1>6, <1>7, <2>1 DEF Earlier
  <2> QED
    BY <1>4, <1>6, <1>7, <2>1 DEF InputsInv
<1>9. LoopInv'
  <2>1. at = 0
    BY <1>1 DEF ReportInv, LoopInv
  <2> QED
    BY <1>1, <1>3, <1>7, <2>1 DEF ReportInv, LoopInv
<1>10. ReportsAreOfPrices'
  <2>0. PricesButEarly' = ClosePrices
    <3>1. PricesButEarly' = PricesButEarly
      BY <1>1 DEF PricesButEarly, KnownEarly
    <3> QED
      BY <3>1, CloseIsKnown DEF ReportInv, RequestInv
  <2> SUFFICES ASSUME NEW i \in 1..n
               PROVE  LET m == Movement(inputs'[i].timestamp,
                                        HorizonMinutes(request.horizon), Traded, ClosePrices) IN
                      \/ inputs'[i].laterReturn = m.laterReturn
                         /\ inputs'[i].direction = m.direction
                      \/ /\ inputs'[i].laterReturn = NoReturn
                         /\ inputs'[i].direction = NoDirection
                         /\ exchange = "odd" \/ rest # {} \/ failure # "none"
    <3>1. DOMAIN inputs' = 1..n
      BY <1>3, <1>7
    <3> QED
      BY <1>1, <2>0, <3>1 DEF ReportsAreOfPrices, MovementOf
  <2> DEFINE r == ordered[i]
             found == MovementOf(r, Candles, ClosePrices)
             full == MovementOf(r, Traded, ClosePrices)
             needed == {FloorToMinute(r.timestamp),
                        HorizonTarget(r.timestamp, HorizonMinutes(request.horizon))}
  <2>1. r \in rs /\ inputs'[i] = Input(r)
    BY <1>4, <1>7
  <2>2. Movement(inputs'[i].timestamp, HorizonMinutes(request.horizon), Traded, ClosePrices)
          = full
    BY <1>6, <2>1 DEF MovementOf
  <2>3. \/ found.laterReturn = full.laterReturn /\ found.direction = full.direction
        \/ /\ found.laterReturn = NoReturn /\ found.direction = NoDirection
           /\ \E k \in needed : k \in Traded \ Candles
    <3> DEFINE t == r.timestamp
               h == HorizonMinutes(request.horizon)
               prices == ClosePrices
    <3>1. /\ found = Movement(t, h, Candles, prices)
          /\ full = Movement(t, h, Traded, prices)
          /\ needed = {FloorToMinute(t), HorizonTarget(t, h)}
      BY DEF MovementOf
    <3> HIDE DEF found, full, needed, t, h, prices
    <3> QED
      BY <1>5, <3>1, MovementOverTraded
  <2>4. (\E k \in needed : k \in Traded \ Candles) =>
          exchange = "odd" \/ rest # {} \/ failure # "none"
    <3>1. exchange \in {"honest", "odd"} /\ RequestInv
      BY DEF PagesInv, PagesTypeOK, ReportInv
    <3>2. r \in request.records
      BY <2>1 DEF rs
    <3> HIDE DEF r
    <3>3. /\ FloorToMinute(r.timestamp) \in Traded \ Candles =>
               exchange = "odd" \/ rest # {} \/ failure # "none"
          /\ HorizonTarget(r.timestamp, HorizonMinutes(request.horizon)) \in Traded \ Candles =>
               exchange = "odd" \/ rest # {} \/ failure # "none"
      BY <1>1, <3>1, <3>2, NeededIsAtHand
    <3> QED
      BY <3>3
  <2>5. inputs'[i].laterReturn = found.laterReturn /\ inputs'[i].direction = found.direction
    BY <1>6, <2>1
  <2> HIDE DEF found, full, needed, r
  <2> QED
    BY <2>2, <2>3, <2>4, <2>5
<1>11. RequestInv' /\ CandlesAreTraded'
  BY <1>1 DEF ReportInv, RequestInv, CandlesAreTraded
<1>12. CountersAddUp'
  BY <1>1, CountsStay DEF ReportInv
<1> QED
  BY <1>1, <1>8, <1>9, <1>10, <1>11, <1>12 DEF ReportInv
-----------------------------------------------------------------------------
(* The points of an outcome, and what one more point adds to them.         *)
LEMMA OnePointMore ==
  ASSUME points \in Seq(Nat \X Outcomes),
         NEW id \in Nat, NEW o \in Outcomes, NEW of \in Outcomes,
         points' = Append(points, <<id, o>>)
  PROVE  /\ Cardinality(PointsWith(of)) \in Nat
         /\ Cardinality(PointsWith(of)') =
              Cardinality(PointsWith(of)) + (IF o = of THEN 1 ELSE 0)
<1>1. Len(points) \in Nat /\ DOMAIN points = 1..Len(points)
  OBVIOUS
<1>2. PointsWith(of) \subseteq 1..Len(points)
  BY <1>1 DEF PointsWith
<1>3. IsFiniteSet(PointsWith(of))
  <2>1. IsFiniteSet(1..Len(points))
    BY <1>1, FS_Interval
  <2> QED
    BY <1>2, <2>1, FS_Subset
<1>4. PointsWith(of)' = IF o = of THEN PointsWith(of) \cup {Len(points) + 1}
                        ELSE PointsWith(of)
  <2>1. /\ DOMAIN points' = 1..(Len(points) + 1)
        /\ points'[Len(points) + 1] = <<id, o>>
        /\ \A i \in 1..Len(points) : points'[i] = points[i]
    OBVIOUS
  <2>2. PointsWith(of)' = {i \in 1..(Len(points) + 1) : points'[i][2] = of}
    BY <2>1 DEF PointsWith
  <2>3. PointsWith(of) = {i \in 1..Len(points) : points[i][2] = of}
    BY <1>1 DEF PointsWith
  <2>4. points'[Len(points) + 1][2] = o
    BY <2>1
  <2> QED
    BY <1>1, <2>1, <2>2, <2>3, <2>4
<1>5. Len(points) + 1 \notin PointsWith(of)
  BY <1>1, <1>2
<1>6. Cardinality(PointsWith(of)) \in Nat
  BY <1>3, FS_CardinalityType
<1>7. CASE o = of
  BY <1>3, <1>4, <1>5, <1>6, <1>7, FS_AddElement
<1>8. CASE o # of
  BY <1>4, <1>6, <1>8
<1> QED
  BY <1>7, <1>8, <1>6

(* The arithmetic of the counters: d is 1 for a hit, 2 for a miss with a   *)
(* movement, 3 for a miss without one and 4 for noise.                     *)
LEMMA TotalsAdvance ==
  ASSUME NEW hit \in Int, NEW miss \in Int, NEW missed \in Int, NEW flat \in Int,
         NEW noise \in Int, NEW drawn \in Int, NEW paired \in Int,
         hit + miss = paired + missed, hit + miss + noise = drawn,
         missed <= miss, flat <= hit + miss,
         NEW d \in 1..4, NEW f \in 0..1, d = 4 => f = 0,
         NEW h \in 0..1, h = 1 <=> d = 1, NEW m \in 0..1, m = 1 <=> d \in {2, 3},
         NEW l \in 0..1, l = 1 <=> d = 3, NEW n \in 0..1, n = 1 <=> d = 4,
         NEW p \in 0..1, p = 1 <=> d \in {1, 2}
  PROVE  /\ (hit + h) + (miss + m) = (paired + p) + (missed + l)
         /\ (hit + h) + (miss + m) + (noise + n) = drawn + 1
         /\ missed + l <= miss + m
         /\ flat + f <= (hit + h) + (miss + m)
BY SMT

LEMMA CountRecordKeeps ==
  ASSUME ReportInv, CountRecord
  PROVE  ReportInv'
<1> DEFINE r == inputs[at + 1]
<1>1. /\ phase = "count" /\ at < Len(inputs) /\ at' = at + 1
      /\ counts' = Counted(r) /\ pairs' = AddPair(r)
      /\ points' = Append(points, <<r.recordId, Outcome(r)>>)
      /\ UNCHANGED <<inputs, phase, request, missing, fetched, page, rest, failure, exchange>>
  BY DEF CountRecord, pagesVars, windowVars, callVars
<1>2. /\ at \in 0..Len(inputs) /\ inputs \in Seq(InputRecord)
      /\ points \in Seq(Nat \X Outcomes) /\ Len(points) = at
      /\ pairs \in Seq(Int \X (Int \X Int))
      /\ counts \in [hit : Nat, miss : Nat, missing : Nat, flat : Nat, noise : Nat]
  BY DEF ReportInv, InputsInv, LoopInv
<1>3. at + 1 \in 1..Len(inputs) /\ r \in InputRecord /\ Paired(r)
  <2>1. at + 1 \in 1..Len(inputs)
    BY <1>1, <1>2
  <2> QED
    BY <1>2, <2>1 DEF ReportInv, InputsInv
<1>4. Outcome(r) \in Outcomes
  BY DEF Outcome, Outcomes
<1>5. /\ r.recordId \in Nat /\ r.score \in Int
      /\ r.laterReturn \in (Int \X Int) \cup {NoReturn}
      /\ r.laterReturn = NoReturn <=> r.direction = NoDirection
  BY <1>3 DEF InputRecord, Paired
<1> HIDE DEF r
<1>6. LoopInv'
  <2>1. points' \in Seq(Nat \X Outcomes) /\ Len(points') = at'
    <3>1. <<r.recordId, Outcome(r)>> \in Nat \X Outcomes
      BY <1>4, <1>5
    <3>2. /\ points' \in Seq(Nat \X Outcomes) /\ Len(points') = Len(points) + 1
      BY <1>1, <1>2, <3>1
    <3> QED
      BY <1>1, <1>2, <3>2
  <2>2. pairs' \in Seq(Int \X (Int \X Int))
    <3>1. CASE r.laterReturn = NoReturn \/ r.relevance # "RELEVANT"
      BY <1>1, <1>2, <3>1 DEF AddPair
    <3>2. CASE r.laterReturn # NoReturn /\ r.relevance = "RELEVANT"
      <4>1. pairs' = Append(pairs, <<r.score, r.laterReturn>>)
        BY <1>1, <3>2 DEF AddPair
      <4>2. <<r.score, r.laterReturn>> \in Int \X (Int \X Int)
        BY <1>5, <3>2
      <4> QED
        BY <1>2, <4>1, <4>2
    <3> QED
      BY <3>1, <3>2
  <2>3. counts' \in [hit : Nat, miss : Nat, missing : Nat, flat : Nat, noise : Nat]
    <3>1. \A n \in Nat, flag \in BOOLEAN : n + Plus(flag) \in Nat
      BY DEF Plus
    <3>2. /\ counts.hit \in Nat /\ counts.miss \in Nat /\ counts.missing \in Nat
          /\ counts.flat \in Nat /\ counts.noise \in Nat
      BY <1>2
    <3>3. /\ counts.hit + Plus(Outcome(r) = "HIT") \in Nat
          /\ counts.miss + Plus(Outcome(r) = "MISS") \in Nat
          /\ counts.missing + Plus(r.relevance = "RELEVANT" /\ r.direction = NoDirection) \in Nat
          /\ counts.flat + Plus(r.relevance = "RELEVANT" /\ r.bias = "FLAT") \in Nat
          /\ counts.noise + Plus(~(r.relevance = "RELEVANT")) \in Nat
      BY <3>1, <3>2
    <3>4. counts' = Counted(r)
      BY <1>1
    <3> QED
      BY <3>3, <3>4 DEF Counted
  <2> QED
    BY <1>1, <1>2, <1>3, <2>1, <2>2, <2>3 DEF LoopInv
<1>7. CountersAddUp'
  <2>1. /\ counts'.hit = counts.hit + Plus(Outcome(r) = "HIT")
        /\ counts'.miss = counts.miss + Plus(Outcome(r) = "MISS")
        /\ counts'.missing =
             counts.missing + Plus(r.relevance = "RELEVANT" /\ r.direction = NoDirection)
        /\ counts'.flat = counts.flat + Plus(r.relevance = "RELEVANT" /\ r.bias = "FLAT")
        /\ counts'.noise = counts.noise + Plus(~(r.relevance = "RELEVANT"))
    BY <1>1 DEF Counted
  <2>2. /\ "HIT" \in Outcomes /\ "EXCLUDED" \in Outcomes
    BY DEF Outcomes
  <2>3. /\ Cardinality(PointsWith("HIT"))' =
             Cardinality(PointsWith("HIT")) + Plus(Outcome(r) = "HIT")
        /\ Cardinality(PointsWith("EXCLUDED"))' =
             Cardinality(PointsWith("EXCLUDED")) + Plus(Outcome(r) = "EXCLUDED")
    <3> DEFINE o == Outcome(r)
               id == r.recordId
    <3>1. /\ points \in Seq(Nat \X Outcomes) /\ id \in Nat /\ o \in Outcomes
          /\ points' = Append(points, <<id, o>>)
      BY <1>1, <1>2, <1>4, <1>5
    <3> HIDE DEF o, id
    <3>2. Cardinality(PointsWith("HIT"))' =
            Cardinality(PointsWith("HIT")) + (IF o = "HIT" THEN 1 ELSE 0)
      BY <2>2, <3>1, OnePointMore
    <3>3. Cardinality(PointsWith("EXCLUDED"))' =
            Cardinality(PointsWith("EXCLUDED")) + (IF o = "EXCLUDED" THEN 1 ELSE 0)
      BY <2>2, <3>1, OnePointMore
    <3> QED
      BY <3>2, <3>3 DEF Plus, o
  <2>4. Len(pairs') = Len(pairs)
          + Plus(r.relevance = "RELEVANT" /\ r.laterReturn # NoReturn)
    BY <1>1, <1>2 DEF AddPair, Plus
  <2>5. CountersAddUp
    BY DEF ReportInv
  <2>6. /\ counts.hit \in Nat /\ counts.miss \in Nat /\ counts.missing \in Nat
        /\ counts.flat \in Nat /\ counts.noise \in Nat /\ Len(pairs) \in Nat
        /\ Cardinality(PointsWith("HIT")) \in Nat
        /\ Cardinality(PointsWith("EXCLUDED")) \in Nat /\ at \in Nat
    BY <1>2, <2>5 DEF CountersAddUp
  <2> DEFINE h == Cardinality(PointsWith("HIT")) 
             e == Cardinality(PointsWith("EXCLUDED"))
             hh == Cardinality(PointsWith("HIT"))'
             ee == Cardinality(PointsWith("EXCLUDED"))'
  <2>7. /\ counts.hit + counts.miss = Len(pairs) + counts.missing
        /\ counts.hit + counts.miss + counts.noise = at
        /\ counts.missing <= counts.miss
        /\ counts.flat <= counts.hit + counts.miss
        /\ counts.hit = h /\ counts.noise = e
    BY <2>5 DEF CountersAddUp
  <2>8. h \in Nat /\ e \in Nat
    BY <2>6
  <2>9. hh = h + Plus(Outcome(r) = "HIT") /\ ee = e + Plus(Outcome(r) = "EXCLUDED")
    BY <2>3
  <2> HIDE DEF h, e, hh, ee
  <2>10. /\ counts.hit \in Int /\ counts.miss \in Int /\ counts.missing \in Int
         /\ counts.flat \in Int /\ counts.noise \in Int /\ Len(pairs) \in Int
         /\ at \in Int /\ at' = at + 1
    <3>1. at' = at + 1
      BY <1>1
    <3> QED
      BY <2>6, <3>1
  <2>11. /\ counts'.hit + counts'.miss = Len(pairs') + counts'.missing
         /\ counts'.hit + counts'.miss + counts'.noise = at'
         /\ counts'.missing <= counts'.miss
         /\ counts'.flat <= counts'.hit + counts'.miss
         /\ counts'.hit = hh /\ counts'.noise = ee
    <3> DEFINE ph == Plus(Outcome(r) = "HIT")
               pm == Plus(Outcome(r) = "MISS")
               pl == Plus(r.relevance = "RELEVANT" /\ r.direction = NoDirection)
               pf == Plus(r.relevance = "RELEVANT" /\ r.bias = "FLAT")
               pn == Plus(~(r.relevance = "RELEVANT"))
               pp == Plus(r.relevance = "RELEVANT" /\ r.laterReturn # NoReturn)
    <3>1. PICK d \in 1..4 :
            /\ d = 1 <=> Outcome(r) = "HIT"
            /\ d \in {2, 3} <=> Outcome(r) = "MISS"
            /\ d = 3 <=> r.relevance = "RELEVANT" /\ r.direction = NoDirection
            /\ d = 4 <=> r.relevance # "RELEVANT"
            /\ d \in {1, 2} <=> r.relevance = "RELEVANT" /\ r.laterReturn # NoReturn
            /\ d = 4 <=> Outcome(r) = "EXCLUDED"
      <4>1. CASE r.relevance # "RELEVANT"
        <5> WITNESS 4 \in 1..4
        <5> QED
          BY <4>1 DEF Outcome
      <4>2. CASE r.relevance = "RELEVANT" /\ r.direction = NoDirection
        <5> WITNESS 3 \in 1..4
        <5> QED
          BY <1>5, <4>2 DEF Outcome
      <4>3. CASE r.relevance = "RELEVANT" /\ r.direction # NoDirection /\ IsHit(r.bias, r.direction)
        <5> WITNESS 1 \in 1..4
        <5> QED
          BY <1>5, <4>3 DEF Outcome
      <4>4. CASE r.relevance = "RELEVANT" /\ r.direction # NoDirection /\ ~IsHit(r.bias, r.direction)
        <5> WITNESS 2 \in 1..4
        <5> QED
          BY <1>5, <4>4 DEF Outcome
      <4> QED
        BY <4>1, <4>2, <4>3, <4>4
    <3>2. /\ ph \in 0..1 /\ (ph = 1 <=> d = 1) /\ pm \in 0..1 /\ (pm = 1 <=> d \in {2, 3})
          /\ pl \in 0..1 /\ (pl = 1 <=> d = 3) /\ pn \in 0..1 /\ (pn = 1 <=> d = 4)
          /\ pp \in 0..1 /\ (pp = 1 <=> d \in {1, 2})
          /\ pf \in 0..1 /\ (d = 4 => pf = 0)
          /\ Plus(Outcome(r) = "EXCLUDED") = pn
      BY <3>1 DEF Plus
    <3>3. /\ counts'.hit = counts.hit + ph /\ counts'.miss = counts.miss + pm
          /\ counts'.missing = counts.missing + pl /\ counts'.flat = counts.flat + pf
          /\ counts'.noise = counts.noise + pn /\ Len(pairs') = Len(pairs) + pp
          /\ hh = h + ph /\ ee = e + pn
      BY <2>1, <2>4, <2>9, <3>2
    <3> HIDE DEF ph, pm, pl, pf, pn, pp
    <3>4. /\ (counts.hit + ph) + (counts.miss + pm) = (Len(pairs) + pp) + (counts.missing + pl)
          /\ (counts.hit + ph) + (counts.miss + pm) + (counts.noise + pn) = at + 1
          /\ counts.missing + pl <= counts.miss + pm
          /\ counts.flat + pf <= (counts.hit + ph) + (counts.miss + pm)
      <4> DEFINE hit == counts.hit
                 miss == counts.miss
                 missed == counts.missing
                 flat == counts.flat
                 noise == counts.noise
                 paired == Len(pairs)
      <4>1. /\ hit \in Int /\ miss \in Int /\ missed \in Int /\ flat \in Int
            /\ noise \in Int /\ at \in Int /\ paired \in Int
            /\ hit + miss = paired + missed /\ hit + miss + noise = at
            /\ missed <= miss /\ flat <= hit + miss
        BY <2>7, <2>10
      <4> SUFFICES /\ (hit + ph) + (miss + pm) = (paired + pp) + (missed + pl)
                   /\ (hit + ph) + (miss + pm) + (noise + pn) = at + 1
                   /\ missed + pl <= miss + pm
                   /\ flat + pf <= (hit + ph) + (miss + pm)
        OBVIOUS
      <4> HIDE DEF hit, miss, missed, flat, noise, paired
      <4> QED
        BY <3>2, <4>1, TotalsAdvance
    <3>5. at' = at + 1
      BY <2>10
    <3>6. counts'.hit = hh /\ counts'.noise = ee
      BY <2>7, <3>3
    <3>7. /\ counts'.hit + counts'.miss = Len(pairs') + counts'.missing
          /\ counts'.hit + counts'.miss + counts'.noise = at'
          /\ counts'.missing <= counts'.miss
          /\ counts'.flat <= counts'.hit + counts'.miss
      BY <3>3, <3>4, <3>5, Zenon
    <3> QED
      BY <3>6, <3>7
  <2> QED
    BY <2>11 DEF CountersAddUp, hh, ee
<1>8. RequestInv' /\ CandlesAreTraded' /\ InputsInv'
  BY <1>1 DEF ReportInv, RequestInv, CandlesAreTraded, InputsInv
<1>9. ReportsAreOfPrices'
  BY <1>1 DEF ReportInv, ReportsAreOfPrices, MovementOf,
     PricesButEarly, KnownEarly
<1> QED
  BY <1>1, <1>6, <1>7, <1>8, <1>9 DEF ReportInv

LEMMA AnswerKeeps ==
  ASSUME ReportInv, Answer
  PROVE  ReportInv'
<1>1. /\ phase = "count" /\ phase' = "answered"
      /\ UNCHANGED <<inputs, at, counts, pairs, points, request, missing, fetched, page,
                     rest, failure, exchange>>
  BY DEF Answer, Nothing, pagesVars, windowVars, callVars
<1>2. RequestInv' /\ CandlesAreTraded' /\ InputsInv' /\ LoopInv'
  BY <1>1 DEF ReportInv, RequestInv, CandlesAreTraded, InputsInv, LoopInv
<1>3. CountersAddUp'
  BY <1>1, CountsStay DEF ReportInv
<1>4. ReportsAreOfPrices'
  BY <1>1 DEF ReportInv, ReportsAreOfPrices, MovementOf,
     PricesButEarly, KnownEarly
<1> QED
  BY <1>1, <1>2, <1>3, <1>4 DEF ReportInv

LEMMA ReportStutters ==
  ASSUME ReportInv, UNCHANGED vars
  PROVE  ReportInv'
<1>1. /\ UNCHANGED <<phase, inputs, at, counts, pairs, points, request, missing, fetched,
                     page, rest, failure, exchange>>
  BY DEF vars, requestVars, pagesVars, windowVars, callVars
<1>2. RequestInv' /\ CandlesAreTraded' /\ InputsInv' /\ LoopInv'
  BY <1>1 DEF ReportInv, RequestInv, CandlesAreTraded, InputsInv, LoopInv
<1>3. CountersAddUp'
  BY <1>1, CountsStay DEF ReportInv
<1>4. ReportsAreOfPrices'
  BY <1>1 DEF ReportInv, ReportsAreOfPrices, MovementOf,
     PricesButEarly, KnownEarly
<1> QED
  BY <1>1, <1>2, <1>3, <1>4 DEF ReportInv

(* What a report asks for, what it has fetched, the order and the pairing  *)
(* of its records and the counters of its loop hold of every report, over  *)
(* every history of prices, every cache and every exchange.                *)
THEOREM ReportInvariant == ReportSpec => [](TypeOK /\ FetchInv /\ PagesInv /\ ReportInv)
<1>1. TypeOK /\ FetchInv /\ PagesInv /\ ReportInv /\ [Proceed]_vars => ReportInv'
  <2> SUFFICES ASSUME TypeOK, FetchInv, PagesInv, ReportInv, Proceed \/ UNCHANGED vars
               PROVE  ReportInv'
    OBVIOUS
  <2>1. CASE Refuse
    BY <2>1, RefuseKeeps
  <2>2. CASE UseFixture
    BY <2>2, UseFixtureKeeps
  <2>3. CASE ReadCache
    BY <2>3, ReadCacheKeeps
  <2>4. CASE Fetch
    BY <2>4, FetchKeeps
  <2>5. CASE Enrich
    BY <2>5, EnrichKeeps
  <2>6. CASE CountRecord
    BY <2>6, CountRecordKeeps
  <2>7. CASE Answer
    BY <2>7, AnswerKeeps
  <2>8. CASE UNCHANGED vars
    BY <2>8, ReportStutters
  <2> QED
    BY <2>1, <2>2, <2>3, <2>4, <2>5, <2>6, <2>7, <2>8 DEF Proceed
<1> QED
  BY <1>1, ReportInitially, ReportFetches, PTL DEF ReportSpec

(* However the missing minutes fell into windows and pages, a report's     *)
(* price movements are those of the exchange's close prices, except for a  *)
(* minute that ran while it was fetched or was cached before it ended and  *)
(* not fetched again; a movement that is left out does not exist, or the   *)
(* fetch ended early.                                                      *)
THEOREM ReportsFollowThePrices == ReportSpec => []ReportsAreOfPrices
<1>1. ReportInv => ReportsAreOfPrices
  BY DEF ReportInv
<1> QED
  BY <1>1, ReportInvariant, PTL

(* The counters of build_quality_report agree with each other and with the *)
(* chart points at every record of the loop.                               *)
THEOREM CountersAgree == ReportSpec => []CountersAddUp
<1>1. ReportInv => CountersAddUp
  BY DEF ReportInv
<1> QED
  BY <1>1, ReportInvariant, PTL

-----------------------------------------------------------------------------
(* What a report shows of more records than its limit spans them: the      *)
(* chosen records are in order, none of them twice, and the chart goes     *)
(* from the first point to the last.                                       *)
THEOREM ReportsShowTheirSpan == ReportSpec => []SamplesSpan
<1>1. ASSUME ReportInv PROVE SamplesSpan
  <2>1. /\ inputs \in Seq(InputRecord)
        /\ \A i, j \in 1..Len(inputs) : i < j => Earlier(inputs[i], inputs[j])
        /\ points \in Seq(Nat \X Outcomes) /\ Len(points) = at /\ at \in Nat
    BY <1>1 DEF ReportInv, InputsInv, LoopInv
  <2>2. ASSUME NEW k \in DOMAIN RepresentativeRecords, NEW l \in DOMAIN RepresentativeRecords,
               k < l
        PROVE  Earlier(RepresentativeRecords[k], RepresentativeRecords[l])
    <3>1. \A p, q \in DOMAIN Sample(inputs, MaxRepresentativeRecords) : p < q =>
            \E i, j \in 1..Len(inputs) :
               /\ i < j
               /\ Sample(inputs, MaxRepresentativeRecords)[p] = inputs[i]
               /\ Sample(inputs, MaxRepresentativeRecords)[q] = inputs[j]
      BY <2>1, MaxAssumption, SampleOf
    <3>2. PICK i \in 1..Len(inputs), j \in 1..Len(inputs) :
            /\ i < j
            /\ RepresentativeRecords[k] = inputs[i]
            /\ RepresentativeRecords[l] = inputs[j]
      BY <2>2, <3>1 DEF RepresentativeRecords
    <3> QED
      BY <2>1, <3>2
  <2>3. Len(ChartPoints) = IF at < MaxChartPoints THEN at ELSE MaxChartPoints
    BY <2>1, MaxAssumption, SampleOf DEF ChartPoints
  <2>4. ASSUME MaxChartPoints >= 2
        PROVE  /\ ChartPoints[1] = points[1]
               /\ ChartPoints[Len(ChartPoints)] = points[at]
    <3>1. CASE at <= MaxChartPoints
      <4>1. ChartPoints = points
        BY <2>1, <3>1 DEF ChartPoints, Sample
      <4> QED
        BY <2>1, <4>1
    <3>2. CASE at > MaxChartPoints
      <4>1. /\ MaxChartPoints \in Nat /\ 2 <= MaxChartPoints
            /\ MaxChartPoints < Len(points)
        BY <2>1, <2>4, <3>2, MaxAssumption
      <4>2. /\ Len(Sample(points, MaxChartPoints)) = MaxChartPoints
            /\ Sample(points, MaxChartPoints)[1] = points[1]
            /\ Sample(points, MaxChartPoints)[MaxChartPoints] = points[Len(points)]
        BY <2>1, <4>1, SampleSpans
      <4> QED
        BY <2>1, <4>2 DEF ChartPoints
    <3> QED
      BY <2>1, <3>1, <3>2, MaxAssumption
  <2> QED
    BY <2>2, <2>3, <2>4 DEF SamplesSpan
<1> QED
  BY <1>1, ReportInvariant, PTL

(* No run of reports loses a candle: the properties of the windows and the *)
(* pages hold of the calls that reports make.                              *)
COROLLARY ReportsLoseNoCandle ==
  ReportSpec => [](WindowsCoverMissing /\ BudgetSuffices /\ PagesAreComplete)
<1>1. TypeOK /\ FetchInv /\ PagesInv =>
        WindowsCoverMissing /\ BudgetSuffices /\ PagesAreComplete
  BY BudgetFollows DEF FetchInv, PagesInv
<1> QED
  BY <1>1, ReportInvariant, PTL
=============================================================================
