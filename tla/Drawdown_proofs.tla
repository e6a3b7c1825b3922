--------------------------- MODULE Drawdown_proofs ---------------------------
(***************************************************************************)
(* Proofs about Drawdown for every path of wealth and every length of a    *)
(* period: the episodes cover exactly the losses, and the peaks they name  *)
(* are the highest levels.  The invariant says what the episode in hand    *)
(* and the recorded ones are spans of: days below one level of the running *)
(* peak, right after a day on that level or after the opening.             *)
(***************************************************************************)
EXTENDS Drawdown, FiniteSetTheorems, WellFoundedInduction, TLAPS

(* The running peak is above the opening and above all wealth so far. *)
Path ==
  /\ \A i \in Days : Opening <= peaks[i] /\ wealth[i] <= peaks[i]
  /\ \A i, j \in Days : i <= j => peaks[i] <= peaks[j]

Base(i) == IF i = 1 THEN Opening ELSE wealth[i - 1]

(* All days of a span are below the level before it. *)
Falls(from, to) ==
  /\ from \in Days /\ to \in Days /\ from <= to
  /\ from > 1 => wealth[from - 1] = peaks[from - 1]
  /\ \A i \in from .. to : wealth[i] < peaks[i] /\ peaks[i] = Base(from)

InHand ==
  IF inEpisode THEN Falls(start, Len(wealth)) /\ peak = PeakBefore(start)
               ELSE Len(wealth) > 0 => wealth[Len(wealth)] = peaks[Len(wealth)]

StartOf(e) == IF e.peak = None THEN 1 ELSE e.peak + 1

(* The days that the recorded episodes account for. *)
Accounted == IF inEpisode THEN start - 1 ELSE Len(wealth)

Fits(e) ==
  /\ e.recovery \in Days
  /\ Falls(StartOf(e), e.recovery - 1)
  /\ e.trough \in StartOf(e) .. e.recovery - 1
  /\ wealth[e.recovery] = peaks[e.recovery]

Recorded ==
  \A k \in DOMAIN episodes : Fits(episodes[k]) /\ episodes[k].recovery <= Accounted

Ordered ==
  \A k, l \in DOMAIN episodes : k < l => episodes[k].recovery < StartOf(episodes[l])

Covered ==
  \A i \in 1 .. Accounted :
    Underwater(i) => \E k \in DOMAIN episodes : i \in StartOf(episodes[k]) .. episodes[k].recovery - 1

IInv == TypeOK /\ Path /\ InHand /\ Recorded /\ Ordered /\ Covered

LastOf(e) == IF e.recovery = None THEN Len(wealth) ELSE e.recovery - 1

(* t is the first of the lowest days. *)
Lowest(t, from, to) ==
  \A i \in from .. to : wealth[t] <= wealth[i] /\ (i < t => wealth[t] < wealth[i])

(* What a record tells of its span. *)
Told(e) ==
  /\ Lowest(e.trough, StartOf(e), LastOf(e))
  /\ e.depth = Depth(e.trough)
  /\ e.toTrough = DurationOf(e.peak, e.trough)
  /\ e.toRecovery = DurationOf(e.trough, e.recovery)
  /\ e.total = DurationOf(e.peak, IF e.recovery = None THEN Len(wealth) ELSE e.recovery)

Dated == \A i, j \in Days : i <= j => dates[i] <= dates[j]

Story == Dated /\ \A k \in DOMAIN episodes : Told(episodes[k])

-----------------------------------------------------------------------------
(* Least elements *)

LEMMA FirstExists ==
  ASSUME NEW S, S \subseteq Nat, S # {}
  PROVE  First(S) \in S /\ \A j \in S : First(S) <= j
<1>1. IsWellFoundedOn(OpToRel(<, Nat), Nat)
  BY NatLessThanWellFounded
<1>2. PICK i \in S : \A j \in S : ~(<<j, i>> \in OpToRel(<, Nat))
  BY <1>1, WFMin
<1>3. \A j \in S : ~(j < i)
  BY <1>2 DEF OpToRel
<1>4. \E k \in S : \A j \in S : k <= j
  BY <1>3
<1> QED
  BY <1>4 DEF First

(* A segment of integers has a least one: otherwise take the shortest that has
   none, and add its last element to the one before. *)
LEMMA LowestExists ==
  ASSUME NEW a \in Nat, NEW b \in Nat, a <= b, NEW W, \A i \in a .. b : W[i] \in Int
  PROVE  \E i \in a .. b : \A j \in a .. b : W[i] <= W[j]
<1> DEFINE Without == {n \in a .. b : ~\E i \in a .. n : \A j \in a .. n : W[i] <= W[j]}
<1>1. ASSUME Without # {}
      PROVE  FALSE
  <2>1. Without \subseteq Nat
    OBVIOUS
  <2>2. PICK n \in Without : \A m \in Without : n <= m
    BY <1>1, <2>1, FirstExists
  <2>3. n # a
    OBVIOUS
  <2>4. n - 1 \in a .. b /\ n - 1 \notin Without
    <3>1. n \in a .. b
      BY <2>2
    <3>2. n - 1 \in a .. b /\ ~(n <= n - 1)
      BY <2>3, <3>1
    <3> HIDE DEF Without
    <3> QED
      BY <2>2, <3>2
  <2>5. PICK i \in a .. n - 1 : \A j \in a .. n - 1 : W[i] <= W[j]
    BY <2>4
  <2>6. CASE W[i] <= W[n]
    BY <2>5, <2>6
  <2>7. CASE ~(W[i] <= W[n])
    <3>1. \A j \in a .. n : W[n] <= W[j]
      BY <2>5, <2>7
    <3> QED
      BY <3>1
  <2> QED
    BY <2>6, <2>7
<1> QED
  BY <1>1

LEMMA LessAtPeak ==
  ASSUME NEW x \in Int, NEW y \in Int, NEW p \in Nat \ {0}
  PROVE  x * p < y * p <=> x < y
  OBVIOUS

(* The trough of days a to b below one peak p, and perhaps of a day more that
   recovers, is one of a to b and the first of the lowest of them. *)
LEMMA TroughOfSpan ==
  ASSUME NEW a \in Nat, NEW b \in Nat, a <= b, NEW W, NEW P, NEW p \in Nat \ {0},
         \A i \in a .. b : W[i] \in Int /\ P[i] = p /\ W[i] < p,
         NEW last \in {b, b + 1},
         last = b + 1 => W[last] \in Nat \ {0} /\ P[last] = W[last],
         NEW T, \A i : i \in T <=> /\ i \in a .. last
                                  /\ \A j \in a .. last : ~(W[j] * P[i] < W[i] * P[j]),
         NEW t, t = First(T)
  PROVE  t \in a .. b /\ \A j \in a .. b : W[t] <= W[j] /\ (j < t => W[t] < W[j])
<1>1. \A i, j \in a .. b : W[j] * P[i] < W[i] * P[j] <=> W[j] < W[i]
  BY LessAtPeak
<1>2. ASSUME last = b + 1
      PROVE  \A i \in a .. b : /\ W[i] * P[last] < W[last] * P[i]
                              /\ ~(W[last] * P[i] < W[i] * P[last])
  <2> TAKE i \in a .. b
  <2>1. W[i] \in Int /\ p \in Int /\ W[i] < p /\ P[i] = p
    OBVIOUS
  <2>2. W[last] \in Nat \ {0} /\ P[last] = W[last]
    BY <1>2
  <2>3. W[i] * W[last] < p * W[last]
    BY <2>1, <2>2, LessAtPeak
  <2>4. p * W[last] = W[last] * p /\ W[last] * p \in Int /\ W[i] * W[last] \in Int
    BY <2>1, <2>2
  <2> QED
    BY <2>1, <2>2, <2>3, <2>4
<1>3. PICK low \in a .. b : \A j \in a .. b : W[low] <= W[j]
  BY LowestExists
<1>4. low \in T
  BY <1>1, <1>2, <1>3
<1>5. T \subseteq Nat /\ t \in T /\ \A j \in T : t <= j
  <2>1. T \subseteq Nat /\ T # {} /\ t = First(T)
    BY <1>4
  <2> QED
    BY <2>1, FirstExists
<1>6. t \in a .. b
  <2>1. CASE last = b
    BY <1>5, <2>1
  <2>2. CASE last = b + 1
    <3>1. W[a] * P[last] < W[last] * P[a]
      BY <1>2, <2>2
    <3>2. last \notin T
      BY <3>1, <2>2
    <3> QED
      BY <1>5, <2>2, <3>2
  <2> QED
    BY <2>1, <2>2
<1>7. \A j \in a .. b : ~(W[j] < W[t])
  BY <1>1, <1>5, <1>6
<1>8. \A j \in a .. b : W[j] \in Int /\ W[t] \in Int
  BY <1>6
<1>9. \A j \in a .. b : W[t] <= W[j]
  BY <1>7, <1>8
<1>10. ASSUME NEW j \in a .. b, j < t
       PROVE  W[t] < W[j]
  <2>1. j \notin T
    BY <1>5, <1>6, <1>10
  <2>2. PICK i \in a .. last : W[i] * P[j] < W[j] * P[i]
    BY <2>1
  <2>3. i \in a .. b
    BY <1>2, <2>2
  <2>4. W[i] < W[j]
    BY <1>1, <2>2, <2>3
  <2>5. W[i] \in Int /\ W[j] \in Int /\ W[t] \in Int /\ W[t] <= W[i]
    BY <1>8, <1>9, <2>3
  <2> QED
    BY <2>4, <2>5
<1> QED
  BY <1>6, <1>9, <1>10

LEMMA BusinessDaysAreNat ==
  ASSUME NEW x \in Nat, NEW y \in Nat
  PROVE  Cardinality({d \in x .. y - 1 : d % 7 < 5}) \in Nat
<1>1. IsFiniteSet(x .. y - 1)
  BY FS_Interval
<1>2. IsFiniteSet({d \in x .. y - 1 : d % 7 < 5})
  BY <1>1, FS_Subset
<1> QED
  BY <1>2, FS_CardinalityType

-----------------------------------------------------------------------------
(* One observation more *)

(* The series grow by one, and their past stays. *)
Grown(w) ==
  /\ Len(wealth') = Len(wealth) + 1 /\ Len(peaks') = Len(wealth) + 1
  /\ Len(dates') = Len(wealth) + 1
  /\ wealth' \in Seq(Levels) /\ peaks' \in Seq(Nat \ {0}) /\ dates' \in Seq(Nat)
  /\ wealth'[Len(wealth) + 1] = w
  /\ peaks'[Len(wealth) + 1] = NextPeak(w)
  /\ \A i \in 1 .. Len(wealth) : wealth'[i] = wealth[i] /\ peaks'[i] = peaks[i]

LEMMA SupplyGrows ==
  ASSUME TypeOK, NEW w \in Levels, NEW gap \in Gaps, Supply(w, gap)
  PROVE  Grown(w)
<1>1. /\ wealth \in Seq(Levels) /\ dates \in Seq(Nat) /\ peaks \in Seq(Nat \ {0})
      /\ Len(dates) = Len(wealth) /\ Len(peaks) = Len(wealth)
  BY DEF TypeOK
<1>2. RunningPeak \in Nat \ {0} /\ LastDate \in Nat
  BY <1>1, DrawdownAssumption DEF RunningPeak, LastDate
<1>3. NextPeak(w) \in Nat \ {0} /\ LastDate + gap \in Nat
  BY <1>2, DrawdownAssumption DEF NextPeak
<1>4. dates' \in Seq(Nat) /\ Len(dates') = Len(wealth) + 1
  BY <1>1, <1>3 DEF Supply
<1>5. /\ wealth' \in Seq(Levels) /\ Len(wealth') = Len(wealth) + 1
      /\ wealth'[Len(wealth) + 1] = w
      /\ \A i \in 1 .. Len(wealth) : wealth'[i] = wealth[i]
  BY <1>1 DEF Supply
<1>6. /\ peaks' \in Seq(Nat \ {0}) /\ Len(peaks') = Len(wealth) + 1
      /\ peaks'[Len(wealth) + 1] = NextPeak(w)
      /\ \A i \in 1 .. Len(wealth) : peaks'[i] = peaks[i]
  BY <1>1, <1>3 DEF Supply
<1> QED
  BY <1>4, <1>5, <1>6 DEF Grown

(* The running peak goes on. *)
LEMMA PathGrows ==
  ASSUME TypeOK, Path, NEW w \in Levels, Grown(w)
  PROVE  Path'
<1>1. /\ wealth \in Seq(Levels) /\ peaks \in Seq(Nat \ {0}) /\ Len(peaks) = Len(wealth)
      /\ Days = 1 .. Len(wealth) /\ Days' = 1 .. Len(wealth) + 1 /\ Len(wealth) \in Nat
  BY DEF TypeOK, Grown, Days
<1>2. /\ Opening \in Nat \ {0} /\ w \in Int
      /\ \A i \in Days : wealth[i] \in Int /\ peaks[i] \in Int
  <2>1. Opening \in Nat \ {0} /\ Levels \subseteq Int
    BY DrawdownAssumption
  <2>2. \A i \in Days : wealth[i] \in Levels
    BY <1>1
  <2>3. \A i \in Days : peaks[i] \in Int
    BY <1>1
  <2>4. \A l \in Levels : l \in Int
    BY <2>1
  <2> QED
    BY <2>1, <2>2, <2>3, <2>4, Zenon
<1>3. /\ NextPeak(w) \in Int /\ Opening <= NextPeak(w) /\ w <= NextPeak(w)
      /\ \A i \in Days : peaks[i] <= NextPeak(w)
  <2>1. CASE Len(wealth) = 0
    BY <1>1, <1>2, <2>1 DEF NextPeak, RunningPeak
  <2>2. CASE Len(wealth) # 0
    <3>1. Len(wealth) \in Days /\ RunningPeak = peaks[Len(wealth)]
      BY <1>1, <2>2 DEF RunningPeak
    <3>2. Opening <= RunningPeak /\ \A i \in Days : peaks[i] <= RunningPeak
      BY <1>1, <3>1 DEF Path
    <3>3. RunningPeak \in Int
      BY <1>2, <3>1
    <3> QED
      BY <1>2, <3>2, <3>3 DEF NextPeak
  <2> QED
    BY <2>1, <2>2
<1>4. /\ \A i \in Days : wealth'[i] = wealth[i] /\ peaks'[i] = peaks[i]
      /\ wealth'[Len(wealth) + 1] = w /\ peaks'[Len(wealth) + 1] = NextPeak(w)
      /\ \A i \in Days' : i \in Days \/ i = Len(wealth) + 1
  BY <1>1 DEF Grown
<1>5. \A i \in Days' : Opening <= peaks'[i] /\ wealth'[i] <= peaks'[i]
  BY <1>3, <1>4 DEF Path
<1>6. ASSUME NEW i \in Days', NEW j \in Days', i <= j
      PROVE  peaks'[i] <= peaks'[j]
  <2>1. CASE i \in Days /\ j \in Days
    BY <1>4, <1>6, <2>1 DEF Path
  <2>2. CASE j = Len(wealth) + 1
    BY <1>3, <1>4, <2>2
  <2>3. i = Len(wealth) + 1 => j = Len(wealth) + 1
    BY <1>1, <1>6
  <2> QED
    BY <1>4, <2>1, <2>2, <2>3
<1> QED
  BY <1>5, <1>6 DEF Path

(* A span stays one. *)
LEMMA FallsStay ==
  ASSUME TypeOK, NEW w \in Levels, Grown(w), NEW a, NEW b, Falls(a, b)
  PROVE  Falls(a, b)'
<1>1. Days = 1 .. Len(wealth) /\ Days' = 1 .. Len(wealth) + 1 /\ Len(wealth) \in Nat
  BY DEF TypeOK, Grown, Days
<1>2. a \in 1 .. Len(wealth) /\ b \in 1 .. Len(wealth) /\ a <= b
  BY <1>1 DEF Falls
<1>3. a > 1 => a - 1 \in 1 .. Len(wealth)
  BY <1>1, <1>2
<1>4. \A i \in a .. b : i \in 1 .. Len(wealth) /\ wealth'[i] = wealth[i] /\ peaks'[i] = peaks[i]
  <2>1. \A i \in a .. b : i \in 1 .. Len(wealth)
    BY <1>1, <1>2
  <2>2. \A i \in 1 .. Len(wealth) : wealth'[i] = wealth[i] /\ peaks'[i] = peaks[i]
    BY DEF Grown
  <2> QED
    BY <2>1, <2>2
<1>5. Base(a)' = Base(a)
  <2>1. a # 1 => a - 1 \in 1 .. Len(wealth)
    BY <1>1, <1>2
  <2>2. a # 1 => wealth'[a - 1] = wealth[a - 1]
    BY <2>1 DEF Grown
  <2> QED
    BY <2>2 DEF Base
<1>6. a > 1 => wealth'[a - 1] = wealth[a - 1] /\ peaks'[a - 1] = peaks[a - 1]
  BY <1>3 DEF Grown
<1>7. a \in Days' /\ b \in Days'
  BY <1>1, <1>2
<1> QED
  BY <1>4, <1>5, <1>6, <1>7 DEF Falls

-----------------------------------------------------------------------------
(* The iteration at that observation *)

(* What is recorded stays right. *)
LEMMA FitsStay ==
  ASSUME TypeOK, NEW w \in Levels, Grown(w), NEW e, Fits(e)
  PROVE  Fits(e)'
<1>1. Falls(StartOf(e), e.recovery - 1)'
  BY FallsStay DEF Fits
<1>2. e.recovery \in Days' /\ wealth'[e.recovery] = peaks'[e.recovery]
  <2>1. Days = 1 .. Len(wealth) /\ Days' = 1 .. Len(wealth) + 1 /\ Len(wealth) \in Nat
    BY DEF TypeOK, Grown, Days
  <2> QED
    BY <2>1 DEF Fits, Grown
<1> QED
  BY <1>1, <1>2 DEF Fits

LEMMA AccountedType ==
  ASSUME TypeOK, InHand
  PROVE  Accounted \in 0 .. Len(wealth)
  BY DEF TypeOK, InHand, Falls, Days, Accounted

(* No record is added, and no fewer days are accounted for. *)
LEMMA RecordsStay ==
  ASSUME TypeOK, Recorded, Ordered, NEW w \in Levels, Grown(w), episodes' = episodes,
         Accounted \in Nat, Accounted' \in Nat, Accounted <= Accounted'
  PROVE  Recorded' /\ Ordered'
<1>1. ASSUME NEW k \in DOMAIN episodes
      PROVE  Fits(episodes[k])' /\ episodes'[k].recovery <= Accounted'
  <2>1. PICK e : e = episodes[k]
    OBVIOUS
  <2>2. Fits(e) /\ e.recovery <= Accounted
    BY <2>1 DEF Recorded
  <2>3. Fits(e)'
    BY <2>2, FitsStay
  <2>4. e.recovery \in Int
    BY <2>2 DEF Fits, Days, TypeOK
  <2>5. episodes'[k] = e
    BY <2>1
  <2>6. Fits(episodes[k])'
    BY <2>3, <2>5 DEF Fits, Falls, StartOf, Base
  <2> QED
    BY <2>2, <2>4, <2>5, <2>6
<1> QED
  BY <1>1 DEF Recorded, Ordered

(* A day under water leaves the running peak, any other day sets it. *)
LEMMA NewDay ==
  ASSUME TypeOK, NEW w \in Levels, Grown(w)
  PROVE  /\ Len(wealth) \in Nat /\ Days = 1 .. Len(wealth) /\ Days' = 1 .. Len(wealth) + 1
         /\ Underwater(Len(wealth))' => NextPeak(w) = RunningPeak /\ w < RunningPeak
         /\ ~Underwater(Len(wealth))' => NextPeak(w) = w
<1>1. Len(wealth) \in Nat /\ Days = 1 .. Len(wealth) /\ Days' = 1 .. Len(wealth) + 1
  BY DEF TypeOK, Grown, Days
<1>2. Underwater(Len(wealth))' <=> w < NextPeak(w)
  BY DEF Underwater, Grown
<1>3. w \in Int /\ RunningPeak \in Int
  <2>1. Opening \in Int /\ \A l \in Levels : l \in Int
    BY DrawdownAssumption
  <2>2. peaks \in Seq(Nat \ {0})
    BY DEF TypeOK
  <2> QED
    BY <2>1, <2>2 DEF RunningPeak
<1> QED
  BY <1>1, <1>2, <1>3 DEF NextPeak

(* The types of the series after a day, and of what a step leaves. *)
LEMMA TypesGrow ==
  ASSUME TypeOK, NEW w \in Levels, Grown(w), Len(wealth) < MaxObservations,
         inEpisode' \in BOOLEAN, start' \in Indices \cup {0}, peak' \in Indices \cup {None},
         episodes' \in Seq(EpisodeRecords)
  PROVE  TypeOK'
<1>1. Len(wealth) + 1 <= MaxObservations
  BY DrawdownAssumption DEF TypeOK
<1> QED
  BY <1>1 DEF TypeOK, Grown

(* The level a span falls from is the running peak before it. *)
LEMMA SpanBegins ==
  ASSUME TypeOK, InHand, ~inEpisode, NEW w \in Levels, Grown(w), Underwater(Len(wealth))',
         NEW n, n = Len(wealth) + 1
  PROVE  Falls(n, n)'
<1>1. /\ Len(wealth) \in Nat /\ Days' = 1 .. n
      /\ NextPeak(w) = RunningPeak /\ w < RunningPeak
  BY NewDay
<1>2. n > 1 => /\ Len(wealth) \in 1 .. Len(wealth) /\ n - 1 = Len(wealth)
               /\ RunningPeak = peaks[Len(wealth)] /\ wealth[Len(wealth)] = peaks[Len(wealth)]
  BY <1>1 DEF InHand, RunningPeak, TypeOK
<1>3. n > 1 => wealth'[n - 1] = peaks'[n - 1] /\ wealth'[n - 1] = RunningPeak
  BY <1>2 DEF Grown
<1>4. n = 1 => RunningPeak = Opening
  BY <1>1 DEF RunningPeak, TypeOK
<1>5. Base(n)' = RunningPeak
  BY <1>1, <1>3, <1>4 DEF Base
<1>6. wealth'[n] < peaks'[n] /\ peaks'[n] = Base(n)'
  BY <1>1, <1>5 DEF Grown
<1>7. n \in Days' /\ n \in Nat /\ \A i \in n .. n : i = n
  BY <1>1
<1> QED
  BY <1>3, <1>6, <1>7 DEF Falls

(* A span in hand goes on with another day under water. *)
LEMMA SpanGoesOn ==
  ASSUME TypeOK, NEW w \in Levels, Grown(w), Underwater(Len(wealth))',
         NEW a, NEW b, b = Len(wealth), Falls(a, b), NEW n, n = b + 1
  PROVE  Falls(a, n)'
<1>1. /\ b \in Nat /\ Days = 1 .. b /\ Days' = 1 .. n
      /\ NextPeak(w) = RunningPeak /\ w < RunningPeak
  BY NewDay
<1>2. a \in 1 .. b /\ b \in 1 .. b /\ a <= b
  BY <1>1 DEF Falls
<1>3. Falls(a, b)'
  BY FallsStay
<1>4. RunningPeak = peaks[b] /\ peaks[b] = Base(a)
  BY <1>1, <1>2 DEF RunningPeak, Falls, TypeOK
<1>5. wealth'[n] < peaks'[n] /\ peaks'[n] = Base(a)
  BY <1>1, <1>4 DEF Grown
<1>6. Base(a) = Base(a)'
  BY <1>2, <1>3, <1>4, SMTT(30) DEF Falls, Grown
<1>7. \A i \in a .. n : i \in a .. b \/ i = n
  BY <1>1, <1>2
<1> QED
  BY <1>1, <1>2, <1>3, <1>5, <1>6, <1>7 DEF Falls

LEMMA BeginKeeps ==
  ASSUME IInv, NEW w \in Levels, Grown(w), Path', Len(wealth) < MaxObservations, Begin
  PROVE  IInv'
<1> USE DEF IInv
<1>1. /\ Len(wealth) \in Nat /\ Days = 1 .. Len(wealth) /\ Days' = 1 .. Len(wealth) + 1
      /\ Len(wealth') = Len(wealth) + 1 /\ Len(wealth) + 1 \in Indices
  BY NewDay, DrawdownAssumption DEF Grown, Indices
<1>2. PICK n : n = Len(wealth) + 1
  OBVIOUS
<1>3. start' = n /\ inEpisode' = TRUE /\ peak' = PeakBefore(n) /\ episodes' = episodes
  BY <1>1, <1>2 DEF Begin
<1>4. TypeOK'
  <2>1. peak' \in Indices \cup {None}
    BY <1>1, <1>2, <1>3, DrawdownAssumption DEF PeakBefore, Indices
  <2> QED
    BY <1>1, <1>2, <1>3, <2>1, TypesGrow DEF TypeOK
<1>5. InHand'
  <2>1. Falls(n, n)'
    BY <1>2, SpanBegins DEF Begin
  <2> QED
    BY <1>1, <1>2, <1>3, <2>1 DEF InHand, Falls, Base, PeakBefore
<1>6. Accounted = Len(wealth) /\ Accounted' = Len(wealth)
  BY <1>1, <1>2, <1>3 DEF Accounted, Begin
<1>7. Recorded' /\ Ordered'
  BY <1>1, <1>3, <1>6, RecordsStay
<1>8. Covered'
  BY <1>1, <1>3, <1>6 DEF Covered, Underwater, Grown, StartOf
<1> QED
  BY <1>4, <1>5, <1>7, <1>8

LEMMA RemainKeeps ==
  ASSUME IInv, NEW w \in Levels, Grown(w), Path', Len(wealth) < MaxObservations, Remain
  PROVE  IInv'
<1> USE DEF IInv
<1>1. /\ Len(wealth) \in Nat /\ Days = 1 .. Len(wealth) /\ Days' = 1 .. Len(wealth) + 1
      /\ Len(wealth') = Len(wealth) + 1
  BY NewDay DEF Grown
<1>2. inEpisode' = inEpisode /\ start' = start /\ peak' = peak /\ episodes' = episodes
  BY DEF Remain
<1>3. TypeOK'
  BY <1>2, TypesGrow DEF TypeOK
<1>4. CASE inEpisode
  <2>1. PICK a, b, n : a = start /\ b = Len(wealth) /\ n = b + 1
    OBVIOUS
  <2>2. Falls(a, n)'
    BY <1>4, <2>1, SpanGoesOn DEF InHand, Remain
  <2>3. InHand'
    BY <1>1, <1>2, <1>4, <2>1, <2>2 DEF InHand, Falls, Base, PeakBefore
  <2>4. Accounted' = Accounted /\ Accounted \in 0 .. Len(wealth)
    BY <1>2, <1>4, AccountedType DEF Accounted
  <2>5. Recorded' /\ Ordered'
    BY <1>1, <1>2, <2>4, RecordsStay
  <2>6. Covered'
    <3>1. \A i \in 1 .. Accounted : wealth'[i] = wealth[i] /\ peaks'[i] = peaks[i]
      BY <1>1, <2>4 DEF Grown
    <3> QED
      BY <1>2, <2>4, <3>1 DEF Covered, Underwater, StartOf
  <2> QED
    BY <1>3, <2>3, <2>5, <2>6
<1>5. CASE ~inEpisode
  <2>1. ~Underwater(Len(wealth))'
    BY <1>5 DEF Remain
  <2>2. wealth'[Len(wealth')] = peaks'[Len(wealth')]
    BY <1>1, <2>1, NewDay DEF Grown
  <2>3. InHand'
    BY <1>2, <1>5, <2>2 DEF InHand
  <2>4. Accounted = Len(wealth) /\ Accounted' = Len(wealth) + 1
    BY <1>1, <1>2, <1>5 DEF Accounted
  <2>5. Recorded' /\ Ordered'
    BY <1>1, <1>2, <2>4, RecordsStay
  <2>6. \A i \in 1 .. Len(wealth) + 1 : i \in 1 .. Len(wealth) \/ ~(wealth'[i] < peaks'[i])
    BY <1>1, <2>1 DEF Underwater
  <2>7. Covered'
    BY <1>1, <1>2, <2>4, <2>6 DEF Covered, Underwater, Grown, StartOf
  <2> QED
    BY <1>3, <2>3, <2>5, <2>7
<1> QED
  BY <1>4, <1>5 DEF TypeOK

LEMMA DurationType ==
  ASSUME dates' \in Seq(Nat), NEW i \in (1 .. Len(dates')) \cup {None},
         NEW j \in (1 .. Len(dates')) \cup {None}
  PROVE  DurationOf(i, j)' \in MaybeNat
<1>1. CASE i = None \/ j = None
  BY <1>1 DEF DurationOf, MaybeNat
<1>2. CASE i # None /\ j # None
  <2>1. dates'[i] \in Nat /\ dates'[j] \in Nat
    BY <1>2
  <2>2. BusinessDays(i, j)' \in Nat
    BY <2>1, BusinessDaysAreNat DEF BusinessDays
  <2> QED
    BY <1>2, <2>2 DEF DurationOf, MaybeNat
<1> QED
  BY <1>1, <1>2

(* The record of the episode in hand, on the day n of its recovery. *)
LEMMA SegmentFits ==
  ASSUME IInv, NEW w \in Levels, Grown(w), Path', Len(wealth) < MaxObservations, Recover,
         NEW n, n = Len(wealth) + 1, NEW r, r = Segment(start, peak, Len(wealth))'
  PROVE  r \in EpisodeRecords /\ Fits(r)' /\ Told(r)' /\ r.recovery = n /\ StartOf(r) = start
<1> USE DEF IInv
<1>1. /\ Len(wealth) \in Nat /\ Days = 1 .. Len(wealth) /\ Days' = 1 .. n /\ Len(wealth') = n
      /\ n \in Indices /\ n \in Nat /\ n # None
  BY NewDay, DrawdownAssumption DEF Grown, Indices
<1>2. PICK a, b, t : a = start /\ b = Len(wealth) /\ t = r.trough
  OBVIOUS
<1>3. /\ Falls(a, b) /\ peak = PeakBefore(a) /\ start' = a /\ peak' = peak
      /\ a \in 1 .. b /\ b \in 1 .. b /\ a \in Nat /\ b \in Nat
  BY <1>1, <1>2 DEF InHand, Recover, Falls
<1>4. Falls(a, b)'
  BY <1>3, FallsStay
<1>5. wealth'[n] = w /\ peaks'[n] = w /\ w \in Nat \ {0}
  <2>1. peaks'[n] \in Nat \ {0}
    BY <1>1 DEF Grown
  <2> QED
    BY <2>1, NewDay DEF Grown, Recover
<1>6. PICK p : p = Base(a)'
  OBVIOUS
<1>7. p \in Nat \ {0} /\ \A i \in a .. b : wealth'[i] \in Int /\ peaks'[i] = p /\ wealth'[i] < p
  <2>1. \A i \in a .. b : i \in 1 .. n
    BY <1>1, <1>2, <1>3
  <2>2. peaks'[a] \in Nat \ {0}
    BY <1>1, <1>2, <1>3 DEF Grown
  <2>3. \A i \in 1 .. n : wealth'[i] \in Levels
    BY <1>1 DEF Grown
  <2>4. \A i \in a .. b : wealth'[i] \in Int
    BY <2>1, <2>3, DrawdownAssumption
  <2>5. \A i \in a .. b : wealth'[i] < peaks'[i] /\ peaks'[i] = p
    BY <1>4, <1>6 DEF Falls
  <2> QED
    BY <1>3, <2>2, <2>4, <2>5
<1>8. r = [peak |-> peak, trough |-> t, recovery |-> n,
           depth |-> Depth(t)',
           toTrough |-> DurationOf(peak, t)', toRecovery |-> DurationOf(t, n)',
           total |-> DurationOf(peak, n)']
  BY <1>1, <1>2, <1>3 DEF Segment
<1>9. t = Trough(a .. n)'
  BY <1>1, <1>2, <1>3 DEF Segment
<1>10. t = First({i \in a .. n : \A j \in a .. n :
                     ~(wealth'[j] * peaks'[i] < wealth'[i] * peaks'[j])})
  BY <1>9 DEF Trough, Deeper, Depth
<1>11. t \in a .. b /\ \A j \in a .. b : wealth'[t] <= wealth'[j] /\ (j < t => wealth'[t] < wealth'[j])
  <2>1. PICK W, P : W = wealth' /\ P = peaks'
    OBVIOUS
  <2>2. /\ a <= b /\ n \in {b, b + 1}
        /\ \A i \in a .. b : W[i] \in Int /\ P[i] = p /\ W[i] < p
    BY <1>2, <1>3, <1>7, <2>1
  <2>3. n = b + 1 => W[n] \in Nat \ {0} /\ P[n] = W[n]
    BY <1>5, <2>1
  <2>4. PICK T : T = {i \in a .. n : \A j \in a .. n : ~(W[j] * P[i] < W[i] * P[j])}
    OBVIOUS
  <2>5. t = First(T)
    BY <1>10, <2>1, <2>4
  <2>6. \A i : i \in T <=> i \in a .. n /\ \A j \in a .. n : ~(W[j] * P[i] < W[i] * P[j])
    BY <2>4
  <2>7. t \in a .. b /\ \A j \in a .. b : W[t] <= W[j] /\ (j < t => W[t] < W[j])
    BY ONLY <1>3, <1>7, <2>2, <2>3, <2>5, <2>6, TroughOfSpan, ZenonT(120)
  <2> QED
    BY <2>1, <2>7
<1>12. StartOf(r) = a
  <2>1. a > 1 => peak = a - 1 /\ peak # None
    BY <1>3, DrawdownAssumption DEF PeakBefore
  <2>2. a = 1 => peak = None
    BY <1>3 DEF PeakBefore
  <2> QED
    BY <1>3, <1>8, <2>1, <2>2 DEF StartOf
<1>13. Fits(r)'
  <2>1. r.recovery = n /\ r.trough = t
    BY <1>8
  <2>2. n - 1 = b
    BY <1>1, <1>2
  <2> QED
    BY <1>1, <1>4, <1>5, <1>11, <1>12, <2>1, <2>2 DEF Fits, StartOf, Falls, Base
<1>14. r \in EpisodeRecords
  <2>1. t \in 1 .. n /\ t \in Indices
    BY <1>1, <1>2, <1>3, <1>11, DrawdownAssumption DEF Indices
  <2>2. Depth(t)' = [wealth |-> wealth'[t], peak |-> peaks'[t]]
    BY DEF Depth
  <2>3. wealth'[t] \in Levels /\ peaks'[t] \in Nat \ {0}
    BY <1>1, <2>1 DEF Grown
  <2>4. peak \in (1 .. n) \cup {None} /\ peak \in Indices \cup {None}
    BY <1>1, <1>2, <1>3 DEF PeakBefore, TypeOK
  <2>5. Len(dates') = n /\ dates' \in Seq(Nat)
    BY <1>1 DEF Grown
  <2>6. /\ DurationOf(peak, t)' \in MaybeNat /\ DurationOf(t, n)' \in MaybeNat
        /\ DurationOf(peak, n)' \in MaybeNat
    <3>1. PICK q : q = peak
      OBVIOUS
    <3>2. peak' = q
      BY <1>3, <3>1
    <3>3. q \in (1 .. Len(dates')) \cup {None} /\ t \in 1 .. Len(dates') /\ n \in 1 .. Len(dates')
      BY <1>1, <2>1, <2>4, <2>5, <3>1
    <3>4. /\ DurationOf(q, t)' \in MaybeNat /\ DurationOf(t, n)' \in MaybeNat
          /\ DurationOf(q, n)' \in MaybeNat
      BY <2>5, <3>3, DurationType
    <3> QED
      BY <3>1, <3>2, <3>4 DEF DurationOf, BusinessDays
  <2> QED
    BY <1>1, <1>8, <2>1, <2>2, <2>3, <2>4, <2>6 DEF EpisodeRecords
<1>15. Told(r)'
  <2>1. PICK q : q = peak
    OBVIOUS
  <2>2. peak' = q
    BY <1>3, <2>1
  <2>3. /\ r.peak = q /\ r.trough = t /\ r.recovery = n /\ n # None /\ r.depth = Depth(t)'
        /\ r.toTrough = DurationOf(q, t)' /\ r.toRecovery = DurationOf(t, n)'
        /\ r.total = DurationOf(q, n)'
    BY <1>1, <1>8, <2>1, <2>2 DEF DurationOf, BusinessDays
  <2>4. StartOf(r)' = a /\ LastOf(r)' = b
    BY <1>1, <1>2, <1>12, <2>3 DEF StartOf, LastOf
  <2>5. Lowest(t, a, b)'
    BY <1>11 DEF Lowest
  <2>6. Lowest(r.trough, StartOf(r), LastOf(r))'
    BY <2>3, <2>4, <2>5 DEF Lowest
  <2> QED
    BY <2>3, <2>6 DEF Told, DurationOf, BusinessDays, Depth
<1> QED
  BY <1>2, <1>8, <1>12, <1>13, <1>14, <1>15

LEMMA RecoverKeeps ==
  ASSUME IInv, NEW w \in Levels, Grown(w), Path', Len(wealth) < MaxObservations, Recover
  PROVE  IInv'
<1> USE DEF IInv
<1>1. PICK n, a, m, r : /\ n = Len(wealth) + 1 /\ a = start /\ m = Len(episodes)
                        /\ r = Segment(start, peak, Len(wealth))'
  OBVIOUS
<1>2. /\ Len(wealth) \in Nat /\ Days = 1 .. Len(wealth) /\ Days' = 1 .. n /\ Len(wealth') = n
      /\ a \in 1 .. Len(wealth) /\ a \in Nat
      /\ m \in Nat /\ DOMAIN episodes = 1 .. m
  BY <1>1, NewDay, SMTT(30) DEF Grown, InHand, Recover, Falls, TypeOK
<1>3. r \in EpisodeRecords /\ Fits(r)' /\ r.recovery = n /\ StartOf(r) = a
  BY <1>1, SegmentFits
<1>4. inEpisode' = FALSE /\ start' = start /\ peak' = peak /\ episodes' = Append(episodes, r)
  BY <1>1 DEF Recover
<1>5. /\ DOMAIN episodes' = 1 .. m + 1 /\ episodes'[m + 1] = r
      /\ \A k \in 1 .. m : episodes'[k] = episodes[k]
  BY <1>1, <1>2, <1>4 DEF TypeOK
<1>6. TypeOK'
  <2>1. episodes' \in Seq(EpisodeRecords)
    BY <1>3, <1>4 DEF TypeOK
  <2>2. inEpisode' \in BOOLEAN /\ start' \in Indices \cup {0} /\ peak' \in Indices \cup {None}
    BY <1>4 DEF TypeOK
  <2> QED
    BY ONLY IInv, Grown(w), Len(wealth) < MaxObservations, <2>1, <2>2, TypesGrow DEF IInv
<1>7. wealth'[n] = peaks'[n] /\ ~(wealth'[n] < peaks'[n])
  <2>1. wealth'[n] = peaks'[n]
    BY <1>1, NewDay DEF Grown, Recover
  <2>2. peaks'[n] \in Nat
    BY <1>1, <1>2 DEF Grown
  <2> QED
    BY <2>1, <2>2
<1>8. InHand'
  BY <1>2, <1>4, <1>7 DEF InHand
<1>9. Accounted = a - 1 /\ Accounted' = n
  BY <1>1, <1>2, <1>4 DEF Accounted, Recover
<1>10. ASSUME NEW k \in 1 .. m
       PROVE  Fits(episodes[k])' /\ episodes'[k].recovery <= a - 1 /\ episodes'[k].recovery \in Nat
  <2>1. PICK e : e = episodes[k]
    OBVIOUS
  <2>2. Fits(e) /\ e.recovery <= a - 1 /\ e.recovery \in Nat
    BY <1>2, <1>9, <2>1 DEF Recorded, Fits
  <2>3. Fits(e)'
    BY <2>2, FitsStay
  <2>4. episodes'[k] = e
    BY <1>5, <2>1
  <2>5. Fits(episodes[k])'
    BY <2>3, <2>4 DEF Fits, Falls, StartOf, Base
  <2> QED
    BY <2>2, <2>4, <2>5
<1>11. Recorded'
  <2>1. \A k \in DOMAIN episodes' : k \in 1 .. m \/ k = m + 1
    BY <1>2, <1>5
  <2>2. Fits(episodes[m + 1])'
    BY <1>3, <1>5 DEF Fits, Falls, StartOf, Base
  <2>3. episodes'[m + 1].recovery <= n /\ \A k \in 1 .. m : episodes'[k].recovery <= n
    BY <1>1, <1>2, <1>3, <1>5, <1>10
  <2> QED
    BY <1>9, <1>10, <2>1, <2>2, <2>3 DEF Recorded
<1>12. Ordered'
  <2>1. \A k, l \in 1 .. m : k < l => episodes'[k].recovery < StartOf(episodes'[l])
    BY <1>2, <1>5 DEF Ordered, StartOf
  <2>2. \A k \in 1 .. m : episodes'[k].recovery < StartOf(episodes'[m + 1])
    BY <1>2, <1>3, <1>5, <1>10 DEF StartOf
  <2>3. \A k, l \in 1 .. m + 1 : k < l => k \in 1 .. m /\ (l \in 1 .. m \/ l = m + 1)
    BY <1>2
  <2> QED
    BY <1>5, <2>1, <2>2, <2>3 DEF Ordered, StartOf
<1>13. Covered'
  <2>1. ASSUME NEW i \in 1 .. n, wealth'[i] < peaks'[i]
        PROVE  \E k \in 1 .. m + 1 : i \in StartOf(episodes'[k]) .. episodes'[k].recovery - 1
    <3>1. CASE i \in 1 .. a - 1
      <4>1. wealth[i] < peaks[i]
        <5>1. i \in 1 .. Len(wealth)
          BY <1>2, <3>1
        <5>2. wealth'[i] = wealth[i] /\ peaks'[i] = peaks[i]
          BY <5>1 DEF Grown
        <5> QED
          BY <2>1, <5>2
      <4>2. PICK k \in 1 .. m : i \in StartOf(episodes[k]) .. episodes[k].recovery - 1
        BY <1>2, <1>9, <3>1, <4>1 DEF Covered, Underwater
      <4>3. k \in 1 .. m + 1 /\ episodes'[k] = episodes[k]
        BY <1>2, <1>5
      <4> QED
        BY <4>2, <4>3
    <3>2. CASE i \in a .. n - 1
      <4>1. m + 1 \in 1 .. m + 1 /\ i \in StartOf(episodes'[m + 1]) .. episodes'[m + 1].recovery - 1
        BY <1>2, <1>3, <1>5, <3>2
      <4> QED
        BY <4>1
    <3>3. i # n
      BY <1>7, <2>1
    <3> QED
      BY <1>1, <1>2, <3>1, <3>2, <3>3
  <2> QED
    BY <1>5, <1>9, <2>1 DEF Covered, Underwater, StartOf
<1> QED
  BY <1>6, <1>8, <1>11, <1>12, <1>13

LEMMA InitHolds == Init => IInv
<1> SUFFICES ASSUME Init
             PROVE  IInv
  OBVIOUS
<1>1. TypeOK
  <2>1. Len(wealth) = 0 /\ Len(dates) = 0 /\ Len(peaks) = 0
    BY DEF Init
  <2>2. wealth \in Seq(Levels) /\ dates \in Seq(Nat) /\ peaks \in Seq(Nat \ {0})
    BY DEF Init
  <2>3. episodes \in Seq(EpisodeRecords)
    BY DEF Init
  <2>4. inEpisode \in BOOLEAN /\ start \in Indices \cup {0} /\ peak \in Indices \cup {None}
    BY DEF Init
  <2>5. 0 <= MaxObservations
    BY DrawdownAssumption
  <2> QED
    BY <2>1, <2>2, <2>3, <2>4, <2>5 DEF TypeOK
<1>2. Days = {} /\ DOMAIN episodes = {} /\ Accounted = 0 /\ ~(Len(wealth) > 0)
  BY DEF Init, Days, Accounted
<1> QED
  BY <1>1, <1>2 DEF Init, IInv, Path, InHand, Recorded, Ordered, Covered

LEMMA StepKeeps == IInv /\ [Observe]_vars => IInv'
<1> SUFFICES ASSUME IInv, [Observe]_vars
             PROVE  IInv'
  OBVIOUS
<1>1. CASE Observe
  <2>1. PICK w \in Levels, gap \in Gaps : Supply(w, gap)
    BY <1>1 DEF Observe
  <2>2. Grown(w) /\ Path'
    BY <2>1, SupplyGrows, PathGrows DEF IInv
  <2>3. Len(wealth) < MaxObservations
    BY <1>1 DEF Observe
  <2> QED
    BY <1>1, <2>2, <2>3, BeginKeeps, RecoverKeeps, RemainKeeps DEF Observe
<1>2. CASE UNCHANGED vars
  BY <1>2 DEF vars, IInv, TypeOK, Path, InHand, Recorded, Ordered, Covered, Accounted, Days,
              Falls, Fits, Base, StartOf, PeakBefore, Underwater
<1> QED
  BY <1>1, <1>2

(* IInv is an invariant of every period (build_episodes_from_values). *)
THEOREM Inductive == Spec => []IInv
  BY InitHolds, StepKeeps, PTL DEF Spec

(* The variables of the loop have their types, whatever the observations. *)
THEOREM TypeCorrect == Spec => []TypeOK
<1>1. IInv => TypeOK
  BY DEF IInv
<1> QED
  BY <1>1, Inductive, PTL

-----------------------------------------------------------------------------
(* What the function returns *)

(* The episode in hand, as the last of Episodes. *)
LEMMA OpenEpisode ==
  ASSUME IInv, inEpisode, NEW r, r = Segment(start, peak, None)
  PROVE  /\ r.peak = peak /\ r.recovery = None /\ StartOf(r) = start
         /\ r.trough \in start .. Len(wealth) /\ Told(r)
<1> USE DEF IInv
<1>1. PICK a, b, t, p, W, P : /\ a = start /\ b = Len(wealth) /\ t = r.trough /\ p = Base(start)
                              /\ W = wealth /\ P = peaks
  OBVIOUS
<1>2. /\ Falls(a, b) /\ peak = PeakBefore(a)
      /\ a \in 1 .. b /\ a \in Nat /\ b \in Nat /\ a <= b
  BY <1>1 DEF InHand, Falls, TypeOK, Days
<1>3. r = [peak |-> peak, trough |-> Trough(a .. b), recovery |-> None,
           depth |-> Depth(Trough(a .. b)),
           toTrough |-> DurationOf(peak, Trough(a .. b)),
           toRecovery |-> DurationOf(Trough(a .. b), None),
           total |-> DurationOf(peak, b)]
  BY <1>1 DEF Segment
<1>4. \A i \in a .. b : i \in 1 .. b /\ P[i] = p /\ W[i] < p
  BY <1>1, <1>2 DEF Falls
<1>5. p \in Nat \ {0} /\ \A i \in a .. b : W[i] \in Int
  <2>1. wealth \in Seq(Levels) /\ peaks \in Seq(Nat \ {0}) /\ Len(peaks) = b /\ Len(wealth) = b
    BY <1>1 DEF TypeOK
  <2>2. P[a] \in Nat \ {0} /\ \A i \in 1 .. b : W[i] \in Levels
    BY <1>1, <1>2, <2>1
  <2>3. \A l \in Levels : l \in Int
    BY DrawdownAssumption
  <2> QED
    BY <1>2, <1>4, <2>2, <2>3
<1>6. t \in a .. b /\ \A j \in a .. b : W[t] <= W[j] /\ (j < t => W[t] < W[j])
  <2>1. PICK T : T = {i \in a .. b : \A j \in a .. b : ~(W[j] * P[i] < W[i] * P[j])}
    OBVIOUS
  <2>2. t = First(T)
    BY <1>1, <1>3, <2>1 DEF Trough, Deeper, Depth
  <2>3. \A i : i \in T <=> i \in a .. b /\ \A j \in a .. b : ~(W[j] * P[i] < W[i] * P[j])
    BY <2>1
  <2>4. b \in {b, b + 1} /\ (b = b + 1 => W[b] \in Nat \ {0} /\ P[b] = W[b])
    BY <1>2
  <2> QED
    BY ONLY <1>2, <1>4, <1>5, <2>2, <2>3, <2>4, TroughOfSpan, ZenonT(60)
<1>7. StartOf(r) = a
  BY <1>2, <1>3, DrawdownAssumption DEF StartOf, PeakBefore
<1>8. LastOf(r) = b /\ r.recovery = None /\ r.trough = t
  BY <1>1, <1>3 DEF LastOf
<1>9. Lowest(r.trough, StartOf(r), LastOf(r))
  BY <1>1, <1>6, <1>7, <1>8 DEF Lowest
<1>10. Told(r)
  BY <1>1, <1>3, <1>8, <1>9 DEF Told
<1> QED
  BY <1>1, <1>3, <1>6, <1>7, <1>10

(* Every episode, recorded or in hand, is a span that falls from its peak. *)
LEMMA EveryEpisode ==
  ASSUME IInv, NEW k \in Listing, NEW e, e = Episodes[k]
  PROVE  \E a, b : /\ a = StartOf(e) /\ SpanOf(e) = a .. b /\ Falls(a, b)
                   /\ e.trough \in a .. b /\ (e.peak = None \/ e.peak \in Indices)
<1> USE DEF IInv
<1>1. PICK m : m = Len(episodes)
  OBVIOUS
<1>2. m \in Nat /\ DOMAIN episodes = 1 .. m /\ \A j \in 1 .. m : episodes[j] \in EpisodeRecords
  BY <1>1 DEF TypeOK
<1>3. CASE k \in 1 .. m /\ e = episodes[k]
  <2>1. Fits(e) /\ e \in EpisodeRecords
    BY <1>2, <1>3 DEF Recorded
  <2>2. e.recovery # None /\ e.peak \in Indices \cup {None}
    BY <2>1, DrawdownAssumption, SMTT(30) DEF Fits, Days, EpisodeRecords, TypeOK
  <2>3. SpanOf(e) = StartOf(e) .. e.recovery - 1
    BY <2>2 DEF SpanOf, StartOf
  <2> QED
    BY <2>1, <2>2, <2>3 DEF Fits
<1>4. CASE inEpisode /\ e = Segment(start, peak, None)
  <2>1. e.peak = peak /\ e.recovery = None /\ StartOf(e) = start /\ e.trough \in start .. Len(wealth)
    BY <1>4, OpenEpisode
  <2>2. SpanOf(e) = start .. Len(wealth)
    BY <2>1 DEF SpanOf, StartOf
  <2>3. Falls(start, Len(wealth)) /\ peak \in Indices \cup {None}
    BY <1>4 DEF InHand, TypeOK
  <2> QED
    BY <2>1, <2>2, <2>3
<1> QED
  BY <1>1, <1>2, <1>3, <1>4 DEF Listing, Episodes

(* An episode falls only after the one before it has recovered. *)
LEMMA EpisodesInOrder ==
  ASSUME IInv, NEW k \in Listing, NEW l \in Listing, k < l
  PROVE  /\ Episodes[k].recovery # None /\ Episodes[l].peak # None
         /\ Episodes[l].peak >= Episodes[k].recovery
<1> USE DEF IInv
<1>1. PICK m, n, c, s, q : /\ m = Len(episodes) /\ n = Len(wealth) /\ c = Episodes[k].recovery
                           /\ s = StartOf(Episodes[l]) /\ q = Episodes[l].peak
  OBVIOUS
<1>2. m \in Nat /\ n \in Nat /\ DOMAIN episodes = 1 .. m /\ Days = 1 .. n
  BY <1>1 DEF TypeOK, Days
<1>3. /\ Listing = IF inEpisode THEN 1 .. m + 1 ELSE 1 .. m
      /\ \A j \in 1 .. m : Episodes[j] = episodes[j]
      /\ inEpisode => Episodes[m + 1] = Segment(start, peak, None)
  BY <1>1, <1>2 DEF Listing, Episodes, TypeOK
<1>4. k \in 1 .. m /\ (l \in 1 .. m \/ (l = m + 1 /\ inEpisode))
  BY <1>2, <1>3
<1>5. c \in 1 .. n /\ c <= Accounted /\ Accounted \in Nat
  BY <1>1, <1>2, <1>3, <1>4, AccountedType DEF Recorded, Fits
<1>6. c # None
  BY <1>5, DrawdownAssumption
<1>7. c < s
  <2>1. CASE l \in 1 .. m
    BY <1>1, <1>2, <1>3, <1>4, <2>1 DEF Ordered
  <2>2. CASE l = m + 1 /\ inEpisode
    <3>1. s = start /\ Accounted = start - 1 /\ start \in Nat
      BY <1>1, <1>2, <1>3, <2>2, OpenEpisode DEF Accounted, InHand, Falls
    <3> QED
      BY <1>5, <3>1
  <2> QED
    BY <1>4, <2>1, <2>2
<1>8. q = None \/ q \in Indices
  BY <1>1, EveryEpisode
<1>9. s = IF q = None THEN 1 ELSE q + 1
  BY <1>1 DEF StartOf
<1> QED
  BY <1>1, <1>5, <1>6, <1>7, <1>8, <1>9 DEF Indices

LEMMA Covers == IInv => EpisodesCoverLosses
<1> SUFFICES ASSUME IInv
             PROVE  EpisodesCoverLosses
  OBVIOUS
<1> USE DEF IInv
<1>1. PICK m, n : m = Len(episodes) /\ n = Len(wealth)
  OBVIOUS
<1>2. /\ m \in Nat /\ n \in Nat /\ DOMAIN episodes = 1 .. m /\ Days = 1 .. n
      /\ \A j \in 1 .. m : episodes[j] \in EpisodeRecords
  BY <1>1 DEF TypeOK, Days
<1>3. /\ Listing = IF inEpisode THEN 1 .. m + 1 ELSE 1 .. m
      /\ \A j \in 1 .. m : Episodes[j] = episodes[j]
      /\ inEpisode => Episodes[m + 1] = Segment(start, peak, None)
  BY <1>1, <1>2 DEF Listing, Episodes, TypeOK
<1>4. \A j \in 1 .. m : /\ j \in Listing
                        /\ episodes[j].recovery # None /\ episodes[j].recovery \in 1 .. n
                        /\ SpanOf(episodes[j]) = StartOf(episodes[j]) .. episodes[j].recovery - 1
  <2> TAKE j \in 1 .. m
  <2>1. j \in Listing
    BY <1>2, <1>3
  <2>2. episodes[j].recovery # None /\ episodes[j].recovery \in 1 .. n
    BY <1>2, DrawdownAssumption DEF Recorded, Fits
  <2> QED
    BY <2>1, <2>2 DEF SpanOf, StartOf
<1>5. inEpisode => /\ m + 1 \in Listing /\ start \in 1 .. n
                   /\ StartOf(Episodes[m + 1]) = start
                   /\ SpanOf(Episodes[m + 1]) = start .. n
  <2> SUFFICES ASSUME inEpisode
               PROVE  /\ m + 1 \in Listing /\ start \in 1 .. n
                      /\ StartOf(Episodes[m + 1]) = start
                      /\ SpanOf(Episodes[m + 1]) = start .. n
    OBVIOUS
  <2>1. PICK r : r = Segment(start, peak, None)
    OBVIOUS
  <2>2. r.peak = peak /\ r.recovery = None /\ StartOf(r) = start
    BY <2>1, OpenEpisode
  <2>3. SpanOf(r) = start .. n
    BY <1>1, <2>2 DEF SpanOf, StartOf
  <2> QED
    BY <1>2, <1>3, <2>1, <2>2, <2>3 DEF InHand, Falls
<1>6. ASSUME NEW i \in Days, Underwater(i)
      PROVE  \E k \in Listing : i \in SpanOf(Episodes[k])
  <2>1. CASE i \in 1 .. Accounted
    BY <1>2, <1>3, <1>4, <1>6, <2>1 DEF Covered
  <2>2. CASE i \notin 1 .. Accounted
    BY <1>1, <1>2, <1>5, <2>2 DEF Accounted
  <2> QED
    BY <2>1, <2>2
<1>7. ASSUME NEW k \in Listing, NEW i \in SpanOf(Episodes[k])
      PROVE  i \in Days /\ Underwater(i)
  <2>1. PICK a, b : SpanOf(Episodes[k]) = a .. b /\ Falls(a, b)
    BY EveryEpisode
  <2> QED
    BY <1>2, <2>1 DEF Falls, Underwater
<1>8. ASSUME NEW k \in Listing, NEW l \in Listing, k < l
      PROVE  /\ Episodes[k].recovery # None
             /\ Episodes[l].peak >= Episodes[k].recovery
  BY <1>8, EpisodesInOrder
<1> QED
  BY <1>6, <1>7, <1>8 DEF EpisodesCoverLosses

LEMMA Highest == IInv => PeaksAreHighest
<1> SUFFICES ASSUME IInv, NEW k \in Listing, NEW e, e = Episodes[k]
             PROVE  IF e.peak = None
                      THEN \A i \in 1 .. e.trough : wealth[i] < Opening
                      ELSE /\ wealth[e.peak] >= Opening
                           /\ \A i \in 1 .. e.trough : wealth[i] <= wealth[e.peak]
  BY DEF PeaksAreHighest
<1>1. PICK a, b : /\ a = StartOf(e) /\ Falls(a, b)
                  /\ e.trough \in a .. b /\ (e.peak = None \/ e.peak \in Indices)
  BY EveryEpisode
<1>2. Days = 1 .. Len(wealth) /\ Len(wealth) \in Nat /\ a \in Days /\ b \in Days
  BY <1>1 DEF IInv, TypeOK, Days, Falls
<1>3. \A i \in Days : wealth[i] \in Int /\ peaks[i] \in Int
  <2>1. /\ wealth \in Seq(Levels) /\ peaks \in Seq(Nat \ {0}) /\ Len(peaks) = Len(wealth)
    BY DEF IInv, TypeOK
  <2>2. \A i \in Days : wealth[i] \in Levels /\ peaks[i] \in Nat
    BY <1>2, <2>1
  <2>3. \A l \in Levels : l \in Int
    BY DrawdownAssumption
  <2> QED
    BY <2>2, <2>3
<1>4. CASE e.peak = None
  BY <1>1, <1>2, <1>4 DEF StartOf, Falls, Base
<1>5. CASE e.peak # None
  <2>1. a = e.peak + 1 /\ e.peak \in Nat \ {0} /\ e.peak \in Days /\ a - 1 = e.peak /\ a > 1
    BY <1>1, <1>2, <1>5 DEF StartOf, Indices
  <2>2. wealth[e.peak] = peaks[e.peak] /\ Base(a) = wealth[e.peak]
    BY <1>1, <2>1 DEF Falls, Base
  <2>3. wealth[e.peak] >= Opening
    BY <1>3, <2>1, <2>2, DrawdownAssumption DEF IInv, Path
  <2>4. ASSUME NEW i \in 1 .. e.trough
        PROVE  wealth[i] <= wealth[e.peak]
    <3>1. i \in Days /\ (i <= e.peak \/ i \in a .. b)
      BY <1>1, <1>2, <2>1
    <3>2. CASE i <= e.peak
      <4>1. wealth[i] <= peaks[i] /\ peaks[i] <= peaks[e.peak]
        BY <2>1, <3>1, <3>2 DEF IInv, Path
      <4> QED
        BY <1>3, <2>1, <2>2, <3>1, <4>1
    <3>3. CASE i \in a .. b
      <4>1. wealth[i] < wealth[e.peak]
        BY <1>1, <2>2, <3>3 DEF Falls
      <4> QED
        BY <1>3, <2>1, <3>1, <4>1
    <3> QED
      BY <3>1, <3>2, <3>3
  <2> QED
    BY <1>5, <2>3, <2>4
<1> QED
  BY <1>4, <1>5

(* The episodes that build_episodes_from_values returns for a period of any
   length tell exactly the days below the running peak, in order. *)
THEOREM LossesCovered == Spec => []EpisodesCoverLosses
  BY Covers, Inductive, PTL

(* The peak date that _episode_peak_date names is the highest day so far, for
   every path of wealth. *)
THEOREM PeaksHighest == Spec => []PeaksAreHighest
  BY Highest, Inductive, PTL

-----------------------------------------------------------------------------
(* What the records tell *)

LEMMA DatesGrow ==
  ASSUME TypeOK, Dated, NEW w \in Levels, NEW gap \in Gaps, Supply(w, gap)
  PROVE  Dated' /\ \A i \in Days : dates'[i] = dates[i]
<1>1. PICK n, last : n = Len(wealth) /\ last = LastDate
  OBVIOUS
<1>2. /\ dates \in Seq(Nat) /\ Len(dates) = n /\ n \in Nat
      /\ Days = 1 .. n /\ gap \in Nat /\ dates' = Append(dates, last + gap)
  BY <1>1, DrawdownAssumption DEF TypeOK, Days, Supply
<1>3. Days' = 1 .. n + 1
  BY <1>1, NewDay, SupplyGrows
<1>4. last \in Nat /\ \A i \in 1 .. n : dates[i] <= last
  <2>1. CASE n = 0
    BY <1>1, <1>2, <2>1, DrawdownAssumption DEF LastDate
  <2>2. CASE n # 0
    BY <1>1, <1>2, <2>2 DEF LastDate, Dated
  <2> QED
    BY <2>1, <2>2
<1>5. last + gap \in Nat /\ \A i \in 1 .. n : dates[i] \in Nat /\ dates[i] <= last + gap
  BY <1>2, <1>4
<1>6. dates'[n + 1] = last + gap /\ \A i \in 1 .. n : dates'[i] = dates[i]
  BY <1>2, <1>5
<1>7. ASSUME NEW i \in 1 .. n + 1, NEW j \in 1 .. n + 1, i <= j
      PROVE  dates'[i] <= dates'[j]
  <2>1. CASE j \in 1 .. n
    BY <1>2, <1>6, <1>7, <2>1 DEF Dated
  <2>2. CASE j = n + 1
    <3>1. i \in 1 .. n \/ i = n + 1
      BY <1>2
    <3> QED
      BY <1>5, <1>6, <2>2, <3>1
  <2> QED
    BY <1>2, <2>1, <2>2
<1> QED
  BY <1>2, <1>3, <1>6, <1>7 DEF Dated

(* The days that a record names. *)
LEMMA RecordedDays ==
  ASSUME TypeOK, NEW e \in EpisodeRecords, Fits(e)
  PROVE  /\ Len(wealth) \in Nat /\ Days = 1 .. Len(wealth)
         /\ e.recovery \in Days /\ e.recovery # None /\ e.trough \in Days /\ e.trough # None
         /\ e.trough \in StartOf(e) .. e.recovery - 1
         /\ StartOf(e) \in Days /\ e.recovery - 1 \in Days
         /\ e.peak = None \/ e.peak \in Days
<1>1. Len(wealth) \in Nat /\ Days = 1 .. Len(wealth)
  BY DEF TypeOK, Days
<1>2. PICK a, r, t, p : a = StartOf(e) /\ r = e.recovery /\ t = e.trough /\ p = e.peak
  OBVIOUS
<1>3. r \in Days /\ a \in Days /\ r - 1 \in Days /\ t \in a .. r - 1
  BY <1>2 DEF Fits, Falls
<1>4. t \in Days
  BY <1>1, <1>3
<1>5. p = None \/ p \in Nat \ {0}
  BY <1>2 DEF EpisodeRecords, Indices
<1>6. p = None \/ p + 1 = a
  BY <1>2 DEF StartOf
<1>7. p = None \/ p \in Days
  BY <1>1, <1>3, <1>5, <1>6
<1>8. r # None /\ t # None
  BY <1>1, <1>3, <1>4, DrawdownAssumption
<1> QED
  BY <1>1, <1>2, <1>3, <1>4, <1>7, <1>8

LEMMA ToldStays ==
  ASSUME TypeOK, NEW w \in Levels, Grown(w), \A i \in Days : dates'[i] = dates[i],
         NEW e \in EpisodeRecords, Fits(e), Told(e)
  PROVE  Told(e)'
<1>1. PICK a, b : a = StartOf(e) /\ b = e.recovery - 1
  OBVIOUS
<1>2. /\ Len(wealth) \in Nat /\ Days = 1 .. Len(wealth)
      /\ e.recovery \in Days /\ e.recovery # None /\ e.trough \in Days /\ e.trough # None
      /\ a \in Days /\ b \in Days
      /\ e.peak = None \/ e.peak \in Days
  BY <1>1, RecordedDays
<1>3. \A i \in Days : wealth'[i] = wealth[i] /\ peaks'[i] = peaks[i]
  BY <1>2 DEF Grown
<1>4. Lowest(e.trough, a, b)'
  <2>1. \A i \in a .. b : i \in Days
    BY <1>2
  <2>2. Lowest(e.trough, a, b)
    BY <1>1, <1>2 DEF Told, LastOf
  <2> QED
    BY <1>2, <1>3, <2>1, <2>2 DEF Lowest
<1>5. Depth(e.trough)' = Depth(e.trough)
  BY <1>2, <1>3 DEF Depth
<1>6. ASSUME NEW i \in Days \cup {None}, NEW j \in Days \cup {None}
      PROVE  DurationOf(i, j)' = DurationOf(i, j)
  BY DEF DurationOf, BusinessDays
<1>7. /\ DurationOf(e.peak, e.trough)' = DurationOf(e.peak, e.trough)
      /\ DurationOf(e.trough, e.recovery)' = DurationOf(e.trough, e.recovery)
      /\ DurationOf(e.peak, e.recovery)' = DurationOf(e.peak, e.recovery)
  BY <1>2, <1>6
<1>8. Lowest(e.trough, StartOf(e), LastOf(e))'
  BY <1>1, <1>2, <1>4 DEF StartOf, LastOf, Lowest
<1> QED
  BY <1>2, <1>5, <1>7, <1>8 DEF Told

LEMMA StoryStep == IInv /\ Story /\ [Observe]_vars => Story'
<1> SUFFICES ASSUME IInv, Story, [Observe]_vars
             PROVE  Story'
  OBVIOUS
<1>1. CASE Observe
  <2>1. PICK w \in Levels, gap \in Gaps : Supply(w, gap)
    BY <1>1 DEF Observe
  <2>2. TypeOK /\ Grown(w) /\ Path' /\ Len(wealth) < MaxObservations
    BY <1>1, <2>1, SupplyGrows, PathGrows DEF IInv, Observe
  <2>3. Dated' /\ \A i \in Days : dates'[i] = dates[i]
    BY <2>1, <2>2, DatesGrow DEF Story
  <2>4. ASSUME NEW k, NEW e, e = episodes'[k], Told(e)'
        PROVE  Told(episodes[k])'
    BY <2>4 DEF Told, Lowest, StartOf, LastOf, Depth, DurationOf, BusinessDays
  <2>5. ASSUME NEW k \in DOMAIN episodes, NEW e, e = episodes[k]
        PROVE  Told(e)'
    <3>1. e \in EpisodeRecords /\ Fits(e) /\ Told(e)
      BY <2>2, <2>5 DEF TypeOK, IInv, Recorded, Story
    <3> QED
      BY <2>2, <2>3, <3>1, ToldStays
  <2>6. CASE Begin \/ Remain
    <3>1. episodes' = episodes
      BY <2>6 DEF Begin, Remain
    <3> QED
      BY <2>3, <2>4, <2>5, <3>1 DEF Story
  <2>7. CASE Recover
    <3>1. PICK n, m, r : /\ n = Len(wealth) + 1 /\ m = Len(episodes)
                         /\ r = Segment(start, peak, Len(wealth))'
      OBVIOUS
    <3>2. r \in EpisodeRecords /\ Told(r)'
      BY <2>2, <2>7, <3>1, SegmentFits
    <3>3. episodes' = Append(episodes, r)
      BY <2>7, <3>1 DEF Recover
    <3>4. /\ m \in Nat /\ DOMAIN episodes = 1 .. m /\ DOMAIN episodes' = 1 .. m + 1
          /\ episodes'[m + 1] = r /\ \A k \in 1 .. m : episodes'[k] = episodes[k]
      BY <2>2, <3>1, <3>2, <3>3 DEF TypeOK
    <3>5. ASSUME NEW k \in 1 .. m + 1
          PROVE  Told(episodes[k])'
      <4>1. CASE k \in 1 .. m
        BY <2>4, <2>5, <3>4, <4>1
      <4>2. CASE k = m + 1
        BY <2>4, <3>2, <3>4, <4>2
      <4> QED
        BY <3>4, <4>1, <4>2
    <3> QED
      BY <2>3, <3>4, <3>5 DEF Story
  <2> QED
    BY <1>1, <2>6, <2>7 DEF Observe
<1>2. CASE UNCHANGED vars
  BY <1>2, ZenonT(60) DEF vars, Story, Dated, Told, Lowest, LastOf, StartOf, Depth, DurationOf, BusinessDays, Days
<1> QED
  BY <1>1, <1>2

(* Story is an invariant too: a record stays true of the days it tells of. *)
LEMMA Stories == Spec => [](IInv /\ Story)
<1>1. Init => Story
  BY DEF Init, Story, Dated, Days
<1> QED
  BY <1>1, InitHolds, StepKeeps, StoryStep, PTL DEF Spec

-----------------------------------------------------------------------------
(* Depths are ordered *)

Depths == [wealth : Int, peak : Nat \ {0}]

LEMMA AtMostAtPeak ==
  ASSUME NEW x \in Int, NEW y \in Int, NEW p \in Nat \ {0}
  PROVE  x * p <= y * p <=> x <= y
  OBVIOUS

LEMMA CrossProducts ==
  ASSUME NEW u \in Int, NEW v \in Int, NEW w \in Int,
         NEW p \in Nat \ {0}, NEW q \in Nat \ {0}, NEW r \in Nat \ {0},
         u * q <= v * p, v * r <= w * q
  PROVE  u * r <= w * p
<1>1. (u * q) * r <= (v * p) * r
  BY AtMostAtPeak
<1>2. (v * r) * p <= (w * q) * p
  BY AtMostAtPeak
<1>3. (v * p) * r = (v * r) * p /\ (u * q) * r = (u * r) * q /\ (w * q) * p = (w * p) * q
  OBVIOUS
<1>4. (u * r) * q <= (w * p) * q
  BY <1>1, <1>2, <1>3
<1>5. u * r \in Int /\ w * p \in Int
  OBVIOUS
<1> QED
  BY <1>4, <1>5, AtMostAtPeak

(* Of depths, one is not deeper than another is a total order. *)
LEMMA DeeperOrder ==
  ASSUME NEW a \in Depths, NEW b \in Depths
  PROVE  /\ ~Deeper(a, a)
         /\ Deeper(a, b) => ~Deeper(b, a)
         /\ \A c \in Depths : ~Deeper(b, a) /\ ~Deeper(c, b) => ~Deeper(c, a)
<1>1. a.wealth \in Int /\ b.wealth \in Int /\ a.peak \in Nat \ {0} /\ b.peak \in Nat \ {0}
  BY DEF Depths
<1>2. a.wealth * b.peak \in Int /\ b.wealth * a.peak \in Int /\ a.wealth * a.peak \in Int
  BY <1>1
<1>3. ~Deeper(a, a)
  BY <1>2 DEF Deeper
<1>4. Deeper(a, b) => ~Deeper(b, a)
  BY <1>2 DEF Deeper
<1>5. ASSUME NEW c \in Depths, ~Deeper(b, a), ~Deeper(c, b)
      PROVE  ~Deeper(c, a)
  <2>1. c.wealth \in Int /\ c.peak \in Nat \ {0}
    BY DEF Depths
  <2>2. b.wealth * c.peak \in Int /\ c.wealth * b.peak \in Int
    BY <1>1, <2>1
  <2>3. a.wealth * b.peak <= b.wealth * a.peak /\ b.wealth * c.peak <= c.wealth * b.peak
    BY <1>2, <1>5, <2>2 DEF Deeper
  <2>4. a.wealth * c.peak <= c.wealth * a.peak
    BY <1>1, <2>1, <2>3, CrossProducts
  <2>5. a.wealth * c.peak \in Int /\ c.wealth * a.peak \in Int
    BY <1>1, <2>1
  <2> QED
    BY <2>4, <2>5 DEF Deeper
<1> QED
  BY <1>3, <1>4, <1>5

(* A list of depths has a deepest, as a segment of integers has a least. *)
LEMMA DeepestExists ==
  ASSUME NEW b \in Nat \ {0}, NEW D, \A i \in 1 .. b : D[i] \in Depths
  PROVE  \E i \in 1 .. b : \A j \in 1 .. b : ~Deeper(D[j], D[i])
<1> DEFINE Without == {n \in 1 .. b : ~\E i \in 1 .. n : \A j \in 1 .. n : ~Deeper(D[j], D[i])}
<1>1. ASSUME Without # {}
      PROVE  FALSE
  <2>1. Without \subseteq Nat
    OBVIOUS
  <2>2. PICK n \in Without : \A m \in Without : n <= m
    <3> HIDE DEF Without
    <3>1. First(Without) \in Without /\ \A m \in Without : First(Without) <= m
      BY <1>1, <2>1, FirstExists
    <3> QED
      BY <3>1
  <2>3. n \in 1 .. b /\ ~\E i \in 1 .. n : \A j \in 1 .. n : ~Deeper(D[j], D[i])
    BY <2>2
  <2>4. n # 1
    <3>1. ~Deeper(D[1], D[1])
      BY DeeperOrder
    <3> QED
      BY <2>3, <3>1
  <2>5. n - 1 \in 1 .. b /\ n - 1 \notin Without
    <3>1. n - 1 \in 1 .. b /\ ~(n <= n - 1)
      BY <2>3, <2>4
    <3> HIDE DEF Without
    <3> QED
      BY <2>2, <3>1
  <2>6. PICK i \in 1 .. n - 1 : \A j \in 1 .. n - 1 : ~Deeper(D[j], D[i])
    BY <2>5
  <2>7. /\ i \in 1 .. n /\ i \in 1 .. b /\ n \in 1 .. n
        /\ \A j \in 1 .. n : j \in 1 .. b /\ (j \in 1 .. n - 1 \/ j = n)
    BY <2>3
  <2>8. CASE ~Deeper(D[n], D[i])
    BY <2>3, <2>6, <2>7, <2>8
  <2>9. CASE Deeper(D[n], D[i])
    <3>1. ~Deeper(D[i], D[n]) /\ ~Deeper(D[n], D[n])
      BY <2>3, <2>7, <2>9, DeeperOrder
    <3>2. \A j \in 1 .. n - 1 : ~Deeper(D[j], D[n])
      <4> TAKE j \in 1 .. n - 1
      <4>1. j \in 1 .. b /\ ~Deeper(D[j], D[i])
        BY <2>3, <2>6
      <4>2. D[n] \in Depths /\ D[i] \in Depths /\ D[j] \in Depths
        BY <2>3, <2>7, <4>1
      <4> QED
        BY <3>1, <4>1, <4>2, DeeperOrder
    <3> QED
      BY <2>3, <2>7, <3>1, <3>2
  <2> QED
    BY <2>8, <2>9
<1>2. b \in 1 .. b
  OBVIOUS
<1> QED
  BY <1>1, <1>2

-----------------------------------------------------------------------------
(* The listed episodes, recorded or in hand *)

(* An episode as the pages of it tell: a span with its trough and recovery. *)
Right(e) ==
  /\ Falls(StartOf(e), LastOf(e)) /\ SpanOf(e) = StartOf(e) .. LastOf(e)
  /\ e.trough \in StartOf(e) .. LastOf(e) /\ e.trough \in Days /\ Told(e)
  /\ e.peak = None \/ e.peak \in Days
  /\ e.recovery # None => /\ e.recovery \in Days /\ e.trough <= e.recovery
                          /\ wealth[e.recovery] = peaks[e.recovery]

LEMMA EpisodesAreRight ==
  ASSUME IInv, Story
  PROVE  \A k \in Listing : Right(Episodes[k])
<1> SUFFICES ASSUME NEW k \in Listing, NEW e, e = Episodes[k]
             PROVE  Right(e)
  OBVIOUS
<1>1. TypeOK /\ Len(wealth) \in Nat /\ Days = 1 .. Len(wealth)
  BY DEF IInv, TypeOK, Days
<1>2. PICK m : m = Len(episodes)
  OBVIOUS
<1>3. m \in Nat /\ DOMAIN episodes = 1 .. m /\ \A j \in 1 .. m : episodes[j] \in EpisodeRecords
  BY <1>1, <1>2 DEF TypeOK
<1>4. CASE k \in 1 .. m /\ e = episodes[k]
  <2>1. Fits(e) /\ e \in EpisodeRecords /\ Told(e)
    BY <1>3, <1>4 DEF IInv, Recorded, Story
  <2>2. /\ e.recovery \in Days /\ e.recovery # None /\ e.trough \in Days
        /\ e.trough \in StartOf(e) .. e.recovery - 1
        /\ e.peak = None \/ e.peak \in Days
    BY <1>1, <2>1, RecordedDays
  <2>3. LastOf(e) = e.recovery - 1 /\ SpanOf(e) = StartOf(e) .. e.recovery - 1
    BY <2>2 DEF LastOf, SpanOf, StartOf
  <2>4. e.trough <= e.recovery
    BY <1>1, <2>2
  <2> QED
    BY <2>1, <2>2, <2>3, <2>4 DEF Fits, Right
<1>5. CASE inEpisode /\ e = Segment(start, peak, None)
  <2>1. /\ e.peak = peak /\ e.recovery = None /\ StartOf(e) = start
        /\ e.trough \in start .. Len(wealth) /\ Told(e)
    BY <1>5, OpenEpisode
  <2>2. LastOf(e) = Len(wealth) /\ SpanOf(e) = start .. Len(wealth)
    BY <2>1 DEF SpanOf, StartOf, LastOf
  <2>3. Falls(start, Len(wealth)) /\ peak = PeakBefore(start) /\ start \in Days
    BY <1>5 DEF IInv, InHand, Falls
  <2>4. e.trough \in Days /\ (peak = None \/ peak \in Days)
    BY <1>1, <2>1, <2>3 DEF PeakBefore
  <2> QED
    BY <2>1, <2>2, <2>3, <2>4 DEF Right
<1> QED
  BY <1>1, <1>2, <1>3, <1>4, <1>5 DEF Listing, Episodes

LEMMA DaysHaveDepths ==
  ASSUME TypeOK
  PROVE  /\ Len(wealth) \in Nat /\ Days = 1 .. Len(wealth)
         /\ \A i \in Days : /\ wealth[i] \in Int /\ peaks[i] \in Nat \ {0}
                            /\ Depth(i) \in Depths
<1>1. /\ wealth \in Seq(Levels) /\ peaks \in Seq(Nat \ {0}) /\ Len(peaks) = Len(wealth)
      /\ Days = 1 .. Len(wealth) /\ Len(wealth) \in Nat
  BY DEF TypeOK, Days
<1>2. \A i \in Days : wealth[i] \in Levels /\ peaks[i] \in Nat \ {0}
  BY <1>1
<1>3. \A l \in Levels : l \in Int
  BY DrawdownAssumption
<1> QED
  BY <1>1, <1>2, <1>3 DEF Depth, Depths

(* No day of a span is deeper than its trough, and those before it are not as
   deep. *)
LEMMA DeepestOfSpan ==
  ASSUME TypeOK, NEW e, Right(e), NEW i \in StartOf(e) .. LastOf(e)
  PROVE  /\ i \in Days /\ e.depth \in Depths /\ e.depth = Depth(e.trough)
         /\ ~Deeper(Depth(i), e.depth)
         /\ i < e.trough => Deeper(e.depth, Depth(i))
<1>1. PICK a, b, t, p : a = StartOf(e) /\ b = LastOf(e) /\ t = e.trough /\ p = Base(a)
  OBVIOUS
<1>2. Days = 1 .. Len(wealth) /\ Len(wealth) \in Nat /\ Falls(a, b) /\ i \in a .. b /\ t \in a .. b
  BY <1>1, DaysHaveDepths DEF Right
<1>3. i \in Days /\ t \in Days /\ peaks[i] = p /\ peaks[t] = p
  BY <1>1, <1>2 DEF Falls
<1>4. wealth[i] \in Int /\ wealth[t] \in Int /\ p \in Nat \ {0} /\ Depth(t) \in Depths
  BY <1>3, DaysHaveDepths
<1>5. wealth[t] <= wealth[i] /\ (i < t => wealth[t] < wealth[i])
  BY <1>1, <1>2 DEF Right, Told, Lowest
<1>6. Deeper(Depth(i), Depth(t)) <=> wealth[i] < wealth[t]
  BY <1>3, <1>4, LessAtPeak DEF Deeper, Depth
<1>7. Deeper(Depth(t), Depth(i)) <=> wealth[t] < wealth[i]
  BY <1>3, <1>4, LessAtPeak DEF Deeper, Depth
<1>8. e.depth = Depth(t)
  BY <1>1 DEF Right, Told
<1> QED
  BY <1>1, <1>3, <1>4, <1>5, <1>6, <1>7, <1>8

(* Every day under water is in a listed episode, and no other day is. *)
LEMMA DayOfEpisode ==
  ASSUME IInv, Story, NEW i \in Days
  PROVE  Underwater(i) <=> \E k \in Listing : i \in StartOf(Episodes[k]) .. LastOf(Episodes[k])
<1>1. EpisodesCoverLosses
  BY Covers
<1>2. \A k \in Listing : SpanOf(Episodes[k]) = StartOf(Episodes[k]) .. LastOf(Episodes[k])
  BY EpisodesAreRight DEF Right
<1>3. Underwater(i) <=> i \in UNION {SpanOf(Episodes[k]) : k \in Listing}
  BY <1>1 DEF EpisodesCoverLosses
<1> QED
  BY <1>2, <1>3

LEMMA ListingIsFinite ==
  ASSUME TypeOK
  PROVE  \E m \in Nat : Listing = 1 .. m
<1>1. Len(episodes) \in Nat /\ DOMAIN episodes = 1 .. Len(episodes)
  BY DEF TypeOK
<1> QED
  BY <1>1 DEF Listing, Episodes, TypeOK

(* The maximum drawdown of the summary: no episode is deeper, and all before it
   are not as deep. *)
LEMMA ExtremeExists ==
  ASSUME IInv, Story, Listing # {}
  PROVE  \E k \in Listing : /\ Extreme = Episodes[k]
                            /\ \A l \in Listing : ~Deeper(Episodes[l].depth, Episodes[k].depth)
                            /\ \A l \in Listing : l < k =>
                                 Deeper(Episodes[k].depth, Episodes[l].depth)
<1>1. PICK m \in Nat : Listing = 1 .. m
  BY ListingIsFinite DEF IInv
<1>2. PICK D : D = [k \in 1 .. m |-> Episodes[k].depth]
  OBVIOUS
<1>3. \A k \in 1 .. m : D[k] \in Depths /\ D[k] = Episodes[k].depth
  <2> TAKE k \in 1 .. m
  <2>1. PICK e : e = Episodes[k]
    OBVIOUS
  <2>2. TypeOK /\ Right(e) /\ e.trough \in StartOf(e) .. LastOf(e)
    BY <1>1, <2>1, EpisodesAreRight DEF Right, IInv
  <2> QED
    BY <1>2, <2>1, <2>2, DeepestOfSpan
<1>4. m \in Nat \ {0}
  BY <1>1
<1>5. PICK S : S = {k \in 1 .. m : \A l \in 1 .. m : ~Deeper(D[l], D[k])}
  OBVIOUS
<1>6. S = {k \in Listing : \A l \in Listing : ~Deeper(Episodes[l].depth, Episodes[k].depth)}
  BY <1>1, <1>3, <1>5
<1>7. S # {} /\ S \subseteq Nat
  <2>1. \E k \in 1 .. m : \A l \in 1 .. m : ~Deeper(D[l], D[k])
    BY <1>3, <1>4, DeepestExists
  <2> QED
    BY <1>5, <2>1
<1>8. PICK k : k = First(S)
  OBVIOUS
<1>9. k \in S /\ \A j \in S : k <= j
  BY <1>7, <1>8, FirstExists
<1>10. Extreme = Episodes[k]
  BY <1>6, <1>8 DEF Extreme
<1>11. ASSUME NEW l \in 1 .. m, l < k
       PROVE  Deeper(D[k], D[l])
  <2>1. l \notin S /\ k \in 1 .. m
    BY <1>5, <1>9, <1>11
  <2>2. PICK j \in 1 .. m : Deeper(D[j], D[l])
    BY <1>5, <2>1
  <2>3. ~Deeper(D[j], D[k])
    BY <1>5, <1>9
  <2>4. D[j] \in Depths /\ D[k] \in Depths /\ D[l] \in Depths
    BY <1>3, <2>1
  <2> QED
    BY <2>2, <2>3, <2>4, DeeperOrder
<1> QED
  BY <1>1, <1>3, <1>5, <1>9, <1>10, <1>11

(* The first of the deepest days is the trough of the first of the deepest
   episodes. *)
LEMMA TroughsAgree ==
  ASSUME IInv, Story, Listing # {}
  PROVE  DetailTrough = Extreme.trough
<1>1. PICK k \in Listing :
        /\ Extreme = Episodes[k]
        /\ \A l \in Listing : ~Deeper(Episodes[l].depth, Episodes[k].depth)
        /\ \A l \in Listing : l < k => Deeper(Episodes[k].depth, Episodes[l].depth)
  BY ExtremeExists
<1>2. PICK e, t : e = Episodes[k] /\ t = e.trough
  OBVIOUS
<1>3. /\ TypeOK /\ Right(e) /\ t \in Days /\ e.depth = Depth(t) /\ e.depth \in Depths
      /\ Len(wealth) \in Nat /\ Days = 1 .. Len(wealth)
  <2>1. TypeOK /\ Right(e) /\ t \in StartOf(e) .. LastOf(e)
    BY <1>2, EpisodesAreRight DEF Right, IInv
  <2> QED
    BY <1>2, <2>1, DeepestOfSpan, DaysHaveDepths
<1>4. \A i \in Days : Depth(i) \in Depths
  BY <1>3, DaysHaveDepths
<1>5. ASSUME NEW i \in Days, ~Underwater(i)
      PROVE  Deeper(Depth(t), Depth(i))
  <2>1. wealth[i] \in Int /\ peaks[i] \in Nat \ {0} /\ wealth[t] \in Int /\ peaks[t] \in Nat \ {0}
    BY <1>3, DaysHaveDepths
  <2>2. wealth[i] = peaks[i]
    BY <1>5, <2>1 DEF Underwater, IInv, Path
  <2>3. wealth[t] < peaks[t]
    <3>1. Falls(StartOf(e), LastOf(e)) /\ t \in StartOf(e) .. LastOf(e)
      BY <1>2, <1>3 DEF Right
    <3> QED
      BY <3>1 DEF Falls
  <2>4. wealth[t] * peaks[i] < peaks[t] * peaks[i]
    BY <2>1, <2>3, LessAtPeak
  <2>5. peaks[t] * peaks[i] = wealth[i] * peaks[t]
    BY <2>1, <2>2
  <2> QED
    BY <2>4, <2>5 DEF Deeper, Depth
<1>6. ASSUME NEW i \in Days, Underwater(i)
      PROVE  ~Deeper(Depth(i), Depth(t)) /\ (i < t => Deeper(Depth(t), Depth(i)))
  <2>1. PICK l \in Listing : i \in StartOf(Episodes[l]) .. LastOf(Episodes[l])
    BY <1>6, DayOfEpisode
  <2>2. PICK f : f = Episodes[l]
    OBVIOUS
  <2>3. /\ Right(f) /\ i \in StartOf(f) .. LastOf(f)
        /\ f.depth \in Depths /\ ~Deeper(Depth(i), f.depth)
        /\ i < f.trough => Deeper(f.depth, Depth(i))
    <3>1. Right(f) /\ i \in StartOf(f) .. LastOf(f)
      BY <2>1, <2>2, EpisodesAreRight
    <3> QED
      BY <1>3, <3>1, DeepestOfSpan
  <2>4. ~Deeper(f.depth, Depth(t))
    BY <1>1, <1>2, <1>3, <2>2
  <2>5. ~Deeper(Depth(i), Depth(t))
    BY <1>3, <1>4, <2>3, <2>4, DeeperOrder
  <2>6. ASSUME i < t
        PROVE  Deeper(Depth(t), Depth(i))
    <3>1. CASE l < k
      <4>1. Deeper(Depth(t), f.depth)
        BY <1>1, <1>2, <1>3, <2>2, <3>1
      <4> QED
        BY <1>3, <1>4, <2>3, <4>1, DeeperOrder
    <3>2. CASE l = k
      <4>1. f = e
        BY <1>2, <2>2, <3>2
      <4> QED
        BY <1>2, <1>3, <2>3, <2>6, <4>1
    <3>3. CASE k < l
      <4>1. e.recovery # None /\ f.peak # None /\ f.peak >= e.recovery
        BY <1>2, <2>2, <3>3, EpisodesInOrder
      <4>2. t <= e.recovery /\ e.recovery \in Days
        BY <1>2, <1>3, <4>1 DEF Right
      <4>3. PICK s, q, r : s = StartOf(f) /\ q = f.peak /\ r = e.recovery
        OBVIOUS
      <4>4. q = None \/ q \in Days
        BY <2>3, <4>3 DEF Right
      <4>5. s = q + 1
        BY <4>1, <4>3 DEF StartOf
      <4> QED
        BY <1>3, <2>3, <2>6, <4>1, <4>2, <4>3, <4>4, <4>5
    <3>4. k \in Nat /\ l \in Nat
      <4>1. PICK m \in Nat : Listing = 1 .. m
        BY <1>3, ListingIsFinite
      <4> QED
        BY <4>1
    <3> QED
      BY <3>1, <3>2, <3>3, <3>4
  <2> QED
    BY <2>5, <2>6
<1>7. PICK S : S = {i \in Days : \A j \in Days : ~Deeper(Depth(j), Depth(i))}
  OBVIOUS
<1>8. t \in S
  <2>1. ASSUME NEW j \in Days
        PROVE  ~Deeper(Depth(j), Depth(t))
    BY <1>3, <1>4, <1>5, <1>6, DeeperOrder
  <2> QED
    BY <1>3, <1>7, <2>1
<1>9. \A i \in Days : i < t => i \notin S
  <2>1. \A i \in Days : i < t => Deeper(Depth(t), Depth(i))
    BY <1>5, <1>6
  <2> QED
    BY <1>3, <1>7, <2>1
<1>10. PICK d : d = First(S)
  OBVIOUS
<1>11. d \in S /\ d <= t
  <2>1. S \subseteq Nat /\ S # {}
    BY <1>3, <1>7, <1>8
  <2> QED
    BY <1>8, <1>10, <2>1, FirstExists
<1>12. d = t
  BY <1>3, <1>7, <1>9, <1>11
<1> QED
  BY <1>1, <1>2, <1>7, <1>10, <1>12 DEF DetailTrough, Trough

(* The first day after the trough on the level of its peak is the recovery of
   the episode, when it has one. *)
LEMMA RecoveriesAgree ==
  ASSUME IInv, NEW e, Right(e), DetailTrough = e.trough
  PROVE  DetailRecovery = e.recovery
<1>1. PICK t, c, p, n : t = e.trough /\ c = e.recovery /\ p = peaks[t] /\ n = Len(wealth)
  OBVIOUS
<1>2. /\ n \in Nat /\ Days = 1 .. n /\ t \in Days
      /\ \A i \in Days : wealth[i] \in Int /\ peaks[i] \in Nat \ {0}
  BY <1>1, DaysHaveDepths DEF IInv, Right
<1>3. \A i \in t .. LastOf(e) : wealth[i] < p
  <2>1. Falls(StartOf(e), LastOf(e)) /\ t \in StartOf(e) .. LastOf(e)
    BY <1>1 DEF Right
  <2>2. StartOf(e) \in Days /\ LastOf(e) \in Days
    BY <2>1 DEF Falls
  <2>3. \A i \in t .. LastOf(e) : i \in StartOf(e) .. LastOf(e)
    BY <1>2, <2>1, <2>2
  <2>4. \A i \in StartOf(e) .. LastOf(e) : wealth[i] < peaks[i] /\ peaks[i] = Base(StartOf(e))
    BY <2>1 DEF Falls
  <2> QED
    BY <1>1, <2>1, <2>3, <2>4
<1>4. PICK S : S = {i \in t .. n : wealth[i] >= p}
  OBVIOUS
<1>5. DetailRecovery = IF S = {} THEN None ELSE First(S)
  BY <1>1, <1>4 DEF DetailRecovery
<1>6. CASE c = None
  <2>1. LastOf(e) = n
    BY <1>1, <1>6 DEF LastOf
  <2>2. S = {}
    BY <1>1, <1>2, <1>3, <1>4, <2>1
  <2> QED
    BY <1>1, <1>5, <1>6, <2>2
<1>7. CASE c # None
  <2>1. /\ LastOf(e) = c - 1 /\ c \in Days /\ t <= c /\ wealth[c] = peaks[c]
    BY <1>1, <1>7 DEF LastOf, Right
  <2>2. peaks[t] <= peaks[c]
    BY <1>2, <2>1 DEF IInv, Path
  <2>3. c \in S
    BY <1>1, <1>2, <1>4, <2>1, <2>2
  <2>4. \A i \in S : c <= i
    BY <1>1, <1>2, <1>3, <1>4, <2>1
  <2>5. S \subseteq Nat
    BY <1>2, <1>4
  <2>6. First(S) \in S /\ First(S) <= c
    BY <2>3, <2>5, FirstExists
  <2>7. First(S) = c
    <3>1. PICK f : f = First(S)
      OBVIOUS
    <3>2. f \in S /\ f <= c
      BY <2>6, <3>1
    <3>3. f \in Nat /\ c <= f
      BY <2>4, <2>5, <3>2
    <3>4. c \in Nat
      BY <1>2, <2>1
    <3> QED
      BY <3>1, <3>2, <3>3, <3>4
  <2> QED
    BY <1>1, <1>5, <2>3, <2>7
<1> QED
  BY <1>6, <1>7

(* The first day on the level of the peak is the peak of the episode or one
   before it of that level. *)
LEMMA PeaksAgree ==
  ASSUME IInv, NEW e, Right(e), DetailTrough = e.trough
  PROVE  /\ DetailPeak = None <=> e.peak = None
         /\ DetailPeak # None => DetailPeak <= e.peak /\ wealth[DetailPeak] = wealth[e.peak]
<1>1. PICK t, q, a : t = e.trough /\ q = e.peak /\ a = StartOf(e)
  OBVIOUS
<1>2. /\ Days = 1 .. Len(wealth) /\ Len(wealth) \in Nat /\ t \in Days
      /\ \A i \in Days : wealth[i] \in Int /\ peaks[i] \in Nat \ {0}
  BY <1>1, DaysHaveDepths DEF IInv, Right
<1>3. /\ a \in Days /\ a <= t /\ peaks[t] = Base(a)
      /\ a > 1 => wealth[a - 1] = peaks[a - 1]
      /\ \A i \in a .. t : wealth[i] < Base(a)
  <2>1. Falls(a, LastOf(e)) /\ t \in a .. LastOf(e)
    BY <1>1 DEF Right
  <2>2. a \in Days /\ LastOf(e) \in Days
    BY <2>1 DEF Falls
  <2>3. \A i \in a .. t : i \in a .. LastOf(e)
    BY <1>2, <2>1, <2>2
  <2> QED
    BY <1>2, <2>1, <2>2, <2>3 DEF Falls
<1>4. PICK S : S = {i \in 1 .. t : wealth[i] >= peaks[t]}
  OBVIOUS
<1>5. DetailPeak = IF S = {} THEN None ELSE First(S)
  BY <1>1, <1>4 DEF DetailPeak
<1>6. CASE q = None
  <2>1. a = 1
    BY <1>1, <1>6 DEF StartOf
  <2>2. \A i \in 1 .. t : i \in Days
    BY <1>2
  <2>3. S = {}
    BY <1>2, <1>3, <1>4, <2>1, <2>2
  <2> QED
    BY <1>1, <1>5, <1>6, <2>3
<1>7. CASE q # None
  <2>1. a = q + 1 /\ q \in Days
    BY <1>1, <1>7 DEF StartOf, Right
  <2>2. a > 1 /\ a - 1 = q /\ q < t
    BY <1>2, <1>3, <2>1
  <2>3. wealth[q] = peaks[t] /\ wealth[q] = peaks[q]
    BY <1>2, <1>3, <2>1, <2>2 DEF Base
  <2>4. q \in S
    BY <1>2, <1>4, <2>1, <2>2, <2>3
  <2>5. S \subseteq Nat
    BY <1>4
  <2>6. PICK d : d = First(S)
    OBVIOUS
  <2>7. d \in S /\ d <= q
    BY <2>4, <2>5, <2>6, FirstExists
  <2>8. d \in Days
    BY <1>2, <1>4, <2>7
  <2>9. wealth[d] <= peaks[d] /\ peaks[d] <= peaks[q]
    BY <2>1, <2>7, <2>8 DEF IInv, Path
  <2>10. wealth[d] = wealth[q]
    BY <1>2, <1>4, <2>1, <2>3, <2>7, <2>8, <2>9
  <2>11. DetailPeak = d /\ d # None
    BY <1>2, <1>5, <2>4, <2>6, <2>8, DrawdownAssumption
  <2> QED
    BY <1>1, <1>7, <2>7, <2>10, <2>11
<1> QED
  BY <1>6, <1>7

LEMMA Agreement == IInv /\ Story => EndpointsAgree
<1> SUFFICES ASSUME IInv, Story, Listing # {}
             PROVE  /\ DetailTrough = Extreme.trough
                    /\ Depth(DetailTrough) = Extreme.depth
                    /\ DetailRecovery = Extreme.recovery
                    /\ DetailPeak = None <=> Extreme.peak = None
                    /\ DetailPeak # None =>
                         DetailPeak <= Extreme.peak /\ wealth[DetailPeak] = wealth[Extreme.peak]
  BY DEF EndpointsAgree
<1>1. PICK e : e = Extreme
  OBVIOUS
<1>2. Right(e)
  BY <1>1, ExtremeExists, EpisodesAreRight
<1>3. DetailTrough = e.trough
  BY <1>1, TroughsAgree
<1>4. Depth(DetailTrough) = e.depth
  BY <1>2, <1>3 DEF Right, Told
<1> QED
  BY <1>1, <1>2, <1>3, <1>4, RecoveriesAgree, PeaksAgree

(* For every path of wealth, however long: /analytics/risk/drawdown, by its
   episodes, and /analytics/risk/calculate, by its series, tell the same
   maximum drawdown (drawdown_details against drawdown_extreme_fields). *)
THEOREM OneDrawdown == Spec => []EndpointsAgree
  BY Agreement, Stories, PTL

-----------------------------------------------------------------------------
(* A longer period *)

(* The lower of two troughs of one span, the later of which saw more days. *)
LEMMA DeeperWithTime ==
  ASSUME NEW p \in Nat \ {0}, NEW v \in Int, NEW u \in Int, v <= u
  PROVE  ~Deeper([wealth |-> u, peak |-> p], [wealth |-> v, peak |-> p])
<1>1. u * p < v * p <=> u < v
  BY LessAtPeak
<1> QED
  BY <1>1 DEF Deeper

(* What HistoryStands says of one step. *)
StandsStep ==
  \A k \in Listing :
       /\ k \in Listing'
       /\ Episodes'[k].peak = Episodes[k].peak
       /\ ~Deeper(Episodes[k].depth, Episodes'[k].depth)
       /\ Episodes[k].recovery # None => Episodes'[k] = Episodes[k]

AllRight == \A k \in Listing : \A e : e = Episodes[k] => Right(e)

(* The episode in hand, before and after one more day. *)
LEMMA InHandStands ==
  ASSUME IInv, AllRight, AllRight', NEW w \in Levels, Grown(w),
         inEpisode, start' = start, peak' = peak,
         NEW k \in Listing, NEW e, e = Episodes[k], e = Segment(start, peak, None),
         k \in Listing', NEW f, f = Episodes'[k],
         \/ f = Segment(start, peak, None)'
         \/ f = Segment(start, peak, Len(wealth))'
  PROVE  f.peak = e.peak /\ ~Deeper(e.depth, f.depth)
<1>1. PICK n, a, q, s, t : /\ n = Len(wealth) /\ a = StartOf(e) /\ q = peak
                           /\ s = f.trough /\ t = e.trough
  OBVIOUS
<1>2. /\ n \in Nat /\ Days = 1 .. n /\ Days' = 1 .. n + 1 /\ Len(wealth') = n + 1 /\ n + 1 # None
      /\ \A i \in Days : wealth'[i] = wealth[i] /\ peaks'[i] = peaks[i]
  <2>1. /\ Len(wealth) \in Nat /\ Days = 1 .. Len(wealth) /\ Days' = 1 .. Len(wealth) + 1
        /\ Len(wealth) + 1 # None
    BY NewDay, DrawdownAssumption DEF IInv
  <2>2. /\ Len(wealth') = Len(wealth) + 1
        /\ \A i \in 1 .. Len(wealth) : wealth'[i] = wealth[i] /\ peaks'[i] = peaks[i]
    BY DEF Grown
  <2> QED
    BY <1>1, <2>1, <2>2
<1>3. /\ TypeOK /\ \A i \in Days : wealth[i] \in Int /\ peaks[i] \in Nat \ {0}
  BY DaysHaveDepths DEF IInv
<1>4. /\ Right(e) /\ Right(f)'
  BY DEF AllRight
<1>5. e.peak = q /\ e.recovery = None /\ f.peak = q /\ (f.recovery = None \/ f.recovery = n + 1)
  BY <1>1, <1>2 DEF Segment
<1>6. StartOf(f)' = a /\ LastOf(e) = n /\ LastOf(f)' \in {n, n + 1}
  BY <1>1, <1>2, <1>5 DEF StartOf, LastOf
<1>7. PICK b : b = LastOf(f)'
  OBVIOUS
<1>8. /\ Falls(a, n) /\ t \in a .. n /\ e.depth = Depth(t)
  BY <1>1, <1>4, <1>6 DEF Right, Told
<1>9. /\ Falls(a, b)' /\ s \in a .. b /\ f.depth = Depth(s)' /\ Lowest(s, a, b)'
  BY <1>1, <1>4, <1>6, <1>7 DEF Right, Told, Lowest, Falls, Base
<1>10. a \in 1 .. n /\ t \in Days /\ t \in a .. b /\ s \in 1 .. n + 1
  BY <1>2, <1>6, <1>7, <1>8, <1>9 DEF Falls
<1>11. wealth'[s] <= wealth[t] /\ peaks'[s] = peaks[t]
  BY <1>2, <1>9, <1>10 DEF Falls, Lowest
<1>12. wealth'[s] \in Int
  <2>1. wealth'[s] \in Levels
    BY <1>1, <1>10 DEF Grown
  <2> QED
    BY <2>1, DrawdownAssumption
<1>13. /\ e.depth = [wealth |-> wealth[t], peak |-> peaks[t]]
       /\ f.depth = [wealth |-> wealth'[s], peak |-> peaks[t]]
  BY <1>8, <1>9, <1>11 DEF Depth
<1> QED
  BY <1>3, <1>5, <1>10, <1>11, <1>12, <1>13, DeeperWithTime

LEMMA Stands ==
  ASSUME IInv, Story, AllRight, AllRight', [Observe]_vars
  PROVE  StandsStep
<1> SUFFICES ASSUME NEW k \in Listing, NEW e, e = Episodes[k], NEW f, f = Episodes'[k]
             PROVE  /\ k \in Listing' /\ f.peak = e.peak /\ ~Deeper(e.depth, f.depth)
                    /\ e.recovery # None => f = e
  BY DEF StandsStep
<1>1. PICK m : m = Len(episodes)
  OBVIOUS
<1>2. TypeOK /\ m \in Nat /\ DOMAIN episodes = 1 .. m
  BY <1>1 DEF IInv, TypeOK
<1>3. ~Deeper(e.depth, e.depth)
  <2>1. Right(e) /\ e.trough \in StartOf(e) .. LastOf(e)
    BY DEF AllRight, Right
  <2>2. e.depth \in Depths
    BY <1>2, <2>1, DeepestOfSpan
  <2> QED
    BY <2>2, DeeperOrder
<1>4. CASE UNCHANGED vars
  <2>1. Episodes' = Episodes
    BY <1>4 DEF vars, Episodes, Segment, Trough, Depth, DurationOf, BusinessDays
  <2> QED
    BY <1>3, <2>1 DEF Listing
<1>5. CASE Observe
  <2>1. PICK w \in Levels, gap \in Gaps : Supply(w, gap)
    BY <1>5 DEF Observe
  <2>2. Grown(w)
    BY <1>2, <2>1, SupplyGrows
  <2>3. /\ Recover => episodes' = Append(episodes, Segment(start, peak, Len(wealth))')
        /\ ~Recover => episodes' = episodes
    BY <1>5 DEF Observe, Begin, Recover, Remain
  <2>4. /\ Listing = IF inEpisode THEN 1 .. m + 1 ELSE 1 .. m
        /\ \A j \in 1 .. m : Episodes[j] = episodes[j]
        /\ inEpisode => Episodes[m + 1] = Segment(start, peak, None)
    BY <1>1, <1>2 DEF Listing, Episodes, TypeOK
  <2>5. inEpisode => Recover \/ (Remain /\ inEpisode')
    BY <1>5 DEF Observe, Begin, Recover, Remain
  <2>6. CASE k \in 1 .. m
    <3>1. k \in DOMAIN episodes' /\ episodes'[k] = episodes[k]
      <4>1. CASE ~Recover
        BY <1>2, <2>3, <2>6, <4>1
      <4>2. CASE Recover
        <5>1. PICK r : episodes' = Append(episodes, r)
          BY <2>3, <4>2
        <5> QED
          BY <1>1, <1>2, <2>6, <5>1 DEF TypeOK
      <4> QED
        BY <4>1, <4>2
    <3>2. k \in Listing' /\ Episodes'[k] = episodes[k]
      <4>1. CASE inEpisode'
        <5>1. Episodes' = Append(episodes', Segment(start, peak, None)')
          BY <4>1 DEF Episodes
        <5>2. ~Recover
          BY <4>1 DEF Recover
        <5>3. episodes' = episodes /\ episodes \in Seq(EpisodeRecords)
          BY <1>2, <2>3, <5>2 DEF TypeOK
        <5> QED
          BY <1>1, <1>2, <2>6, <5>1, <5>3 DEF Listing
      <4>2. CASE ~inEpisode'
        BY <3>1, <4>2 DEF Episodes, Listing
      <4> QED
        BY <4>1, <4>2
    <3> QED
      BY <1>3, <2>4, <2>6, <3>2
  <2>7. CASE inEpisode /\ k = m + 1 /\ Recover
    <3>1. Episodes' = Append(episodes, Segment(start, peak, Len(wealth))')
      BY <2>3, <2>7 DEF Episodes, Recover
    <3>2. k \in Listing' /\ f = Segment(start, peak, Len(wealth))'
      BY <1>1, <1>2, <2>7, <3>1 DEF Listing, TypeOK
    <3>3. start' = start /\ peak' = peak
      BY <2>7 DEF Recover
    <3>4. e = Segment(start, peak, None)
      BY <2>4, <2>7
    <3>5. e.recovery = None
      BY <3>4 DEF Segment
    <3>6. f.peak = e.peak /\ ~Deeper(e.depth, f.depth)
      BY <2>2, <2>7, <3>2, <3>3, <3>4, InHandStands
    <3> QED
      BY <3>2, <3>5, <3>6
  <2>8. CASE inEpisode /\ k = m + 1 /\ Remain /\ inEpisode'
    <3>1. Episodes' = Append(episodes', Segment(start, peak, None)') /\ episodes' = episodes
      BY <2>8 DEF Episodes, Remain
    <3>2. k \in Listing' /\ f = Segment(start, peak, None)'
      BY <1>1, <1>2, <2>8, <3>1 DEF Listing, TypeOK
    <3>3. start' = start /\ peak' = peak
      BY <2>8 DEF Remain
    <3>4. e = Segment(start, peak, None)
      BY <2>4, <2>8
    <3>5. e.recovery = None
      BY <3>4 DEF Segment
    <3>6. f.peak = e.peak /\ ~Deeper(e.depth, f.depth)
      BY <2>2, <2>8, <3>2, <3>3, <3>4, InHandStands
    <3> QED
      BY <3>2, <3>5, <3>6
  <2> QED
    BY <1>2, <2>4, <2>5, <2>6, <2>7, <2>8
<1> QED
  BY <1>4, <1>5

(* A day more, of any wealth, changes no recovered episode and only deepens the
   one in hand (build_episodes_from_values, over a prefix of the period). *)
THEOREM PastStands == Spec => HistoryStands
<1>1. IInv /\ Story => AllRight
  BY EpisodesAreRight DEF AllRight
<1>2. IInv /\ Story /\ AllRight /\ AllRight' /\ [Observe]_vars => StandsStep
  BY Stands
<1> QED
  BY <1>1, <1>2, Stories, PTL DEF Spec, HistoryStands, StandsStep

-----------------------------------------------------------------------------
(* The list of episodes *)

(* What is as deep as something deep enough is deep enough. *)
LEMMA EnoughOfDeeper ==
  ASSUME NEW u \in Int, NEW p \in Nat \ {0}, NEW v \in Int, NEW q \in Nat \ {0},
         NEW m \in Nat, NEW n \in Nat \ {0},
         u * q <= v * p, (q - v) * n >= m * q
  PROVE  (p - u) * n >= m * p
<1>1. (p - u) * q >= (q - v) * p
  <2>1. (p - u) * q = p * q - u * q /\ (q - v) * p = q * p - v * p
    OBVIOUS
  <2>2. p * q = q * p /\ p * q \in Int /\ u * q \in Int /\ v * p \in Int
    OBVIOUS
  <2> QED
    BY <2>1, <2>2
<1>2. ((q - v) * p) * n <= ((p - u) * q) * n
  BY <1>1, AtMostAtPeak
<1>3. (m * q) * p <= ((q - v) * n) * p
  BY AtMostAtPeak
<1>4. /\ ((q - v) * n) * p = ((q - v) * p) * n /\ ((p - u) * q) * n = ((p - u) * n) * q
      /\ (m * q) * p = (m * p) * q
  OBVIOUS
<1>5. (m * p) * q <= ((p - u) * n) * q
  BY <1>2, <1>3, <1>4
<1>6. m * p \in Int /\ (p - u) * n \in Int
  OBVIOUS
<1> QED
  BY <1>5, <1>6, AtMostAtPeak

(* The order of sorted: the deeper first, and of equals the earlier. *)
Ahead(l, k) ==
  \/ Deeper(Episodes[l].depth, Episodes[k].depth)
  \/ l < k /\ ~Deeper(Episodes[k].depth, Episodes[l].depth)

Before(k) == {l \in Listing \ {k} : DeepEnough(l) /\ Ahead(l, k)}

LEMMA RankIsOfBefore ==
  ASSUME TypeOK, NEW k \in Listing
  PROVE  Rank(k) = Cardinality(Before(k)) /\ IsFiniteSet(Before(k)) /\ Rank(k) \in Nat
<1>1. PICK m \in Nat : Listing = 1 .. m
  BY ListingIsFinite
<1>2. IsFiniteSet(Listing)
  BY <1>1, FS_Interval
<1>3. IsFiniteSet(Before(k))
  BY <1>2, FS_Subset DEF Before
<1>4. Rank(k) = Cardinality(Before(k))
  BY DEF Rank, Before, Ahead
<1> QED
  BY <1>3, <1>4, FS_CardinalityType

LEMMA ListingHasDepths ==
  ASSUME IInv, Story
  PROVE  \A k \in Listing : Episodes[k].depth \in Depths
<1> SUFFICES ASSUME NEW k \in Listing, NEW e, e = Episodes[k]
             PROVE  e.depth \in Depths
  OBVIOUS
<1>1. TypeOK /\ Right(e) /\ e.trough \in StartOf(e) .. LastOf(e)
  BY EpisodesAreRight DEF Right, IInv
<1> QED
  BY <1>1, DeepestOfSpan

(* Two episodes have no rank in common: what is before the one that is ahead,
   and that one itself, is before the other. *)
LEMMA RanksInOrder ==
  ASSUME IInv, Story, NEW k \in Listing, NEW l \in Listing, k # l
  PROVE  /\ Ahead(k, l) \/ Ahead(l, k)
         /\ DeepEnough(k) /\ Ahead(k, l) => Rank(k) < Rank(l)
<1>1. PICK m \in Nat : Listing = 1 .. m
  BY ListingIsFinite DEF IInv
<1>2. \A j \in Listing : Episodes[j].depth \in Depths
  BY ListingHasDepths
<1>3. Ahead(k, l) \/ Ahead(l, k)
  BY <1>1, <1>2, DeeperOrder DEF Ahead
<1>4. ASSUME DeepEnough(k), Ahead(k, l)
      PROVE  Rank(k) < Rank(l)
  <2>1. k \in Before(l) /\ k \notin Before(k)
    BY <1>4 DEF Before
  <2>2. ASSUME NEW j \in Before(k)
        PROVE  j \in Before(l)
    <3>1. PICK x, y, z : x = Episodes[j].depth /\ y = Episodes[k].depth /\ z = Episodes[l].depth
      OBVIOUS
    <3>2. j \in Listing /\ DeepEnough(j) /\ j # k /\ Ahead(j, k)
      BY <2>2 DEF Before
    <3>3. x \in Depths /\ y \in Depths /\ z \in Depths
      BY <1>2, <3>1, <3>2
    <3>4. /\ Deeper(x, y) \/ (j < k /\ ~Deeper(y, x))
          /\ Deeper(y, z) \/ (k < l /\ ~Deeper(z, y))
      BY <1>4, <3>1, <3>2 DEF Ahead
    <3>5. /\ Deeper(x, y) => ~Deeper(y, x)
          /\ Deeper(y, z) => ~Deeper(z, y)
      BY <3>3, DeeperOrder
    <3>6. ~Deeper(z, x)
      BY <3>3, <3>4, <3>5, DeeperOrder
    <3>7. Deeper(x, z) \/ (j < k /\ k < l)
      <4>1. ~Deeper(x, z) /\ ~Deeper(z, y) => ~Deeper(x, y)
        BY <3>3, DeeperOrder
      <4>2. ~Deeper(y, x) /\ ~Deeper(x, z) => ~Deeper(y, z)
        <5>1. ~Deeper(x, z) /\ ~Deeper(y, x) => ~Deeper(y, z)
          BY <3>3, DeeperOrder
        <5> QED
          BY <5>1
      <4> QED
        BY <3>4, <3>5, <4>1, <4>2
    <3>8. Ahead(j, l) /\ j # l
      <4>1. j \in Nat /\ k \in Nat /\ l \in Nat
        BY <1>1, <3>2
      <4>2. j < k /\ k < l => j < l
        BY <4>1
      <4>3. j = l => x = z
        BY <3>1
      <4>4. ~Deeper(x, x)
        BY <3>3, DeeperOrder
      <4>5. j < l => j # l
        BY <4>1
      <4> QED
        BY <3>1, <3>6, <3>7, <4>2, <4>3, <4>4, <4>5 DEF Ahead
    <3> QED
      BY <3>2, <3>8 DEF Before
  <2>3. PICK S, T : S = Before(k) /\ T = Before(l)
    OBVIOUS
  <2>4. /\ IsFiniteSet(S) /\ IsFiniteSet(T) /\ Rank(k) = Cardinality(S) /\ Rank(l) = Cardinality(T)
        /\ Rank(k) \in Nat /\ Rank(l) \in Nat
    BY <2>3, RankIsOfBefore DEF IInv
  <2>5. IsFiniteSet(S \cup {k}) /\ Cardinality(S \cup {k}) = Cardinality(S) + 1
    BY <2>1, <2>3, <2>4, FS_AddElement
  <2>6. Cardinality(S \cup {k}) <= Cardinality(T)
    <3>1. S \cup {k} \in SUBSET T
      BY <2>1, <2>2, <2>3
    <3> QED
      BY <2>4, <3>1, FS_Subset
  <2> QED
    BY <2>4, <2>5, <2>6
<1> QED
  BY <1>3, <1>4

(* No two of the list have one rank, so it is no longer than there are ranks. *)
LEMMA ListIsBounded ==
  ASSUME IInv, Story
  PROVE  Cardinality(Listed) <= TopN
<1>1. TopN \in Nat \ {0} /\ \A k \in Listing : Rank(k) \in Nat
  BY DrawdownAssumption, RankIsOfBefore DEF IInv
<1>2. PICK f : f = [k \in Listed |-> Rank(k)]
  OBVIOUS
<1>3. f \in [Listed -> 0 .. TopN - 1]
  BY <1>1, <1>2 DEF Listed
<1>4. ASSUME NEW k \in Listed, NEW l \in Listed, f[k] = f[l]
      PROVE  k = l
  <2>1. k \in Listing /\ l \in Listing /\ DeepEnough(k) /\ DeepEnough(l)
    BY DEF Listed
  <2>2. Rank(k) = Rank(l) /\ Rank(k) \in Nat
    BY <1>1, <1>2, <1>4, <2>1
  <2>3. ~(Rank(k) < Rank(l)) /\ ~(Rank(l) < Rank(k))
    BY <2>2
  <2> QED
    BY <2>1, <2>3, RanksInOrder
<1>5. f \in Injection(Listed, 0 .. TopN - 1)
  BY <1>3, <1>4 DEF Injection, IsInjective
<1>6. IsFiniteSet(0 .. TopN - 1) /\ Cardinality(0 .. TopN - 1) = TopN
  BY <1>1, FS_Interval
<1> QED
  BY <1>5, <1>6, FS_Injection

(* What is deeper than a listed episode is listed. *)
LEMMA DeepestAreListed ==
  ASSUME IInv, Story, NEW k \in Listing \ Listed, NEW l \in Listed, DeepEnough(k)
  PROVE  ~Deeper(Episodes[k].depth, Episodes[l].depth)
<1> SUFFICES ASSUME Deeper(Episodes[k].depth, Episodes[l].depth)
             PROVE  FALSE
  OBVIOUS
<1>1. l \in Listing /\ k # l /\ Rank(l) < TopN /\ Ahead(k, l)
  BY DEF Listed, Ahead
<1>2. Rank(k) < Rank(l)
  BY <1>1, RanksInOrder
<1>3. Rank(k) \in Nat /\ Rank(l) \in Nat /\ TopN \in Nat
  BY <1>1, RankIsOfBefore, DrawdownAssumption DEF IInv
<1> QED
  BY <1>1, <1>2, <1>3 DEF Listed

(* The maximum drawdown is the first of the list. *)
LEMMA ExtremeIsListed ==
  ASSUME IInv, Story, NEW j \in Listing, DeepEnough(j)
  PROVE  \E k \in Listed : Episodes[k] = Extreme
<1>1. PICK k \in Listing :
        /\ Extreme = Episodes[k]
        /\ \A l \in Listing : ~Deeper(Episodes[l].depth, Episodes[k].depth)
        /\ \A l \in Listing : l < k => Deeper(Episodes[k].depth, Episodes[l].depth)
  BY ExtremeExists
<1>2. DeepEnough(k)
  <2>1. PICK d, e : d = Episodes[k].depth /\ e = Episodes[j].depth
    OBVIOUS
  <2>2. d \in Depths /\ e \in Depths
    BY <2>1, ListingHasDepths
  <2>3. PICK u, p, v, q, m, n : /\ u = d.wealth /\ p = d.peak /\ v = e.wealth /\ q = e.peak
                                /\ m = MinimumDepth[1] /\ n = MinimumDepth[2]
    OBVIOUS
  <2>4. /\ u \in Int /\ v \in Int /\ p \in Nat \ {0} /\ q \in Nat \ {0}
        /\ m \in Nat /\ n \in Nat \ {0}
    BY <2>2, <2>3, DrawdownAssumption DEF Depths
  <2>5. ~(v * p < u * q)
    BY <1>1, <2>1, <2>3 DEF Deeper
  <2>6. v * p \in Int /\ u * q \in Int
    BY <2>4
  <2>7. u * q <= v * p
    BY <2>5, <2>6
  <2>8. (q - v) * n >= m * q
    BY <2>1, <2>3 DEF DeepEnough
  <2>9. (p - u) * n >= m * p
    BY <2>4, <2>7, <2>8, EnoughOfDeeper
  <2> QED
    BY <2>1, <2>3, <2>9 DEF DeepEnough
<1>3. Before(k) = {}
  BY <1>1 DEF Before, Ahead
<1>4. Rank(k) = 0
  BY <1>3, RankIsOfBefore, FS_EmptySet DEF IInv
<1>5. k \in Listed
  BY <1>2, <1>4, DrawdownAssumption DEF Listed
<1> QED
  BY <1>1, <1>5

WeekDays(x, y) == {d \in x .. y - 1 : d % 7 < 5}

(* Of three days in order, the business days from the first to the second and
   those from the second to the third are those from the first to the third. *)
LEMMA BusinessDaysAdd ==
  ASSUME NEW x \in Nat, NEW y \in Nat, NEW z \in Nat, x <= y, y <= z
  PROVE  /\ Cardinality(WeekDays(x, y)) \in Nat /\ Cardinality(WeekDays(y, z)) \in Nat
         /\ Cardinality(WeekDays(x, z)) = Cardinality(WeekDays(x, y)) + Cardinality(WeekDays(y, z))
<1>1. PICK A, B, C : A = WeekDays(x, y) /\ B = WeekDays(y, z) /\ C = WeekDays(x, z)
  OBVIOUS
<1>2. IsFiniteSet(A) /\ IsFiniteSet(B) /\ IsFiniteSet(C)
  <2>1. IsFiniteSet(x .. y - 1) /\ IsFiniteSet(y .. z - 1) /\ IsFiniteSet(x .. z - 1)
    BY FS_Interval
  <2> QED
    BY <1>1, <2>1, FS_Subset DEF WeekDays
<1>3. Cardinality(A) \in Nat /\ Cardinality(B) \in Nat
  BY <1>2, FS_CardinalityType
<1>4. C = A \cup B /\ A \cap B = {}
  <2>1. x .. z - 1 = (x .. y - 1) \cup (y .. z - 1) /\ (x .. y - 1) \cap (y .. z - 1) = {}
    OBVIOUS
  <2> QED
    BY <1>1, <2>1 DEF WeekDays
<1>5. Cardinality(A \cup B) = Cardinality(A) + Cardinality(B) - Cardinality(A \cap B)
  BY <1>2, FS_Union
<1>6. Cardinality(A \cap B) = 0
  BY <1>4, FS_EmptySet
<1>7. Cardinality(C) = Cardinality(A) + Cardinality(B) - 0
  BY <1>4, <1>5, <1>6
<1> QED
  BY <1>1, <1>3, <1>7

(* Down and up again make the whole of an episode. *)
LEMMA DurationsAddUp ==
  ASSUME IInv, Dated, NEW e, Right(e), e.peak # None
  PROVE  IF e.recovery # None THEN e.total = e.toTrough + e.toRecovery
                              ELSE e.total >= e.toTrough
<1>1. PICK p, t, r : /\ p = e.peak /\ t = e.trough
                     /\ r = IF e.recovery = None THEN Len(wealth) ELSE e.recovery
  OBVIOUS
<1>2. Len(wealth) \in Nat /\ Days = 1 .. Len(wealth) /\ dates \in Seq(Nat) /\ Len(dates) = Len(wealth)
  BY DaysHaveDepths DEF IInv, TypeOK
<1>3. p \in Days /\ t \in Days /\ r \in Days /\ p <= t /\ t <= r
  <2>1. p \in Days /\ t \in Days /\ t >= StartOf(e)
    <3>1. Falls(StartOf(e), LastOf(e)) /\ t \in StartOf(e) .. LastOf(e) /\ t \in Days /\ p \in Days
      BY <1>1 DEF Right
    <3>2. StartOf(e) \in Days /\ LastOf(e) \in Days
      BY <3>1 DEF Falls
    <3> QED
      BY <1>2, <3>1, <3>2
  <2>2. StartOf(e) = p + 1
    BY <1>1 DEF StartOf
  <2>3. r \in Days /\ t <= r
    BY <1>1, <1>2, <2>1 DEF Right
  <2> QED
    BY <1>2, <2>1, <2>2, <2>3
<1>4. PICK x, y, z : x = dates[p] /\ y = dates[t] /\ z = dates[r]
  OBVIOUS
<1>5. x \in Nat /\ y \in Nat /\ z \in Nat /\ x <= y /\ y <= z
  BY <1>2, <1>3, <1>4 DEF Dated
<1>6. PICK A, B, C : A = WeekDays(x, y) /\ B = WeekDays(y, z) /\ C = WeekDays(x, z)
  OBVIOUS
<1>7. /\ Cardinality(A) \in Nat /\ Cardinality(B) \in Nat
      /\ Cardinality(C) = Cardinality(A) + Cardinality(B)
  BY <1>5, <1>6, BusinessDaysAdd
<1>8. p # None /\ t # None /\ r # None
  BY <1>2, <1>3, DrawdownAssumption
<1>9. e.toTrough = Cardinality(A) /\ e.total = Cardinality(C)
  BY <1>1, <1>4, <1>6, <1>8 DEF Right, Told, DurationOf, BusinessDays, WeekDays
<1>10. e.recovery # None => e.toRecovery = Cardinality(B)
  BY <1>1, <1>4, <1>6, <1>8 DEF Right, Told, DurationOf, BusinessDays, WeekDays
<1> QED
  BY <1>7, <1>9, <1>10

LEMMA Lists == IInv /\ Story => EpisodesAreListed
<1> SUFFICES ASSUME IInv, Story
             PROVE  EpisodesAreListed
  OBVIOUS
<1>1. Cardinality(Listed) <= TopN
  BY ListIsBounded
<1>2. \A k \in Listing \ Listed, l \in Listed :
        DeepEnough(k) => ~Deeper(Episodes[k].depth, Episodes[l].depth)
  BY DeepestAreListed
<1>3. (\E k \in Listing : DeepEnough(k)) => \E k \in Listed : Episodes[k] = Extreme
  BY ExtremeIsListed
<1>4. ASSUME NEW k \in Listing, NEW e, e = Episodes[k], e.peak # None
      PROVE  IF e.recovery # None THEN e.total = e.toTrough + e.toRecovery
                                  ELSE e.total >= e.toTrough
  <2>1. Right(e)
    BY <1>4, EpisodesAreRight
  <2> QED
    BY <1>4, <2>1, DurationsAddUp DEF Story
<1> QED
  BY <1>1, <1>2, <1>3, <1>4 DEF EpisodesAreListed

(* The list of a response holds the deepest episodes and no more of them than
   top_n_episodes, with durations that add up, whatever the threshold, the path
   and the calendar (_episode_models, sorted by depth and stable). *)
THEOREM ListIsReliable == Spec => []EpisodesAreListed
  BY Lists, Stories, PTL
=============================================================================
