------------------------------ MODULE Drawdown ------------------------------
(***************************************************************************)
(* The drawdown of a period (src/src/app/services/drawdown_series.py and   *)
(* drawdown_episodes.py) and the same question as the risk calculation     *)
(* answers it (services/risk/drawdown_details.py).                         *)
(*                                                                         *)
(* A step is one iteration of the loop of build_episodes_from_values over  *)
(* one more observation, so every state is the result for a whole period   *)
(* that ends there.  Wealth is a level out of a small set of integers and  *)
(* not a product of returns: every positive path of levels is one of some  *)
(* returns.  A depth is kept as the pair it is the quotient of, so depths  *)
(* are compared exactly.                                                   *)
(***************************************************************************)
EXTENDS Integers, Sequences, FiniteSets

CONSTANTS
  Levels,           \* wealth after an observation; below 0 with leverage
  Opening,          \* wealth before the first observation, the unit
  Gaps,             \* calendar days from an observation to the next
  Eve,              \* the day before the period; day 0 is a Monday
  MaxObservations,  \* bound: observations of a period
  TopN,             \* analysis_options.top_n_episodes
  MinimumDepth,     \* minimum_episode_depth_bps, a pair <<of, in>>
  None              \* no date

ASSUME DrawdownAssumption ==
  /\ Levels \subseteq Int /\ Opening \in Nat \ {0}
  /\ Gaps \subseteq Nat \ {0} /\ Eve \in Nat
  /\ MaxObservations \in Nat /\ TopN \in Nat \ {0}
  /\ MinimumDepth \in Nat \X (Nat \ {0})
  /\ None \notin Nat

VARIABLES
  dates,      \* of the observations
  wealth,     \* after each observation: (1 + returns).cumprod()
  peaks,      \* wealth.cummax().clip(lower=1.0)
  inEpisode,  \* in_episode
  start,      \* start_index
  peak,       \* index of peak_date, None for the opening
  episodes    \* the records appended so far

vars == <<dates, wealth, peaks, inEpisode, start, peak, episodes>>

Days == DOMAIN wealth

First(S) == CHOOSE i \in S : \A j \in S : i <= j

-----------------------------------------------------------------------------
(* Depths *)

Depth(i) == [wealth |-> wealth[i], peak |-> peaks[i]]

Deeper(d, e) == d.wealth * e.peak < e.wealth * d.peak

(* The first of the deepest among days, as numpy's argmin and idxmin choose. *)
Trough(S) == First({i \in S : \A j \in S : ~Deeper(Depth(j), Depth(i))})

Underwater(i) == wealth[i] < peaks[i]

-----------------------------------------------------------------------------
(* Durations *)

(* duration_days in its default unit, by busday_count: from the first day to
   the day before the last. *)
BusinessDays(i, j) == Cardinality({d \in dates[i] .. dates[j] - 1 : d % 7 < 5})

DurationOf(i, j) == IF i = None \/ j = None THEN None ELSE BusinessDays(i, j)

-----------------------------------------------------------------------------
(* Episodes *)

(* episode_record_from_segment; an episode that lasts is measured to the last
   day. *)
Segment(from, top, recovery) ==
  LET last   == IF recovery = None THEN Len(wealth) ELSE recovery
      trough == Trough(from .. last)
  IN [peak |-> top, trough |-> trough, recovery |-> recovery, depth |-> Depth(trough),
      toTrough |-> DurationOf(top, trough), toRecovery |-> DurationOf(trough, recovery),
      total |-> DurationOf(top, last)]

(* Mutant: the first loss is taken for the peak. *)
LossAsPeak(i) == i

(* _episode_peak_date *)
PeakBefore(i) == IF i > 1 THEN i - 1 ELSE None

(* What the function returns for the days so far. *)
Episodes ==
  IF inEpisode THEN Append(episodes, Segment(start, peak, None)) ELSE episodes

Listing == DOMAIN Episodes

(* drawdown_extreme_fields, when there is an episode: min takes the first. *)
Extreme ==
  Episodes[First({k \in Listing :
                    \A l \in Listing : ~Deeper(Episodes[l].depth, Episodes[k].depth)})]

DeepEnough(k) ==
  LET d == Episodes[k].depth IN
  (d.peak - d.wealth) * MinimumDepth[2] >= MinimumDepth[1] * d.peak

(* How many come before the k-th in the order of sorted, which is stable. *)
Rank(k) ==
  Cardinality({l \in Listing \ {k} :
     /\ DeepEnough(l)
     /\ \/ Deeper(Episodes[l].depth, Episodes[k].depth)
        \/ l < k /\ ~Deeper(Episodes[k].depth, Episodes[l].depth)})

(* Mutant: the first episodes are kept, and not the deepest. *)
EarliestListed == {k \in Listing : DeepEnough(k) /\ k <= TopN}

(* _episode_models: the indices of the episodes that are listed. *)
Listed == {k \in Listing : DeepEnough(k) /\ Rank(k) < TopN}

-----------------------------------------------------------------------------
(* drawdown_details and drawdown_recovery of the risk calculation *)

DetailTrough == Trough(Days)

DetailPeak ==
  LET observed == {i \in 1 .. DetailTrough : wealth[i] >= peaks[DetailTrough]} IN
  IF observed = {} THEN None ELSE First(observed)

(* Mutant: a level above the peak is needed. *)
DetailRecoveryAbove ==
  LET later == {i \in DetailTrough .. Len(wealth) : wealth[i] > peaks[DetailTrough]} IN
  IF later = {} THEN None ELSE First(later)

DetailRecovery ==
  LET later == {i \in DetailTrough .. Len(wealth) : wealth[i] >= peaks[DetailTrough]} IN
  IF later = {} THEN None ELSE First(later)

-----------------------------------------------------------------------------
Init ==
  /\ dates = <<>> /\ wealth = <<>> /\ peaks = <<>>
  /\ inEpisode = FALSE /\ start = 0 /\ peak = None
  /\ episodes = <<>>

RunningPeak == IF Len(peaks) = 0 THEN Opening ELSE peaks[Len(peaks)]

LastDate == IF Len(dates) = 0 THEN Eve ELSE dates[Len(dates)]

(* Wealth that is lost altogether stays so: a product with 0. *)
Reachable(w) == Len(wealth) > 0 /\ wealth[Len(wealth)] = 0 => w = 0

(* Mutant: the opening is no peak. *)
ObservedPeak(w) ==
  IF Len(peaks) = 0 \/ w >= peaks[Len(peaks)] THEN w ELSE peaks[Len(peaks)]

NextPeak(w) == IF w >= RunningPeak THEN w ELSE RunningPeak

Supply(w, gap) ==
  /\ Reachable(w)
  /\ dates' = Append(dates, LastDate + gap)
  /\ wealth' = Append(wealth, w)
  /\ peaks' = Append(peaks, NextPeak(w))

(* Mutant: a loss within an episode begins it again. *)
BeginAgain ==
  /\ Underwater(Len(wealth))'
  /\ inEpisode' = TRUE
  /\ start' = Len(wealth')
  /\ peak' = PeakBefore(Len(wealth'))
  /\ UNCHANGED episodes

(* The iteration at the new observation. *)
Begin ==
  /\ ~inEpisode
  /\ Underwater(Len(wealth))'
  /\ inEpisode' = TRUE
  /\ start' = Len(wealth')
  /\ peak' = PeakBefore(Len(wealth'))
  /\ UNCHANGED episodes

Recover ==
  /\ inEpisode
  /\ ~Underwater(Len(wealth))'
  /\ inEpisode' = FALSE
  /\ UNCHANGED <<start, peak>>
  /\ episodes' = Append(episodes, Segment(start, peak, Len(wealth))')

Remain ==
  /\ inEpisode = Underwater(Len(wealth))'
  /\ UNCHANGED <<inEpisode, start, peak, episodes>>

Observe ==
  /\ Len(wealth) < MaxObservations
  /\ \E w \in Levels, gap \in Gaps : Supply(w, gap)
  /\ Begin \/ Recover \/ Remain

Spec == Init /\ [][Observe]_vars

-----------------------------------------------------------------------------
(* Properties *)

Indices == 1 .. MaxObservations

MaybeNat == Nat \cup {None}

EpisodeRecords ==
  [peak : Indices \cup {None}, trough : Indices, recovery : Indices \cup {None},
   depth : [wealth : Levels, peak : Nat \ {0}],
   toTrough : MaybeNat, toRecovery : MaybeNat, total : MaybeNat]

(* The variables of the loop. *)
TypeOK ==
  /\ wealth \in Seq(Levels) /\ Len(wealth) <= MaxObservations
  /\ dates \in Seq(Nat) /\ Len(dates) = Len(wealth)
  /\ peaks \in Seq(Nat \ {0}) /\ Len(peaks) = Len(wealth)
  /\ inEpisode \in BOOLEAN
  /\ start \in Indices \cup {0}
  /\ peak \in Indices \cup {None}
  /\ episodes \in Seq(EpisodeRecords)

(* The days of an episode, by its record alone. *)
SpanOf(e) ==
  (IF e.peak = None THEN 1 ELSE e.peak + 1) ..
  (IF e.recovery = None THEN Len(wealth) ELSE e.recovery - 1)

(* The episodes tell exactly which days were below the running peak: each such
   day is in one of them, none is in two, they come in order, and only the last
   can lack a recovery (build_episodes_from_values). *)
EpisodesCoverLosses ==
  /\ {i \in Days : Underwater(i)} = UNION {SpanOf(Episodes[k]) : k \in Listing}
  /\ \A k, l \in Listing : k < l =>
       /\ Episodes[k].recovery # None
       /\ Episodes[l].peak >= Episodes[k].recovery

(* The date given as peak is one on which wealth was as high as it had ever
   been, the opening included; no date is given exactly if every day up to the
   trough was below the opening (_episode_peak_date). *)
PeaksAreHighest ==
  \A k \in Listing :
    LET e == Episodes[k] IN
    IF e.peak = None
      THEN \A i \in 1 .. e.trough : wealth[i] < Opening
      ELSE /\ wealth[e.peak] >= Opening
           /\ \A i \in 1 .. e.trough : wealth[i] <= wealth[e.peak]

(* /analytics/risk/drawdown and /analytics/risk/calculate, which compute it
   differently, tell the same maximum drawdown: depth, trough and recovery; and
   their peaks are days of one level, or both the opening. *)
EndpointsAgree ==
  Listing # {} =>
    /\ DetailTrough = Extreme.trough
    /\ Depth(DetailTrough) = Extreme.depth
    /\ DetailRecovery = Extreme.recovery
    /\ DetailPeak = None <=> Extreme.peak = None
    /\ DetailPeak # None =>
         DetailPeak <= Extreme.peak /\ wealth[DetailPeak] = wealth[Extreme.peak]

(* The list of a response is to be relied on: it holds the maximum drawdown of
   the summary whenever that is deep enough, it leaves out no episode deeper
   than one it holds, and the durations it gives add up, down and up again
   making the whole (_episode_models, duration_days). *)
EpisodesAreListed ==
  /\ Cardinality(Listed) <= TopN
  /\ \A k \in Listing \ Listed, l \in Listed :
       DeepEnough(k) => ~Deeper(Episodes[k].depth, Episodes[l].depth)
  /\ Listing # {} /\ (\E k \in Listing : DeepEnough(k))
       => \E k \in Listed : Episodes[k] = Extreme
  /\ \A k \in Listing :
       LET e == Episodes[k] IN
       e.peak # None =>
         IF e.recovery # None THEN e.total = e.toTrough + e.toRecovery
                              ELSE e.total >= e.toTrough

(* A longer period tells no other story of its beginning: an episode stays
   with its peak, it only gets deeper, and once recovered it stays as it is. *)
HistoryStands ==
  [][\A k \in Listing :
       /\ k \in Listing'
       /\ Episodes'[k].peak = Episodes[k].peak
       /\ ~Deeper(Episodes[k].depth, Episodes'[k].depth)
       /\ Episodes[k].recovery # None => Episodes'[k] = Episodes[k]]_vars
=============================================================================
