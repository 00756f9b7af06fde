---------------------------- MODULE MarketAnalysis ----------------------------
(***************************************************************************)
(* process_closed_candle (services/pipeline.py) from the swings to the     *)
(* trade setups, for one symbol and timeframe: one analysis of one candle  *)
(* reads the candles stored so far and updates every derived table, in one *)
(* transaction.  Candles are stored with gaps that are filled later, so a  *)
(* candle is analysed in its turn, late (after newer ones), or again; the  *)
(* wave counts are recalculated on request, and a rebuild deletes all that *)
(* was derived.  A candle whose symbol or timeframe is not enabled, or     *)
(* whose prices do not fit together, changes nothing here.  The setups'    *)
(* life after their creation is PaperTrading's.                            *)
(***************************************************************************)
EXTENDS SetupGeometry

CONSTANTS
  Feeds,      \* bound: the markets, sequences of candles
  Scorings,   \* bound: the confidence counts of each shape and end may have
  Graded,     \* bound: what the score of a sweep may be: a subset of Scores
  Missing,    \* bound: candles missing before the newest one stored
  Backlog,    \* bound: candles stored that wait for their analysis
  MaxExtra    \* bound: late and repeated analyses, recalculations, rebuilds

Places == UNION {DOMAIN f : f \in Feeds}

(* A candle is stored when its prices fit together (schemas/common.py:54).  *)
ASSUME AnalysisAssumption ==
  /\ Feeds \subseteq Seq([open : Int, high : Int, low : Int, close : Int])
  /\ \A f \in Feeds : \A k \in DOMAIN f :
       /\ f[k].low <= f[k].open /\ f[k].open <= f[k].high
       /\ f[k].low <= f[k].close /\ f[k].close <= f[k].high
  /\ Scorings \subseteq [impulse : [1..6 -> [Places -> Nat]], zigzag : [1..4 -> [Places -> Nat]]]
  /\ Graded \subseteq Scores /\ {Missing, Backlog, MaxExtra} \subseteq Nat

VARIABLES
  swings, events, gaps, blocks, pools, sweeps, counts,   \* the derived tables
  setups,     \* what the last analysis may accept as trade setups
  latest,     \* the candle it was of; 0 before any
  analysed,   \* the candles analysed so far
  extra

derived == <<swings, events, gaps, blocks, pools, sweeps, counts>>
vars == <<feed, stored, derived, setups, latest, analysed, extra>>

Init ==
  /\ feed \in Feeds /\ stored = {}
  /\ swings = <<>> /\ events = <<>> /\ gaps = <<>> /\ blocks = <<>>
  /\ pools = <<>> /\ sweeps = <<>> /\ counts = <<>>
  /\ setups = {} /\ latest = 0 /\ analysed = {} /\ extra = 0

(* The next candle arrives, or one after it, or one missing so far.         *)
CandleStored(i) ==
  /\ i \notin stored /\ Cardinality((1..i) \ (stored \cup {i})) <= Missing
  /\ Cardinality(stored \ analysed) <= Backlog
  /\ stored' = stored \cup {i}
  /\ UNCHANGED <<feed, derived, setups, latest, analysed, extra>>

(* In its turn a candle is the newest stored and not analysed yet.          *)
Extra(i) == IF i \in analysed \/ \E k \in stored : k > i THEN 1 ELSE 0

(* The stages of process_closed_candle in their order: a sweep may be       *)
(* confirmed by structure of the same candle, the counts see the swings it  *)
(* confirms, and the setups all of them.                                    *)
Stages(i, score, scoring) ==
  LET swings1 == SwingsAfter(swings, i)
      known == KnownSwings(swings1, i)
      signals == StructureBreaks(swings1, known, i)
      events1 == EventsAfter(events, signals)
      gaps1 == GapsAfter(gaps, i)
      swept == SweepStage(PoolsAfter(pools, swings1, known, i), sweeps, i, score)
      blocks1 == BlocksAfter(blocks, events1, signals, i)
      counts1 == CountsAfter(counts, swings1, known, i, scoring)
  IN  [swings |-> swings1, events |-> events1, gaps |-> gaps1, blocks |-> blocks1,
       pools |-> swept.pools, sweeps |-> swept.sweeps, counts |-> counts1,
       setups |-> StructuralSetups(i, swings1, known, events1, gaps1, blocks1,
                                   swept.pools, swept.sweeps, signals)
                  \cup WaveSetups(i, swings1, known, events1, gaps1, blocks1,
                                  swept.pools, swept.sweeps, counts1, signals)]

(* process_closed_candle.  TLC takes the stages once, from the set of them. *)
Analyse(i, score, scoring) ==
  /\ i \in stored /\ extra + Extra(i) <= MaxExtra
  /\ \E new \in {Stages(i, score, scoring)} :
       /\ swings' = new.swings /\ events' = new.events /\ gaps' = new.gaps
       /\ blocks' = new.blocks /\ pools' = new.pools /\ sweeps' = new.sweeps
       /\ counts' = new.counts /\ setups' = new.setups
  /\ latest' = i /\ analysed' = analysed \cup {i} /\ extra' = extra + Extra(i)
  /\ UNCHANGED <<feed, stored>>

(* POST /elliott-wave/recalculate                                           *)
RecalculateElliott(rebuild, scoring) ==
  /\ extra < MaxExtra /\ counts # <<>>
  /\ counts' = Recalculated(counts, swings, rebuild, scoring)
  /\ setups' = {} /\ extra' = extra + 1
  /\ UNCHANGED <<feed, stored, swings, events, gaps, blocks, pools, sweeps, latest, analysed>>

(* _delete_derived, before a rebuild analyses the candles again.            *)
DeleteDerived ==
  /\ extra < MaxExtra /\ analysed # {}
  /\ swings' = <<>> /\ events' = <<>> /\ gaps' = <<>> /\ blocks' = <<>>
  /\ pools' = <<>> /\ sweeps' = <<>> /\ counts' = <<>>
  /\ setups' = {} /\ latest' = 0 /\ analysed' = {} /\ extra' = extra + 1
  /\ UNCHANGED <<feed, stored>>

(* An analysis scores each sweep, also that of a pool it is about to find.  *)
Judgements == [1..(Len(pools) + 1) -> Graded]

Next ==
  \/ \E i \in DOMAIN feed : CandleStored(i)
  \/ \E i \in stored, score \in Judgements, scoring \in Scorings : Analyse(i, score, scoring)
  \/ \E rebuild \in BOOLEAN, scoring \in Scorings : RecalculateElliott(rebuild, scoring)
  \/ DeleteDerived

Spec == Init /\ [][Next]_vars

-----------------------------------------------------------------------------
ZoneStatuses == Live \cup {"fully_mitigated", "invalidated"}

(* Rows stay well formed and refer to rows there are.                       *)
MarketTypeOK ==
  /\ \A s \in DOMAIN swings : swings[s].candle \in stored /\ swings[s].type \in {"high", "low"}
  /\ \A e \in DOMAIN events : events[e].swing \in DOMAIN swings /\ events[e].type \in {"BOS", "CHoCH"}
  /\ \A g \in DOMAIN gaps : gaps[g].lower < gaps[g].upper /\ gaps[g].status \in ZoneStatuses
  /\ \A b \in DOMAIN blocks :
       /\ blocks[b].event \in DOMAIN events /\ blocks[b].status \in ZoneStatuses
  /\ \A p \in DOMAIN pools :
       /\ {pools[p].first, pools[p].second} \subseteq DOMAIN swings
       /\ pools[p].strength \in 0..100 /\ pools[p].status \in {"active", "swept", "invalidated"}
  /\ \A s \in DOMAIN sweeps :
       /\ sweeps[s].pool \in DOMAIN pools /\ sweeps[s].penetration \in Nat
       /\ sweeps[s].status \in {"candidate", "confirmed", "invalidated", "expired"}
  /\ \A r \in DOMAIN counts :
       /\ counts[r].rank \in 0..(MaxAlternates + 1) /\ counts[r].start < counts[r].end
       /\ counts[r].status \in {"candidate", "primary", "alternate", "invalidated", "completed"}

(* "Every persistence step has a natural uniqueness key, making repeated    *)
(* candle updates and repeated close processing idempotent" (README.md:24): *)
(* late and repeated analyses leave one row per key, which for a count is   *)
(* its pattern_type and its candles (models/entities.py:385-393).           *)
Unique(rows, Key(_)) ==
  \A a, b \in DOMAIN rows : Key(rows[a]) = Key(rows[b]) => a = b

RowsAreUnique ==
  /\ Unique(swings, LAMBDA s : <<s.candle, s.type>>)
  /\ Unique(events, LAMBDA e : <<e.type, e.swing, e.at>>)
  /\ Unique(gaps, LAMBDA g : <<g.candles, g.direction>>)
  /\ Unique(blocks, LAMBDA b : b.event)
  /\ Unique(pools, LAMBDA p : <<p.type, p.first, p.second>>)
  /\ Unique(counts, LAMBDA c : <<c.pattern, c.direction, c.start, c.end>>)

(* A pool is swept once: it has one sweep at most, is open to targets and   *)
(* sweeps exactly while that is undecided, and is swept exactly when it was *)
(* confirmed (services/pipeline.py:495-513, 524-590).                       *)
PoolFollowsSweep ==
  \A p \in DOMAIN pools :
    LET of == {s \in DOMAIN sweeps : sweeps[s].pool = p} IN
    /\ Cardinality(of) <= 1
    /\ pools[p].status = "active" <=> \A s \in of : sweeps[s].status = "candidate"
    /\ pools[p].status = "swept" <=> \E s \in of : sweeps[s].status = "confirmed"

(* The ranking is one list, although candles are analysed late, counts age  *)
(* out of it and recalculations write it too: the ranks run from 1 without  *)
(* a gap, a better rank has no lower confidence, the first is the only      *)
(* primary, and there are no more alternates than configured                *)
(* (elliott/service.py:156-205).                                            *)
OnePrimary ==
  LET placed == {r \in DOMAIN counts : counts[r].status \in {"primary", "alternate"}} IN
  /\ {counts[r].rank : r \in placed} = 1..Cardinality(placed)
  /\ Cardinality(placed) <= MaxAlternates + 1
  /\ \A r \in placed :
       /\ counts[r].status = "primary" <=> counts[r].rank = 1
       /\ \A s \in placed : counts[r].rank < counts[s].rank => counts[r].confidence >= counts[s].confidence

(* "Replay only exposes swings after their stored confirmation time,        *)
(* preventing future pivots from leaking into historical counts"            *)
(* (README.md:167): what an analysis of a candle adds rests on nothing that *)
(* only a later candle has shown, however late the candle is analysed.      *)
NoFutureLeak ==
  /\ \A e \in DOMAIN events :
       swings[events[e].swing].at <= events[e].at /\ swings[events[e].swing].candle < events[e].at
  /\ \A p \in DOMAIN pools : \A s \in {pools[p].first, pools[p].second} : swings[s].at <= pools[p].at
  /\ \A s \in DOMAIN sweeps : pools[sweeps[s].pool].at <= sweeps[s].candle
  /\ \A b \in DOMAIN blocks : blocks[b].candle < events[blocks[b].event].at
  /\ \A r \in DOMAIN counts : \A s \in Range(counts[r].points) : swings[s].at <= counts[r].at

(* A setup that is accepted is not dead already: the candle it was detected *)
(* on has touched neither its stop nor the far side of its zone, although   *)
(* the stop comes from an earlier sweep and the zone from earlier candles   *)
(* (smc/setups.py:79-147, services/pipeline.py:371-392, 610-641).           *)
AcceptedNotStopped ==
  \A s \in setups :
    IF s.direction = "bullish"
    THEN feed[latest].low > s.stop /\ feed[latest].close >= s.zone.low
    ELSE feed[latest].high < s.stop /\ feed[latest].close <= s.zone.high
=============================================================================
