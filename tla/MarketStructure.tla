--------------------------- MODULE MarketStructure ---------------------------
(***************************************************************************)
(* The smart-money detectors of one symbol and timeframe: confirmed swing  *)
(* points (structure/swings.py), breaks of structure (structure/engine.py),*)
(* fair value gaps (fvg/detector.py), liquidity pools and order blocks     *)
(* (smc/engine.py) and liquidity sweeps (smc/sweeps.py), with what         *)
(* process_closed_candle (services/pipeline.py) stores of each.            *)
(*                                                                         *)
(* Every operator gives the rows of one table after the analysis of a      *)
(* candle i, from the candles stored so far and the rows of the tables     *)
(* before it; MarketAnalysis composes them.  A candle is named by its      *)
(* number, which is its open time and, as detected_at, its close time; a   *)
(* row's id is its place in its table.  Distances in per cent of a price   *)
(* are distances in price units; the score of each sweep is a choice of    *)
(* the analysis that decides about it, score[p] for the sweep of pool p.   *)
(***************************************************************************)
EXTENDS Integers, Sequences, FiniteSets, FiniteSetsExt, SequencesExt, Orders

CONSTANTS
  LeftBars, RightBars,          \* swing_left_bars, swing_right_bars
  WickBreak,                    \* wick_break_allowed
  BreakConfidence,              \* structure_confidence_threshold, in per cent
  MinGap,                       \* minimum_fvg_atr_size times the ATR
  Tolerance,                    \* liquidity_tolerance_percentage
  MinStrength,                  \* sweep_liquidity_strength_threshold, in per cent
  MinPenetration, MaxPenetration,
  SameCandle,                   \* sweep_allow_same_candle_confirmation
  ConfirmWithin, SweepExpiry    \* sweep_confirmation_candles, sweep_expiry_candles

ASSUME StructureAssumption ==
  /\ {LeftBars, RightBars} \subseteq Nat \ {0}
  /\ {WickBreak, SameCandle} \subseteq BOOLEAN
  /\ {BreakConfidence, MinGap, Tolerance, MinStrength, MinPenetration, MaxPenetration,
      ConfirmWithin, SweepExpiry} \subseteq Nat

VARIABLES
  feed,     \* the candles of the market, in time order: [open, high, low, close]
  stored    \* the numbers of those stored so far; a gap is filled later

Live == {"active", "partially_mitigated"}
Scores == {"low", "fair", "high"}   \* below the minimum, below 70, 70 and more

(* The candles the analysis of candle i reads, oldest first.                *)
Window(i) == Ascending({k \in stored : k <= i})

(* Rows of a table in the order of detected_at and id.                      *)
ByDetection(rows, S) ==
  Ordered(S, {p \in (DOMAIN rows) \X (DOMAIN rows) :
                \/ rows[p[1]].at < rows[p[2]].at
                \/ rows[p[1]].at = rows[p[2]].at /\ p[1] < p[2]})

(* The row found, if any, unless the table has one of the same key.         *)
AddFound(rows, found, Same(_, _)) ==
  IF found = {} THEN rows
  ELSE LET row == CHOOSE f \in found : TRUE
       IN  IF \E r \in DOMAIN rows : Same(rows[r], row) THEN rows ELSE Append(rows, row)

-----------------------------------------------------------------------------
(* Swing points                                                            *)

(* detect_confirmed_pivot: the sides on which the candle in the middle of   *)
(* the last LeftBars + 1 + RightBars is strictly beyond all the others.     *)
PivotCandle(i) == LET w == Window(i) IN w[Len(w) - RightBars]

ConfirmedPivots(i) ==
  LET w == Window(i)
      n == Len(w)
      pivot == feed[w[n - RightBars]]
      others == {feed[w[k]] : k \in ((n - LeftBars - RightBars)..n) \ {n - RightBars}}
  IN  IF n < LeftBars + RightBars + 1 THEN {}
      ELSE {type \in {"high", "low"} : \A c \in others :
              IF type = "high" THEN pivot.high > c.high ELSE pivot.low < c.low}

SwingRow(candle, type, i) ==
  [candle |-> candle, type |-> type, price |-> feed[candle][type], at |-> i]

(* Mutant: a pivot is stored again when its candle is analysed again.       *)
SwingsAfterAgain(swings, i) ==
  LET row(type) == IF type \in ConfirmedPivots(i)
                   THEN <<SwingRow(PivotCandle(i), type, i)>> ELSE <<>>
  IN  swings \o row("high") \o row("low")

SwingsAfter(swings, i) ==
  LET pivots == ConfirmedPivots(i)
      candle == PivotCandle(i)
      add(rows, type) ==
        AddFound(rows, IF type \in pivots THEN {SwingRow(candle, type, i)} ELSE {},
                 LAMBDA r, s : r.candle = s.candle /\ r.type = s.type)
  IN  add(add(swings, "high"), "low")

(* Mutant: also swings that only a later candle has confirmed.              *)
KnownSwingsAhead(swings, i) ==
  {s \in DOMAIN swings : swings[s].candle < i}

(* The swings an analysis of candle i may use.                              *)
KnownSwings(swings, i) ==
  {s \in DOMAIN swings : swings[s].at <= i /\ swings[s].candle < i}

OfType(swings, known, type) == ByDetection(swings, {s \in known : swings[s].type = type})

-----------------------------------------------------------------------------
(* Breaks of structure                                                     *)

ClassifyTrend(swings, known) ==
  LET highs == OfType(swings, known, "high")
      lows == OfType(swings, known, "low")
      step(ids) == swings[Last(ids)].price - swings[ids[Len(ids) - 1]].price
  IN  IF Len(highs) < 2 \/ Len(lows) < 2 THEN "undefined"
      ELSE IF step(highs) > 0 /\ step(lows) > 0 THEN "bullish"
      ELSE IF step(highs) < 0 /\ step(lows) < 0 THEN "bearish"
      ELSE "range"

(* detect_structure_break: the break of the last high, else of the last low,*)
(* by a candle whose predecessor had not broken it; at most one.            *)
StructureBreaks(swings, known, i) ==
  LET trend == ClassifyTrend(swings, known)
      highs == OfType(swings, known, "high")
      lows == OfType(swings, known, "low")
      w == Window(i)
      before == IF Len(w) > 1 THEN {w[Len(w) - 1]} ELSE {}
      top(k) == IF WickBreak THEN feed[k].high ELSE feed[k].close
      bottom(k) == IF WickBreak THEN feed[k].low ELSE feed[k].close
      up == top(i) > swings[Last(highs)].price /\ \A k \in before : top(k) <= swings[Last(highs)].price
      down == bottom(i) < swings[Last(lows)].price /\ \A k \in before : bottom(k) >= swings[Last(lows)].price
      signal(direction, against, s) ==
        [type |-> IF trend = against THEN "CHoCH" ELSE "BOS", direction |-> direction,
         swing |-> s, at |-> i]
  IN  IF \/ highs = <<>> \/ lows = <<>>
         \/ (IF trend \in {"bearish", "bullish"} THEN 85 ELSE 65) < BreakConfidence THEN {}
      ELSE IF up THEN {signal("bullish", "bearish", Last(highs))}
      ELSE IF down THEN {signal("bearish", "bullish", Last(lows))}
      ELSE {}

EventsAfter(events, signals) == AddFound(events, signals, LAMBDA r, e : r = e)

-----------------------------------------------------------------------------
(* Zones: fair value gaps and order blocks                                 *)

(* detect_fvg: a gap between the candles around a strong middle candle.     *)
FairValueGaps(i) ==
  LET w == Window(i)
      n == Len(w)
      first == feed[w[n - 2]]
      middle == feed[w[n - 1]]
      third == feed[i]
      body == IF middle.close > middle.open THEN middle.close - middle.open
                                            ELSE middle.open - middle.close
      gap(direction, lower, upper) ==
        IF upper - lower < MinGap THEN {}
        ELSE {[direction |-> direction, lower |-> lower, upper |-> upper,
               candles |-> <<w[n - 2], w[n - 1], i>>, at |-> i, status |-> "active"]}
  IN  IF n < 3 THEN {}
      ELSE IF middle.high <= middle.low \/ 2 * body < middle.high - middle.low THEN {}
      ELSE IF first.high < third.low /\ middle.close > middle.open
           THEN gap("bullish", first.high, third.low)
      ELSE IF first.low > third.high /\ middle.close < middle.open
           THEN gap("bearish", third.high, first.low)
      ELSE {}

(* Mutant: a candle touches a zone with its close only.                     *)
MitigatedByClose(zone, c) ==
  LET deep == IF zone.direction = "bullish" THEN zone.upper - c.close ELSE c.close - zone.lower
      size == zone.upper - zone.lower
  IN  IF size <= 0 THEN zone.status
      ELSE IF deep > size THEN "invalidated"
      ELSE IF deep = size THEN "fully_mitigated"
      ELSE IF deep > 0 THEN "partially_mitigated" ELSE "active"

(* mitigation_update: only how deep this candle went counts.                *)
Mitigated(zone, c) ==
  LET size == zone.upper - zone.lower
      broken == IF zone.direction = "bullish" THEN c.close < zone.lower ELSE c.close > zone.upper
      deep == IF zone.direction = "bullish" THEN zone.upper - c.low ELSE c.high - zone.lower
  IN  IF size <= 0 THEN zone.status
      ELSE IF broken THEN "invalidated"
      ELSE IF deep >= size THEN "fully_mitigated"
      ELSE IF deep > 0 THEN "partially_mitigated" ELSE "active"

(* order_block_mitigation is the same calculation.                          *)
BlockMitigated(block, c) == Mitigated(block, c)

(* A candle mitigates the gaps stored before it, never the one it completes.*)
GapsAfter(gaps, i) ==
  LET all == AddFound(gaps, FairValueGaps(i),
                      LAMBDA r, g : r.candles = g.candles /\ r.direction = g.direction)
  IN  [z \in DOMAIN all |->
         IF all[z].at <= i /\ all[z].status \in Live /\ Last(all[z].candles) # i
         THEN [all[z] EXCEPT !.status = Mitigated(all[z], feed[i])] ELSE all[z]]

(* detect_order_block: the last candle against the direction of a BOS.      *)
OrderBlocks(events, signals, i) ==
  LET e == CHOOSE s \in signals : TRUE
      against == {k \in stored : /\ k < i
                    /\ IF e.direction = "bullish" THEN feed[k].close < feed[k].open
                                                  ELSE feed[k].close > feed[k].open}
      k == Max(against)
  IN  IF signals = {} THEN {}
      ELSE IF e.type # "BOS" \/ against = {} THEN {}
      ELSE {[direction |-> e.direction, candle |-> k, upper |-> feed[k].high,
             lower |-> feed[k].low, event |-> SelectInSeq(events, LAMBDA r : r = e),
             at |-> i, status |-> "active"]}

(* A new block is mitigated by the very candle that made it.                *)
BlocksAfter(blocks, events, signals, i) ==
  LET all == AddFound(blocks, OrderBlocks(events, signals, i), LAMBDA r, b : r.event = b.event)
  IN  [z \in DOMAIN all |->
         IF all[z].at <= i /\ all[z].status \in Live /\ all[z].candle # i
         THEN [all[z] EXCEPT !.status = BlockMitigated(all[z], feed[i])] ELSE all[z]]

-----------------------------------------------------------------------------
(* Liquidity pools and their sweeps                                        *)

(* detect_liquidity: the last swing and the one of its type before it, at   *)
(* nearly one price.                                                        *)
LiquidityPools(swings, known, i) ==
  LET last == Last(ByDetection(swings, known))
      same == OfType(swings, known, swings[last].type)
      a == swings[same[Len(same) - 1]].price
      b == swings[last].price
      apart == Max({a - b, b - a})
      buySide == swings[last].type = "high"
  IN  IF known = {} THEN {}
      ELSE IF Len(same) < 2 THEN {}
      ELSE IF apart > Tolerance THEN {}
      ELSE {[type |-> IF buySide THEN "BSL" ELSE "SSL",
             price |-> IF buySide THEN Max({a, b}) ELSE Min({a, b}),
             strength |-> IF Tolerance = 0 THEN 100 ELSE 100 - (100 * apart) \div Tolerance,
             first |-> same[Len(same) - 1], second |-> last, at |-> i,
             status |-> "active"]}

PoolsAfter(pools, swings, known, i) ==
  AddFound(pools, LiquidityPools(swings, known, i),
           LAMBDA r, p : r.type = p.type /\ r.first = p.first /\ r.second = p.second)

(* _metrics                                                                 *)
SweepDirection(pool) == IF pool.type = "SSL" THEN "bullish" ELSE "bearish"
Extreme(pool, c) == IF pool.type = "SSL" THEN c.low ELSE c.high
Penetration(pool, c) ==
  Max({0, IF pool.type = "SSL" THEN pool.price - c.low ELSE c.high - pool.price})
Reclaimed(pool, c) ==
  IF pool.type = "SSL" THEN c.close > pool.price ELSE c.close < pool.price

(* detect_sweep, "" for no decision.                                        *)
DetectSweep(pool, c, score) ==
  LET same == Reclaimed(pool, c) /\ SameCandle IN
  IF pool.strength < MinStrength \/ Penetration(pool, c) < MinPenetration THEN ""
  ELSE IF Penetration(pool, c) > MaxPenetration THEN "invalidated"
  ELSE IF score = "low" THEN ""
  ELSE IF same /\ score = "high" THEN "confirmed" ELSE "candidate"

(* update_sweep: the row after candle i.                                    *)
UpdateSweep(sweep, pool, i, score) ==
  LET c == feed[i]
      age == Cardinality({k \in stored : sweep.candle < k /\ k <= i})
      deepest == Max({sweep.penetration, Penetration(pool, c)})
      extreme == IF sweep.direction = "bullish" THEN Min({sweep.extreme, c.low})
                                                ELSE Max({sweep.extreme, c.high})
      becomes(status) == [sweep EXCEPT !.status = status, !.extreme = extreme,
                                       !.penetration = deepest,
                                       !.confirmed = IF status = "confirmed" THEN i ELSE @]
  IN  IF deepest > MaxPenetration \/ age > ConfirmWithin THEN becomes("invalidated")
      ELSE IF age > SweepExpiry THEN becomes("expired")
      ELSE IF ~Reclaimed(pool, c) THEN sweep
      ELSE becomes(IF score = "high" THEN "confirmed" ELSE "candidate")

(* The status a sweep's decision gives its pool.                            *)
PoolStatus(pool, status) ==
  CASE status = "confirmed" -> "swept"
    [] status \in {"invalidated", "expired"} -> "invalidated"
    [] OTHER -> pool.status

(* First the candidates, whatever candle they are of, then every active     *)
(* pool that has no sweep yet.                                              *)
SweepsUpdated(sweeps, pools, i, score) ==
  [s \in DOMAIN sweeps |->
     IF sweeps[s].status = "candidate"
     THEN UpdateSweep(sweeps[s], pools[sweeps[s].pool], i, score[sweeps[s].pool])
     ELSE sweeps[s]]

SweepablePools(sweeps, pools, i) ==
  {p \in DOMAIN pools : /\ pools[p].at <= i /\ pools[p].status = "active"
                        /\ \A s \in DOMAIN sweeps : sweeps[s].pool # p}

NewSweeps(sweeps, pools, i, score) ==
  LET c == feed[i]
      swept == Ascending({p \in SweepablePools(sweeps, pools, i) :
                            DetectSweep(pools[p], c, score[p]) # ""})
      row(p) == LET status == DetectSweep(pools[p], c, score[p]) IN
        [pool |-> p, direction |-> SweepDirection(pools[p]), candle |-> i, status |-> status,
         extreme |-> Extreme(pools[p], c), penetration |-> Penetration(pools[p], c),
         confirmed |-> IF status = "confirmed" THEN i ELSE 0]
  IN  [k \in DOMAIN swept |-> row(swept[k])]

(* Mutant: a sweep confirmed by its own candle leaves its pool as it is.    *)
PoolsSweptLate(pools, sweeps, decided) ==
  LET of(p) == {s \in decided : sweeps[s].pool = p} IN
  [p \in DOMAIN pools |->
     IF of(p) = {} \/ \E s \in of(p) : sweeps[s].confirmed = sweeps[s].candle THEN pools[p]
     ELSE [pools[p] EXCEPT !.status = PoolStatus(pools[p], sweeps[Max(of(p))].status)]]

(* The decisions about some sweeps are written to their pools.              *)
PoolsSwept(pools, sweeps, decided) ==
  LET of(p) == {s \in decided : sweeps[s].pool = p} IN
  [p \in DOMAIN pools |->
     IF of(p) = {} THEN pools[p]
     ELSE [pools[p] EXCEPT !.status = PoolStatus(pools[p], sweeps[Max(of(p))].status)]]

(* The pools and sweeps once candle i has decided about the candidates and  *)
(* then about the pools still open.                                         *)
SweepStage(pools, sweeps, i, score) ==
  LET candidates == {s \in DOMAIN sweeps : sweeps[s].status = "candidate"}
      updated == SweepsUpdated(sweeps, pools, i, score)
      open == PoolsSwept(pools, updated, candidates)
      all == updated \o NewSweeps(updated, open, i, score)
  IN  [sweeps |-> all, pools |-> PoolsSwept(open, all, (DOMAIN all) \ DOMAIN sweeps)]
=============================================================================
