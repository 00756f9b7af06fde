------------------------ MODULE MarketAnalysis_proofs ------------------------
(***************************************************************************)
(* What MarketAnalysis promises, for any markets, settings and number of   *)
(* analyses, in any order.  The invariant has one part per derived table,  *)
(* and the argument one lemma per stage of the pipeline: the stage keeps   *)
(* the part of its table, and the tables it reads have only grown.         *)
(***************************************************************************)
EXTENDS MarketAnalysis, Recursion

Directions == {"bullish", "bearish"}

FeedOK ==
  /\ feed \in Feeds
  /\ feed \in Seq([open : Int, high : Int, low : Int, close : Int])
  /\ \A k \in DOMAIN feed :
       /\ feed[k].low <= feed[k].open /\ feed[k].open <= feed[k].high
       /\ feed[k].low <= feed[k].close /\ feed[k].close <= feed[k].high
  /\ stored \subseteq 1..Len(feed)

(* The rows of the tables, which refer to rows of the tables before them.   *)
SwingRows == [candle : stored, type : {"high", "low"}, price : Int, at : stored]

EventRows(sw) ==
  [type : {"BOS", "CHoCH"}, direction : Directions, swing : DOMAIN sw, at : stored]

GapRows ==
  [direction : Directions, lower : Int, upper : Int, candles : stored \X stored \X stored,
   at : stored, status : ZoneStatuses]

BlockRows(ev) ==
  [direction : Directions, candle : stored, upper : Int, lower : Int, event : DOMAIN ev,
   at : stored, status : ZoneStatuses]

PoolRows(sw) ==
  [type : {"BSL", "SSL"}, price : Int, strength : 0..100, first : DOMAIN sw, second : DOMAIN sw,
   at : stored, status : {"active", "swept", "invalidated"}]

SweepRows(ps) ==
  [pool : DOMAIN ps, direction : Directions, candle : stored,
   status : {"candidate", "confirmed", "invalidated", "expired"}, extreme : Int,
   penetration : Nat, confirmed : Nat]

CountType(sw) ==
  [pattern : {"impulse", "zigzag"}, direction : Directions, points : Seq(DOMAIN sw),
   start : stored, end : stored, confidence : Nat, origin : Int, targets : SUBSET Int,
   complete : BOOLEAN, at : stored,
   status : {"candidate", "primary", "alternate", "invalidated", "completed"},
   rank : 0..(MaxAlternates + 1)]

(* A high is broken upwards.                                                *)
Breaking(type) == IF type = "high" THEN "bullish" ELSE "bearish"

SwingsOK(sw) ==
  /\ sw \in Seq(SwingRows)
  /\ \A a, b \in DOMAIN sw : sw[a].candle = sw[b].candle /\ sw[a].type = sw[b].type => a = b

EventsOK(ev, sw) ==
  /\ ev \in Seq(EventRows(sw))
  /\ \A a, b \in DOMAIN ev :
       ev[a].type = ev[b].type /\ ev[a].swing = ev[b].swing /\ ev[a].at = ev[b].at => a = b
  /\ \A e \in DOMAIN ev :
       /\ sw[ev[e].swing].at <= ev[e].at /\ sw[ev[e].swing].candle < ev[e].at
       /\ ev[e].direction = Breaking(sw[ev[e].swing].type)

GapsOK(gp) ==
  /\ gp \in Seq(GapRows)
  /\ \A g \in DOMAIN gp :
       /\ gp[g].lower < gp[g].upper /\ gp[g].candles[3] = gp[g].at
       /\ IF gp[g].direction = "bullish" THEN gp[g].upper = feed[gp[g].at].low
                                         ELSE gp[g].lower = feed[gp[g].at].high
  /\ \A a, b \in DOMAIN gp :
       gp[a].candles = gp[b].candles /\ gp[a].direction = gp[b].direction => a = b

BlocksOK(bl, ev) ==
  /\ bl \in Seq(BlockRows(ev))
  /\ \A b \in DOMAIN bl :
       /\ bl[b].lower < bl[b].upper /\ bl[b].candle < bl[b].at
       /\ bl[b].candle < ev[bl[b].event].at
  /\ \A a, b \in DOMAIN bl : bl[a].event = bl[b].event => a = b

PoolsOK(ps, sw) ==
  /\ ps \in Seq(PoolRows(sw))
  /\ \A p \in DOMAIN ps : sw[ps[p].first].at <= ps[p].at /\ sw[ps[p].second].at <= ps[p].at
  /\ \A a, b \in DOMAIN ps :
       ps[a].type = ps[b].type /\ ps[a].first = ps[b].first /\ ps[a].second = ps[b].second => a = b

SweepsOK(ss, ps) ==
  /\ ss \in Seq(SweepRows(ps))
  /\ \A s \in DOMAIN ss : ps[ss[s].pool].at <= ss[s].candle
  /\ \A a, b \in DOMAIN ss : ss[a].pool = ss[b].pool => a = b

CountsOK(ct, sw) ==
  /\ ct \in Seq(CountType(sw))
  /\ \A r \in DOMAIN ct :
       /\ ct[r].start < ct[r].end
       /\ \A s \in Range(ct[r].points) : sw[s].at <= ct[r].at
  /\ \A a, b \in DOMAIN ct : SameCount(ct[a], ct[b]) => a = b

(* The status of a pool and of its sweep.                                   *)
Due(sweep) == CASE sweep.status = "candidate" -> "active"
                [] sweep.status = "confirmed" -> "swept"
                [] OTHER -> "invalidated"

Followed(ps, ss) ==
  /\ \A p \in DOMAIN ps :
       (\A s \in DOMAIN ss : ss[s].pool # p) => ps[p].status = "active"
  /\ \A s \in DOMAIN ss : ps[ss[s].pool].status = Due(ss[s])

(* Which ranks there are.                                                   *)
InPlace(ct) == {r \in DOMAIN ct : ct[r].status \in {"primary", "alternate"}}

RanksOK(ct) ==
  /\ {ct[r].rank : r \in InPlace(ct)} = 1..Cardinality(InPlace(ct))
  /\ Cardinality(InPlace(ct)) <= MaxAlternates + 1
  /\ \A r \in InPlace(ct) :
       /\ ct[r].status = "primary" <=> ct[r].rank = 1
       /\ \A s \in InPlace(ct) : ct[r].rank < ct[s].rank => ct[r].confidence >= ct[s].confidence

MarketInv ==
  /\ FeedOK /\ analysed \subseteq stored
  /\ SwingsOK(swings) /\ EventsOK(events, swings)
  /\ GapsOK(gaps) /\ BlocksOK(blocks, events)
  /\ PoolsOK(pools, swings) /\ SweepsOK(sweeps, pools) /\ Followed(pools, sweeps)
  /\ CountsOK(counts, swings) /\ RanksOK(counts)
  /\ AcceptedNotStopped

(* A table after a stage: the rows it had, with their numbers.              *)
Grown(old, new) ==
  Len(old) <= Len(new) /\ \A r \in DOMAIN old : new[r] = old[r]
-----------------------------------------------------------------------------
(* Numbers and sequences.                                                   *)

LEMMA MaxOfTwo ==
  ASSUME NEW a \in Int, NEW b \in Int
  PROVE  Max({a, b}) \in {a, b} /\ Max({a, b}) >= a /\ Max({a, b}) >= b
<1>1. \E x \in {a, b} : \A y \in {a, b} : x >= y
  <2>1. CASE a >= b
    BY <2>1
  <2>2. CASE b >= a
    BY <2>2
  <2> QED BY <2>1, <2>2
<1> QED BY <1>1 DEF Max

LEMMA MinOfTwo ==
  ASSUME NEW a \in Int, NEW b \in Int
  PROVE  Min({a, b}) \in {a, b} /\ Min({a, b}) <= a /\ Min({a, b}) <= b
<1>1. \E x \in {a, b} : \A y \in {a, b} : x <= y
  <2>1. CASE a >= b
    BY <2>1
  <2>2. CASE b >= a
    BY <2>2
  <2> QED BY <2>1, <2>2
<1> QED BY <1>1 DEF Min

LEMMA MaxOfNumbers ==
  ASSUME NEW n \in Nat, NEW S \in SUBSET (0..n), S # {}
  PROVE  Max(S) \in S /\ \A x \in S : Max(S) >= x
<1>1. \E x \in S : \A y \in S : x >= y
  BY GreatestExists
<1> QED BY <1>1 DEF Max

(* A row at the end.                                                        *)
LEMMA RowAdded ==
  ASSUME NEW S, NEW rows \in Seq(S), NEW row \in S
  PROVE  /\ Append(rows, row) \in Seq(S)
         /\ Len(Append(rows, row)) = Len(rows) + 1
         /\ DOMAIN Append(rows, row) = 1..(Len(rows) + 1)
         /\ \A r \in DOMAIN rows : Append(rows, row)[r] = rows[r]
         /\ Append(rows, row)[Len(rows) + 1] = row
         /\ Grown(rows, Append(rows, row))
BY DEF Grown

(* A table with other rows at the same places.                              *)
LEMMA RowsAt ==
  ASSUME NEW n \in Nat, NEW S, NEW rows, rows \in [1..n -> S]
  PROVE  rows \in Seq(S) /\ Len(rows) = n /\ DOMAIN rows = 1..n
OBVIOUS

LEMMA GrownIs ==
  ASSUME NEW S, NEW old \in Seq(S), NEW T, NEW new \in Seq(T), Grown(old, new)
  PROVE  DOMAIN old \subseteq DOMAIN new /\ \A r \in DOMAIN old : new[r] = old[r]
BY DEF Grown

LEMMA GrownTwice ==
  ASSUME NEW S, NEW a \in Seq(S), NEW b \in Seq(S), NEW c \in Seq(S), Grown(a, b), Grown(b, c)
  PROVE  Grown(a, c)
BY DEF Grown

-----------------------------------------------------------------------------
(* The candles an analysis reads.                                           *)

(* A window holds the stored candles up to i, and i is the last of it.      *)
LEMMA WindowIs ==
  ASSUME FeedOK, NEW i \in stored
  PROVE  /\ Window(i) \in Seq(stored) /\ Len(Window(i)) \in Nat \ {0}
         /\ Window(i)[Len(Window(i))] = i
         /\ \A k \in 1..Len(Window(i)) : Window(i)[k] \in stored /\ Window(i)[k] <= i
         /\ \A j, k \in 1..Len(Window(i)) : j < k => Window(i)[j] < Window(i)[k]
<1> DEFINE S == {k \in stored : k <= i}
           w == Ascending(S)
           n == Cardinality(S)
<1>1. stored \subseteq 1..Len(feed) /\ Len(feed) \in Nat
  BY LenProperties DEF FeedOK
<1>2. S \in SUBSET Nat /\ i \in S
  <2>1. stored \subseteq Nat
    BY <1>1
  <2>2. S \subseteq Nat
    BY <2>1
  <2>3. i \in Nat
    BY <2>1
  <2>4. i <= i
    BY <2>3
  <2>5. i \in S
    BY <2>4
  <2> QED BY <2>2, <2>5
<1>3. IsFiniteSet(S)
  <2>1. IsFiniteSet(1..Len(feed))
    <3>1. 1 \in Int /\ Len(feed) \in Int
      BY <1>1
    <3> QED BY <3>1, FS_Interval
  <2> QED BY <1>1, <2>1, FS_Subset
<1> HIDE DEF S
<1>4. /\ w \in Seq(S) /\ Len(w) = n
      /\ \A j, k \in 1..n : j < k => w[j] < w[k]
      /\ \A x \in S : \E k \in 1..n : w[k] = x
  BY <1>2, <1>3, AscendingIs
<1>5. n \in Nat /\ \A k \in 1..n : w[k] \in S
  BY <1>3, <1>4, FS_CardinalityType, ElementOfSeq
<1>6. \A k \in S : k \in stored /\ k <= i /\ k \in Nat
  BY <1>1 DEF S
<1>7. w \in Seq(stored)
  <2>1. S \subseteq stored
    BY <1>6
  <2> QED BY <1>4, <2>1, SeqMonotonic
<1>8. PICK k \in 1..n : w[k] = i
  BY <1>2, <1>4
<1>9. w[n] = i /\ n # 0
  <2>1. n \in 1..n /\ w[n] \in S
    BY <1>5, <1>8
  <2>2. k # n => i < w[n]
    BY <1>4, <1>5, <1>8, <2>1
  <2>3. w[n] <= i /\ w[n] \in Nat /\ i \in Nat
    BY <1>2, <1>6, <2>1
  <2> QED BY <1>5, <1>8, <2>2, <2>3
<1>10. Window(i) = w
  BY DEF Window, S
<1> HIDE DEF w, n
<1> QED BY <1>4, <1>5, <1>6, <1>7, <1>9, <1>10

LEMMA CandleIs ==
  ASSUME FeedOK, NEW k \in stored
  PROVE  /\ feed[k] \in [open : Int, high : Int, low : Int, close : Int]
         /\ feed[k].open \in Int /\ feed[k].high \in Int
         /\ feed[k].low \in Int /\ feed[k].close \in Int
         /\ feed[k].low <= feed[k].open /\ feed[k].open <= feed[k].high
         /\ feed[k].low <= feed[k].close /\ feed[k].close <= feed[k].high
         /\ k \in Nat
<1>1. k \in 1..Len(feed) /\ DOMAIN feed = 1..Len(feed) /\ Len(feed) \in Nat
  BY LenProperties DEF FeedOK
<1>2. feed[k] \in [open : Int, high : Int, low : Int, close : Int]
  BY <1>1, ElementOfSeq DEF FeedOK
<1> QED BY <1>1, <1>2 DEF FeedOK

(* Rows in the order of their detection.                                    *)
LEMMA ByDetectionIs ==
  ASSUME FeedOK, NEW sw, SwingsOK(sw), NEW S \in SUBSET (DOMAIN sw)
  PROVE  /\ ByDetection(sw, S) \in Seq(S)
         /\ Len(ByDetection(sw, S)) = Cardinality(S) /\ Cardinality(S) \in Nat
         /\ IsFiniteSet(S)
<1> DEFINE before == {p \in (DOMAIN sw) \X (DOMAIN sw) :
                        \/ sw[p[1]].at < sw[p[2]].at
                        \/ sw[p[1]].at = sw[p[2]].at /\ p[1] < p[2]}
<1>1. \A a, b \in DOMAIN sw : <<a, b>> \in before
        <=> sw[a].at < sw[b].at \/ (sw[a].at = sw[b].at /\ a < b)
  OBVIOUS
<1>2. DOMAIN sw = 1..Len(sw) /\ Len(sw) \in Nat
  BY LenProperties DEF SwingsOK
<1>3. \A a \in DOMAIN sw : sw[a].at \in Nat
  <2>1. ASSUME NEW a \in DOMAIN sw PROVE sw[a].at \in Nat
    <3>1. sw[a] \in SwingRows
      BY <1>2, ElementOfSeq DEF SwingsOK
    <3>2. sw[a].at \in stored
      BY <3>1 DEF SwingRows
    <3> QED BY <3>2, CandleIs
  <2> QED BY <2>1
<1>4. IsFiniteSet(S)
  <2>1. 1 \in Int /\ Len(sw) \in Int
    BY <1>2
  <2>2. IsFiniteSet(1..Len(sw))
    BY <2>1, FS_Interval
  <2> QED BY <1>2, <2>2, FS_Subset
<1> HIDE DEF before
<1>5. TotalOrder(S, before)
  <2>1. \A x \in S : <<x, x>> \notin before
    BY <1>1, <1>2, <1>3
  <2>2. \A x, y \in S : x # y => <<x, y>> \in before \/ <<y, x>> \in before
    BY <1>1, <1>2, <1>3
  <2>3. \A x, y, z \in S : <<x, y>> \in before /\ <<y, z>> \in before => <<x, z>> \in before
    BY <1>1, <1>2, <1>3
  <2> QED BY <2>1, <2>2, <2>3 DEF TotalOrder
<1>6. ByDetection(sw, S) = Ordered(S, before)
  BY DEF ByDetection, before
<1> QED BY <1>4, <1>5, <1>6, OrderedIs, FS_CardinalityType
-----------------------------------------------------------------------------
(* Swing points.                                                            *)

AddSwing(sw, candle, type, i) ==
  IF \E r \in DOMAIN sw : sw[r].candle = candle /\ sw[r].type = type THEN sw
  ELSE Append(sw, SwingRow(candle, type, i))

LEMMA SwingAdded ==
  ASSUME FeedOK, NEW sw, SwingsOK(sw), NEW i \in stored, NEW candle \in stored,
         NEW type \in {"high", "low"}
  PROVE  /\ SwingsOK(AddSwing(sw, candle, type, i))
         /\ Grown(sw, AddSwing(sw, candle, type, i))
<1>1. CASE \E r \in DOMAIN sw : sw[r].candle = candle /\ sw[r].type = type
  <2>1. AddSwing(sw, candle, type, i) = sw
    BY <1>1 DEF AddSwing
  <2>2. Grown(sw, sw)
    BY DEF Grown, SwingsOK
  <2> QED BY <2>1, <2>2
<1>2. CASE ~ \E r \in DOMAIN sw : sw[r].candle = candle /\ sw[r].type = type
  <2> DEFINE row == SwingRow(candle, type, i)
             new == Append(sw, row)
  <2>1. AddSwing(sw, candle, type, i) = new
    BY <1>2 DEF AddSwing
  <2>2. row \in SwingRows /\ row.candle = candle /\ row.type = type
    BY CandleIs DEF SwingRow, SwingRows
  <2>3. sw \in Seq(SwingRows) /\ DOMAIN sw = 1..Len(sw) /\ Len(sw) \in Nat
    BY LenProperties DEF SwingsOK
  <2> HIDE DEF row
  <2>4. /\ new \in Seq(SwingRows) /\ DOMAIN new = 1..(Len(sw) + 1)
        /\ \A r \in DOMAIN sw : new[r] = sw[r]
        /\ new[Len(sw) + 1] = row /\ Grown(sw, new)
    BY <2>2, <2>3, RowAdded
  <2> HIDE DEF new
  <2>5. ASSUME NEW a \in DOMAIN new, NEW b \in DOMAIN new,
               new[a].candle = new[b].candle, new[a].type = new[b].type
        PROVE  a = b
    <3>1. CASE a \in DOMAIN sw /\ b \in DOMAIN sw
      BY <2>4, <2>5, <3>1 DEF SwingsOK
    <3>2. CASE a = Len(sw) + 1 /\ b \in DOMAIN sw
      BY <1>2, <2>2, <2>4, <2>5, <3>2
    <3>3. CASE a \in DOMAIN sw /\ b = Len(sw) + 1
      BY <1>2, <2>2, <2>4, <2>5, <3>3
    <3> QED BY <2>3, <2>4, <3>1, <3>2, <3>3
  <2> QED BY <2>1, <2>4, <2>5 DEF SwingsOK
<1> QED BY <1>1, <1>2

LEMMA SwingsAfterIs ==
  ASSUME FeedOK, NEW sw, SwingsOK(sw), NEW i \in stored
  PROVE  SwingsOK(SwingsAfter(sw, i)) /\ Grown(sw, SwingsAfter(sw, i))
<1> DEFINE pivots == ConfirmedPivots(i)
           candle == PivotCandle(i)
           sw1 == IF "high" \in pivots THEN AddSwing(sw, candle, "high", i) ELSE sw
           sw2 == IF "low" \in pivots THEN AddSwing(sw1, candle, "low", i) ELSE sw1
<1>1. ASSUME pivots # {} PROVE candle \in stored
  <2> DEFINE w == Window(i)
             n == Len(w)
  <2>1. n >= LeftBars + RightBars + 1
    <3>1. n < LeftBars + RightBars + 1 => pivots = {}
      BY DEF ConfirmedPivots
    <3>2. n \in Nat
      BY WindowIs
    <3> QED BY <1>1, <3>1, <3>2, StructureAssumption
  <2>2. LeftBars \in Nat \ {0} /\ RightBars \in Nat \ {0}
    BY StructureAssumption
  <2>3. n \in Nat /\ \A k \in 1..n : w[k] \in stored
    BY WindowIs
  <2>4. candle = w[n - RightBars]
    BY DEF PivotCandle
  <2> HIDE DEF w, n, candle
  <2>5. n - RightBars \in 1..n
    BY <2>1, <2>2, <2>3
  <2> QED BY <2>3, <2>4, <2>5
<1>2. SwingsAfter(sw, i) = sw2
  BY DEF SwingsAfter, AddFound, AddSwing, SwingRow
<1> HIDE DEF pivots, candle
<1>3. SwingsOK(sw1) /\ Grown(sw, sw1)
  <2>1. Grown(sw, sw)
    BY DEF Grown, SwingsOK
  <2>2. CASE "high" \in pivots
    BY <1>1, <2>2, SwingAdded
  <2>3. CASE "high" \notin pivots
    BY <2>1, <2>3
  <2> QED BY <2>2, <2>3
<1> HIDE DEF sw1
<1>4. SwingsOK(sw2) /\ Grown(sw1, sw2)
  <2>1. Grown(sw1, sw1)
    BY <1>3 DEF Grown, SwingsOK
  <2>2. CASE "low" \in pivots
    BY <1>1, <1>3, <2>2, SwingAdded
  <2>3. CASE "low" \notin pivots
    BY <1>3, <2>1, <2>3
  <2> QED BY <2>2, <2>3
<1> HIDE DEF sw2
<1>5. sw \in Seq(SwingRows) /\ sw1 \in Seq(SwingRows) /\ sw2 \in Seq(SwingRows)
  BY <1>3, <1>4 DEF SwingsOK
<1>6. Grown(sw, sw2)
  BY <1>3, <1>4, <1>5, GrownTwice
<1> QED BY <1>2, <1>4, <1>6

LEMMA SwingIs ==
  ASSUME FeedOK, NEW sw, SwingsOK(sw), NEW s \in DOMAIN sw
  PROVE  /\ sw[s].candle \in stored /\ sw[s].candle \in Nat /\ sw[s].type \in {"high", "low"}
         /\ sw[s].price \in Int /\ sw[s].at \in stored /\ sw[s].at \in Nat
<1>1. DOMAIN sw = 1..Len(sw)
  BY LenProperties DEF SwingsOK
<1>2. sw[s] \in SwingRows
  BY <1>1, ElementOfSeq DEF SwingsOK
<1> QED BY <1>2, CandleIs DEF SwingRows

(* The swings an analysis may use were confirmed by then.                   *)
LEMMA KnownIs ==
  ASSUME NEW sw, NEW i
  PROVE  /\ KnownSwings(sw, i) \in SUBSET (DOMAIN sw)
         /\ \A s \in KnownSwings(sw, i) : sw[s].at <= i /\ sw[s].candle < i
BY DEF KnownSwings

(* The last of some swings is one of them.                                  *)
LEMMA LastIs ==
  ASSUME FeedOK, NEW sw, SwingsOK(sw), NEW S \in SUBSET (DOMAIN sw),
         ByDetection(sw, S) # <<>>
  PROVE  Last(ByDetection(sw, S)) \in S
<1> DEFINE q == ByDetection(sw, S)
<1>1. q \in Seq(S)
  BY ByDetectionIs
<1>2. Last(q) = q[Len(q)] /\ q # <<>>
  BY DEF Last
<1> HIDE DEF q
<1>3. Len(q) \in 1..Len(q)
  BY <1>1, <1>2, EmptySeq, LenProperties
<1> USE DEF q
<1> QED BY <1>1, <1>2, <1>3, ElementOfSeq
-----------------------------------------------------------------------------
(* Breaks of structure.                                                     *)

(* A break is of a swing that was known.                                    *)
Breaks(e, sw, i) ==
  /\ e \in EventRows(sw) /\ e.at = i /\ e.swing \in DOMAIN sw
  /\ e.direction \in Directions /\ e.type \in {"BOS", "CHoCH"}
  /\ sw[e.swing].at <= i /\ sw[e.swing].candle < i
  /\ e.direction = Breaking(sw[e.swing].type)

LEMMA BreaksAre ==
  ASSUME FeedOK, NEW sw, SwingsOK(sw), NEW i \in stored,
         NEW e \in StructureBreaks(sw, KnownSwings(sw, i), i)
  PROVE  Breaks(e, sw, i)
<1> DEFINE known == KnownSwings(sw, i)
           highs == OfType(sw, known, "high")
           lows == OfType(sw, known, "low")
           signal(direction, against, s) ==
             [type |-> IF ClassifyTrend(sw, known) = against THEN "CHoCH" ELSE "BOS",
              direction |-> direction, swing |-> s, at |-> i]
<1>1. /\ highs # <<>> /\ lows # <<>>
      /\ \/ e = signal("bullish", "bearish", Last(highs))
         \/ e = signal("bearish", "bullish", Last(lows))
  BY DEF StructureBreaks
<1>2. \A s \in known : s \in DOMAIN sw /\ sw[s].at <= i /\ sw[s].candle < i
  BY KnownIs
<1>3. Last(highs) \in known /\ sw[Last(highs)].type = "high"
  <2>1. {s \in known : sw[s].type = "high"} \in SUBSET (DOMAIN sw)
    BY <1>2
  <2> QED BY <1>1, <2>1, LastIs DEF OfType
<1>4. Last(lows) \in known /\ sw[Last(lows)].type = "low"
  <2>1. {s \in known : sw[s].type = "low"} \in SUBSET (DOMAIN sw)
    BY <1>2
  <2> QED BY <1>1, <2>1, LastIs DEF OfType
<1>5. ASSUME NEW direction \in Directions, NEW against, NEW s \in known,
             direction = Breaking(sw[s].type), e = signal(direction, against, s)
      PROVE  Breaks(e, sw, i)
  <2>1. e.type \in {"BOS", "CHoCH"} /\ e.direction = direction /\ e.swing = s /\ e.at = i
    BY <1>5
  <2>2. e \in EventRows(sw)
    BY <1>2, <1>5 DEF EventRows, Directions
  <2> HIDE DEF known
  <2> QED BY <1>2, <1>5, <2>1, <2>2 DEF Breaks
<1> HIDE DEF known, highs, lows, signal
<1> QED BY <1>1, <1>3, <1>4, <1>5 DEF Directions, Breaking

AddEvent(ev, e) == IF \E r \in DOMAIN ev : ev[r] = e THEN ev ELSE Append(ev, e)

LEMMA EventAdded ==
  ASSUME FeedOK, NEW sw, SwingsOK(sw), NEW ev, EventsOK(ev, sw), NEW i \in stored,
         NEW e, Breaks(e, sw, i)
  PROVE  /\ EventsOK(AddEvent(ev, e), sw) /\ Grown(ev, AddEvent(ev, e))
         /\ \E r \in DOMAIN AddEvent(ev, e) : AddEvent(ev, e)[r] = e
<1>1. ev \in Seq(EventRows(sw)) /\ DOMAIN ev = 1..Len(ev) /\ Len(ev) \in Nat
  BY LenProperties DEF EventsOK
<1>2. CASE \E r \in DOMAIN ev : ev[r] = e
  <2>1. AddEvent(ev, e) = ev
    BY <1>2 DEF AddEvent
  <2>2. Grown(ev, ev)
    BY <1>1 DEF Grown
  <2> QED BY <1>2, <2>1, <2>2
<1>3. CASE ~ \E r \in DOMAIN ev : ev[r] = e
  <2> DEFINE new == Append(ev, e)
  <2>1. AddEvent(ev, e) = new
    BY <1>3 DEF AddEvent
  <2>2. e \in EventRows(sw)
    BY DEF Breaks
  <2>3. /\ new \in Seq(EventRows(sw)) /\ DOMAIN new = 1..(Len(ev) + 1)
        /\ \A r \in DOMAIN ev : new[r] = ev[r]
        /\ new[Len(ev) + 1] = e /\ Grown(ev, new)
    BY <1>1, <2>2, RowAdded
  <2> HIDE DEF new
  <2>4. ASSUME NEW a \in DOMAIN ev, ev[a].type = e.type, ev[a].swing = e.swing, ev[a].at = e.at
        PROVE  FALSE
    <3>1. ev[a] \in EventRows(sw)
      BY <1>1, ElementOfSeq
    <3>2. ev[a].direction = e.direction
      BY <2>4 DEF EventsOK, Breaks
    <3>3. ev[a] = e
      BY <2>2, <2>4, <3>1, <3>2 DEF EventRows
    <3> QED BY <1>3, <3>3
  <2>5. ASSUME NEW a \in DOMAIN new, NEW b \in DOMAIN new, new[a].type = new[b].type,
               new[a].swing = new[b].swing, new[a].at = new[b].at
        PROVE  a = b
    <3>1. CASE a \in DOMAIN ev /\ b \in DOMAIN ev
      BY <2>3, <2>5, <3>1 DEF EventsOK
    <3>2. CASE a = Len(ev) + 1 /\ b \in DOMAIN ev
      BY <2>3, <2>4, <2>5, <3>2
    <3>3. CASE a \in DOMAIN ev /\ b = Len(ev) + 1
      BY <2>3, <2>4, <2>5, <3>3
    <3> QED BY <1>1, <2>3, <3>1, <3>2, <3>3
  <2>6. ASSUME NEW a \in DOMAIN new
        PROVE  /\ sw[new[a].swing].at <= new[a].at /\ sw[new[a].swing].candle < new[a].at
               /\ new[a].direction = Breaking(sw[new[a].swing].type)
    <3>1. CASE a \in DOMAIN ev
      BY <2>3, <3>1 DEF EventsOK
    <3>2. CASE a = Len(ev) + 1
      BY <2>3, <3>2 DEF Breaks
    <3> QED BY <1>1, <2>3, <3>1, <3>2
  <2>7. EventsOK(new, sw)
    BY <2>3, <2>5, <2>6 DEF EventsOK
  <2>8. Len(ev) + 1 \in DOMAIN new
    BY <1>1, <2>3
  <2> QED BY <2>1, <2>3, <2>7, <2>8
<1> QED BY <1>2, <1>3

LEMMA EventsAfterIs ==
  ASSUME FeedOK, NEW sw, SwingsOK(sw), NEW ev, EventsOK(ev, sw), NEW i \in stored,
         NEW signals, \A e \in signals : Breaks(e, sw, i)
  PROVE  /\ EventsOK(EventsAfter(ev, signals), sw) /\ Grown(ev, EventsAfter(ev, signals))
         /\ signals # {} =>
              /\ Breaks(CHOOSE s \in signals : TRUE, sw, i)
              /\ \E r \in DOMAIN EventsAfter(ev, signals) :
                   EventsAfter(ev, signals)[r] = CHOOSE s \in signals : TRUE
<1> DEFINE e == CHOOSE s \in signals : TRUE
<1>1. CASE signals = {}
  <2>1. EventsAfter(ev, signals) = ev
    BY <1>1 DEF EventsAfter, AddFound
  <2>2. Grown(ev, ev)
    BY DEF Grown, EventsOK
  <2> QED BY <1>1, <2>1, <2>2
<1>2. CASE signals # {}
  <2>1. e \in signals
    BY <1>2
  <2>2. EventsAfter(ev, signals) = AddEvent(ev, e)
    BY <1>2 DEF EventsAfter, AddFound, AddEvent
  <2>3. Breaks(e, sw, i)
    BY <2>1
  <2> HIDE DEF e
  <2>4. /\ EventsOK(AddEvent(ev, e), sw) /\ Grown(ev, AddEvent(ev, e))
        /\ \E r \in DOMAIN AddEvent(ev, e) : AddEvent(ev, e)[r] = e
    BY <2>3, EventAdded
  <2>5. e = CHOOSE s \in signals : TRUE
    BY DEF e
  <2> QED BY <2>2, <2>3, <2>4, <2>5
<1> QED BY <1>1, <1>2

LEMMA EventIs ==
  ASSUME FeedOK, NEW sw, NEW ev, EventsOK(ev, sw), NEW e \in DOMAIN ev
  PROVE  /\ ev[e].type \in {"BOS", "CHoCH"} /\ ev[e].direction \in Directions
         /\ ev[e].swing \in DOMAIN sw /\ ev[e].at \in stored /\ ev[e].at \in Nat
<1>1. DOMAIN ev = 1..Len(ev)
  BY LenProperties DEF EventsOK
<1>2. ev[e] \in EventRows(sw)
  BY <1>1, ElementOfSeq DEF EventsOK
<1> QED BY <1>2, CandleIs DEF EventRows

(* The events keep their swings when there are more.                        *)
LEMMA EventsKept ==
  ASSUME NEW sw, SwingsOK(sw), NEW sw1, SwingsOK(sw1), Grown(sw, sw1), NEW ev, EventsOK(ev, sw),
         FeedOK
  PROVE  EventsOK(ev, sw1)
<1>1. DOMAIN sw \subseteq DOMAIN sw1 /\ \A s \in DOMAIN sw : sw1[s] = sw[s]
  BY GrownIs DEF SwingsOK
<1>2. ev \in Seq(EventRows(sw1))
  <2>1. EventRows(sw) \subseteq EventRows(sw1)
    BY <1>1 DEF EventRows
  <2> QED BY <2>1, SeqMonotonic DEF EventsOK
<1>3. \A e \in DOMAIN ev : ev[e].swing \in DOMAIN sw
  BY EventIs
<1> QED BY <1>1, <1>2, <1>3 DEF EventsOK
-----------------------------------------------------------------------------
(* Zones.                                                                   *)

Zone(z) ==
  z.direction \in Directions /\ z.lower \in Int /\ z.upper \in Int /\ z.lower < z.upper

(* A candle neither goes through the zone nor closes beyond it.             *)
Untouched(z, c) ==
  IF z.direction = "bullish" THEN c.low > z.lower /\ c.close >= z.lower
                             ELSE c.high < z.upper /\ c.close <= z.upper

(* What a candle leaves alive it has not gone through.                      *)
LEMMA MitigatedIs ==
  ASSUME FeedOK, NEW i \in stored, NEW z, Zone(z)
  PROVE  /\ Mitigated(z, feed[i]) \in ZoneStatuses
         /\ Mitigated(z, feed[i]) \in Live => Untouched(z, feed[i])
<1> DEFINE c == feed[i]
           size == z.upper - z.lower
           broken == IF z.direction = "bullish" THEN c.close < z.lower ELSE c.close > z.upper
           deep == IF z.direction = "bullish" THEN z.upper - c.low ELSE c.high - z.lower
<1>1. /\ c.low \in Int /\ c.high \in Int /\ c.close \in Int
      /\ z.lower \in Int /\ z.upper \in Int /\ z.lower < z.upper
  BY CandleIs DEF Zone
<1>2. Mitigated(z, c) = IF broken THEN "invalidated"
                        ELSE IF deep >= size THEN "fully_mitigated"
                        ELSE IF deep > 0 THEN "partially_mitigated" ELSE "active"
  <2>1. ~(size <= 0)
    BY <1>1
  <2> QED BY <2>1 DEF Mitigated
<1> HIDE DEF c
<1>3. Mitigated(z, c) \in ZoneStatuses
  BY <1>2 DEF ZoneStatuses, Live
<1>4. ~broken /\ ~(deep >= size) => Untouched(z, c)
  BY <1>1 DEF Untouched
<1>5. broken \/ deep >= size => Mitigated(z, c) \notin Live
  BY <1>2 DEF Live
<1> QED BY <1>3, <1>4, <1>5 DEF c

(* A new gap has the candle that completes it for its nearer side.          *)
NewGap(g, i) ==
  /\ g \in GapRows /\ Zone(g) /\ g.candles[3] = i /\ g.at = i
  /\ IF g.direction = "bullish" THEN g.upper = feed[i].low ELSE g.lower = feed[i].high

LEMMA GapsAreNew ==
  ASSUME FeedOK, NEW i \in stored, NEW g \in FairValueGaps(i)
  PROVE  NewGap(g, i)
<1> DEFINE w == Window(i)
           n == Len(w)
           first == feed[w[n - 2]]
           third == feed[i]
           row(direction, lower, upper) ==
             [direction |-> direction, lower |-> lower, upper |-> upper,
              candles |-> <<w[n - 2], w[n - 1], i>>, at |-> i, status |-> "active"]
<1>1. /\ n >= 3
      /\ \/ first.high < third.low /\ g = row("bullish", first.high, third.low)
         \/ first.low > third.high /\ g = row("bearish", third.high, first.low)
  <2>1. ~(n < 3)
    BY DEF FairValueGaps
  <2>2. n \in Nat
    BY WindowIs
  <2>3. n >= 3
    BY <2>1, <2>2
  <2>4. \/ first.high < third.low /\ g = row("bullish", first.high, third.low)
        \/ first.low > third.high /\ g = row("bearish", third.high, first.low)
    BY DEF FairValueGaps
  <2> QED BY <2>3, <2>4
<1>2. n \in Nat /\ \A k \in 1..n : w[k] \in stored
  BY WindowIs
<1> HIDE DEF w, n
<1>3. w[n - 2] \in stored /\ w[n - 1] \in stored
  <2>1. n - 2 \in 1..n /\ n - 1 \in 1..n
    BY <1>1, <1>2
  <2> QED BY <1>2, <2>1
<1>4. first.high \in Int /\ first.low \in Int /\ third.high \in Int /\ third.low \in Int
  BY <1>3, CandleIs
<1>5. ASSUME NEW direction \in Directions, NEW lower \in Int, NEW upper \in Int,
             lower < upper, g = row(direction, lower, upper)
      PROVE  g \in GapRows /\ Zone(g) /\ g.candles[3] = i /\ g.at = i
  <2>1. <<w[n - 2], w[n - 1], i>> \in stored \X stored \X stored
    BY <1>3
  <2>2. "active" \in ZoneStatuses
    BY DEF ZoneStatuses, Live
  <2>3. g \in GapRows
    BY <1>5, <2>1, <2>2 DEF GapRows
  <2>4. g.direction = direction /\ g.lower = lower /\ g.upper = upper /\ g.at = i
        /\ g.candles[3] = i
    BY <1>5
  <2> QED BY <1>5, <2>3, <2>4 DEF Zone
<1>6. CASE first.high < third.low /\ g = row("bullish", first.high, third.low)
  <2>1. g \in GapRows /\ Zone(g) /\ g.candles[3] = i /\ g.at = i
    BY <1>4, <1>5, <1>6 DEF Directions
  <2>2. g.direction = "bullish" /\ g.upper = third.low
    BY <1>6
  <2> QED BY <2>1, <2>2 DEF NewGap
<1>7. CASE first.low > third.high /\ g = row("bearish", third.high, first.low)
  <2>1. third.high < first.low
    BY <1>4, <1>7
  <2>2. g \in GapRows /\ Zone(g) /\ g.candles[3] = i /\ g.at = i
    BY <1>4, <1>5, <1>7, <2>1 DEF Directions
  <2>3. g.direction = "bearish" /\ g.lower = third.high
    BY <1>7
  <2> QED BY <2>2, <2>3 DEF NewGap
<1> QED BY <1>1, <1>6, <1>7

AddGap(gp, g) ==
  IF \E r \in DOMAIN gp : gp[r].candles = g.candles /\ gp[r].direction = g.direction THEN gp
  ELSE Append(gp, g)

LEMMA GapAdded ==
  ASSUME FeedOK, NEW gp, GapsOK(gp), NEW i \in stored, NEW g, NewGap(g, i)
  PROVE  GapsOK(AddGap(gp, g))
<1> DEFINE has == \E r \in DOMAIN gp : gp[r].candles = g.candles /\ gp[r].direction = g.direction
           new == Append(gp, g)
<1>1. CASE has
  BY <1>1 DEF AddGap
<1>2. CASE ~has
  <2>1. AddGap(gp, g) = new
    BY <1>2 DEF AddGap
  <2>2. gp \in Seq(GapRows) /\ DOMAIN gp = 1..Len(gp) /\ Len(gp) \in Nat
    BY LenProperties DEF GapsOK
  <2>3. /\ new \in Seq(GapRows) /\ DOMAIN new = 1..(Len(gp) + 1)
        /\ \A r \in DOMAIN gp : new[r] = gp[r]
        /\ new[Len(gp) + 1] = g
    BY <2>2, RowAdded DEF NewGap
  <2> HIDE DEF new
  <2>4. ASSUME NEW a \in DOMAIN new, NEW b \in DOMAIN new,
               new[a].candles = new[b].candles, new[a].direction = new[b].direction
        PROVE  a = b
    <3>1. CASE a \in DOMAIN gp /\ b \in DOMAIN gp
      BY <2>3, <2>4, <3>1 DEF GapsOK
    <3>2. CASE a = Len(gp) + 1 /\ b \in DOMAIN gp
      BY <1>2, <2>3, <2>4, <3>2
    <3>3. CASE a \in DOMAIN gp /\ b = Len(gp) + 1
      BY <1>2, <2>3, <2>4, <3>3
    <3> QED BY <2>2, <2>3, <3>1, <3>2, <3>3
  <2>5. ASSUME NEW a \in DOMAIN new
        PROVE  /\ new[a].lower < new[a].upper /\ new[a].candles[3] = new[a].at
               /\ IF new[a].direction = "bullish" THEN new[a].upper = feed[new[a].at].low
                                                 ELSE new[a].lower = feed[new[a].at].high
    <3>1. CASE a \in DOMAIN gp
      BY <2>3, <3>1 DEF GapsOK
    <3>2. CASE a = Len(gp) + 1
      BY <2>3, <3>2 DEF NewGap, Zone
    <3> QED BY <2>2, <2>3, <3>1, <3>2
  <2> QED BY <2>1, <2>3, <2>4, <2>5 DEF GapsOK
<1> QED BY <1>1, <1>2

LEMMA GapIs ==
  ASSUME FeedOK, NEW gp, GapsOK(gp), NEW g \in DOMAIN gp
  PROVE  /\ gp[g] \in GapRows /\ Zone(gp[g]) /\ gp[g].at \in stored
         /\ gp[g].candles \in stored \X stored \X stored /\ gp[g].status \in ZoneStatuses
         /\ Last(gp[g].candles) = gp[g].at
<1>1. DOMAIN gp = 1..Len(gp)
  BY LenProperties DEF GapsOK
<1>2. gp[g] \in GapRows
  BY <1>1, ElementOfSeq DEF GapsOK
<1>3. gp[g].candles \in stored \X stored \X stored
  BY <1>2 DEF GapRows
<1>4. PICK a \in stored, b \in stored, c \in stored : gp[g].candles = <<a, b, c>>
  BY <1>3
<1>5. Last(gp[g].candles) = gp[g].candles[3]
  BY <1>4 DEF Last
<1>6. Zone(gp[g])
  BY <1>2 DEF GapRows, Zone, GapsOK
<1> QED BY <1>2, <1>3, <1>5, <1>6 DEF GapRows, GapsOK

(* The rows of zones that are still alive after candle i.                   *)
AliveUntouched(rows, i) ==
  \A z \in DOMAIN rows :
    rows[z].at <= i /\ rows[z].status \in Live => Zone(rows[z]) /\ Untouched(rows[z], feed[i])

GapsMitigated(gp, i) ==
  [z \in DOMAIN gp |->
     IF gp[z].at <= i /\ gp[z].status \in Live /\ Last(gp[z].candles) # i
     THEN [gp[z] EXCEPT !.status = Mitigated(gp[z], feed[i])] ELSE gp[z]]

LEMMA GapMitigated ==
  ASSUME FeedOK, NEW gp, GapsOK(gp), NEW i \in stored, NEW z \in DOMAIN gp
  PROVE  /\ GapsMitigated(gp, i)[z] \in GapRows
         /\ GapsMitigated(gp, i)[z].lower = gp[z].lower
         /\ GapsMitigated(gp, i)[z].upper = gp[z].upper
         /\ GapsMitigated(gp, i)[z].candles = gp[z].candles
         /\ GapsMitigated(gp, i)[z].direction = gp[z].direction
         /\ GapsMitigated(gp, i)[z].at = gp[z].at
         /\ GapsMitigated(gp, i)[z].at <= i /\ GapsMitigated(gp, i)[z].status \in Live
              => Zone(GapsMitigated(gp, i)[z]) /\ Untouched(GapsMitigated(gp, i)[z], feed[i])
<1> DEFINE row == GapsMitigated(gp, i)[z]
           touched == gp[z].at <= i /\ gp[z].status \in Live /\ Last(gp[z].candles) # i
<1>1. row = IF touched THEN [gp[z] EXCEPT !.status = Mitigated(gp[z], feed[i])] ELSE gp[z]
  BY DEF GapsMitigated
<1>2. /\ gp[z] \in GapRows /\ Zone(gp[z]) /\ gp[z].status \in ZoneStatuses
      /\ Last(gp[z].candles) = gp[z].at
  BY GapIs
<1> HIDE DEF row
<1>3. CASE touched
  <2>1. /\ Mitigated(gp[z], feed[i]) \in ZoneStatuses
        /\ Mitigated(gp[z], feed[i]) \in Live => Untouched(gp[z], feed[i])
    BY <1>2, MitigatedIs
  <2>2. row = [gp[z] EXCEPT !.status = Mitigated(gp[z], feed[i])]
    BY <1>1, <1>3
  <2>3. row \in GapRows
    BY <1>2, <2>1, <2>2 DEF GapRows
  <2>4. /\ row.lower = gp[z].lower /\ row.upper = gp[z].upper /\ row.candles = gp[z].candles
        /\ row.direction = gp[z].direction /\ row.at = gp[z].at
        /\ row.status = Mitigated(gp[z], feed[i])
    BY <1>2, <2>2 DEF GapRows
  <2>5. row.status \in Live => Zone(row) /\ Untouched(row, feed[i])
    BY <1>2, <2>1, <2>4 DEF Zone, Untouched
  <2> QED BY <2>3, <2>4, <2>5 DEF row
<1>4. CASE ~touched
  <2>1. row = gp[z]
    BY <1>1, <1>4
  <2>2. ASSUME row.at <= i, row.status \in Live PROVE Untouched(gp[z], feed[i])
    <3>1. gp[z].at = i
      BY <1>2, <1>4, <2>1, <2>2
    <3>2. IF gp[z].direction = "bullish" THEN gp[z].upper = feed[i].low
                                         ELSE gp[z].lower = feed[i].high
      BY <3>1 DEF GapsOK
    <3>3. /\ feed[i].low \in Int /\ feed[i].high \in Int /\ feed[i].close \in Int
          /\ feed[i].low <= feed[i].close /\ feed[i].close <= feed[i].high
      BY CandleIs
    <3>4. gp[z].lower \in Int /\ gp[z].upper \in Int /\ gp[z].lower < gp[z].upper
      BY <1>2 DEF Zone
    <3> QED BY <3>2, <3>3, <3>4 DEF Untouched
  <2> QED BY <1>2, <2>1, <2>2 DEF row
<1> QED BY <1>3, <1>4

LEMMA GapsAfterIs ==
  ASSUME FeedOK, NEW gp, GapsOK(gp), NEW i \in stored
  PROVE  GapsOK(GapsAfter(gp, i)) /\ AliveUntouched(GapsAfter(gp, i), i)
<1> DEFINE new == FairValueGaps(i)
           g == CHOOSE z \in new : TRUE
           all == IF new = {} THEN gp ELSE AddGap(gp, g)
           after == GapsMitigated(all, i)
<1>1. GapsAfter(gp, i) = after
  BY DEF GapsAfter, GapsMitigated, AddFound, AddGap
<1>2. GapsOK(all)
  <2>1. CASE new = {}
    BY <2>1
  <2>2. CASE new # {}
    <3>1. NewGap(g, i)
      BY <2>2, GapsAreNew
    <3> HIDE DEF g, new
    <3> QED BY <2>2, <3>1, GapAdded
  <2> QED BY <2>1, <2>2
<1> HIDE DEF all
<1>3. all \in Seq(GapRows) /\ DOMAIN all = 1..Len(all) /\ Len(all) \in Nat
  BY <1>2, LenProperties DEF GapsOK
<1>4. DOMAIN after = DOMAIN all
  BY DEF GapsMitigated
<1>5. \A z \in DOMAIN all :
        /\ after[z] \in GapRows
        /\ after[z].lower = all[z].lower /\ after[z].upper = all[z].upper
        /\ after[z].candles = all[z].candles /\ after[z].direction = all[z].direction
        /\ after[z].at = all[z].at
        /\ after[z].at <= i /\ after[z].status \in Live
             => Zone(after[z]) /\ Untouched(after[z], feed[i])
  BY <1>2, GapMitigated
<1>6. after \in Seq(GapRows)
  <2>1. after \in [1..Len(all) -> GapRows]
    BY <1>3, <1>5 DEF GapsMitigated
  <2> HIDE DEF after
  <2> QED BY <1>3, <2>1, RowsAt
<1> HIDE DEF after
<1>7. GapsOK(after)
  BY <1>2, <1>4, <1>5, <1>6 DEF GapsOK
<1>8. AliveUntouched(after, i)
  BY <1>4, <1>5 DEF AliveUntouched
<1> QED BY <1>1, <1>7, <1>8

LEMMA MinOfNumbers ==
  ASSUME NEW n \in Nat, NEW S \in SUBSET (0..n), S # {}
  PROVE  Min(S) \in S /\ \A x \in S : Min(S) <= x
<1> DEFINE T == {n - x : x \in S}
<1>1. T \in SUBSET (0..n) /\ T # {}
  <2>1. T # {}
    OBVIOUS
  <2>2. \A x \in S : n - x \in 0..n
    OBVIOUS
  <2>3. T \subseteq 0..n
    BY <2>2
  <2> QED BY <2>1, <2>3
<1>2. \A x \in S : n - x \in T
  OBVIOUS
<1>3. \A y \in T : \E x \in S : y = n - x
  OBVIOUS
<1> HIDE DEF T
<1>4. PICK y \in T : \A z \in T : y >= z
  BY <1>1, GreatestExists
<1>5. PICK x \in S : y = n - x
  BY <1>3
<1>6. \A z \in S : x <= z
  BY <1>2, <1>4, <1>5
<1> QED BY <1>5, <1>6 DEF Min

(* Where a row is in its table.                                             *)
LEMMA FoundIs ==
  ASSUME NEW S, NEW rows \in Seq(S), NEW e, \E r \in DOMAIN rows : rows[r] = e
  PROVE  /\ SelectInSeq(rows, LAMBDA r : r = e) \in DOMAIN rows
         /\ rows[SelectInSeq(rows, LAMBDA r : r = e)] = e
<1> DEFINE I == {k \in 1..Len(rows) : rows[k] = e}
<1>1. Len(rows) \in Nat /\ DOMAIN rows = 1..Len(rows)
  BY LenProperties
<1>2. I # {} /\ I \in SUBSET (0..Len(rows))
  BY <1>1
<1>3. SelectInSeq(rows, LAMBDA r : r = e) = Min(I)
  BY <1>2 DEF SelectInSeq
<1>4. Min(I) \in I
  BY <1>1, <1>2, MinOfNumbers
<1> QED BY <1>1, <1>3, <1>4

(* A new block is a candle before the event, in the order of prices.        *)
NewBlock(b, ev) ==
  b \in BlockRows(ev) /\ Zone(b) /\ b.candle < b.at /\ b.candle < ev[b.event].at

LEMMA BlocksAreNew ==
  ASSUME FeedOK, NEW i \in stored, NEW sw, NEW ev, EventsOK(ev, sw), NEW signals,
         signals # {} => /\ Breaks(CHOOSE s \in signals : TRUE, sw, i)
                         /\ \E r \in DOMAIN ev : ev[r] = CHOOSE s \in signals : TRUE,
         NEW b \in OrderBlocks(ev, signals, i)
  PROVE  NewBlock(b, ev)
<1> DEFINE e == CHOOSE s \in signals : TRUE
           against == {k \in stored : /\ k < i
                         /\ IF e.direction = "bullish" THEN feed[k].close < feed[k].open
                                                       ELSE feed[k].close > feed[k].open}
           k == Max(against)
           place == SelectInSeq(ev, LAMBDA r : r = e)
           row == [direction |-> e.direction, candle |-> k, upper |-> feed[k].high,
                   lower |-> feed[k].low, event |-> place, at |-> i, status |-> "active"]
<1>1. signals # {} /\ against # {} /\ b = row
  BY DEF OrderBlocks
<1>2. Breaks(e, sw, i) /\ \E r \in DOMAIN ev : ev[r] = e
  BY <1>1
<1>3. ev \in Seq(EventRows(sw))
  BY DEF EventsOK
<1> HIDE DEF e
<1>4. place \in DOMAIN ev /\ ev[place] = e
  BY <1>2, <1>3, FoundIs
<1>5. k \in against
  <2>1. against \subseteq stored
    OBVIOUS
  <2>2. stored \subseteq 0..Len(feed) /\ Len(feed) \in Nat
    BY LenProperties DEF FeedOK
  <2>3. against \in SUBSET (0..Len(feed))
    BY <2>1, <2>2
  <2> HIDE DEF against
  <2> QED BY <1>1, <2>2, <2>3, MaxOfNumbers
<1>6. k \in stored /\ k < i /\ feed[k].close # feed[k].open
  <2>1. k \in stored /\ k < i
    BY <1>5
  <2>2. feed[k].close < feed[k].open \/ feed[k].close > feed[k].open
    BY <1>5
  <2>3. feed[k].close \in Int /\ feed[k].open \in Int
    BY <2>1, CandleIs
  <2> HIDE DEF k, against
  <2> QED BY <2>1, <2>2, <2>3
<1> HIDE DEF k, place
<1>7. feed[k].low \in Int /\ feed[k].high \in Int /\ feed[k].low < feed[k].high
  <2>1. /\ feed[k].open \in Int /\ feed[k].high \in Int
        /\ feed[k].low \in Int /\ feed[k].close \in Int
        /\ feed[k].low <= feed[k].open /\ feed[k].open <= feed[k].high
        /\ feed[k].low <= feed[k].close /\ feed[k].close <= feed[k].high
    BY <1>6, CandleIs
  <2> QED BY <1>6, <2>1
<1>8. e.direction \in Directions /\ e.at = i
  BY <1>2 DEF Breaks
<1>9. b \in BlockRows(ev)
  <2>1. "active" \in ZoneStatuses
    BY DEF ZoneStatuses, Live
  <2> QED BY <1>1, <1>4, <1>6, <1>7, <1>8, <2>1 DEF BlockRows
<1>10. Zone(b)
  BY <1>1, <1>7, <1>8 DEF Zone
<1>11. b.candle < b.at /\ b.candle < ev[b.event].at
  BY <1>1, <1>4, <1>6, <1>8
<1> QED BY <1>9, <1>10, <1>11 DEF NewBlock

AddBlock(bl, b) ==
  IF \E r \in DOMAIN bl : bl[r].event = b.event THEN bl ELSE Append(bl, b)

LEMMA BlockAdded ==
  ASSUME FeedOK, NEW ev, NEW bl, BlocksOK(bl, ev), NEW b, NewBlock(b, ev)
  PROVE  BlocksOK(AddBlock(bl, b), ev)
<1> DEFINE has == \E r \in DOMAIN bl : bl[r].event = b.event
           new == Append(bl, b)
<1>1. CASE has
  BY <1>1 DEF AddBlock
<1>2. CASE ~has
  <2>1. AddBlock(bl, b) = new
    BY <1>2 DEF AddBlock
  <2>2. bl \in Seq(BlockRows(ev)) /\ DOMAIN bl = 1..Len(bl) /\ Len(bl) \in Nat
    BY LenProperties DEF BlocksOK
  <2>3. /\ new \in Seq(BlockRows(ev)) /\ DOMAIN new = 1..(Len(bl) + 1)
        /\ \A r \in DOMAIN bl : new[r] = bl[r]
        /\ new[Len(bl) + 1] = b
    BY <2>2, RowAdded DEF NewBlock
  <2> HIDE DEF new
  <2>4. ASSUME NEW x \in DOMAIN new, NEW y \in DOMAIN new, new[x].event = new[y].event
        PROVE  x = y
    <3>1. CASE x \in DOMAIN bl /\ y \in DOMAIN bl
      BY <2>3, <2>4, <3>1 DEF BlocksOK
    <3>2. CASE x = Len(bl) + 1 /\ y \in DOMAIN bl
      BY <1>2, <2>3, <2>4, <3>2
    <3>3. CASE x \in DOMAIN bl /\ y = Len(bl) + 1
      BY <1>2, <2>3, <2>4, <3>3
    <3> QED BY <2>2, <2>3, <3>1, <3>2, <3>3
  <2>5. ASSUME NEW x \in DOMAIN new
        PROVE  /\ new[x].lower < new[x].upper /\ new[x].candle < new[x].at
               /\ new[x].candle < ev[new[x].event].at
    <3>1. CASE x \in DOMAIN bl
      BY <2>3, <3>1 DEF BlocksOK
    <3>2. CASE x = Len(bl) + 1
      BY <2>3, <3>2 DEF NewBlock, Zone
    <3> QED BY <2>2, <2>3, <3>1, <3>2
  <2> QED BY <2>1, <2>3, <2>4, <2>5 DEF BlocksOK
<1> QED BY <1>1, <1>2

LEMMA BlockIs ==
  ASSUME FeedOK, NEW ev, NEW bl, BlocksOK(bl, ev), NEW b \in DOMAIN bl
  PROVE  /\ bl[b] \in BlockRows(ev) /\ Zone(bl[b]) /\ bl[b].at \in stored /\ bl[b].at \in Nat
         /\ bl[b].candle \in stored /\ bl[b].candle \in Nat /\ bl[b].candle < bl[b].at
         /\ bl[b].status \in ZoneStatuses /\ bl[b].event \in DOMAIN ev
<1>1. DOMAIN bl = 1..Len(bl)
  BY LenProperties DEF BlocksOK
<1>2. bl[b] \in BlockRows(ev)
  BY <1>1, ElementOfSeq DEF BlocksOK
<1>3. bl[b].at \in stored /\ bl[b].candle \in stored
  BY <1>2 DEF BlockRows
<1>4. bl[b].at \in Nat /\ bl[b].candle \in Nat
  BY <1>3, CandleIs
<1>5. Zone(bl[b])
  BY <1>2 DEF BlockRows, Zone, BlocksOK
<1> QED BY <1>2, <1>3, <1>4, <1>5 DEF BlockRows, BlocksOK

BlocksMitigated(bl, i) ==
  [z \in DOMAIN bl |->
     IF bl[z].at <= i /\ bl[z].status \in Live /\ bl[z].candle # i
     THEN [bl[z] EXCEPT !.status = BlockMitigated(bl[z], feed[i])] ELSE bl[z]]

LEMMA BlockMitigatedIs ==
  ASSUME FeedOK, NEW ev, NEW bl, BlocksOK(bl, ev), NEW i \in stored, NEW z \in DOMAIN bl
  PROVE  /\ BlocksMitigated(bl, i)[z] \in BlockRows(ev)
         /\ BlocksMitigated(bl, i)[z].lower = bl[z].lower
         /\ BlocksMitigated(bl, i)[z].upper = bl[z].upper
         /\ BlocksMitigated(bl, i)[z].candle = bl[z].candle
         /\ BlocksMitigated(bl, i)[z].event = bl[z].event
         /\ BlocksMitigated(bl, i)[z].at = bl[z].at
         /\ BlocksMitigated(bl, i)[z].at <= i /\ BlocksMitigated(bl, i)[z].status \in Live
              => Zone(BlocksMitigated(bl, i)[z]) /\ Untouched(BlocksMitigated(bl, i)[z], feed[i])
<1> DEFINE row == BlocksMitigated(bl, i)[z]
           touched == bl[z].at <= i /\ bl[z].status \in Live /\ bl[z].candle # i
<1>1. row = IF touched THEN [bl[z] EXCEPT !.status = Mitigated(bl[z], feed[i])] ELSE bl[z]
  BY DEF BlocksMitigated, BlockMitigated
<1>2. /\ bl[z] \in BlockRows(ev) /\ Zone(bl[z]) /\ bl[z].status \in ZoneStatuses
      /\ bl[z].candle < bl[z].at /\ bl[z].candle \in Nat /\ bl[z].at \in Nat
  BY BlockIs
<1> HIDE DEF row
<1>3. CASE touched
  <2>1. /\ Mitigated(bl[z], feed[i]) \in ZoneStatuses
        /\ Mitigated(bl[z], feed[i]) \in Live => Untouched(bl[z], feed[i])
    BY <1>2, MitigatedIs
  <2>2. row = [bl[z] EXCEPT !.status = Mitigated(bl[z], feed[i])]
    BY <1>1, <1>3
  <2>3. row \in BlockRows(ev)
    BY <1>2, <2>1, <2>2 DEF BlockRows
  <2>4. /\ row.lower = bl[z].lower /\ row.upper = bl[z].upper /\ row.candle = bl[z].candle
        /\ row.event = bl[z].event /\ row.at = bl[z].at /\ row.direction = bl[z].direction
        /\ row.status = Mitigated(bl[z], feed[i])
    BY <1>2, <2>2 DEF BlockRows
  <2>5. row.status \in Live => Zone(row) /\ Untouched(row, feed[i])
    BY <1>2, <2>1, <2>4 DEF Zone, Untouched
  <2> QED BY <2>3, <2>4, <2>5 DEF row
<1>4. CASE ~touched
  <2>1. row = bl[z]
    BY <1>1, <1>4
  <2>2. i \in Nat
    BY CandleIs
  <2>3. ~(row.at <= i /\ row.status \in Live)
    BY <1>2, <1>4, <2>1, <2>2
  <2> QED BY <1>2, <2>1, <2>3 DEF row
<1> QED BY <1>3, <1>4

LEMMA BlocksAfterIs ==
  ASSUME FeedOK, NEW i \in stored, NEW sw, NEW ev, EventsOK(ev, sw), NEW signals,
         signals # {} => /\ Breaks(CHOOSE s \in signals : TRUE, sw, i)
                         /\ \E r \in DOMAIN ev : ev[r] = CHOOSE s \in signals : TRUE,
         NEW bl, BlocksOK(bl, ev)
  PROVE  /\ BlocksOK(BlocksAfter(bl, ev, signals, i), ev)
         /\ AliveUntouched(BlocksAfter(bl, ev, signals, i), i)
<1> DEFINE new == OrderBlocks(ev, signals, i)
           b == CHOOSE z \in new : TRUE
           all == IF new = {} THEN bl ELSE AddBlock(bl, b)
           after == BlocksMitigated(all, i)
<1>1. BlocksAfter(bl, ev, signals, i) = after
  BY DEF BlocksAfter, BlocksMitigated, AddFound, AddBlock
<1>2. BlocksOK(all, ev)
  <2>1. CASE new = {}
    BY <2>1
  <2>2. CASE new # {}
    <3>1. b \in new
      BY <2>2
    <3>2. NewBlock(b, ev)
      BY <3>1, BlocksAreNew
    <3> HIDE DEF b, new
    <3> QED BY <2>2, <3>2, BlockAdded
  <2> QED BY <2>1, <2>2
<1> HIDE DEF all
<1>3. all \in Seq(BlockRows(ev)) /\ DOMAIN all = 1..Len(all) /\ Len(all) \in Nat
  BY <1>2, LenProperties DEF BlocksOK
<1>4. DOMAIN after = DOMAIN all
  BY DEF BlocksMitigated
<1>5. \A z \in DOMAIN all :
        /\ after[z] \in BlockRows(ev)
        /\ after[z].lower = all[z].lower /\ after[z].upper = all[z].upper
        /\ after[z].candle = all[z].candle /\ after[z].event = all[z].event
        /\ after[z].at = all[z].at
        /\ after[z].at <= i /\ after[z].status \in Live
             => Zone(after[z]) /\ Untouched(after[z], feed[i])
  BY <1>2, BlockMitigatedIs
<1>6. after \in Seq(BlockRows(ev))
  <2>1. after \in [1..Len(all) -> BlockRows(ev)]
    BY <1>3, <1>5 DEF BlocksMitigated
  <2> HIDE DEF after
  <2> QED BY <1>3, <2>1, RowsAt
<1> HIDE DEF after
<1>7. BlocksOK(after, ev)
  BY <1>2, <1>4, <1>5, <1>6 DEF BlocksOK
<1>8. AliveUntouched(after, i)
  BY <1>4, <1>5 DEF AliveUntouched
<1> QED BY <1>1, <1>7, <1>8

(* The blocks keep their events when there are more.                        *)
LEMMA BlocksKept ==
  ASSUME FeedOK, NEW S, NEW ev \in Seq(S), NEW T, NEW ev1 \in Seq(T), Grown(ev, ev1),
         NEW bl, BlocksOK(bl, ev)
  PROVE  BlocksOK(bl, ev1)
<1>1. DOMAIN ev \subseteq DOMAIN ev1 /\ \A e \in DOMAIN ev : ev1[e] = ev[e]
  BY GrownIs
<1>2. bl \in Seq(BlockRows(ev1))
  <2>1. BlockRows(ev) \subseteq BlockRows(ev1)
    BY <1>1 DEF BlockRows
  <2> QED BY <2>1, SeqMonotonic DEF BlocksOK
<1>3. \A b \in DOMAIN bl : bl[b].event \in DOMAIN ev
  BY BlockIs
<1> QED BY <1>1, <1>2, <1>3 DEF BlocksOK
-----------------------------------------------------------------------------
(* Liquidity pools.                                                         *)

LEMMA StrengthIs ==
  ASSUME NEW t \in Nat \ {0}, NEW a \in 0..t
  PROVE  100 - (100 * a) \div t \in 0..100
<1> DEFINE q == (100 * a) \div t
           m == 100 * a
<1>1. m \in Nat /\ m <= 100 * t
  OBVIOUS
<1> HIDE DEF m
<1>2. m \div t \in Nat /\ t * (m \div t) <= m
  BY <1>1, Z3
<1>3. m \div t <= 100
  <2>1. SUFFICES ASSUME m \div t >= 101 PROVE FALSE
    BY <1>2
  <2> DEFINE k == m \div t
  <2>2. k \in Nat /\ k >= 101 /\ t * k <= m
    BY <1>2, <2>1
  <2> HIDE DEF k
  <2>3. t * k >= t * 101
    BY <2>2
  <2> QED BY <1>1, <2>2, <2>3
<1> QED BY <1>2, <1>3 DEF m

(* A new pool is active and joins swings that were known.                   *)
NewPool(p, sw) ==
  /\ p \in PoolRows(sw) /\ p.status = "active"
  /\ sw[p.first].at <= p.at /\ sw[p.second].at <= p.at

LEMMA PoolsAreNew ==
  ASSUME FeedOK, NEW sw, SwingsOK(sw), NEW i \in stored,
         NEW p \in LiquidityPools(sw, KnownSwings(sw, i), i)
  PROVE  NewPool(p, sw)
<1> DEFINE known == KnownSwings(sw, i)
           q == ByDetection(sw, known)
           last == Last(q)
           alike == {s \in known : sw[s].type = sw[last].type}
           same == ByDetection(sw, alike)
           other == same[Len(same) - 1]
           a == sw[other].price
           b == sw[last].price
           apart == Max({a - b, b - a})
           buySide == sw[last].type = "high"
           row == [type |-> IF buySide THEN "BSL" ELSE "SSL",
                   price |-> IF buySide THEN Max({a, b}) ELSE Min({a, b}),
                   strength |-> IF Tolerance = 0 THEN 100 ELSE 100 - (100 * apart) \div Tolerance,
                   first |-> other, second |-> last, at |-> i, status |-> "active"]
<1>1. /\ known # {} /\ ~(Len(same) < 2) /\ ~(apart > Tolerance) /\ p = row
  BY DEF LiquidityPools, OfType
<1>2. known \in SUBSET (DOMAIN sw) /\ \A s \in known : sw[s].at <= i
  BY KnownIs
<1>3. last \in known
  <2>1. IsFiniteSet(known) /\ Len(q) = Cardinality(known)
    BY <1>2, ByDetectionIs
  <2>2. Cardinality(known) # 0
    BY <1>1, <2>1, FS_EmptySet
  <2>3. q # <<>>
    BY <2>1, <2>2, EmptySeq
  <2> HIDE DEF known
  <2> QED BY <1>2, <2>3, LastIs
<1>4. other \in known
  <2>1. alike \in SUBSET (DOMAIN sw) /\ alike \subseteq known
    BY <1>2
  <2> HIDE DEF alike
  <2>2. same \in Seq(alike) /\ Len(same) \in Nat
    BY <2>1, ByDetectionIs
  <2> HIDE DEF same
  <2>3. Len(same) - 1 \in 1..Len(same)
    BY <1>1, <2>2
  <2> QED BY <2>1, <2>2, <2>3, ElementOfSeq
<1> HIDE DEF known, last, other, alike, same
<1>5. a \in Int /\ b \in Int
  BY <1>2, <1>3, <1>4, SwingIs
<1> HIDE DEF a, b
<1>6. Max({a, b}) \in Int /\ Min({a, b}) \in Int
  BY <1>5, MaxOfTwo, MinOfTwo
<1>7. apart \in Nat
  <2>1. a - b \in Int /\ b - a \in Int
    BY <1>5
  <2>2. apart \in {a - b, b - a} /\ apart >= a - b /\ apart >= b - a
    BY <2>1, MaxOfTwo
  <2> HIDE DEF apart
  <2> QED BY <1>5, <2>2
<1> HIDE DEF apart
<1>8. row.strength \in 0..100
  <2>1. Tolerance \in Nat
    BY StructureAssumption
  <2>2. CASE Tolerance = 0
    BY <2>2
  <2>3. CASE Tolerance # 0
    <3>1. Tolerance \in Nat \ {0} /\ apart \in 0..Tolerance
      BY <1>1, <1>7, <2>1, <2>3
    <3>2. 100 - (100 * apart) \div Tolerance \in 0..100
      BY <3>1, StrengthIs
    <3>3. row.strength = 100 - (100 * apart) \div Tolerance
      BY <2>3
    <3> HIDE DEF row
    <3> QED BY <3>2, <3>3
  <2> QED BY <2>2, <2>3
<1>9. p \in PoolRows(sw)
  <2> DEFINE strength == IF Tolerance = 0 THEN 100 ELSE 100 - (100 * apart) \div Tolerance
  <2>1. strength \in 0..100
    BY <1>8
  <2> HIDE DEF strength
  <2>2. p = [type |-> IF buySide THEN "BSL" ELSE "SSL",
             price |-> IF buySide THEN Max({a, b}) ELSE Min({a, b}), strength |-> strength,
             first |-> other, second |-> last, at |-> i, status |-> "active"]
    BY <1>1 DEF strength
  <2> QED BY <1>2, <1>3, <1>4, <1>6, <2>1, <2>2 DEF PoolRows
<1>10. p.first = other /\ p.second = last /\ p.at = i /\ p.status = "active"
  BY <1>1
<1> QED BY <1>2, <1>3, <1>4, <1>9, <1>10 DEF NewPool

AddPool(ps, p) ==
  IF \E r \in DOMAIN ps : ps[r].type = p.type /\ ps[r].first = p.first /\ ps[r].second = p.second
  THEN ps ELSE Append(ps, p)

(* The pools there were, and new ones that are active.                      *)
WithNewPools(old, new) ==
  /\ Grown(old, new)
  /\ \A p \in DOMAIN new : p \notin DOMAIN old => new[p].status = "active"

LEMMA PoolAdded ==
  ASSUME FeedOK, NEW sw, NEW ps, PoolsOK(ps, sw), NEW p, NewPool(p, sw)
  PROVE  PoolsOK(AddPool(ps, p), sw) /\ WithNewPools(ps, AddPool(ps, p))
<1> DEFINE has == \E r \in DOMAIN ps : /\ ps[r].type = p.type /\ ps[r].first = p.first
                                       /\ ps[r].second = p.second
           new == Append(ps, p)
<1>1. ps \in Seq(PoolRows(sw)) /\ DOMAIN ps = 1..Len(ps) /\ Len(ps) \in Nat
  BY LenProperties DEF PoolsOK
<1>2. CASE has
  <2>1. AddPool(ps, p) = ps
    BY <1>2 DEF AddPool
  <2>2. WithNewPools(ps, ps)
    BY <1>1 DEF WithNewPools, Grown
  <2> QED BY <2>1, <2>2
<1>3. CASE ~has
  <2>1. AddPool(ps, p) = new
    BY <1>3 DEF AddPool
  <2>2. /\ new \in Seq(PoolRows(sw)) /\ DOMAIN new = 1..(Len(ps) + 1)
        /\ \A r \in DOMAIN ps : new[r] = ps[r]
        /\ new[Len(ps) + 1] = p /\ Grown(ps, new)
    BY <1>1, RowAdded DEF NewPool
  <2> HIDE DEF new
  <2>3. ASSUME NEW x \in DOMAIN new, NEW y \in DOMAIN new, new[x].type = new[y].type,
               new[x].first = new[y].first, new[x].second = new[y].second
        PROVE  x = y
    <3>1. CASE x \in DOMAIN ps /\ y \in DOMAIN ps
      BY <2>2, <2>3, <3>1 DEF PoolsOK
    <3>2. CASE x = Len(ps) + 1 /\ y \in DOMAIN ps
      BY <1>3, <2>2, <2>3, <3>2
    <3>3. CASE x \in DOMAIN ps /\ y = Len(ps) + 1
      BY <1>3, <2>2, <2>3, <3>3
    <3> QED BY <1>1, <2>2, <3>1, <3>2, <3>3
  <2>4. ASSUME NEW x \in DOMAIN new
        PROVE  sw[new[x].first].at <= new[x].at /\ sw[new[x].second].at <= new[x].at
    <3>1. CASE x \in DOMAIN ps
      BY <2>2, <3>1 DEF PoolsOK
    <3>2. CASE x = Len(ps) + 1
      BY <2>2, <3>2 DEF NewPool
    <3> QED BY <1>1, <2>2, <3>1, <3>2
  <2>5. WithNewPools(ps, new)
    BY <1>1, <2>2 DEF WithNewPools, NewPool
  <2> QED BY <2>1, <2>2, <2>3, <2>4, <2>5 DEF PoolsOK
<1> QED BY <1>2, <1>3

LEMMA PoolsAfterIs ==
  ASSUME FeedOK, NEW sw, SwingsOK(sw), NEW i \in stored, NEW ps, PoolsOK(ps, sw)
  PROVE  /\ PoolsOK(PoolsAfter(ps, sw, KnownSwings(sw, i), i), sw)
         /\ WithNewPools(ps, PoolsAfter(ps, sw, KnownSwings(sw, i), i))
<1> DEFINE new == LiquidityPools(sw, KnownSwings(sw, i), i)
           p == CHOOSE q \in new : TRUE
           after == PoolsAfter(ps, sw, KnownSwings(sw, i), i)
<1>1. CASE new = {}
  <2>1. after = ps
    BY <1>1 DEF PoolsAfter, AddFound
  <2>2. ps \in Seq(PoolRows(sw))
    BY DEF PoolsOK
  <2>3. WithNewPools(ps, ps)
    BY <2>2 DEF WithNewPools, Grown
  <2> QED BY <2>1, <2>3
<1>2. CASE new # {}
  <2>1. after = AddPool(ps, p)
    BY <1>2 DEF PoolsAfter, AddFound, AddPool
  <2>2. p \in new
    BY <1>2
  <2>3. NewPool(p, sw)
    BY <2>2, PoolsAreNew
  <2> HIDE DEF p, new, after
  <2>4. PoolsOK(AddPool(ps, p), sw) /\ WithNewPools(ps, AddPool(ps, p))
    BY <2>3, PoolAdded
  <2> QED BY <2>1, <2>4 DEF after
<1> QED BY <1>1, <1>2

LEMMA PoolIs ==
  ASSUME FeedOK, NEW sw, NEW ps, PoolsOK(ps, sw), NEW p \in DOMAIN ps
  PROVE  /\ ps[p] \in PoolRows(sw) /\ ps[p].type \in {"BSL", "SSL"} /\ ps[p].price \in Int
         /\ ps[p].first \in DOMAIN sw /\ ps[p].second \in DOMAIN sw
         /\ ps[p].at \in stored /\ ps[p].at \in Nat
         /\ ps[p].status \in {"active", "swept", "invalidated"} /\ ps[p].strength \in 0..100
<1>1. DOMAIN ps = 1..Len(ps)
  BY LenProperties DEF PoolsOK
<1>2. ps[p] \in PoolRows(sw)
  BY <1>1, ElementOfSeq DEF PoolsOK
<1> QED BY <1>2, CandleIs DEF PoolRows

(* The pools keep their swings when there are more.                         *)
LEMMA PoolsKept ==
  ASSUME FeedOK, NEW sw, SwingsOK(sw), NEW sw1, SwingsOK(sw1), Grown(sw, sw1),
         NEW ps, PoolsOK(ps, sw)
  PROVE  PoolsOK(ps, sw1)
<1>1. DOMAIN sw \subseteq DOMAIN sw1 /\ \A s \in DOMAIN sw : sw1[s] = sw[s]
  BY GrownIs DEF SwingsOK
<1>2. ps \in Seq(PoolRows(sw1))
  <2>1. PoolRows(sw) \subseteq PoolRows(sw1)
    BY <1>1 DEF PoolRows
  <2> QED BY <2>1, SeqMonotonic DEF PoolsOK
<1>3. \A p \in DOMAIN ps : ps[p].first \in DOMAIN sw /\ ps[p].second \in DOMAIN sw
  BY PoolIs
<1> QED BY <1>1, <1>2, <1>3 DEF PoolsOK
-----------------------------------------------------------------------------
(* Liquidity sweeps.                                                        *)

SweepStatuses == {"candidate", "confirmed", "invalidated", "expired"}

LEMMA SweepIs ==
  ASSUME FeedOK, NEW ps, NEW ss, SweepsOK(ss, ps), NEW s \in DOMAIN ss
  PROVE  /\ ss[s] \in SweepRows(ps) /\ ss[s].pool \in DOMAIN ps
         /\ ss[s].direction \in Directions
         /\ ss[s].candle \in stored /\ ss[s].candle \in Nat /\ ss[s].status \in SweepStatuses
         /\ ss[s].extreme \in Int /\ ss[s].penetration \in Nat /\ ss[s].confirmed \in Nat
<1>1. DOMAIN ss = 1..Len(ss)
  BY LenProperties DEF SweepsOK
<1>2. ss[s] \in SweepRows(ps)
  BY <1>1, ElementOfSeq DEF SweepsOK
<1> QED BY <1>2, CandleIs DEF SweepRows, SweepStatuses

LEMMA PenetrationIs ==
  ASSUME FeedOK, NEW sw, NEW ps, PoolsOK(ps, sw), NEW p \in DOMAIN ps, NEW i \in stored
  PROVE  Penetration(ps[p], feed[i]) \in Nat /\ Extreme(ps[p], feed[i]) \in Int
<1> DEFINE deep == IF ps[p].type = "SSL" THEN ps[p].price - feed[i].low
                                         ELSE feed[i].high - ps[p].price
<1>1. ps[p].price \in Int /\ feed[i].low \in Int /\ feed[i].high \in Int
  BY PoolIs, CandleIs
<1>2. deep \in Int /\ 0 \in Int
  BY <1>1
<1>3. Penetration(ps[p], feed[i]) = Max({0, deep})
  BY DEF Penetration
<1> HIDE DEF deep
<1>4. Max({0, deep}) \in {0, deep} /\ Max({0, deep}) >= 0
  BY <1>2, MaxOfTwo
<1> QED BY <1>1, <1>2, <1>3, <1>4 DEF Extreme

(* A decision on a candidate keeps whose sweep it is.                       *)
Decided(old, new) ==
  new.pool = old.pool /\ new.direction = old.direction /\ new.candle = old.candle

LEMMA SweepUpdated ==
  ASSUME FeedOK, NEW sw, NEW ps, PoolsOK(ps, sw), NEW ss, SweepsOK(ss, ps), NEW s \in DOMAIN ss,
         NEW i \in stored, NEW score
  PROVE  /\ UpdateSweep(ss[s], ps[ss[s].pool], i, score) \in SweepRows(ps)
         /\ Decided(ss[s], UpdateSweep(ss[s], ps[ss[s].pool], i, score))
<1> DEFINE sweep == ss[s]
           pool == ps[ss[s].pool]
           c == feed[i]
           deepest == Max({sweep.penetration, Penetration(pool, c)})
           extreme == IF sweep.direction = "bullish" THEN Min({sweep.extreme, c.low})
                                                     ELSE Max({sweep.extreme, c.high})
           becomes(status) == [sweep EXCEPT !.status = status, !.extreme = extreme,
                                            !.penetration = deepest,
                                            !.confirmed = IF status = "confirmed" THEN i ELSE @]
           row == UpdateSweep(ss[s], ps[ss[s].pool], i, score)
<1>1. row = sweep \/ \E status \in SweepStatuses : row = becomes(status)
  BY DEF UpdateSweep, SweepStatuses
<1>2. /\ sweep \in SweepRows(ps) /\ sweep.extreme \in Int /\ sweep.penetration \in Nat
      /\ sweep.confirmed \in Nat /\ sweep.pool \in DOMAIN ps
  BY SweepIs
<1>3. Penetration(pool, c) \in Nat /\ c.low \in Int /\ c.high \in Int /\ i \in Nat
  BY <1>2, PenetrationIs, CandleIs
<1> HIDE DEF sweep, pool, c
<1>4. deepest \in Nat
  <2>1. sweep.penetration \in Int /\ Penetration(pool, c) \in Int
    BY <1>2, <1>3
  <2>2. deepest \in {sweep.penetration, Penetration(pool, c)}
    BY <2>1, MaxOfTwo
  <2> HIDE DEF deepest
  <2> QED BY <1>2, <1>3, <2>2
<1>5. extreme \in Int
  <2>1. Min({sweep.extreme, c.low}) \in Int
    BY <1>2, <1>3, MinOfTwo
  <2>2. Max({sweep.extreme, c.high}) \in Int
    BY <1>2, <1>3, MaxOfTwo
  <2> QED BY <2>1, <2>2
<1> HIDE DEF deepest, extreme, row
<1>6. ASSUME NEW status \in SweepStatuses, row = becomes(status)
      PROVE  row \in SweepRows(ps) /\ Decided(sweep, row)
  <2>1. row \in SweepRows(ps)
    BY <1>2, <1>3, <1>4, <1>5, <1>6 DEF SweepRows, SweepStatuses
  <2>2. row.pool = sweep.pool /\ row.direction = sweep.direction /\ row.candle = sweep.candle
    BY <1>2, <1>6 DEF SweepRows
  <2> QED BY <2>1, <2>2 DEF Decided
<1>7. CASE row = sweep
  BY <1>2, <1>7 DEF Decided, row, sweep
<1> QED BY <1>1, <1>6, <1>7 DEF row, sweep

(* The pools' statuses when the decisions about the sweeps of a set are not *)
(* written yet.                                                             *)
Undecided(ps, ss, decided) ==
  /\ decided \subseteq DOMAIN ss
  /\ \A s \in DOMAIN ss : s \notin decided => ps[ss[s].pool].status = Due(ss[s])
  /\ \A p \in DOMAIN ps :
       (\A s \in DOMAIN ss : ss[s].pool # p) => ps[p].status = "active"
  /\ \A s \in DOMAIN ss : ss[s].status = "candidate" => ps[ss[s].pool].status = "active"

LEMMA SweepsUpdatedAre ==
  ASSUME FeedOK, NEW sw, NEW old, PoolsOK(old, sw), NEW ss, SweepsOK(ss, old), Followed(old, ss),
         NEW ps, PoolsOK(ps, sw), WithNewPools(old, ps), NEW i \in stored, NEW score
  PROVE  /\ SweepsOK(SweepsUpdated(ss, ps, i, score), ps)
         /\ Undecided(ps, SweepsUpdated(ss, ps, i, score),
                      {s \in DOMAIN ss : ss[s].status = "candidate"})
<1> DEFINE new == SweepsUpdated(ss, ps, i, score)
<1>1. /\ DOMAIN old \subseteq DOMAIN ps /\ \A p \in DOMAIN old : ps[p] = old[p]
      /\ \A p \in DOMAIN ps : p \notin DOMAIN old => ps[p].status = "active"
  <2>1. old \in Seq(PoolRows(sw)) /\ ps \in Seq(PoolRows(sw)) /\ Grown(old, ps)
    BY DEF PoolsOK, WithNewPools
  <2>2. DOMAIN old \subseteq DOMAIN ps /\ \A p \in DOMAIN old : ps[p] = old[p]
    BY <2>1, GrownIs
  <2> QED BY <2>2 DEF WithNewPools
<1>2. \A s \in DOMAIN ss : ss[s].pool \in DOMAIN old
  BY SweepIs
<1>3. SweepsOK(ss, ps)
  <2>1. SweepRows(old) \subseteq SweepRows(ps)
    BY <1>1 DEF SweepRows
  <2>2. ss \in Seq(SweepRows(ps))
    BY <2>1, SeqMonotonic DEF SweepsOK
  <2> QED BY <1>1, <1>2, <2>2 DEF SweepsOK
<1>4. ss \in Seq(SweepRows(ps)) /\ DOMAIN ss = 1..Len(ss) /\ Len(ss) \in Nat
  BY <1>3, LenProperties DEF SweepsOK
<1>5. DOMAIN new = DOMAIN ss
  BY DEF SweepsUpdated
<1>6. \A s \in DOMAIN ss :
        /\ new[s] \in SweepRows(ps) /\ Decided(ss[s], new[s])
        /\ ss[s].status # "candidate" => new[s] = ss[s]
  <2>1. ASSUME NEW s \in DOMAIN ss
        PROVE  /\ new[s] \in SweepRows(ps) /\ Decided(ss[s], new[s])
               /\ ss[s].status # "candidate" => new[s] = ss[s]
    <3>1. new[s] = IF ss[s].status = "candidate"
                   THEN UpdateSweep(ss[s], ps[ss[s].pool], i, score[ss[s].pool]) ELSE ss[s]
      BY DEF SweepsUpdated
    <3>2. CASE ss[s].status = "candidate"
      BY <1>3, <3>1, <3>2, SweepUpdated
    <3>3. CASE ss[s].status # "candidate"
      BY <1>3, <3>1, <3>3, SweepIs DEF Decided
    <3> QED BY <3>2, <3>3
  <2> QED BY <2>1
<1>7. new \in Seq(SweepRows(ps))
  <2>1. new \in [1..Len(ss) -> SweepRows(ps)]
    BY <1>4, <1>6 DEF SweepsUpdated
  <2> HIDE DEF new
  <2> QED BY <1>4, <2>1, RowsAt
<1> HIDE DEF new
<1>8. SweepsOK(new, ps)
  <2>1. \A s \in DOMAIN ss : new[s].pool = ss[s].pool /\ new[s].candle = ss[s].candle
    BY <1>6 DEF Decided
  <2> QED BY <1>3, <1>5, <1>7, <2>1 DEF SweepsOK
<1>9. ASSUME NEW p \in DOMAIN ps, \A s \in DOMAIN new : new[s].pool # p
      PROVE  ps[p].status = "active"
  <2>1. \A s \in DOMAIN ss : ss[s].pool # p
    BY <1>5, <1>6, <1>9 DEF Decided
  <2> QED BY <1>1, <2>1 DEF Followed
<1>10. ASSUME NEW s \in DOMAIN new, new[s].status = "candidate"
       PROVE  ps[new[s].pool].status = "active"
  <2>1. ss[s].status = "candidate" /\ new[s].pool = ss[s].pool
    BY <1>5, <1>6, <1>10 DEF Decided
  <2> QED BY <1>1, <1>2, <1>5, <2>1 DEF Followed, Due
<1>11. ASSUME NEW s \in DOMAIN new, ss[s].status # "candidate"
       PROVE  ps[new[s].pool].status = Due(new[s])
  <2>1. new[s] = ss[s] /\ ss[s].pool \in DOMAIN old
    BY <1>2, <1>5, <1>6, <1>11
  <2>2. old[ss[s].pool].status = Due(ss[s])
    BY <1>5 DEF Followed
  <2> QED BY <1>1, <2>1, <2>2
<1> QED BY <1>5, <1>8, <1>9, <1>10, <1>11 DEF Undecided, new

(* The pools get the statuses of their sweeps.                              *)
LEMMA PoolsSweptAre ==
  ASSUME FeedOK, NEW sw, NEW ps, PoolsOK(ps, sw), NEW ss, SweepsOK(ss, ps), NEW decided,
         Undecided(ps, ss, decided)
  PROVE  /\ PoolsOK(PoolsSwept(ps, ss, decided), sw) /\ SweepsOK(ss, PoolsSwept(ps, ss, decided))
         /\ Followed(PoolsSwept(ps, ss, decided), ss)
<1> DEFINE new == PoolsSwept(ps, ss, decided)
           of(p) == {s \in decided : ss[s].pool = p}
           due(s) == Due(ss[s])
<1>1. /\ ps \in Seq(PoolRows(sw)) /\ DOMAIN ps = 1..Len(ps) /\ Len(ps) \in Nat
      /\ ss \in Seq(SweepRows(ps)) /\ DOMAIN ss = 1..Len(ss) /\ Len(ss) \in Nat
  BY LenProperties DEF PoolsOK, SweepsOK
<1>2. DOMAIN new = DOMAIN ps
  BY DEF PoolsSwept
<1>3. ASSUME NEW p \in DOMAIN ps, of(p) = {}
      PROVE  new[p] = ps[p]
  BY <1>3 DEF PoolsSwept
<1>4. ASSUME NEW p \in DOMAIN ps, NEW s \in decided, ss[s].pool = p
      PROVE  new[p] = [ps[p] EXCEPT !.status = due(s)]
  <2>0. decided \subseteq DOMAIN ss
    BY DEF Undecided
  <2>1. of(p) = {s}
    BY <1>4, <2>0 DEF SweepsOK
  <2>2. Max({s}) = s
    <3>1. s \in Int
      BY <1>1, <2>0
    <3>2. Max({s, s}) \in {s, s}
      BY <3>1, MaxOfTwo
    <3>3. {s, s} = {s}
      OBVIOUS
    <3> QED BY <3>2, <3>3
  <2>3. new[p] = [ps[p] EXCEPT !.status = PoolStatus(ps[p], ss[Max(of(p))].status)]
    <3>1. of(p) # {}
      BY <2>1
    <3> QED BY <3>1 DEF PoolsSwept
  <2>4. PoolStatus(ps[p], ss[s].status) = due(s)
    <3>1. CASE ss[s].status = "candidate"
      BY <1>4, <2>0, <3>1 DEF PoolStatus, Undecided, Due
    <3>2. CASE ss[s].status # "candidate"
      <4>1. ss[s].status \in SweepStatuses
        BY <2>0, SweepIs
      <4> QED BY <3>2, <4>1 DEF PoolStatus, SweepStatuses, Due
    <3> QED BY <3>1, <3>2
  <2> HIDE DEF of, due, new
  <2> QED BY <2>1, <2>2, <2>3, <2>4
<1>5. \A p \in DOMAIN ps :
        /\ new[p] \in PoolRows(sw) /\ new[p].type = ps[p].type /\ new[p].first = ps[p].first
        /\ new[p].second = ps[p].second /\ new[p].at = ps[p].at
  <2>1. ASSUME NEW p \in DOMAIN ps
        PROVE  /\ new[p] \in PoolRows(sw) /\ new[p].type = ps[p].type
               /\ new[p].first = ps[p].first /\ new[p].second = ps[p].second
               /\ new[p].at = ps[p].at
    <3>1. ps[p] \in PoolRows(sw)
      BY PoolIs
    <3>2. CASE of(p) = {}
      BY <1>3, <3>1, <3>2
    <3>3. CASE of(p) # {}
      <4>1. PICK s \in decided : ss[s].pool = p
        BY <3>3
      <4>2. new[p] = [ps[p] EXCEPT !.status = due(s)]
        BY <1>4, <4>1
      <4>3. due(s) \in {"active", "swept", "invalidated"}
        BY DEF Due
      <4> HIDE DEF due, new
      <4> QED BY <3>1, <4>2, <4>3 DEF PoolRows
    <3> QED BY <3>2, <3>3
  <2> QED BY <2>1
<1>6. new \in Seq(PoolRows(sw))
  <2>1. new \in [1..Len(ps) -> PoolRows(sw)]
    BY <1>1, <1>5 DEF PoolsSwept
  <2> HIDE DEF new
  <2> QED BY <1>1, <2>1, RowsAt
<1>7. \A s \in DOMAIN ss : ss[s].pool \in DOMAIN ps
  BY SweepIs
<1>8. \A s \in DOMAIN ss : new[ss[s].pool].status = due(s)
  <2>1. ASSUME NEW s \in DOMAIN ss PROVE new[ss[s].pool].status = due(s)
    <3>1. ps[ss[s].pool] \in PoolRows(sw)
      BY <1>7, PoolIs
    <3>2. CASE s \in decided
      <4>1. new[ss[s].pool] = [ps[ss[s].pool] EXCEPT !.status = due(s)]
        BY <1>4, <1>7, <3>2
      <4> HIDE DEF due, new
      <4> QED BY <3>1, <4>1 DEF PoolRows
    <3>3. CASE s \notin decided
      <4>1. \A t \in decided : t \in DOMAIN ss /\ t # s
        BY <3>3 DEF Undecided
      <4>2. of(ss[s].pool) = {}
        BY <4>1 DEF SweepsOK
      <4>3. ps[ss[s].pool].status = due(s)
        BY <3>3 DEF Undecided
      <4> HIDE DEF due, new, of
      <4> QED BY <1>3, <1>7, <4>2, <4>3
    <3> QED BY <3>2, <3>3
  <2> QED BY <2>1
<1> HIDE DEF new
<1>9. PoolsOK(new, sw)
  BY <1>2, <1>5, <1>6 DEF PoolsOK
<1>10. SweepsOK(ss, new)
  <2>1. SweepRows(ps) = SweepRows(new)
    BY <1>2 DEF SweepRows
  <2> QED BY <1>1, <1>5, <1>7, <2>1 DEF SweepsOK
<1>11. Followed(new, ss)
  <2>1. ASSUME NEW p \in DOMAIN new, \A s \in DOMAIN ss : ss[s].pool # p
        PROVE  new[p].status = "active"
    <3>1. decided \subseteq DOMAIN ss /\ ps[p].status = "active"
      BY <1>2, <2>1 DEF Undecided
    <3>2. of(p) = {}
      BY <2>1, <3>1
    <3> HIDE DEF of
    <3> QED BY <1>2, <1>3, <3>1, <3>2
  <2> QED BY <1>8, <2>1 DEF Followed
<1> QED BY <1>9, <1>10, <1>11 DEF new

(* A new sweep is of a pool without one.                                    *)
LEMMA NewSweepsAre ==
  ASSUME FeedOK, NEW sw, NEW ps, PoolsOK(ps, sw), NEW ss, SweepsOK(ss, ps), Followed(ps, ss),
         NEW i \in stored, NEW score
  PROVE  /\ SweepsOK(ss \o NewSweeps(ss, ps, i, score), ps)
         /\ Undecided(ps, ss \o NewSweeps(ss, ps, i, score),
                      DOMAIN (ss \o NewSweeps(ss, ps, i, score)) \ DOMAIN ss)
<1> DEFINE c == feed[i]
           S == {p \in SweepablePools(ss, ps, i) : DetectSweep(ps[p], c, score[p]) # ""}
           q == Ascending(S)
           row(p) == LET status == DetectSweep(ps[p], c, score[p]) IN
             [pool |-> p, direction |-> SweepDirection(ps[p]), candle |-> i, status |-> status,
              extreme |-> Extreme(ps[p], c), penetration |-> Penetration(ps[p], c),
              confirmed |-> IF status = "confirmed" THEN i ELSE 0]
           new == NewSweeps(ss, ps, i, score)
           all == ss \o new
<1>1. /\ ps \in Seq(PoolRows(sw)) /\ DOMAIN ps = 1..Len(ps) /\ Len(ps) \in Nat
      /\ ss \in Seq(SweepRows(ps)) /\ DOMAIN ss = 1..Len(ss) /\ Len(ss) \in Nat
  BY LenProperties DEF PoolsOK, SweepsOK
<1>2. \A p \in S : /\ p \in DOMAIN ps /\ ps[p].at <= i /\ ps[p].status = "active"
                   /\ \A s \in DOMAIN ss : ss[s].pool # p
                   /\ DetectSweep(ps[p], c, score[p]) # ""
  BY DEF SweepablePools
<1>3. S \in SUBSET Nat /\ IsFiniteSet(S)
  <2>1. S \subseteq DOMAIN ps
    BY <1>2
  <2> HIDE DEF S
  <2>2. 1 \in Int /\ Len(ps) \in Int
    BY <1>1
  <2>3. IsFiniteSet(1..Len(ps))
    BY <2>2, FS_Interval
  <2>4. S \subseteq Nat
    BY <1>1, <2>1
  <2>5. IsFiniteSet(S)
    BY <1>1, <2>1, <2>3, FS_Subset
  <2> QED BY <2>4, <2>5
<1>4. \A p \in S : row(p) \in SweepRows(ps) /\ row(p).pool = p /\ row(p).candle = i
  <2>1. ASSUME NEW p \in S PROVE row(p) \in SweepRows(ps)
    <3>1. Penetration(ps[p], c) \in Nat /\ Extreme(ps[p], c) \in Int /\ i \in Nat
      BY <1>2, PenetrationIs, CandleIs
    <3>2. DetectSweep(ps[p], c, score[p]) \in SweepStatuses
      BY <1>2 DEF DetectSweep, SweepStatuses
    <3>3. SweepDirection(ps[p]) \in Directions
      BY DEF SweepDirection, Directions
    <3> HIDE DEF c, S
    <3> QED BY <1>2, <3>1, <3>2, <3>3 DEF SweepRows, SweepStatuses
  <2> QED BY <2>1
<1>5. new = [k \in DOMAIN q |-> row(q[k])]
  BY DEF NewSweeps
<1> HIDE DEF row, S
<1>6. /\ q \in Seq(S) /\ Len(q) \in Nat /\ DOMAIN q = 1..Len(q)
      /\ \A j, k \in 1..Len(q) : j < k => q[j] < q[k]
  BY <1>3, AscendingIs, LenProperties
<1>7. \A k \in 1..Len(q) : q[k] \in S
  BY <1>6, ElementOfSeq
<1>8. \A j, k \in 1..Len(q) : q[j] = q[k] => j = k
  <2>1. ASSUME NEW j \in 1..Len(q), NEW k \in 1..Len(q), q[j] = q[k] PROVE j = k
    <3>1. q[j] \in Nat /\ q[k] \in Nat
      BY <1>3, <1>7
    <3>2. ~(j < k) /\ ~(k < j)
      BY <1>6, <2>1, <3>1
    <3> QED BY <1>6, <3>2
  <2> QED BY <2>1
<1> HIDE DEF q, new
<1>9. /\ new \in Seq(SweepRows(ps)) /\ Len(new) = Len(q)
      /\ \A k \in 1..Len(q) : new[k] = row(q[k])
  <2>1. new \in [1..Len(q) -> SweepRows(ps)]
    BY <1>4, <1>5, <1>6, <1>7
  <2>2. new \in Seq(SweepRows(ps)) /\ Len(new) = Len(q)
    BY <1>6, <2>1, RowsAt
  <2> QED BY <1>5, <1>6, <2>2
<1>10. /\ all \in Seq(SweepRows(ps)) /\ DOMAIN all = 1..(Len(ss) + Len(q))
       /\ \A s \in 1..Len(ss) : all[s] = ss[s]
       /\ \A s \in (Len(ss) + 1)..(Len(ss) + Len(q)) : all[s] = row(q[s - Len(ss)])
  <2>1. all \in Seq(SweepRows(ps)) /\ Len(all) = Len(ss) + Len(new)
    BY <1>1, <1>9, ConcatProperties
  <2>2. DOMAIN all = 1..(Len(ss) + Len(q))
    BY <1>9, <2>1, LenProperties
  <2>3. \A s \in 1..Len(ss) : all[s] = ss[s]
    BY <1>1, <1>9, ConcatProperties
  <2>4. \A s \in (Len(ss) + 1)..(Len(ss) + Len(q)) : all[s] = new[s - Len(ss)]
    BY <1>1, <1>6, <1>9, ConcatProperties
  <2>5. \A s \in (Len(ss) + 1)..(Len(ss) + Len(q)) : s - Len(ss) \in 1..Len(q)
    BY <1>1, <1>6
  <2> QED BY <1>9, <2>1, <2>2, <2>3, <2>4, <2>5
<1> HIDE DEF all
<1>11. ASSUME NEW s \in DOMAIN all
       PROVE  \/ s \in DOMAIN ss /\ all[s] = ss[s]
              \/ /\ s \notin DOMAIN ss /\ s - Len(ss) \in 1..Len(q)
                 /\ all[s] = row(q[s - Len(ss)]) /\ all[s].pool = q[s - Len(ss)]
                 /\ all[s].pool \in S /\ all[s].candle = i
  <2>1. CASE s \in 1..Len(ss)
    BY <1>1, <1>10, <2>1
  <2>2. CASE s \in (Len(ss) + 1)..(Len(ss) + Len(q))
    <3>1. s - Len(ss) \in 1..Len(q) /\ s \notin 1..Len(ss)
      BY <1>1, <1>6, <2>2
    <3> QED BY <1>1, <1>4, <1>7, <1>10, <2>2, <3>1
  <2> QED BY <1>1, <1>6, <1>10, <2>1, <2>2
<1>12. ASSUME NEW s \in DOMAIN all PROVE ps[all[s].pool].at <= all[s].candle
  BY <1>2, <1>11 DEF SweepsOK
<1>13. ASSUME NEW a \in DOMAIN all, NEW b \in DOMAIN all, all[a].pool = all[b].pool
       PROVE  a = b
  <2>1. CASE a \in DOMAIN ss /\ b \in DOMAIN ss
    BY <1>1, <1>10, <1>13, <2>1 DEF SweepsOK
  <2>2. CASE a \in DOMAIN ss /\ b \notin DOMAIN ss
    BY <1>1, <1>2, <1>10, <1>11, <1>13, <2>2
  <2>3. CASE a \notin DOMAIN ss /\ b \in DOMAIN ss
    BY <1>1, <1>2, <1>10, <1>11, <1>13, <2>3
  <2>4. CASE a \notin DOMAIN ss /\ b \notin DOMAIN ss
    <3>1. /\ a - Len(ss) \in 1..Len(q) /\ b - Len(ss) \in 1..Len(q)
          /\ q[a - Len(ss)] = q[b - Len(ss)]
      BY <1>11, <1>13, <2>4
    <3>2. a - Len(ss) = b - Len(ss)
      BY <1>8, <3>1
    <3> QED BY <1>1, <1>6, <1>10, <3>2
  <2> QED BY <2>1, <2>2, <2>3, <2>4
<1>14. SweepsOK(all, ps)
  BY <1>10, <1>12, <1>13 DEF SweepsOK
<1>15. ASSUME NEW p \in DOMAIN ps, \A s \in DOMAIN all : all[s].pool # p
       PROVE  ps[p].status = "active"
  <2>1. \A s \in DOMAIN ss : s \in DOMAIN all /\ all[s] = ss[s]
    BY <1>1, <1>6, <1>10
  <2>2. \A s \in DOMAIN ss : ss[s].pool # p
    BY <1>15, <2>1
  <2> QED BY <2>2 DEF Followed
<1>16. ASSUME NEW s \in DOMAIN all, all[s].status = "candidate"
       PROVE  ps[all[s].pool].status = "active"
  <2>1. CASE s \in DOMAIN ss
    BY <1>1, <1>10, <1>16, <2>1 DEF Followed, Due
  <2>2. CASE s \notin DOMAIN ss
    BY <1>2, <1>11, <2>2
  <2> QED BY <2>1, <2>2
<1>17. ASSUME NEW s \in DOMAIN all, s \notin DOMAIN all \ DOMAIN ss
       PROVE  ps[all[s].pool].status = Due(all[s])
  <2>1. s \in DOMAIN ss /\ all[s] = ss[s]
    BY <1>1, <1>10, <1>17
  <2> QED BY <2>1 DEF Followed
<1>18. Undecided(ps, all, DOMAIN all \ DOMAIN ss)
  BY <1>15, <1>16, <1>17 DEF Undecided
<1> QED BY <1>14, <1>18 DEF all, new
-----------------------------------------------------------------------------
(* Wave counts: the candidates.                                             *)

(* The candles the counts are recalculated over.                            *)
LEMMA CandlesAre ==
  ASSUME FeedOK, NEW i
  PROVE  Window(i) \in Seq(stored) /\ Len(Window(i)) \in Nat
<1> DEFINE S == {k \in stored : k <= i}
<1>1. stored \subseteq 1..Len(feed) /\ Len(feed) \in Nat
  BY LenProperties DEF FeedOK
<1>2. S \in SUBSET Nat /\ S \subseteq stored
  <2>1. S \subseteq stored
    OBVIOUS
  <2>2. stored \subseteq Nat
    BY <1>1
  <2> HIDE DEF S
  <2> QED BY <2>1, <2>2
<1> HIDE DEF S
<1>3. IsFiniteSet(S)
  <2>1. 1 \in Int /\ Len(feed) \in Int
    BY <1>1
  <2>2. IsFiniteSet(1..Len(feed))
    BY <2>1, FS_Interval
  <2> QED BY <1>1, <1>2, <2>2, FS_Subset
<1>4. Ascending(S) \in Seq(S)
  BY <1>2, <1>3, AscendingIs
<1>5. Ascending(S) \in Seq(stored)
  BY <1>2, <1>4, SeqMonotonic
<1>6. Window(i) = Ascending(S)
  BY DEF Window, S
<1> QED BY <1>5, <1>6, LenProperties

(* The order by four keys, the first two from the greatest, is total.       *)
FourKeys == Nat \X Nat \X Nat \X Nat

Before(x, y) ==
  \/ x[1] > y[1]
  \/ x[1] = y[1] /\ x[2] > y[2]
  \/ x[1] = y[1] /\ x[2] = y[2] /\ (x[3] < y[3] \/ (x[3] = y[3] /\ x[4] < y[4]))

LEMMA KeysAreTotal ==
  ASSUME NEW x \in FourKeys, NEW y \in FourKeys
  PROVE  /\ ~Before(x, x)
         /\ x[3] # y[3] \/ x[4] # y[4] => Before(x, y) \/ Before(y, x)
BY DEF Before, FourKeys

LEMMA KeysChain ==
  ASSUME NEW x \in FourKeys, NEW y \in FourKeys, NEW z \in FourKeys, Before(x, y), Before(y, z)
  PROVE  Before(x, z)
BY DEF Before, FourKeys

KeyOf(f, g, v) == <<f[v], g[v], v[1], v[2]>>
Earlier(f, g, v, w) == Before(KeyOf(f, g, v), KeyOf(f, g, w))

LEMMA EarlierIsTotal ==
  ASSUME NEW W \in SUBSET (Nat \X Nat), NEW f \in [W -> Nat], NEW g \in [W -> Nat], NEW before,
         \A v, w \in W : <<v, w>> \in before <=> Earlier(f, g, v, w)
  PROVE  TotalOrder(W, before)
<1>1. \A w \in W : f[w] \in Nat /\ g[w] \in Nat /\ w[1] \in Nat /\ w[2] \in Nat
  OBVIOUS
<1>2. \A v, w \in W : v # w => v[1] # w[1] \/ v[2] # w[2]
  OBVIOUS
<1>3. \A w \in W : /\ KeyOf(f, g, w) \in FourKeys
                   /\ KeyOf(f, g, w)[3] = w[1] /\ KeyOf(f, g, w)[4] = w[2]
  BY <1>1 DEF KeyOf, FourKeys
<1>4. ASSUME NEW w \in W PROVE <<w, w>> \notin before
  <2>1. ~Earlier(f, g, w, w)
    BY <1>3, KeysAreTotal DEF Earlier
  <2> QED BY <2>1
<1>5. ASSUME NEW v \in W, NEW w \in W, v # w
      PROVE  <<v, w>> \in before \/ <<w, v>> \in before
  <2>1. v[1] # w[1] \/ v[2] # w[2]
    BY <1>2, <1>5
  <2>2. Earlier(f, g, v, w) \/ Earlier(f, g, w, v)
    BY <1>3, <2>1, KeysAreTotal DEF Earlier
  <2> QED BY <2>2
<1>6. ASSUME NEW u \in W, NEW v \in W, NEW w \in W, <<u, v>> \in before, <<v, w>> \in before
      PROVE  <<u, w>> \in before
  <2>1. Earlier(f, g, u, v) /\ Earlier(f, g, v, w)
    BY <1>6
  <2>2. Earlier(f, g, u, w)
    BY <1>3, <2>1, KeysChain DEF Earlier
  <2> QED BY <2>2
<1> QED BY <1>4, <1>5, <1>6 DEF TotalOrder

(* The swings of a count are in the order of their candles.                 *)
LEMMA CountStartsBeforeItEnds ==
  ASSUME FeedOK, NEW sw, SwingsOK(sw), NEW ids \in Seq(DOMAIN sw), Len(ids) >= 3,
         WellOrdered(sw, ids)
  PROVE  sw[ids[1]].candle < sw[Last(ids)].candle
<1> DEFINE n == Len(ids)
<1>0. n \in Int /\ n >= 3
  BY LenProperties
<1>1. \A k \in 1..n : ids[k] \in DOMAIN sw /\ sw[ids[k]].candle \in Nat
  BY ElementOfSeq, SwingIs
<1>2. \A k \in 1..(n - 1) : sw[ids[k]].candle < sw[ids[k + 1]].candle
  BY DEF WellOrdered, n
<1>20. sw[Last(ids)].candle = sw[ids[n]].candle
  BY DEF Last
<1> HIDE DEF n
<1> DEFINE S == {k \in 2..n : sw[ids[1]].candle < sw[ids[k]].candle}
<1>3. 2 \in S
  <2>1. 1 \in 1..(n - 1) /\ 2 \in 2..n
    BY <1>0
  <2>2. sw[ids[1]].candle < sw[ids[1 + 1]].candle
    BY <1>2, <2>1
  <2> QED BY <2>1, <2>2
<1>4. ASSUME NEW k \in Int, 2 < k, k <= n, k - 1 \in S PROVE k \in S
  <2>1. /\ k - 1 \in 1..(n - 1) /\ (k - 1) + 1 = k /\ k \in 2..n
        /\ k - 1 \in 1..n /\ k \in 1..n /\ 1 \in 1..n
    BY <1>0, <1>4
  <2>2. sw[ids[k - 1]].candle < sw[ids[k]].candle
    BY <1>2, <2>1
  <2>3. sw[ids[1]].candle < sw[ids[k - 1]].candle
    BY <1>4
  <2>4. sw[ids[1]].candle < sw[ids[k]].candle
    BY <1>1, <2>1, <2>2, <2>3
  <2> QED BY <2>1, <2>4
<1> HIDE DEF S
<1>5. Hereditary(S, 2, n)
  BY <1>4 DEF Hereditary
<1>6. 2..n \subseteq S
  <2>1. 2 \in Int /\ n \in Int
    BY <1>0
  <2> QED BY <1>3, <1>5, <2>1, IntervalInduction
<1>7. n \in S
  BY <1>0, <1>6
<1> QED BY <1>7, <1>20 DEF S

(* A candidate: a window of known swings.                                   *)
Found(c, sw, known) ==
  /\ c.pattern \in {"impulse", "zigzag"} /\ c.direction \in Directions
  /\ c.points \in Seq(known) /\ Len(c.points) >= 3
  /\ sw[c.points[1]].candle < sw[Last(c.points)].candle
  /\ c.confidence \in Nat /\ c.origin \in Int /\ c.targets \in SUBSET Int /\ c.complete \in BOOLEAN

LEMMA CandidateIs ==
  ASSUME FeedOK, NEW sw, SwingsOK(sw), NEW known \in SUBSET (DOMAIN sw), NEW ids \in Seq(known),
         Len(ids) >= 3, NEW pattern \in {"impulse", "zigzag"}, Valid(sw, pattern, ids),
         NEW confidence \in Nat
  PROVE  Found(Candidate(sw, ids, pattern, confidence), sw, known)
<1> DEFINE p(k) == sw[ids[k + 1]].price
           d == IF sw[ids[1]].type = "low" THEN "bullish" ELSE "bearish"
           first == Apart(p(1), p(0))
           targets == IF pattern = "impulse"
                      THEN {Project(d, p(2), first, t) : t \in {1618, 2618}}
                      ELSE {Project(d, p(2), first, t) : t \in {1000, 1618}}
           complete == Len(ids) = IF pattern = "impulse" THEN 6 ELSE 4
           c == [pattern |-> pattern, direction |-> d, points |-> ids, confidence |-> confidence,
                 origin |-> p(0), complete |-> complete, targets |-> targets]
<1>1. Candidate(sw, ids, pattern, confidence) = c
  BY DEF Candidate
<1>2. ids \in Seq(DOMAIN sw)
  BY SeqMonotonic
<1>3. WellOrdered(sw, ids)
  BY DEF Valid, ValidImpulse, ValidZigzag
<1>4. sw[ids[1]].candle < sw[Last(ids)].candle
  BY <1>2, <1>3, CountStartsBeforeItEnds
<1>5. p(0) \in Int /\ p(1) \in Int /\ p(2) \in Int
  <2>1. 0 + 1 \in 1..Len(ids) /\ 1 + 1 \in 1..Len(ids) /\ 2 + 1 \in 1..Len(ids)
    OBVIOUS
  <2>2. \A k \in 1..Len(ids) : sw[ids[k]].price \in Int
    BY <1>2, ElementOfSeq, SwingIs
  <2> QED BY <2>1, <2>2
<1> HIDE DEF p
<1>6. first \in Int
  BY <1>5 DEF Apart
<1> HIDE DEF first
<1>7. targets \in SUBSET Int
  <2>1. ASSUME NEW t \in Nat PROVE Project(d, p(2), first, t) \in Int
    <3>1. (first * t) \div 1000 \in Int
      BY <1>6
    <3> QED BY <1>5, <3>1 DEF Project
  <2> HIDE DEF d
  <2> QED BY <2>1
<1>8. complete \in BOOLEAN
  OBVIOUS
<1>9. d \in Directions
  BY DEF Directions
<1> HIDE DEF targets, complete, d
<1>10. /\ c.pattern = pattern /\ c.direction = d /\ c.points = ids /\ c.confidence = confidence
       /\ c.origin = p(0) /\ c.complete = complete /\ c.targets = targets
  OBVIOUS
<1> HIDE DEF c
<1>11. Found(c, sw, known)
  <2>1. c.complete \in BOOLEAN
    BY <1>8, <1>10, Zenon
  <2> QED BY <1>4, <1>5, <1>7, <1>9, <1>10, <2>1 DEF Found
<1> QED BY <1>1, <1>11

LEMMA ShapeIs ==
  ASSUME NEW k \in 1..5
  PROVE  /\ DOMAIN Shapes = 1..5
         /\ Shapes[k][1] \in {"impulse", "zigzag"}
         /\ Shapes[k][2] \in Nat /\ Shapes[k][2] >= 3
         /\ \A scoring \in Scorings : scoring[Shapes[k][1]][Shapes[k][2]] \in [Places -> Nat]
<1> DEFINE Grades == [Places -> Nat]
<1> SUFFICES /\ DOMAIN Shapes = 1..5
             /\ Shapes[k][1] \in {"impulse", "zigzag"}
             /\ Shapes[k][2] \in Nat /\ Shapes[k][2] >= 3
             /\ \A scoring \in Scorings : scoring[Shapes[k][1]][Shapes[k][2]] \in Grades
  OBVIOUS
<1>1. \A scoring \in Scorings :
        scoring["impulse"] \in [1..6 -> Grades] /\ scoring["zigzag"] \in [1..4 -> Grades]
  <2>1. Scorings \subseteq [impulse : [1..6 -> Grades], zigzag : [1..4 -> Grades]]
    BY AnalysisAssumption
  <2> HIDE DEF Grades
  <2> QED BY <2>1
<1> HIDE DEF Grades
<1>2. \A scoring \in Scorings :
        /\ scoring["impulse"][3] \in Grades /\ scoring["impulse"][5] \in Grades
        /\ scoring["impulse"][6] \in Grades
        /\ scoring["zigzag"][3] \in Grades /\ scoring["zigzag"][4] \in Grades
  BY <1>1
<1>3. /\ Shapes[1] = <<"impulse", 3>> /\ Shapes[2] = <<"impulse", 5>>
      /\ Shapes[3] = <<"impulse", 6>> /\ Shapes[4] = <<"zigzag", 3>>
      /\ Shapes[5] = <<"zigzag", 4>> /\ DOMAIN Shapes = 1..5
  BY DEF Shapes
<1>4. k = 1 \/ k = 2 \/ k = 3 \/ k = 4 \/ k = 5
  OBVIOUS
<1>5. CASE k = 1
  BY <1>2, <1>3, <1>5
<1>6. CASE k = 2
  BY <1>2, <1>3, <1>6
<1>7. CASE k = 3
  BY <1>2, <1>3, <1>7
<1>8. CASE k = 4
  BY <1>2, <1>3, <1>8
<1>9. CASE k = 5
  BY <1>2, <1>3, <1>9
<1> QED BY <1>4, <1>5, <1>6, <1>7, <1>8, <1>9

LEMMA CandidatesAre ==
  ASSUME FeedOK, NEW sw, SwingsOK(sw), NEW known \in SUBSET (DOMAIN sw), NEW scoring \in Scorings
  PROVE  /\ Len(Candidates(sw, known, scoring)) \in Nat
         /\ DOMAIN Candidates(sw, known, scoring) = 1..Len(Candidates(sw, known, scoring))
         /\ \A k \in DOMAIN Candidates(sw, known, scoring) :
              Found(Candidates(sw, known, scoring)[k], sw, known)
<1> DEFINE ordered == ByDetection(sw, known)
           n == Len(ordered)
           ids(w) == SubSeq(ordered, w[2], w[2] + Shapes[w[1]][2] - 1)
           W == {w \in (DOMAIN Shapes) \X (Max({1, n - Recent + 1})..n) :
                   /\ w[2] + Shapes[w[1]][2] - 1 <= n
                   /\ Valid(sw, Shapes[w[1]][1], ids(w))}
           end(w) == sw[Last(ids(w))].candle
           confidence(w) == scoring[Shapes[w[1]][1]][Shapes[w[1]][2]][end(w)]
           earlier(v, w) ==
             \/ confidence(v) > confidence(w)
             \/ confidence(v) = confidence(w) /\ end(v) > end(w)
             \/ confidence(v) = confidence(w) /\ end(v) = end(w)
                /\ (v[1] < w[1] \/ (v[1] = w[1] /\ v[2] < w[2]))
           before == {p \in (Nat \X Nat) \X (Nat \X Nat) : earlier(p[1], p[2])}
           taken == Ordered(W, before)
           list == [k \in DOMAIN taken |->
                      Candidate(sw, ids(taken[k]), Shapes[taken[k][1]][1], confidence(taken[k]))]
<1>1. Candidates(sw, known, scoring) = <<>> \o list
  BY DEF Candidates, CandidatesAmong
<1>2. ordered \in Seq(known) /\ n \in Nat
  BY ByDetectionIs
<1> HIDE DEF ordered, n
<1>3. ASSUME NEW w \in W
      PROVE  /\ w[1] \in 1..5 /\ w[2] \in 1..n /\ w \in (1..5) \X (1..n)
             /\ ids(w) \in Seq(known) /\ Len(ids(w)) \in Nat /\ Len(ids(w)) >= 3
             /\ Valid(sw, Shapes[w[1]][1], ids(w))
             /\ Shapes[w[1]][1] \in {"impulse", "zigzag"}
             /\ scoring[Shapes[w[1]][1]][Shapes[w[1]][2]] \in [Places -> Nat]
  <2> DEFINE L == Shapes[w[1]][2]
  <2>1. DOMAIN Shapes = 1..5
    BY ShapeIs
  <2>2. Max({1, n - Recent + 1}) \in Int /\ Max({1, n - Recent + 1}) >= 1
    <3>1. 1 \in Int /\ n - Recent + 1 \in Int
      BY <1>2 DEF Recent
    <3> QED BY <3>1, MaxOfTwo
  <2>3. w[1] \in 1..5 /\ w[2] \in Max({1, n - Recent + 1})..n /\ w[2] + L - 1 <= n
        /\ w = <<w[1], w[2]>>
    BY <2>1
  <2>4. Valid(sw, Shapes[w[1]][1], ids(w))
    OBVIOUS
  <2>5. /\ Shapes[w[1]][1] \in {"impulse", "zigzag"} /\ L \in Nat /\ L >= 3
        /\ scoring[Shapes[w[1]][1]][Shapes[w[1]][2]] \in [Places -> Nat]
    BY <2>3, ShapeIs
  <2> HIDE DEF W, L
  <2>6. w[2] \in 1..n /\ w[2] \in Nat
    BY <1>2, <2>2, <2>3
  <2>7. w \in (1..5) \X (1..n)
    BY <2>3, <2>6
  <2> DEFINE a == w[2]
             z == w[2] + L - 1
  <2>8. a \in Int /\ z \in Int /\ a <= z /\ z - a + 1 = L /\ z <= n /\ a >= 1
    BY <2>3, <2>5, <2>6
  <2>9. \A k \in a..z : ordered[k] \in known
    <3>1. \A k \in 1..n : ordered[k] \in known
      BY <1>2, ElementOfSeq DEF n
    <3> HIDE DEF a, z
    <3>2. a..z \subseteq 1..n
      BY <1>2, <2>8
    <3> QED BY <3>1, <3>2
  <2>10. ids(w) = SubSeq(ordered, a, z)
    BY DEF L
  <2> HIDE DEF a, z, ids
  <2>11. ids(w) \in Seq(known) /\ Len(ids(w)) = L
    BY <2>8, <2>9, <2>10, SubSeqProperties
  <2> QED BY <2>3, <2>4, <2>5, <2>6, <2>7, <2>11
<1>4. \A w \in W : end(w) \in Nat /\ confidence(w) \in Nat
  <2>1. ASSUME NEW w \in W PROVE end(w) \in Nat /\ end(w) \in Places
    <3>1. ids(w) \in Seq(known) /\ Len(ids(w)) \in Nat /\ Len(ids(w)) >= 3
      BY <1>3
    <3>2. Last(ids(w)) = ids(w)[Len(ids(w))]
      BY DEF Last
    <3> HIDE DEF ids, W
    <3>3. Len(ids(w)) \in 1..Len(ids(w))
      BY <3>1
    <3>4. Last(ids(w)) \in known
      BY <3>1, <3>2, <3>3, ElementOfSeq
    <3>5. Last(ids(w)) \in DOMAIN sw
      BY <3>4
    <3>6. end(w) \in stored /\ end(w) \in Nat
      BY <3>5, SwingIs
    <3>7. end(w) \in DOMAIN feed
      <4>1. DOMAIN feed = 1..Len(feed)
        BY LenProperties DEF FeedOK
      <4> HIDE DEF end
      <4> QED BY <3>6, <4>1 DEF FeedOK
    <3> HIDE DEF end
    <3> QED BY <3>6, <3>7 DEF FeedOK, Places
  <2>2. ASSUME NEW w \in W PROVE confidence(w) \in Nat
    <3>1. scoring[Shapes[w[1]][1]][Shapes[w[1]][2]] \in [Places -> Nat] /\ end(w) \in Places
      BY <1>3, <2>1
    <3> HIDE DEF end, W
    <3> QED BY <3>1
  <2> QED BY <2>1, <2>2
<1> HIDE DEF W
<1>5. W \in SUBSET (Nat \X Nat) /\ IsFiniteSet(W)
  <2>1. W \subseteq (1..5) \X (1..n)
    BY <1>3
  <2>2. IsFiniteSet(1..5) /\ IsFiniteSet(1..n)
    <3>1. 1 \in Int /\ 5 \in Int /\ n \in Int
      BY <1>2
    <3> QED BY <3>1, FS_Interval
  <2>3. IsFiniteSet((1..5) \X (1..n))
    BY <2>2, FS_Product
  <2>4. IsFiniteSet(W)
    BY <2>1, <2>3, FS_Subset
  <2>5. (1..5) \X (1..n) \subseteq Nat \X Nat
    BY <1>2
  <2> QED BY <2>1, <2>4, <2>5
<1>6. TotalOrder(W, before)
  <2> DEFINE f == [w \in W |-> confidence(w)]
             g == [w \in W |-> end(w)]
  <2>1. f \in [W -> Nat] /\ g \in [W -> Nat]
    BY <1>3, <1>4
  <2>2. \A w \in W : f[w] = confidence(w) /\ g[w] = end(w)
    OBVIOUS
  <2> HIDE DEF f, g, confidence, end
  <2>3. \A v, w \in W : <<v, w>> \in before <=> earlier(v, w)
    BY <1>5
  <2> HIDE DEF before
  <2>4. \A v, w \in W : earlier(v, w) <=> Earlier(f, g, v, w)
    BY <2>2 DEF Earlier, Before, KeyOf
  <2>5. \A v, w \in W : <<v, w>> \in before <=> Earlier(f, g, v, w)
    BY <2>3, <2>4
  <2> QED BY <1>5, <2>1, <2>5, EarlierIsTotal
<1> HIDE DEF before
<1>7. taken \in Seq(W)
  BY <1>5, <1>6, OrderedIs
<1> HIDE DEF taken
<1>8. /\ Len(taken) \in Nat /\ DOMAIN taken = 1..Len(taken)
      /\ \A k \in 1..Len(taken) : taken[k] \in W
  BY <1>7, LenProperties, ElementOfSeq
<1> DEFINE row(w) == Candidate(sw, ids(w), Shapes[w[1]][1], confidence(w))
<1>9. \A w \in W : Found(row(w), sw, known)
  <2>1. ASSUME NEW w \in W PROVE Found(row(w), sw, known)
    <3>1. /\ ids(w) \in Seq(known) /\ Len(ids(w)) >= 3
          /\ Valid(sw, Shapes[w[1]][1], ids(w))
          /\ Shapes[w[1]][1] \in {"impulse", "zigzag"} /\ confidence(w) \in Nat
      BY <1>3, <1>4
    <3> HIDE DEF ids, confidence
    <3> QED BY <3>1, CandidateIs
  <2> QED BY <2>1
<1>10. list = [k \in 1..Len(taken) |-> row(taken[k])]
  BY <1>8
<1> HIDE DEF row, list
<1>11. list \in Seq({row(w) : w \in W}) /\ Len(list) = Len(taken)
       /\ DOMAIN list = 1..Len(taken)
  <2>1. list \in [1..Len(taken) -> {row(w) : w \in W}]
    BY <1>8, <1>10
  <2> QED BY <1>8, <2>1, RowsAt
<1>12. <<>> \o list = list
  BY <1>11, ConcatEmptySeq
<1>13. \A k \in DOMAIN list : Found(list[k], sw, known)
  BY <1>8, <1>9, <1>10, <1>11
<1> QED BY <1>1, <1>8, <1>11, <1>12, <1>13
-----------------------------------------------------------------------------
(* Wave counts: their rows.                                                 *)

LEMMA CountIs ==
  ASSUME FeedOK, NEW sw, NEW ct, CountsOK(ct, sw), NEW r \in DOMAIN ct
  PROVE  /\ ct[r] \in CountType(sw) /\ ct[r].pattern \in {"impulse", "zigzag"}
         /\ ct[r].direction \in Directions /\ ct[r].points \in Seq(DOMAIN sw)
         /\ ct[r].confidence \in Nat /\ ct[r].at \in stored /\ ct[r].at \in Nat
         /\ ct[r].rank \in 0..(MaxAlternates + 1)
         /\ ct[r].status \in {"candidate", "primary", "alternate", "invalidated", "completed"}
         /\ r \in Nat
<1>1. DOMAIN ct = 1..Len(ct) /\ Len(ct) \in Nat
  BY LenProperties DEF CountsOK
<1>2. ct[r] \in CountType(sw)
  BY <1>1, ElementOfSeq DEF CountsOK
<1>3. ct[r].at \in stored
  BY <1>2 DEF CountType
<1>4. ct[r].at \in Nat
  BY <1>3, CandleIs
<1>5. r \in Nat
  BY <1>1
<1>6. /\ ct[r].pattern \in {"impulse", "zigzag"}
      /\ ct[r].direction \in Directions /\ ct[r].points \in Seq(DOMAIN sw)
      /\ ct[r].confidence \in Nat
      /\ ct[r].rank \in 0..(MaxAlternates + 1)
      /\ ct[r].status \in {"candidate", "primary", "alternate", "invalidated", "completed"}
  BY <1>2 DEF CountType
<1> QED BY <1>2, <1>3, <1>4, <1>5, <1>6

(* The counts keep their swings when there are more.                        *)
LEMMA CountsKept ==
  ASSUME FeedOK, NEW sw, SwingsOK(sw), NEW sw1, SwingsOK(sw1), Grown(sw, sw1),
         NEW ct, CountsOK(ct, sw)
  PROVE  CountsOK(ct, sw1)
<1>1. DOMAIN sw \subseteq DOMAIN sw1 /\ \A s \in DOMAIN sw : sw1[s] = sw[s]
  BY GrownIs DEF SwingsOK
<1>2. Seq(DOMAIN sw) \subseteq Seq(DOMAIN sw1)
  BY <1>1, SeqMonotonic
<1>3. ct \in Seq(CountType(sw1))
  <2>1. CountType(sw) \subseteq CountType(sw1)
    BY <1>2 DEF CountType
  <2> QED BY <2>1, SeqMonotonic DEF CountsOK
<1>4. ASSUME NEW r \in DOMAIN ct, NEW s \in Range(ct[r].points) PROVE sw1[s].at <= ct[r].at
  <2>1. ct[r].points \in Seq(DOMAIN sw)
    BY CountIs
  <2>2. s \in DOMAIN sw
    <3>1. DOMAIN ct[r].points = 1..Len(ct[r].points)
      BY <2>1, LenProperties
    <3> QED BY <2>1, <3>1, ElementOfSeq DEF Range
  <2>3. sw[s].at <= ct[r].at
    BY DEF CountsOK
  <2> QED BY <1>1, <2>2, <2>3
<1> QED BY <1>3, <1>4 DEF CountsOK

(* The row of a candidate.                                                  *)
NewCount(r, sw, i) ==
  /\ r \in CountType(sw) /\ r.start < r.end /\ r.at = i
  /\ r.status = "candidate" /\ \A s \in Range(r.points) : sw[s].at <= i

LEMMA CountRowIs ==
  ASSUME FeedOK, NEW sw, SwingsOK(sw), NEW i \in stored, NEW c, Found(c, sw, KnownSwings(sw, i))
  PROVE  NewCount(CountRow(sw, c, i), sw, i)
<1> DEFINE known == KnownSwings(sw, i)
           points == c.points
           row == CountRow(sw, c, i)
           start == sw[points[1]].candle
           end == sw[Last(points)].candle
<1>1. known \in SUBSET (DOMAIN sw) /\ \A s \in known : sw[s].at <= i
  BY KnownIs
<1>2. /\ c.pattern \in {"impulse", "zigzag"} /\ c.direction \in Directions
      /\ points \in Seq(known) /\ Len(points) >= 3 /\ start < end
      /\ c.confidence \in Nat /\ c.origin \in Int /\ c.targets \in SUBSET Int
      /\ c.complete \in BOOLEAN
  BY DEF Found
<1> HIDE DEF known
<1>3. points \in Seq(DOMAIN sw)
  BY <1>1, <1>2, SeqMonotonic
<1>4. points[1] \in DOMAIN sw /\ Last(points) \in DOMAIN sw
  <2>1. Len(points) \in Nat
    BY <1>3, LenProperties
  <2>2. 1 \in 1..Len(points) /\ Len(points) \in 1..Len(points)
    BY <1>2, <2>1
  <2>3. points[1] \in DOMAIN sw /\ points[Len(points)] \in DOMAIN sw
    BY <1>3, <2>2, ElementOfSeq
  <2> QED BY <2>3 DEF Last
<1>5. start \in stored /\ end \in stored
  BY <1>4, SwingIs
<1>6. row = [pattern |-> c.pattern, direction |-> c.direction, points |-> points,
             start |-> start, end |-> end, confidence |-> c.confidence, origin |-> c.origin,
             targets |-> c.targets, complete |-> c.complete, at |-> i, status |-> "candidate",
             rank |-> 0]
  BY DEF CountRow
<1>7. 0 \in 0..(MaxAlternates + 1)
  BY CountsAssumption
<1> HIDE DEF row, start, end
<1>8. row \in CountType(sw)
  BY <1>2, <1>3, <1>5, <1>6, <1>7 DEF CountType
<1>9. row.start < row.end /\ row.at = i /\ row.status = "candidate" /\ row.points = points
  BY <1>2, <1>6
<1>10. \A s \in Range(points) : sw[s].at <= i
  <2>1. DOMAIN points = 1..Len(points)
    BY <1>3, LenProperties
  <2>2. \A s \in Range(points) : s \in known
    BY <1>2, <2>1, ElementOfSeq DEF Range
  <2> QED BY <1>1, <2>2
<1> QED BY <1>8, <1>9, <1>10 DEF NewCount, row

LEMMA SameCountIs ==
  ASSUME NEW a, NEW b, SameCount(a, b)
  PROVE  SameCount(b, a)
BY DEF SameCount

LEMMA CreatedIs ==
  ASSUME FeedOK, NEW sw, SwingsOK(sw), NEW i \in stored, NEW scoring \in Scorings,
         NEW ct, CountsOK(ct, sw)
  PROVE  CountsOK(Created(ct, sw, KnownSwings(sw, i), i, scoring), sw)
<1> DEFINE known == KnownSwings(sw, i)
           found == Candidates(sw, known, scoring)
           row == <<>> \o [k \in DOMAIN found |-> CountRow(sw, found[k], i)]
           graded == {k \in DOMAIN found : found[k].confidence # 0}
           fresh == {k \in graded :
                       /\ \A r \in DOMAIN ct : ~SameCount(ct[r], row[k])
                       /\ \A j \in graded : j < k => ~SameCount(row[j], row[k])}
           new == Ascending(fresh)
           added == [k \in DOMAIN new |-> row[new[k]]]
           all == ct \o added
<1>1. Created(ct, sw, known, i, scoring) = all
  BY DEF Created, AddCounts, CountRows
<1>2. /\ Len(found) \in Nat /\ DOMAIN found = 1..Len(found)
      /\ \A k \in DOMAIN found : Found(found[k], sw, known)
  <2>1. known \in SUBSET (DOMAIN sw)
    BY KnownIs
  <2> HIDE DEF known
  <2> QED BY <2>1, CandidatesAre
<1>3. \A k \in 1..Len(found) : NewCount(CountRow(sw, found[k], i), sw, i)
  BY <1>2, CountRowIs
<1> HIDE DEF found, known
<1>4. \A k \in 1..Len(found) : NewCount(row[k], sw, i)
  <2> DEFINE list == [k \in DOMAIN found |-> CountRow(sw, found[k], i)]
  <2>1. list \in Seq({CountRow(sw, found[k], i) : k \in 1..Len(found)})
    <3>1. list \in [1..Len(found) -> {CountRow(sw, found[k], i) : k \in 1..Len(found)}]
      BY <1>2
    <3> HIDE DEF list
    <3> QED BY <1>2, <3>1, RowsAt
  <2>2. \A k \in 1..Len(found) : list[k] = CountRow(sw, found[k], i)
    BY <1>2
  <2> HIDE DEF list
  <2>3. <<>> \o list = list
    BY <2>1, ConcatEmptySeq
  <2>4. row = list
    BY <2>3 DEF list
  <2> HIDE DEF row
  <2> QED BY <1>3, <2>2, <2>4
<1> HIDE DEF row
<1>5. \A k \in fresh : /\ k \in 1..Len(found) /\ k \in graded
                       /\ \A r \in DOMAIN ct : ~SameCount(ct[r], row[k])
                       /\ \A j \in graded : j < k => ~SameCount(row[j], row[k])
  BY <1>2
<1> HIDE DEF graded, fresh
<1>6. fresh \in SUBSET Nat /\ IsFiniteSet(fresh)
  <2>1. fresh \subseteq 1..Len(found)
    BY <1>5
  <2>2. 1 \in Int /\ Len(found) \in Int
    BY <1>2
  <2>3. IsFiniteSet(1..Len(found))
    BY <2>2, FS_Interval
  <2>4. IsFiniteSet(fresh)
    BY <2>1, <2>3, FS_Subset
  <2>5. 1..Len(found) \subseteq Nat
    BY <1>2
  <2> QED BY <2>1, <2>4, <2>5
<1>7. /\ new \in Seq(fresh) /\ Len(new) \in Nat /\ DOMAIN new = 1..Len(new)
      /\ \A j, k \in 1..Len(new) : j < k => new[j] < new[k]
  BY <1>6, AscendingIs, LenProperties
<1> HIDE DEF new
<1>8. \A k \in 1..Len(new) : new[k] \in fresh
  BY <1>7, ElementOfSeq
<1>9. \A j, k \in 1..Len(new) : j < k => ~SameCount(row[new[j]], row[new[k]])
  BY <1>5, <1>7, <1>8
<1>10. \A j, k \in 1..Len(new) : SameCount(row[new[j]], row[new[k]]) => j = k
  <2>1. ASSUME NEW j \in 1..Len(new), NEW k \in 1..Len(new), SameCount(row[new[j]], row[new[k]])
        PROVE  j = k
    <3>1. SameCount(row[new[k]], row[new[j]])
      BY <2>1, SameCountIs
    <3>2. ~(j < k) /\ ~(k < j)
      BY <1>9, <2>1, <3>1
    <3> QED BY <1>7, <3>2
  <2> QED BY <2>1
<1>11. /\ added \in Seq(CountType(sw)) /\ Len(added) = Len(new)
       /\ \A k \in 1..Len(new) : added[k] = row[new[k]]
  <2>1. \A k \in 1..Len(new) : row[new[k]] \in CountType(sw)
    BY <1>4, <1>5, <1>8 DEF NewCount
  <2>2. added \in [1..Len(new) -> CountType(sw)]
    BY <1>7, <2>1
  <2>3. \A k \in 1..Len(new) : added[k] = row[new[k]]
    BY <1>7
  <2> HIDE DEF added
  <2> QED BY <1>7, <2>2, <2>3, RowsAt
<1> HIDE DEF added
<1>12. ct \in Seq(CountType(sw)) /\ DOMAIN ct = 1..Len(ct) /\ Len(ct) \in Nat
  BY LenProperties DEF CountsOK
<1>13. /\ all \in Seq(CountType(sw)) /\ DOMAIN all = 1..(Len(ct) + Len(new))
       /\ \A r \in 1..Len(ct) : all[r] = ct[r]
       /\ \A r \in (Len(ct) + 1)..(Len(ct) + Len(new)) : all[r] = added[r - Len(ct)]
  <2>1. all \in Seq(CountType(sw)) /\ Len(all) = Len(ct) + Len(added)
    BY <1>11, <1>12, ConcatProperties
  <2>2. DOMAIN all = 1..(Len(ct) + Len(new))
    BY <1>11, <2>1, LenProperties
  <2>3. \A r \in 1..Len(ct) : all[r] = ct[r]
    BY <1>11, <1>12, ConcatProperties
  <2>4. \A r \in (Len(ct) + 1)..(Len(ct) + Len(new)) : all[r] = added[r - Len(ct)]
    BY <1>7, <1>11, <1>12, ConcatProperties
  <2> QED BY <2>1, <2>2, <2>3, <2>4
<1> HIDE DEF all
<1>14. ASSUME NEW r \in DOMAIN all
       PROVE  \/ r \in DOMAIN ct /\ all[r] = ct[r]
              \/ /\ r \notin DOMAIN ct /\ r - Len(ct) \in 1..Len(new)
                 /\ all[r] = row[new[r - Len(ct)]] /\ NewCount(all[r], sw, i)
                 /\ \A s \in DOMAIN ct : ~SameCount(ct[s], all[r])
  <2>1. CASE r \in 1..Len(ct)
    BY <1>12, <1>13, <2>1
  <2>2. CASE r \in (Len(ct) + 1)..(Len(ct) + Len(new))
    <3>1. r - Len(ct) \in 1..Len(new) /\ r \notin DOMAIN ct
      BY <1>7, <1>12, <2>2
    <3>2. all[r] = row[new[r - Len(ct)]] /\ new[r - Len(ct)] \in fresh
      BY <1>8, <1>11, <1>13, <2>2, <3>1
    <3> QED BY <1>4, <1>5, <3>1, <3>2
  <2> QED BY <1>7, <1>12, <1>13, <2>1, <2>2
<1>15. ASSUME NEW a \in DOMAIN all, NEW b \in DOMAIN all, SameCount(all[a], all[b])
       PROVE  a = b
  <2>0. SameCount(all[b], all[a])
    BY <1>15, SameCountIs
  <2>1. CASE a \in DOMAIN ct /\ b \in DOMAIN ct
    BY <1>12, <1>13, <1>15, <2>1 DEF CountsOK
  <2>2. CASE a \in DOMAIN ct /\ b \notin DOMAIN ct
    BY <1>14, <1>15, <2>2
  <2>3. CASE a \notin DOMAIN ct /\ b \in DOMAIN ct
    BY <1>14, <2>0, <2>3
  <2>4. CASE a \notin DOMAIN ct /\ b \notin DOMAIN ct
    <3>1. /\ a - Len(ct) \in 1..Len(new) /\ b - Len(ct) \in 1..Len(new)
          /\ SameCount(row[new[a - Len(ct)]], row[new[b - Len(ct)]])
      BY <1>14, <1>15, <2>4
    <3>2. a - Len(ct) = b - Len(ct)
      BY <1>10, <3>1
    <3> QED BY <1>7, <1>12, <1>13, <3>2
  <2> QED BY <2>1, <2>2, <2>3, <2>4
<1>16. ASSUME NEW r \in DOMAIN all
       PROVE  all[r].start < all[r].end /\ \A s \in Range(all[r].points) : sw[s].at <= all[r].at
  <2>1. CASE r \in DOMAIN ct
    BY <1>12, <1>13, <2>1 DEF CountsOK
  <2>2. CASE r \notin DOMAIN ct
    <3>1. NewCount(all[r], sw, i)
      BY <1>14, <2>2
    <3> QED BY <3>1 DEF NewCount
  <2> QED BY <2>1, <2>2
<1>17. CountsOK(all, sw)
  BY <1>13, <1>15, <1>16 DEF CountsOK
<1> QED BY <1>1, <1>17 DEF known

(* A count that keeps all but its status and its rank.                      *)
Restated(old, new) ==
  \E status \in {"candidate", "primary", "alternate", "invalidated", "completed"},
     rank \in 0..(MaxAlternates + 1) :
    new = [old EXCEPT !.status = status, !.rank = rank]

LEMMA RestatedIs ==
  ASSUME FeedOK, NEW sw, NEW ct, CountsOK(ct, sw), NEW r \in DOMAIN ct,
         NEW new, Restated(ct[r], new)
  PROVE  /\ new \in CountType(sw) /\ new.pattern = ct[r].pattern
         /\ new.direction = ct[r].direction /\ new.points = ct[r].points
         /\ new.start = ct[r].start /\ new.end = ct[r].end /\ new.at = ct[r].at
         /\ new.confidence = ct[r].confidence
<1>1. ct[r] \in CountType(sw)
  BY CountIs
<1>2. PICK status \in {"candidate", "primary", "alternate", "invalidated", "completed"},
           rank \in 0..(MaxAlternates + 1) :
        new = [ct[r] EXCEPT !.status = status, !.rank = rank]
  BY DEF Restated
<1>3. new \in CountType(sw)
  BY <1>1, <1>2 DEF CountType
<1>4. /\ new.pattern = ct[r].pattern
      /\ new.direction = ct[r].direction /\ new.points = ct[r].points
      /\ new.start = ct[r].start /\ new.end = ct[r].end /\ new.at = ct[r].at
      /\ new.confidence = ct[r].confidence
  BY <1>1, <1>2 DEF CountType
<1> QED BY <1>3, <1>4

LEMMA CountsRestated ==
  ASSUME FeedOK, NEW sw, NEW ct, CountsOK(ct, sw), NEW new,
         new = [r \in DOMAIN ct |-> new[r]], \A r \in DOMAIN ct : Restated(ct[r], new[r])
  PROVE  /\ CountsOK(new, sw) /\ DOMAIN new = DOMAIN ct
         /\ \A r \in DOMAIN ct : new[r].at = ct[r].at /\ new[r].confidence = ct[r].confidence
<1>1. ct \in Seq(CountType(sw)) /\ DOMAIN ct = 1..Len(ct) /\ Len(ct) \in Nat
  BY LenProperties DEF CountsOK
<1>2. DOMAIN new = DOMAIN ct
  <2>1. DOMAIN [r \in DOMAIN ct |-> new[r]] = DOMAIN ct
    OBVIOUS
  <2> QED BY <2>1
<1>3. \A r \in DOMAIN ct :
        /\ new[r] \in CountType(sw) /\ new[r].pattern = ct[r].pattern
        /\ new[r].direction = ct[r].direction /\ new[r].points = ct[r].points
        /\ new[r].start = ct[r].start /\ new[r].end = ct[r].end /\ new[r].at = ct[r].at
        /\ new[r].confidence = ct[r].confidence
  BY RestatedIs
<1>4. new \in Seq(CountType(sw))
  <2>1. new \in [1..Len(ct) -> CountType(sw)]
    BY <1>1, <1>3
  <2> QED BY <1>1, <2>1, RowsAt
<1>5. ASSUME NEW a \in DOMAIN new, NEW b \in DOMAIN new, SameCount(new[a], new[b])
      PROVE  a = b
  <2>1. SameCount(ct[a], ct[b])
    BY <1>2, <1>3, <1>5 DEF SameCount
  <2> QED BY <1>2, <2>1 DEF CountsOK
<1>6. ASSUME NEW r \in DOMAIN new
      PROVE  new[r].start < new[r].end /\ \A s \in Range(new[r].points) : sw[s].at <= new[r].at
  <2>1. ct[r].start < ct[r].end /\ \A s \in Range(ct[r].points) : sw[s].at <= ct[r].at
    BY <1>2 DEF CountsOK
  <2> QED BY <1>2, <1>3, <2>1
<1>7. CountsOK(new, sw)
  BY <1>4, <1>5, <1>6 DEF CountsOK
<1> QED BY <1>2, <1>3, <1>7

LEMMA InvalidatedIs ==
  ASSUME FeedOK, NEW sw, NEW ct, CountsOK(ct, sw), NEW i
  PROVE  CountsOK(Invalidated(ct, i), sw)
<1> DEFINE new == Invalidated(ct, i)
<1>1. new = [r \in DOMAIN ct |-> new[r]]
  BY DEF Invalidated
<1>2. ASSUME NEW r \in DOMAIN ct PROVE Restated(ct[r], new[r])
  <2>1. new[r] = ct[r] \/ new[r] = [ct[r] EXCEPT !.status = "invalidated"]
    BY DEF Invalidated
  <2>2. /\ ct[r] \in CountType(sw) /\ ct[r].rank \in 0..(MaxAlternates + 1)
        /\ ct[r].status \in {"candidate", "primary", "alternate", "invalidated", "completed"}
    BY CountIs
  <2>3. ct[r] = [ct[r] EXCEPT !.status = ct[r].status, !.rank = ct[r].rank]
    BY <2>2 DEF CountType
  <2>4. [ct[r] EXCEPT !.status = "invalidated"]
          = [ct[r] EXCEPT !.status = "invalidated", !.rank = ct[r].rank]
    BY <2>2 DEF CountType
  <2> HIDE DEF new
  <2> QED BY <2>1, <2>2, <2>3, <2>4 DEF Restated
<1> HIDE DEF new
<1>3. CountsOK(new, sw)
  BY <1>1, <1>2, CountsRestated
<1> QED BY <1>3 DEF new

(* After the retirement only counts that can be ranked have a place.        *)
Retirable(ct, i) == \A r \in InPlace(ct) : r \in Rankable(ct, i)

LEMMA RetiredIs ==
  ASSUME FeedOK, NEW sw, NEW ct, CountsOK(ct, sw), NEW i \in stored
  PROVE  CountsOK(Retired(ct, i), sw) /\ Retirable(Retired(ct, i), i)
<1> DEFINE new == Retired(ct, i)
           old(r) == ct[r].status \in {"primary", "alternate"} /\ ct[r].at < i - Recency
<1>1. new = [r \in DOMAIN ct |-> new[r]]
  BY DEF Retired
<1>2. \A r \in DOMAIN ct :
        new[r] = IF old(r)
                 THEN [ct[r] EXCEPT !.status = IF ct[r].complete THEN "completed" ELSE "candidate",
                                    !.rank = 0]
                 ELSE ct[r]
  BY DEF Retired
<1> HIDE DEF new
<1>3. ASSUME NEW r \in DOMAIN ct
      PROVE  /\ Restated(ct[r], new[r])
             /\ new[r].status \in {"primary", "alternate"} => new[r] = ct[r] /\ ~old(r)
  <2>1. /\ ct[r] \in CountType(sw) /\ ct[r].rank \in 0..(MaxAlternates + 1)
        /\ ct[r].status \in {"candidate", "primary", "alternate", "invalidated", "completed"}
    BY CountIs
  <2>2. CASE old(r)
    <3>1. PICK status \in {"completed", "candidate"} :
            new[r] = [ct[r] EXCEPT !.status = status, !.rank = 0]
      BY <1>2, <2>2
    <3>2. 0 \in 0..(MaxAlternates + 1)
      BY CountsAssumption
    <3>3. Restated(ct[r], new[r])
      BY <3>1, <3>2 DEF Restated
    <3>4. new[r].status = status
      BY <2>1, <3>1 DEF CountType
    <3> QED BY <3>3, <3>4
  <2>3. CASE ~old(r)
    <3>1. new[r] = ct[r]
      BY <1>2, <2>3
    <3>2. ct[r] = [ct[r] EXCEPT !.status = ct[r].status, !.rank = ct[r].rank]
      BY <2>1 DEF CountType
    <3>3. Restated(ct[r], ct[r])
      BY <2>1, <3>2 DEF Restated
    <3> QED BY <2>3, <3>1, <3>3
  <2> QED BY <2>2, <2>3
<1>4. CountsOK(new, sw) /\ DOMAIN new = DOMAIN ct
  BY <1>1, <1>3, CountsRestated
<1>5. ASSUME NEW r \in InPlace(new) PROVE r \in Rankable(new, i)
  <2>1. r \in DOMAIN ct /\ new[r].status \in {"primary", "alternate"}
    BY <1>4, <1>5 DEF InPlace
  <2>2. new[r] = ct[r] /\ ~old(r)
    BY <1>3, <2>1
  <2>3. new[r].at >= i - Recency
    <3>1. ct[r].at \in Nat /\ i \in Nat /\ Recency \in Nat
      BY <2>1, CountIs, CandleIs, CountsAssumption
    <3> QED BY <2>1, <2>2, <3>1
  <2> QED BY <1>4, <2>1, <2>3 DEF Rankable
<1> QED BY <1>4, <1>5 DEF Retirable, new

(* As many as the numbers that name them.                                   *)
LEMMA Numbered ==
  ASSUME NEW S, NEW m \in Nat, NEW f \in [S -> 1..m], \A x, y \in S : f[x] = f[y] => x = y,
         \A k \in 1..m : \E x \in S : f[x] = k
  PROVE  Cardinality(S) = m
<1>1. IsFiniteSet(1..m) /\ Cardinality(1..m) = m
  <2>1. 1 \in Int /\ m \in Int
    OBVIOUS
  <2>2. IsFiniteSet(1..m) /\ Cardinality(1..m) = IF 1 > m THEN 0 ELSE m - 1 + 1
    BY <2>1, FS_Interval
  <2> QED BY <2>2
<1>2. f \in Injection(S, 1..m)
  BY DEF Injection, IsInjective
<1>3. f \in Surjection(S, 1..m)
  BY DEF Surjection
<1>4. Cardinality(S) = Cardinality(1..m)
  BY <1>1, <1>2, <1>3, FS_Injection
<1> QED BY <1>1, <1>4

BetterPairs(ct) == {p \in (DOMAIN ct) \X (DOMAIN ct) : Better(ct, p[1], p[2])}

LEMMA RankingIsTotal ==
  ASSUME FeedOK, NEW sw, NEW ct, CountsOK(ct, sw), NEW i
  PROVE  /\ IsFiniteSet(Rankable(ct, i)) /\ Rankable(ct, i) \subseteq DOMAIN ct
         /\ TotalOrder(Rankable(ct, i), BetterPairs(ct))
         /\ \A a, b \in Rankable(ct, i) :
              <<a, b>> \in BetterPairs(ct) => ct[a].confidence >= ct[b].confidence
<1> DEFINE R == Rankable(ct, i)
<1>1. R \subseteq DOMAIN ct
  BY DEF Rankable
<1>2. IsFiniteSet(R)
  <2>1. DOMAIN ct = 1..Len(ct) /\ Len(ct) \in Nat
    BY LenProperties DEF CountsOK
  <2>2. 1 \in Int /\ Len(ct) \in Int
    BY <2>1
  <2>3. IsFiniteSet(1..Len(ct))
    BY <2>2, FS_Interval
  <2> HIDE DEF R
  <2> QED BY <1>1, <2>1, <2>3, FS_Subset
<1>3. \A a \in R : ct[a].confidence \in Nat /\ ct[a].at \in Nat /\ a \in Nat
  BY <1>1, CountIs
<1>4. \A a, b \in R : <<a, b>> \in BetterPairs(ct) <=> Better(ct, a, b)
  BY <1>1 DEF BetterPairs
<1> HIDE DEF R
<1>5. TotalOrder(R, BetterPairs(ct))
  <2>1. \A a \in R : ~Better(ct, a, a)
    BY <1>3 DEF Better
  <2>2. \A a, b \in R : a # b => Better(ct, a, b) \/ Better(ct, b, a)
    BY <1>3 DEF Better
  <2>3. \A a, b, c \in R : Better(ct, a, b) /\ Better(ct, b, c) => Better(ct, a, c)
    BY <1>3 DEF Better
  <2> QED BY <1>4, <2>1, <2>2, <2>3 DEF TotalOrder
<1>6. \A a, b \in R : Better(ct, a, b) => ct[a].confidence >= ct[b].confidence
  BY <1>3 DEF Better
<1> QED BY <1>1, <1>2, <1>4, <1>5, <1>6 DEF R

LEMMA RankedIs ==
  ASSUME FeedOK, NEW sw, NEW ct, CountsOK(ct, sw), NEW i, Retirable(ct, i)
  PROVE  CountsOK(Ranked(ct, i), sw) /\ RanksOK(Ranked(ct, i))
<1> DEFINE new == Ranked(ct, i)
           R == Rankable(ct, i)
           B == BetterPairs(ct)
           place(r) == PlaceOf(r, R, B)
           n == Cardinality(R)
           top == MaxAlternates + 1
           m == IF n <= top THEN n ELSE top
           held == {r \in R : place(r) <= top}
           due(r) == IF place(r) = 1 THEN "primary"
                     ELSE IF place(r) <= top THEN "alternate" ELSE "candidate"
           rank(r) == IF place(r) <= top THEN place(r) ELSE 0
<1>1. new = [r \in DOMAIN ct |->
               IF r \notin R THEN ct[r] ELSE [ct[r] EXCEPT !.status = due(r), !.rank = rank(r)]]
  BY DEF Ranked, BetterPairs
<1>2. /\ IsFiniteSet(R) /\ R \subseteq DOMAIN ct /\ TotalOrder(R, B)
      /\ \A a, b \in R : <<a, b>> \in B => ct[a].confidence >= ct[b].confidence
  BY RankingIsTotal
<1>3. MaxAlternates \in Nat
  BY CountsAssumption
<1> HIDE DEF R, B, new
<1>4. /\ n \in Nat /\ \A r \in R : place(r) \in 1..n
      /\ \A a, b \in R : place(a) = place(b) => a = b
      /\ \A a, b \in R : place(a) < place(b) => <<a, b>> \in B
      /\ \A k \in 1..n : \E r \in R : place(r) = k
  BY <1>2, PlacesAre
<1> HIDE DEF place, n
<1>5. \A r \in R : place(r) \in Nat /\ place(r) >= 1 /\ place(r) <= n
  BY <1>4
<1>6. ASSUME NEW r \in DOMAIN ct
      PROVE  /\ Restated(ct[r], new[r])
             /\ r \in R => new[r].status = due(r) /\ new[r].rank = rank(r)
             /\ r \notin R => new[r] = ct[r]
  <2>1. /\ ct[r] \in CountType(sw) /\ ct[r].rank \in 0..top
        /\ ct[r].status \in {"candidate", "primary", "alternate", "invalidated", "completed"}
    BY CountIs
  <2>2. CASE r \in R
    <3>1. new[r] = [ct[r] EXCEPT !.status = due(r), !.rank = rank(r)]
      BY <1>1, <2>2
    <3>2. rank(r) \in 0..(MaxAlternates + 1)
      BY <1>3, <1>5, <2>2
    <3>3. due(r) \in {"candidate", "primary", "alternate", "invalidated", "completed"}
      OBVIOUS
    <3> HIDE DEF rank, due
    <3>4. Restated(ct[r], new[r])
      BY <3>1, <3>2, <3>3 DEF Restated
    <3>5. new[r].status = due(r) /\ new[r].rank = rank(r)
      BY <2>1, <3>1 DEF CountType
    <3> QED BY <2>2, <3>4, <3>5
  <2>3. CASE r \notin R
    <3>1. new[r] = ct[r]
      BY <1>1, <2>3
    <3>2. ct[r] = [ct[r] EXCEPT !.status = ct[r].status, !.rank = ct[r].rank]
      BY <2>1 DEF CountType
    <3>3. Restated(ct[r], ct[r])
      BY <2>1, <3>2 DEF Restated
    <3> QED BY <2>3, <3>1, <3>3
  <2> QED BY <2>2, <2>3
<1>7. /\ CountsOK(new, sw) /\ DOMAIN new = DOMAIN ct
      /\ \A r \in DOMAIN ct : new[r].confidence = ct[r].confidence
  <2>1. DOMAIN new = DOMAIN ct
    BY <1>1
  <2>2. new = [r \in DOMAIN ct |-> new[r]]
    BY <1>1
  <2> QED BY <1>6, <2>2, CountsRestated
<1>8. InPlace(new) = held
  <2>1. ASSUME NEW r \in InPlace(new) PROVE r \in held
    <3>1. r \in DOMAIN ct /\ new[r].status \in {"primary", "alternate"}
      BY <1>7, <2>1 DEF InPlace
    <3>2. r \in R
      <4>1. SUFFICES ASSUME r \notin R PROVE FALSE
        OBVIOUS
      <4>2. r \in InPlace(ct)
        BY <1>6, <3>1, <4>1 DEF InPlace
      <4> QED BY <4>1, <4>2 DEF Retirable, R
    <3>3. due(r) \in {"primary", "alternate"}
      BY <1>6, <3>1, <3>2
    <3>4. place(r) <= top
      BY <1>3, <1>5, <3>2, <3>3
    <3> QED BY <3>2, <3>4
  <2>2. ASSUME NEW r \in held PROVE r \in InPlace(new)
    <3>1. r \in R /\ place(r) <= top /\ r \in DOMAIN ct
      BY <1>2
    <3>2. due(r) \in {"primary", "alternate"}
      BY <3>1
    <3>3. new[r].status \in {"primary", "alternate"}
      BY <1>6, <3>1, <3>2
    <3> QED BY <1>7, <3>1, <3>3 DEF InPlace
  <2> QED BY <2>1, <2>2
<1>9. \A r \in held : /\ r \in R /\ r \in DOMAIN ct /\ place(r) <= top
                      /\ new[r].rank = place(r) /\ new[r].status = due(r)
  BY <1>2, <1>6
<1>10. m \in Nat /\ m <= top /\ \A r \in held : place(r) \in 1..m
  <2>1. top \in Nat
    BY <1>3
  <2>2. \A r \in held : place(r) \in Nat /\ place(r) >= 1 /\ place(r) <= n /\ place(r) <= top
    BY <1>5
  <2> HIDE DEF held, top
  <2> QED BY <1>4, <2>1, <2>2
<1>11. \A k \in 1..m : \E r \in held : place(r) = k
  <2>1. ASSUME NEW k \in 1..m PROVE \E r \in held : place(r) = k
    <3>1. k \in 1..n /\ k <= top
      BY <1>3, <1>4
    <3>2. PICK r \in R : place(r) = k
      BY <1>4, <3>1
    <3> QED BY <3>1, <3>2
  <2> QED BY <2>1
<1> HIDE DEF held, m
<1>12. Cardinality(held) = m
  <2> DEFINE f == [r \in held |-> place(r)]
  <2>1. f \in [held -> 1..m]
    BY <1>10
  <2>2. \A r \in held : f[r] = place(r)
    OBVIOUS
  <2> HIDE DEF f
  <2>3. \A a, b \in held : f[a] = f[b] => a = b
    BY <1>4, <1>9, <2>2
  <2>4. \A k \in 1..m : \E r \in held : f[r] = k
    BY <1>11, <2>2
  <2> QED BY <1>10, <2>1, <2>3, <2>4, Numbered
<1>13. {new[r].rank : r \in held} = 1..m
  <2>1. \A r \in held : new[r].rank \in 1..m
    BY <1>9, <1>10
  <2>2. \A k \in 1..m : \E r \in held : new[r].rank = k
    BY <1>9, <1>11
  <2> QED BY <2>1, <2>2
<1>14. ASSUME NEW r \in held
       PROVE  /\ new[r].status = "primary" <=> new[r].rank = 1
              /\ \A s \in held : new[r].rank < new[s].rank => new[r].confidence >= new[s].confidence
  <2>1. new[r].status = "primary" <=> new[r].rank = 1
    BY <1>9
  <2>2. ASSUME NEW s \in held, new[r].rank < new[s].rank
        PROVE  new[r].confidence >= new[s].confidence
    <3>1. place(r) < place(s) /\ r \in R /\ s \in R /\ r \in DOMAIN ct /\ s \in DOMAIN ct
      BY <1>9, <2>2
    <3>2. <<r, s>> \in B
      BY <1>4, <3>1
    <3>3. ct[r].confidence >= ct[s].confidence
      BY <1>2, <3>1, <3>2
    <3> QED BY <1>7, <3>1, <3>3
  <2> QED BY <2>1, <2>2
<1>15. RanksOK(new)
  <2>1. {new[r].rank : r \in InPlace(new)} = 1..Cardinality(InPlace(new))
    BY <1>8, <1>12, <1>13
  <2>2. Cardinality(InPlace(new)) <= MaxAlternates + 1
    BY <1>8, <1>10, <1>12
  <2> QED BY <1>8, <1>14, <2>1, <2>2 DEF RanksOK
<1> QED BY <1>7, <1>15 DEF new

LEMMA CountsAfterIs ==
  ASSUME FeedOK, NEW sw, SwingsOK(sw), NEW i \in stored, NEW scoring \in Scorings,
         NEW ct, CountsOK(ct, sw)
  PROVE  /\ CountsOK(CountsAfter(ct, sw, KnownSwings(sw, i), i, scoring), sw)
         /\ RanksOK(CountsAfter(ct, sw, KnownSwings(sw, i), i, scoring))
<1> DEFINE a == Invalidated(ct, i)
           b == Created(a, sw, KnownSwings(sw, i), i, scoring)
           c == Retired(b, i)
<1>1. CountsOK(a, sw)
  BY InvalidatedIs
<1>2. CountsOK(b, sw)
  <2> HIDE DEF a
  <2> QED BY <1>1, CreatedIs
<1>3. CountsOK(c, sw) /\ Retirable(c, i)
  <2> HIDE DEF b
  <2> QED BY <1>2, RetiredIs
<1>4. CountsOK(Ranked(c, i), sw) /\ RanksOK(Ranked(c, i))
  <2> HIDE DEF c
  <2> QED BY <1>3, RankedIs
<1> QED BY <1>4 DEF CountsAfter

(* A recalculation goes over the candles as so many analyses do.            *)
GoodCounts(sw) == {ct \in Seq(CountType(sw)) : CountsOK(ct, sw) /\ RanksOK(ct)}

LEMMA NoCounts ==
  ASSUME NEW sw
  PROVE  <<>> \in GoodCounts(sw)
<1>1. InPlace(<<>>) = {}
  BY DEF InPlace
<1>2. Cardinality({}) = 0
  BY FS_EmptySet
<1>3. RanksOK(<<>>)
  <2>0. Cardinality(InPlace(<<>>)) = 0
    BY <1>1, <1>2, Zenon
  <2>1. {<<>>[r].rank : r \in InPlace(<<>>)} = {}
    BY <1>1
  <2>2. 1..Cardinality(InPlace(<<>>)) = {}
    <3>1. 1..0 = {}
      OBVIOUS
    <3> QED BY <2>0, <3>1
  <2>3. Cardinality(InPlace(<<>>)) <= MaxAlternates + 1
    <3>1. 0 <= MaxAlternates + 1
      BY CountsAssumption
    <3> QED BY <2>0, <3>1
  <2> QED BY <1>1, <2>1, <2>2, <2>3 DEF RanksOK
<1>4. <<>> \in Seq(CountType(sw)) /\ DOMAIN <<>> = {}
  OBVIOUS
<1>5. CountsOK(<<>>, sw)
  BY <1>4 DEF CountsOK
<1> QED BY <1>3, <1>4, <1>5 DEF GoodCounts

LEMMA RecalculatedIs ==
  ASSUME FeedOK, NEW sw, SwingsOK(sw), NEW rebuild \in BOOLEAN, NEW scoring \in Scorings,
         NEW ct, CountsOK(ct, sw), RanksOK(ct)
  PROVE  CountsOK(Recalculated(ct, sw, rebuild, scoring), sw)
         /\ RanksOK(Recalculated(ct, sw, rebuild, scoring))
<1> DEFINE candles == Window(Len(feed))
           n == Len(candles)
           base == IF rebuild THEN <<>> ELSE ct
           analysed1(k, v) == CountsAfter(v, sw, KnownSwings(sw, candles[k]), candles[k], scoring)
           Eq(g) == g = [k \in 0..n |-> IF k = 0 THEN base ELSE analysed1(k, g[k - 1])]
           V == GoodCounts(sw)
           step == [k \in Int |-> [v \in V |-> IF k \in 1..n THEN analysed1(k, v) ELSE v]]
<1>1. n \in Nat /\ \A k \in 1..n : candles[k] \in stored
  <2>1. candles \in Seq(stored) /\ n \in Nat
    BY CandlesAre
  <2> QED BY <2>1, ElementOfSeq
<1>2. \A k \in 1..n : \A v \in V : analysed1(k, v) \in V
  <2>1. ASSUME NEW k \in 1..n, NEW v \in V PROVE analysed1(k, v) \in V
    <3>1. candles[k] \in stored /\ CountsOK(v, sw)
      BY <1>1 DEF GoodCounts
    <3> DEFINE c == candles[k]
    <3> HIDE DEF c
    <3>2. c \in stored
      BY <3>1 DEF c
    <3>3. /\ CountsOK(CountsAfter(v, sw, KnownSwings(sw, c), c, scoring), sw)
          /\ RanksOK(CountsAfter(v, sw, KnownSwings(sw, c), c, scoring))
      BY <3>1, <3>2, CountsAfterIs
    <3>4. CountsAfter(v, sw, KnownSwings(sw, c), c, scoring) \in V
      BY <3>3 DEF GoodCounts, CountsOK
    <3> QED BY <3>4 DEF c
  <2> QED BY <2>1
<1>3. base \in V
  BY NoCounts DEF GoodCounts, CountsOK
<1> HIDE DEF candles, n, analysed1, V
<1>4. PICK g \in [0..n -> V] : Recursively(g, 0, n, base, step)
  <2>1. step \in [Int -> [V -> V]]
    BY <1>2
  <2>2. 0 \in Int /\ n \in Int /\ 0 <= n
    BY <1>1
  <2> HIDE DEF step, base
  <2> QED BY <1>3, <2>1, <2>2, RecursionSolved
<1> HIDE DEF base
<1>5. Eq(g)
  <2>1. ASSUME NEW k \in 0..n
        PROVE  g[k] = IF k = 0 THEN base ELSE analysed1(k, g[k - 1])
    <3>1. CASE k = 0
      BY <1>4, <3>1 DEF Recursively
    <3>2. CASE k # 0
      <4>1. k \in 1..n /\ k - 1 \in 0..n /\ k \in Int
        BY <1>1, <3>2
      <4>2. g[k - 1] \in V
        BY <4>1
      <4>3. g[k] = step[k][g[k - 1]]
        BY <1>4, <3>2 DEF Recursively
      <4> QED BY <3>2, <4>1, <4>2, <4>3
    <3> QED BY <3>1, <3>2
  <2> QED BY <2>1
<1> DEFINE after == CHOOSE h : Eq(h)
<1>6. Eq(after)
  BY <1>5
<1>7. Recalculated(ct, sw, rebuild, scoring) = after[n]
  BY DEF Recalculated, candles, n, base, analysed1
<1> DEFINE f == after
<1>8. f = [k \in 0..n |-> IF k = 0 THEN base ELSE analysed1(k, f[k - 1])]
  BY <1>6
<1> HIDE DEF f, Eq
<1>9. 0..n \subseteq {k \in 0..n : f[k] \in V}
  <2> DEFINE S == {k \in 0..n : f[k] \in V}
  <2>1. 0 \in S
    BY <1>1, <1>3, <1>8
  <2>2. ASSUME NEW k \in Int, 0 < k, k <= n, k - 1 \in S PROVE k \in S
    <3>1. k \in 1..n /\ k \in 0..n /\ k # 0
      BY <2>2
    <3>2. f[k] = analysed1(k, f[k - 1])
      BY <1>8, <3>1
    <3>3. f[k - 1] \in V
      BY <2>2
    <3> QED BY <1>2, <3>1, <3>2, <3>3
  <2> HIDE DEF S
  <2>3. Hereditary(S, 0, n)
    BY <2>2 DEF Hereditary
  <2>4. 0..n \subseteq S
    <3>1. 0 \in Int /\ n \in Int
      BY <1>1
    <3> QED BY <2>1, <2>3, <3>1, IntervalInduction
  <2> QED BY <2>4 DEF S
<1>10. f[n] \in V
  BY <1>1, <1>9
<1> QED BY <1>7, <1>10 DEF f, V, GoodCounts
-----------------------------------------------------------------------------
(* Setups.                                                                  *)

(* An entry zone that candle c has not gone through.                        *)
Open(d, zone, c) ==
  /\ zone.low \in Int /\ zone.high \in Int
  /\ IF d = "bullish" THEN c.low > zone.low /\ c.close >= zone.low
                      ELSE c.high < zone.high /\ c.close <= zone.high

RangeOf(z) == [low |-> z.lower, high |-> z.upper]
OverlapOf(g, b) == [low |-> Max({g.lower, b.lower}), high |-> Min({g.upper, b.upper})]

LEMMA RangeIsOpen ==
  ASSUME FeedOK, NEW i \in stored, NEW z, Zone(z), Untouched(z, feed[i])
  PROVE  Open(z.direction, RangeOf(z), feed[i])
BY DEF Open, RangeOf, Untouched, Zone

LEMMA OverlapIsOpen ==
  ASSUME FeedOK, NEW i \in stored, NEW g, Zone(g), Untouched(g, feed[i]),
         NEW b, Zone(b), Untouched(b, feed[i]), g.direction = b.direction
  PROVE  Open(g.direction, OverlapOf(g, b), feed[i])
<1> DEFINE z == OverlapOf(g, b)
<1>1. z.low = Max({g.lower, b.lower}) /\ z.high = Min({g.upper, b.upper})
  BY DEF OverlapOf
<1>2. g.lower \in Int /\ g.upper \in Int /\ b.lower \in Int /\ b.upper \in Int
  BY DEF Zone
<1> HIDE DEF z
<1>3. z.low = g.lower \/ z.low = b.lower
  <2>1. Max({g.lower, b.lower}) \in {g.lower, b.lower}
    BY <1>2, MaxOfTwo
  <2> QED BY <1>1, <2>1
<1>4. z.high = g.upper \/ z.high = b.upper
  <2>1. Min({g.upper, b.upper}) \in {g.upper, b.upper}
    BY <1>2, MinOfTwo
  <2> QED BY <1>1, <2>1
<1>5. Open(g.direction, z, feed[i])
  <2>1. CASE g.direction = "bullish"
    BY <1>2, <1>3, <1>4, <2>1 DEF Open, Untouched
  <2>2. CASE g.direction # "bullish"
    BY <1>2, <1>3, <1>4, <2>2 DEF Open, Untouched
  <2> QED BY <2>1, <2>2
<1> QED BY <1>5 DEF z

LEMMA ZonesAreOpen ==
  ASSUME FeedOK, NEW i \in stored, NEW gp, AliveUntouched(gp, i), NEW bl, AliveUntouched(bl, i),
         NEW d, NEW zone \in EntryZones(d, gp, bl, i)
  PROVE  Open(d, zone, feed[i])
<1> DEFINE usable(rows) == {rows[z] : z \in {z \in DOMAIN rows :
             /\ rows[z].at <= i /\ rows[z].direction = d /\ rows[z].status \in Live}}
           both(p) == [low |-> Max({p[1].lower, p[2].lower}), high |-> Min({p[1].upper, p[2].upper})]
           range(z) == [low |-> z.lower, high |-> z.upper]
<1>1. \/ \E z \in usable(gp) \cup usable(bl) : zone = range(z)
      \/ \E p \in usable(gp) \X usable(bl) : zone = both(p) \/ zone = range(p[1])
  <2>1. CASE usable(gp) # {} /\ usable(bl) # {}
    <3>1. zone \in {IF both(p).low < both(p).high THEN both(p) ELSE range(p[1]) :
                      p \in usable(gp) \X usable(bl)}
      BY <2>1 DEF EntryZones
    <3> HIDE DEF both, range, usable
    <3> QED BY <3>1
  <2>2. CASE ~(usable(gp) # {} /\ usable(bl) # {})
    <3>1. zone \in {range(z) : z \in usable(gp) \cup usable(bl)}
      BY <2>2 DEF EntryZones
    <3> HIDE DEF both, range, usable
    <3> QED BY <3>1
  <2> QED BY <2>1, <2>2
<1>2. \A z \in usable(gp) \cup usable(bl) : Zone(z) /\ Untouched(z, feed[i]) /\ z.direction = d
  BY DEF AliveUntouched
<1> HIDE DEF usable
<1>3. ASSUME NEW z \in usable(gp) \cup usable(bl), zone = range(z) PROVE Open(d, zone, feed[i])
  <2>1. Open(z.direction, RangeOf(z), feed[i])
    BY <1>2, RangeIsOpen
  <2> QED BY <1>2, <1>3, <2>1 DEF RangeOf
<1>4. ASSUME NEW g \in usable(gp), NEW b \in usable(bl), zone = OverlapOf(g, b)
      PROVE  Open(d, zone, feed[i])
  <2>1. Open(g.direction, OverlapOf(g, b), feed[i])
    BY <1>2, OverlapIsOpen
  <2> QED BY <1>2, <1>4, <2>1
<1>5. ASSUME NEW p \in usable(gp) \X usable(bl), zone = both(p) \/ zone = range(p[1])
      PROVE  Open(d, zone, feed[i])
  <2>1. p[1] \in usable(gp) /\ p[2] \in usable(bl)
    OBVIOUS
  <2>2. CASE zone = both(p)
    BY <1>4, <2>1, <2>2 DEF OverlapOf
  <2>3. CASE zone = range(p[1])
    BY <1>3, <2>1, <2>3
  <2> QED BY <1>5, <2>2, <2>3
<1> QED BY <1>1, <1>3, <1>5

(* The stop is a price, and the candle has not reached it.                  *)
Standing(s, c) ==
  IF s.direction = "bullish" THEN c.low > s.stop /\ c.close >= s.zone.low
                             ELSE c.high < s.stop /\ c.close <= s.zone.high

(* The sweep a setup rests on, if any.                                      *)
Support(sweep, ss) == sweep = {} \/ \E s \in DOMAIN ss : sweep = {ss[s]}

LEMMA SetupsStand ==
  ASSUME FeedOK, NEW i \in stored, NEW gp, AliveUntouched(gp, i), NEW bl, AliveUntouched(bl, i),
         NEW ps, NEW ss, SweepsOK(ss, ps), NEW sweep, Support(sweep, ss),
         NEW d, NEW sw, NEW known, NEW wave, NEW targets,
         NEW s \in Setups(d, i, sw, known, gp, bl, ps, sweep, wave, targets)
  PROVE  Standing(s, feed[i])
<1> DEFINE c == feed[i]
<1> DEFINE entry(zone) == (zone.low + zone.high) \div 2
           stop(zone) == StopOf(d, zone, sweep, c)
           structural(zone) == StructuralTargets(d, entry(zone), sw, known, ps, i)
           fallback(zone) ==
             {Beyond(d, entry(zone), m * Reward(d, stop(zone), entry(zone))) : m \in 1..3}
           first(zone) == SelectTargets(d, entry(zone), stop(zone), structural(zone) \cup fallback(zone))
           final(zone) ==
             IF wave = "" THEN SelectTargets(d, entry(zone), stop(zone), structural(zone) \cup fallback(zone))
             ELSE SelectTargets(d, entry(zone), stop(zone), structural(zone) \cup targets)
           setup(zone) ==
             [direction |-> d, zone |-> zone, entry |-> entry(zone), stop |-> stop(zone),
              wave |-> wave, first |-> first(zone), targets |-> final(zone)]
<1>0. s \in {setup(zone) : zone \in EntryZones(d, gp, bl, i)}
  BY DEF Setups
<1> HIDE DEF entry, stop, first, final
<1>1. PICK zone \in EntryZones(d, gp, bl, i) :
        s.direction = d /\ s.zone = zone /\ s.stop = StopOf(d, zone, sweep, c)
  BY <1>0 DEF stop
<1> HIDE DEF structural, fallback, setup
<1>2. ValidGeometry(d, s.zone, s.entry, s.stop, s.first)
  BY DEF Setups
<1>3. Open(d, zone, c)
  BY ZonesAreOpen
<1>4. c.low \in Int /\ c.high \in Int /\ c.close \in Int
  BY CandleIs
<1> HIDE DEF c
<1> DEFINE anchor == IF sweep # {} THEN (CHOOSE r \in sweep : TRUE).extreme
                     ELSE IF d = "bullish" THEN Min({c.low, zone.low}) ELSE Max({c.high, zone.high})
<1>5. zone.low \in Int /\ zone.high \in Int
  BY <1>3 DEF Open
<1>6. anchor \in Int
  <2>1. CASE sweep # {}
    <3>1. PICK r \in DOMAIN ss : sweep = {ss[r]}
      BY <2>1 DEF Support
    <3>2. ss[r].extreme \in Int
      BY SweepIs
    <3>3. (CHOOSE t \in sweep : TRUE) = ss[r]
      BY <3>1
    <3> QED BY <2>1, <3>2, <3>3
  <2>2. CASE sweep = {}
    <3>1. Min({c.low, zone.low}) \in Int
      BY <1>4, <1>5, MinOfTwo
    <3>2. Max({c.high, zone.high}) \in Int
      BY <1>4, <1>5, MaxOfTwo
    <3> QED BY <2>2, <3>1, <3>2
  <2> QED BY <2>1, <2>2
<1>7. s.stop = IF d = "bullish" THEN anchor + (-Buffer) ELSE anchor - (-Buffer)
  BY <1>1 DEF StopOf, Beyond
<1> HIDE DEF anchor
<1>8. s.stop \in Int
  BY <1>6, <1>7, GeometryAssumption
<1>9. Reward(d, s.stop, IF d = "bullish" THEN zone.low ELSE zone.high) > 0
  BY <1>1, <1>2 DEF ValidGeometry
<1>10. CASE d = "bullish"
  <2>1. zone.low - s.stop > 0
    BY <1>9, <1>10 DEF Reward
  <2>2. c.low > zone.low /\ c.close >= zone.low
    BY <1>3, <1>10 DEF Open
  <2>3. c.low > s.stop
    BY <1>4, <1>5, <1>8, <2>1, <2>2
  <2> QED BY <1>1, <1>10, <2>2, <2>3 DEF Standing, c
<1>11. CASE d # "bullish"
  <2>1. s.stop - zone.high > 0
    BY <1>9, <1>11 DEF Reward
  <2>2. c.high < zone.high /\ c.close <= zone.high
    BY <1>3, <1>11 DEF Open
  <2>3. c.high < s.stop
    BY <1>4, <1>5, <1>8, <2>1, <2>2
  <2> QED BY <1>1, <1>11, <2>2, <2>3 DEF Standing, c
<1> QED BY <1>10, <1>11

LEMMA ConfirmedAre ==
  ASSUME NEW ss, NEW i, NEW s \in ConfirmedSweeps(ss, i)
  PROVE  \E r \in DOMAIN ss : s = ss[r]
BY DEF ConfirmedSweeps

LEMMA StructuralSetupsStand ==
  ASSUME FeedOK, NEW i \in stored, NEW gp, AliveUntouched(gp, i), NEW bl, AliveUntouched(bl, i),
         NEW ps, NEW ss, SweepsOK(ss, ps), NEW sw, NEW known, NEW ev, NEW signals,
         NEW s \in StructuralSetups(i, sw, known, ev, gp, bl, ps, ss, signals)
  PROVE  Standing(s, feed[i])
<1> DEFINE sweep(e) == {r \in ConfirmedSweeps(ss, i) : r.direction = e.direction /\ r.confirmed <= e.at}
           ones(e) == IF sweep(e) = {} THEN {{}} ELSE {{r} : r \in sweep(e)}
           of(e, one) == Setups(e.direction, i, sw, known, gp, bl, ps, one, "", {})
           from(e) == IF sweep(e) = {} /\ e.type # "BOS" THEN {}
                      ELSE UNION {of(e, one) : one \in ones(e)}
<1>1. PICK e : s \in from(e)
  <2>1. s \in UNION {from(e) : e \in IF signals # {} THEN signals ELSE LatestEvents(ev, i)}
    BY DEF StructuralSetups
  <2> HIDE DEF from
  <2> QED BY <2>1
<1>2. PICK one \in ones(e) : s \in of(e, one)
  <2> HIDE DEF of, ones
  <2> QED BY <1>1
<1>3. Support(one, ss)
  <2>1. CASE sweep(e) = {}
    BY <1>2, <2>1 DEF Support
  <2>2. CASE sweep(e) # {}
    <3>1. PICK r \in sweep(e) : one = {r}
      BY <1>2, <2>2
    <3>2. r \in ConfirmedSweeps(ss, i)
      OBVIOUS
    <3>3. \E t \in DOMAIN ss : r = ss[t]
      BY <3>2, ConfirmedAre
    <3> QED BY <3>1, <3>3 DEF Support
  <2> QED BY <2>1, <2>2
<1> HIDE DEF ones
<1>4. s \in Setups(e.direction, i, sw, known, gp, bl, ps, one, "", {})
  BY <1>2
<1> QED BY <1>3, <1>4, SetupsStand

LEMMA WaveSetupsStand ==
  ASSUME FeedOK, NEW i \in stored, NEW gp, AliveUntouched(gp, i), NEW bl, AliveUntouched(bl, i),
         NEW ps, NEW ss, SweepsOK(ss, ps), NEW sw, NEW known, NEW ev, NEW ct, NEW signals,
         NEW s \in WaveSetups(i, sw, known, ev, gp, bl, ps, ss, ct, signals)
  PROVE  Standing(s, feed[i])
<1> DEFINE types(d) == {ev[e].type : e \in {e \in DOMAIN ev : ev[e].at <= i /\ ev[e].direction = d}}
           aligned(d) == {r \in ConfirmedSweeps(ss, i) : r.direction = d}
           wave(c) == WaveStrategy(c, aligned(c.direction) # {}, types(c.direction))
           uses(c) == Len(c.points) = 3 /\ aligned(c.direction) # {}
           ones(c) == IF uses(c) THEN {{r} : r \in aligned(c.direction)} ELSE {{}}
           of(c, one) == Setups(c.direction, i, sw, known, gp, bl, ps, one, wave(c), c.targets)
           from(c) ==
             IF wave(c) = "" \/ ~\E e \in IF signals # {} THEN signals ELSE LatestEvents(ev, i) :
                                    e.direction = c.direction THEN {}
             ELSE UNION {of(c, one) : one \in ones(c)}
<1>1. PICK c : s \in from(c)
  <2>1. s \in UNION {from(c) : c \in {ct[r] : r \in {r \in DOMAIN ct : ct[r].status = "primary"}}}
    BY DEF WaveSetups
  <2> HIDE DEF from
  <2> QED BY <2>1
<1> HIDE DEF wave
<1>2. PICK one \in ones(c) : s \in of(c, one)
  <2> HIDE DEF of, ones
  <2> QED BY <1>1
<1>3. Support(one, ss)
  <2>1. CASE ~uses(c)
    BY <1>2, <2>1 DEF Support
  <2>2. CASE uses(c)
    <3>1. PICK r \in aligned(c.direction) : one = {r}
      BY <1>2, <2>2
    <3>2. r \in ConfirmedSweeps(ss, i)
      OBVIOUS
    <3>3. \E t \in DOMAIN ss : r = ss[t]
      BY <3>2, ConfirmedAre
    <3> QED BY <3>1, <3>3 DEF Support
  <2> QED BY <2>1, <2>2
<1> HIDE DEF ones
<1>4. s \in Setups(c.direction, i, sw, known, gp, bl, ps, one, wave(c), c.targets)
  BY <1>2
<1> QED BY <1>3, <1>4, SetupsStand
-----------------------------------------------------------------------------
(* The invariant holds.                                                     *)

LEMMA InitMarket ==
  ASSUME Init
  PROVE  MarketInv
<1> USE DEF Init
<1>1. FeedOK /\ analysed \subseteq stored
  <2>1. /\ Feeds \subseteq Seq([open : Int, high : Int, low : Int, close : Int])
        /\ \A f \in Feeds : \A k \in DOMAIN f :
             /\ f[k].low <= f[k].open /\ f[k].open <= f[k].high
             /\ f[k].low <= f[k].close /\ f[k].close <= f[k].high
    BY AnalysisAssumption
  <2>2. feed \in Seq([open : Int, high : Int, low : Int, close : Int])
    BY <2>1
  <2>3. stored \subseteq 1..Len(feed)
    OBVIOUS
  <2> QED BY <2>1, <2>2, <2>3 DEF FeedOK
<1>2. DOMAIN <<>> = {} /\ \A S : <<>> \in Seq(S)
  OBVIOUS
<1>3. SwingsOK(swings)
  BY <1>2 DEF SwingsOK
<1>4. EventsOK(events, swings)
  BY <1>2 DEF EventsOK
<1>5. GapsOK(gaps)
  BY <1>2 DEF GapsOK
<1>6. BlocksOK(blocks, events)
  BY <1>2 DEF BlocksOK
<1>7. PoolsOK(pools, swings)
  BY <1>2 DEF PoolsOK
<1>8. SweepsOK(sweeps, pools)
  BY <1>2 DEF SweepsOK
<1>9. Followed(pools, sweeps)
  BY <1>2 DEF Followed
<1>10. CountsOK(counts, swings) /\ RanksOK(counts)
  BY NoCounts DEF GoodCounts
<1>11. AcceptedNotStopped
  BY DEF AcceptedNotStopped
<1> QED BY <1>1, <1>3, <1>4, <1>5, <1>6, <1>7, <1>8, <1>9, <1>10, <1>11 DEF MarketInv

(* A stored candle leaves all rows what they are.                           *)
LEMMA StoredKeeps ==
  ASSUME MarketInv, NEW i \in DOMAIN feed, CandleStored(i)
  PROVE  MarketInv'
<1>1. /\ feed' = feed /\ stored' = stored \cup {i} /\ swings' = swings /\ events' = events
      /\ gaps' = gaps /\ blocks' = blocks /\ pools' = pools /\ sweeps' = sweeps
      /\ counts' = counts /\ setups' = setups /\ latest' = latest /\ analysed' = analysed
  BY DEF CandleStored, derived
<1>2. FeedOK' /\ (analysed \subseteq stored)'
  <2>1. DOMAIN feed = 1..Len(feed)
    BY LenProperties DEF MarketInv, FeedOK
  <2>2. stored' \subseteq 1..Len(feed)
    BY <1>1, <2>1 DEF MarketInv, FeedOK
  <2> QED BY <1>1, <2>2 DEF MarketInv, FeedOK
<1>3. stored \subseteq stored'
  BY <1>1
<1>4. SwingsOK(swings)'
  <2>1. SwingRows \subseteq SwingRows'
    BY <1>3 DEF SwingRows
  <2>2. swings \in Seq(SwingRows')
    BY <2>1, SeqMonotonic DEF MarketInv, SwingsOK
  <2> QED BY <1>1, <2>2 DEF MarketInv, SwingsOK
<1>5. EventsOK(events, swings)'
  <2>1. EventRows(swings) \subseteq EventRows(swings)'
    BY <1>1, <1>3 DEF EventRows
  <2>2. events \in Seq(EventRows(swings)')
    BY <2>1, SeqMonotonic DEF MarketInv, EventsOK
  <2> QED BY <1>1, <2>2 DEF MarketInv, EventsOK
<1>6. GapsOK(gaps)'
  <2>1. GapRows \subseteq GapRows'
    BY <1>3 DEF GapRows
  <2>2. gaps \in Seq(GapRows')
    BY <2>1, SeqMonotonic DEF MarketInv, GapsOK
  <2> QED BY <1>1, <2>2 DEF MarketInv, GapsOK
<1>7. BlocksOK(blocks, events)'
  <2>1. BlockRows(events) \subseteq BlockRows(events)'
    BY <1>1, <1>3 DEF BlockRows
  <2>2. blocks \in Seq(BlockRows(events)')
    BY <2>1, SeqMonotonic DEF MarketInv, BlocksOK
  <2> QED BY <1>1, <2>2 DEF MarketInv, BlocksOK
<1>8. PoolsOK(pools, swings)'
  <2>1. PoolRows(swings) \subseteq PoolRows(swings)'
    BY <1>1, <1>3 DEF PoolRows
  <2>2. pools \in Seq(PoolRows(swings)')
    BY <2>1, SeqMonotonic DEF MarketInv, PoolsOK
  <2> QED BY <1>1, <2>2 DEF MarketInv, PoolsOK
<1>9. SweepsOK(sweeps, pools)'
  <2>1. SweepRows(pools) \subseteq SweepRows(pools)'
    BY <1>1, <1>3 DEF SweepRows
  <2>2. sweeps \in Seq(SweepRows(pools)')
    BY <2>1, SeqMonotonic DEF MarketInv, SweepsOK
  <2> QED BY <1>1, <2>2 DEF MarketInv, SweepsOK
<1>10. Followed(pools, sweeps)'
  BY <1>1 DEF MarketInv, Followed
<1>11. CountsOK(counts, swings)'
  <2>1. CountType(swings) \subseteq CountType(swings)'
    BY <1>1, <1>3 DEF CountType
  <2>2. counts \in Seq(CountType(swings)')
    BY <2>1, SeqMonotonic DEF MarketInv, CountsOK
  <2> QED BY <1>1, <2>2 DEF MarketInv, CountsOK
<1>12. RanksOK(counts)'
  BY <1>1 DEF MarketInv, RanksOK, InPlace
<1>13. AcceptedNotStopped'
  BY <1>1 DEF MarketInv, AcceptedNotStopped
<1> QED BY <1>2, <1>4, <1>5, <1>6, <1>7, <1>8, <1>9, <1>10, <1>11, <1>12, <1>13 DEF MarketInv

(* What an analysis makes of the tables, one stage after the other.         *)
LEMMA AnalyseKeeps ==
  ASSUME MarketInv, NEW i \in stored, NEW score, NEW scoring \in Scorings,
         Analyse(i, score, scoring)
  PROVE  MarketInv'
<1> DEFINE swings1 == SwingsAfter(swings, i)
           known == KnownSwings(swings1, i)
           signals == StructureBreaks(swings1, known, i)
           events1 == EventsAfter(events, signals)
           gaps1 == GapsAfter(gaps, i)
           pools1 == PoolsAfter(pools, swings1, known, i)
           updated == SweepsUpdated(sweeps, pools1, i, score)
           candidates == {s \in DOMAIN sweeps : sweeps[s].status = "candidate"}
           pools2 == PoolsSwept(pools1, updated, candidates)
           sweeps1 == updated \o NewSweeps(updated, pools2, i, score)
           pools3 == PoolsSwept(pools2, sweeps1, (DOMAIN sweeps1) \ DOMAIN sweeps)
           blocks1 == BlocksAfter(blocks, events1, signals, i)
           counts1 == CountsAfter(counts, swings1, known, i, scoring)
           structural == StructuralSetups(i, swings1, known, events1, gaps1, blocks1, pools3,
                                          sweeps1, signals)
           waves == WaveSetups(i, swings1, known, events1, gaps1, blocks1, pools3, sweeps1,
                               counts1, signals)
<1>1. /\ feed' = feed /\ stored' = stored /\ analysed' = analysed \cup {i} /\ latest' = i
      /\ swings' = swings1 /\ events' = events1 /\ gaps' = gaps1 /\ blocks' = blocks1
      /\ pools' = pools3 /\ sweeps' = sweeps1 /\ counts' = counts1
      /\ setups' = structural \cup waves
  <2>1. PICK new \in {Stages(i, score, scoring)} :
          /\ swings' = new.swings /\ events' = new.events /\ gaps' = new.gaps
          /\ blocks' = new.blocks /\ pools' = new.pools /\ sweeps' = new.sweeps
          /\ counts' = new.counts /\ setups' = new.setups
    BY DEF Analyse
  <2>2. /\ new.swings = swings1 /\ new.events = events1 /\ new.gaps = gaps1
        /\ new.blocks = blocks1 /\ new.pools = pools3 /\ new.sweeps = sweeps1
        /\ new.counts = counts1 /\ new.setups = structural \cup waves
    <3> DEFINE swept == SweepStage(pools1, sweeps, i, score)
    <3>1. swept.pools = pools3 /\ swept.sweeps = sweeps1
      BY DEF SweepStage
    <3>2. new = Stages(i, score, scoring)
      BY <2>1
    <3>3. /\ new.swings = swings1 /\ new.events = events1 /\ new.gaps = gaps1
          /\ new.blocks = blocks1 /\ new.pools = swept.pools /\ new.sweeps = swept.sweeps
          /\ new.counts = counts1
          /\ new.setups = StructuralSetups(i, swings1, known, events1, gaps1, blocks1,
                                           swept.pools, swept.sweeps, signals)
                          \cup WaveSetups(i, swings1, known, events1, gaps1, blocks1,
                                          swept.pools, swept.sweeps, counts1, signals)
      BY <3>2 DEF Stages
    <3> HIDE DEF swept, pools3, sweeps1, swings1, known, events1, gaps1, blocks1, counts1, signals
    <3> QED BY <3>1, <3>3
  <2>3. feed' = feed /\ stored' = stored /\ analysed' = analysed \cup {i} /\ latest' = i
    BY DEF Analyse
  <2> QED BY <2>1, <2>2, <2>3
<1>2. /\ FeedOK /\ analysed \subseteq stored /\ SwingsOK(swings) /\ EventsOK(events, swings)
      /\ GapsOK(gaps) /\ BlocksOK(blocks, events) /\ PoolsOK(pools, swings)
      /\ SweepsOK(sweeps, pools) /\ Followed(pools, sweeps) /\ CountsOK(counts, swings)
  BY DEF MarketInv
<1>3. SwingsOK(swings1) /\ Grown(swings, swings1)
  BY <1>2, SwingsAfterIs
<1> HIDE DEF swings1
<1>4. EventsOK(events, swings1) /\ PoolsOK(pools, swings1) /\ CountsOK(counts, swings1)
  BY <1>2, <1>3, EventsKept, PoolsKept, CountsKept
<1>5. \A e \in signals : Breaks(e, swings1, i)
  BY <1>2, <1>3, BreaksAre
<1> HIDE DEF signals
<1>6. /\ EventsOK(events1, swings1) /\ Grown(events, events1)
      /\ signals # {} => /\ Breaks(CHOOSE s \in signals : TRUE, swings1, i)
                         /\ \E r \in DOMAIN events1 : events1[r] = CHOOSE s \in signals : TRUE
  BY <1>2, <1>3, <1>4, <1>5, EventsAfterIs
<1> HIDE DEF events1
<1>7. GapsOK(gaps1) /\ AliveUntouched(gaps1, i)
  BY <1>2, GapsAfterIs
<1>8. BlocksOK(blocks, events1)
  <2>1. events \in Seq(EventRows(swings)) /\ events1 \in Seq(EventRows(swings1))
    BY <1>2, <1>6 DEF EventsOK
  <2> QED BY <1>2, <1>6, <2>1, BlocksKept
<1>9. BlocksOK(blocks1, events1) /\ AliveUntouched(blocks1, i)
  BY <1>2, <1>6, <1>8, BlocksAfterIs
<1> HIDE DEF gaps1, blocks1
<1>10. PoolsOK(pools1, swings1) /\ WithNewPools(pools, pools1)
  BY <1>2, <1>3, <1>4, PoolsAfterIs
<1> HIDE DEF pools1
<1>11. /\ SweepsOK(updated, pools1) /\ Undecided(pools1, updated, candidates)
       /\ DOMAIN updated = DOMAIN sweeps
  <2>1. DOMAIN updated = DOMAIN sweeps
    BY DEF SweepsUpdated
  <2> QED BY <1>2, <1>4, <1>10, <2>1, SweepsUpdatedAre
<1> HIDE DEF updated
<1>12. /\ PoolsOK(pools2, swings1) /\ SweepsOK(updated, pools2) /\ Followed(pools2, updated)
  BY <1>2, <1>10, <1>11, PoolsSweptAre
<1> HIDE DEF pools2
<1>13. /\ SweepsOK(sweeps1, pools2)
       /\ Undecided(pools2, sweeps1, (DOMAIN sweeps1) \ DOMAIN sweeps)
  BY <1>2, <1>11, <1>12, NewSweepsAre
<1> HIDE DEF sweeps1
<1>14. PoolsOK(pools3, swings1) /\ SweepsOK(sweeps1, pools3) /\ Followed(pools3, sweeps1)
  BY <1>2, <1>12, <1>13, PoolsSweptAre
<1> HIDE DEF pools3
<1>15. CountsOK(counts1, swings1) /\ RanksOK(counts1)
  BY <1>2, <1>3, <1>4, CountsAfterIs
<1> HIDE DEF counts1
<1>16. \A s \in structural \cup waves : Standing(s, feed[i])
  <2>1. \A s \in structural : Standing(s, feed[i])
    BY <1>2, <1>7, <1>9, <1>14, StructuralSetupsStand
  <2>2. \A s \in waves : Standing(s, feed[i])
    BY <1>2, <1>7, <1>9, <1>14, WaveSetupsStand
  <2> QED BY <2>1, <2>2
<1> HIDE DEF known, structural, waves
<1>17. FeedOK' /\ (analysed \subseteq stored)'
  BY <1>1, <1>2 DEF FeedOK
<1>18. SwingsOK(swings)'
  BY <1>1, <1>3 DEF SwingsOK, SwingRows
<1>19. EventsOK(events, swings)'
  BY <1>1, <1>6 DEF EventsOK, EventRows
<1>20. GapsOK(gaps)'
  BY <1>1, <1>7 DEF GapsOK, GapRows
<1>21. BlocksOK(blocks, events)'
  BY <1>1, <1>9 DEF BlocksOK, BlockRows
<1>22. PoolsOK(pools, swings)'
  BY <1>1, <1>14 DEF PoolsOK, PoolRows
<1>23. SweepsOK(sweeps, pools)'
  BY <1>1, <1>14 DEF SweepsOK, SweepRows
<1>24. Followed(pools, sweeps)'
  BY <1>1, <1>14 DEF Followed
<1>25. CountsOK(counts, swings)'
  BY <1>1, <1>15 DEF CountsOK, CountType
<1>26. RanksOK(counts)'
  BY <1>1, <1>15 DEF RanksOK, InPlace
<1>27. AcceptedNotStopped'
  BY <1>1, <1>16 DEF AcceptedNotStopped, Standing
<1> QED BY <1>17, <1>18, <1>19, <1>20, <1>21, <1>22, <1>23, <1>24, <1>25, <1>26, <1>27
        DEF MarketInv

LEMMA RecalculateKeeps ==
  ASSUME MarketInv, NEW rebuild \in BOOLEAN, NEW scoring \in Scorings,
         RecalculateElliott(rebuild, scoring)
  PROVE  MarketInv'
<1> DEFINE counts1 == Recalculated(counts, swings, rebuild, scoring)
<1>1. /\ feed' = feed /\ stored' = stored /\ swings' = swings /\ events' = events
      /\ gaps' = gaps /\ blocks' = blocks /\ pools' = pools /\ sweeps' = sweeps
      /\ counts' = counts1 /\ setups' = {} /\ analysed' = analysed
  BY DEF RecalculateElliott
<1>2. CountsOK(counts1, swings) /\ RanksOK(counts1)
  <2>1. FeedOK /\ SwingsOK(swings) /\ CountsOK(counts, swings) /\ RanksOK(counts)
    BY DEF MarketInv
  <2> QED BY <2>1, RecalculatedIs
<1> HIDE DEF counts1
<1>3. FeedOK' /\ (analysed \subseteq stored)'
  BY <1>1 DEF MarketInv, FeedOK
<1>4. SwingsOK(swings)'
  BY <1>1 DEF MarketInv, SwingsOK, SwingRows
<1>5. EventsOK(events, swings)'
  BY <1>1 DEF MarketInv, EventsOK, EventRows
<1>6. GapsOK(gaps)'
  BY <1>1 DEF MarketInv, GapsOK, GapRows
<1>7. BlocksOK(blocks, events)'
  BY <1>1 DEF MarketInv, BlocksOK, BlockRows
<1>8. PoolsOK(pools, swings)'
  BY <1>1 DEF MarketInv, PoolsOK, PoolRows
<1>9. SweepsOK(sweeps, pools)'
  BY <1>1 DEF MarketInv, SweepsOK, SweepRows
<1>10. Followed(pools, sweeps)'
  BY <1>1 DEF MarketInv, Followed
<1>11. CountsOK(counts, swings)'
  BY <1>1, <1>2 DEF CountsOK, CountType
<1>12. RanksOK(counts)'
  BY <1>1, <1>2 DEF RanksOK, InPlace
<1>13. AcceptedNotStopped'
  BY <1>1 DEF AcceptedNotStopped
<1> QED BY <1>3, <1>4, <1>5, <1>6, <1>7, <1>8, <1>9, <1>10, <1>11, <1>12, <1>13 DEF MarketInv

LEMMA DeletionKeeps ==
  ASSUME MarketInv, DeleteDerived
  PROVE  MarketInv'
<1>1. /\ feed' = feed /\ stored' = stored /\ swings' = <<>> /\ events' = <<>> /\ gaps' = <<>>
      /\ blocks' = <<>> /\ pools' = <<>> /\ sweeps' = <<>> /\ counts' = <<>> /\ setups' = {}
      /\ analysed' = {}
  BY DEF DeleteDerived
<1>2. DOMAIN <<>> = {} /\ \A S : <<>> \in Seq(S)
  OBVIOUS
<1>3. FeedOK' /\ (analysed \subseteq stored)'
  BY <1>1 DEF MarketInv, FeedOK
<1>4. SwingsOK(swings)'
  BY <1>1, <1>2 DEF SwingsOK
<1>5. EventsOK(events, swings)'
  BY <1>1, <1>2 DEF EventsOK
<1>6. GapsOK(gaps)'
  BY <1>1, <1>2 DEF GapsOK
<1>7. BlocksOK(blocks, events)'
  BY <1>1, <1>2 DEF BlocksOK
<1>8. PoolsOK(pools, swings)'
  BY <1>1, <1>2 DEF PoolsOK
<1>9. SweepsOK(sweeps, pools)'
  BY <1>1, <1>2 DEF SweepsOK
<1>10. Followed(pools, sweeps)'
  BY <1>1, <1>2 DEF Followed
<1>11. CountsOK(counts, swings)'
  BY <1>1, <1>2 DEF CountsOK
<1>12. RanksOK(counts)'
  <2>1. RanksOK(<<>>)
    BY NoCounts DEF GoodCounts
  <2> QED BY <1>1, <2>1 DEF RanksOK, InPlace
<1>13. AcceptedNotStopped'
  BY <1>1 DEF AcceptedNotStopped
<1> QED BY <1>3, <1>4, <1>5, <1>6, <1>7, <1>8, <1>9, <1>10, <1>11, <1>12, <1>13 DEF MarketInv

(* In every state, for every market, every setting and any number of        *)
(* analyses in their turn, late or again, the tables fit together.          *)
THEOREM MarketInvariant == Spec => []MarketInv
<1>1. Init => MarketInv
  BY InitMarket
<1>2. MarketInv /\ [Next]_vars => MarketInv'
  <2>1. SUFFICES ASSUME MarketInv, [Next]_vars PROVE MarketInv'
    OBVIOUS
  <2>2. CASE \E i \in DOMAIN feed : CandleStored(i)
    BY <2>1, <2>2, StoredKeeps
  <2>3. CASE \E i \in stored, score \in Judgements, scoring \in Scorings : Analyse(i, score, scoring)
    BY <2>1, <2>3, AnalyseKeeps
  <2>4. CASE \E rebuild \in BOOLEAN, scoring \in Scorings : RecalculateElliott(rebuild, scoring)
    BY <2>1, <2>4, RecalculateKeeps
  <2>5. CASE DeleteDerived
    BY <2>1, <2>5, DeletionKeeps
  <2>6. CASE UNCHANGED vars
    <3>1. /\ feed' = feed /\ stored' = stored /\ swings' = swings /\ events' = events
          /\ gaps' = gaps /\ blocks' = blocks /\ pools' = pools /\ sweeps' = sweeps
          /\ counts' = counts /\ setups' = setups /\ latest' = latest /\ analysed' = analysed
      BY <2>6 DEF vars, derived
    <3>2. (FeedOK /\ analysed \subseteq stored)'
      BY <2>1, <3>1 DEF MarketInv, FeedOK
    <3>3. SwingsOK(swings)' /\ EventsOK(events, swings)'
      BY <2>1, <3>1 DEF MarketInv, SwingsOK, SwingRows, EventsOK, EventRows
    <3>4. GapsOK(gaps)' /\ BlocksOK(blocks, events)'
      BY <2>1, <3>1 DEF MarketInv, GapsOK, GapRows, BlocksOK, BlockRows
    <3>5. PoolsOK(pools, swings)'
      BY <2>1, <3>1 DEF MarketInv, PoolsOK, PoolRows
    <3>6. SweepsOK(sweeps, pools)' /\ Followed(pools, sweeps)'
      BY <2>1, <3>1 DEF MarketInv, SweepsOK, SweepRows, Followed
    <3>7. CountsOK(counts, swings)'
      BY <2>1, <3>1 DEF MarketInv, CountsOK, CountType
    <3>8. RanksOK(counts)' /\ AcceptedNotStopped'
      BY <2>1, <3>1 DEF MarketInv, RanksOK, InPlace, AcceptedNotStopped
    <3> QED BY <3>2, <3>3, <3>4, <3>5, <3>6, <3>7, <3>8 DEF MarketInv
  <2> QED BY <2>1, <2>2, <2>3, <2>4, <2>5, <2>6 DEF Next
<1> QED BY <1>1, <1>2, PTL DEF Spec
-----------------------------------------------------------------------------
(* What the runs check, for every market.                                   *)

LEMMA RowsInForm ==
  ASSUME MarketInv
  PROVE  MarketTypeOK
<1>1. FeedOK /\ SwingsOK(swings) /\ EventsOK(events, swings) /\ GapsOK(gaps)
      /\ BlocksOK(blocks, events) /\ PoolsOK(pools, swings) /\ SweepsOK(sweeps, pools)
      /\ CountsOK(counts, swings)
  BY DEF MarketInv
<1>2. \A s \in DOMAIN swings : swings[s].candle \in stored /\ swings[s].type \in {"high", "low"}
  BY <1>1, SwingIs
<1>3. \A e \in DOMAIN events : events[e].swing \in DOMAIN swings /\ events[e].type \in {"BOS", "CHoCH"}
  BY <1>1, EventIs
<1>4. \A g \in DOMAIN gaps : gaps[g].lower < gaps[g].upper /\ gaps[g].status \in ZoneStatuses
  <2>1. \A g \in DOMAIN gaps : gaps[g].status \in ZoneStatuses
    BY <1>1, GapIs
  <2>2. \A g \in DOMAIN gaps : gaps[g].lower < gaps[g].upper
    BY <1>1 DEF GapsOK
  <2> QED BY <2>1, <2>2
<1>5. \A b \in DOMAIN blocks :
        blocks[b].event \in DOMAIN events /\ blocks[b].status \in ZoneStatuses
  BY <1>1, BlockIs
<1>6. \A p \in DOMAIN pools :
        /\ {pools[p].first, pools[p].second} \subseteq DOMAIN swings
        /\ pools[p].strength \in 0..100 /\ pools[p].status \in {"active", "swept", "invalidated"}
  BY <1>1, PoolIs
<1>7. \A s \in DOMAIN sweeps :
        /\ sweeps[s].pool \in DOMAIN pools /\ sweeps[s].penetration \in Nat
        /\ sweeps[s].status \in {"candidate", "confirmed", "invalidated", "expired"}
  BY <1>1, SweepIs DEF SweepStatuses
<1>8. \A r \in DOMAIN counts :
        /\ counts[r].rank \in 0..(MaxAlternates + 1) /\ counts[r].start < counts[r].end
        /\ counts[r].status \in {"candidate", "primary", "alternate", "invalidated", "completed"}
  <2>1. \A r \in DOMAIN counts : counts[r].start < counts[r].end
    BY <1>1 DEF CountsOK
  <2>2. \A r \in DOMAIN counts :
          /\ counts[r].rank \in 0..(MaxAlternates + 1)
          /\ counts[r].status \in {"candidate", "primary", "alternate", "invalidated", "completed"}
    BY <1>1, CountIs
  <2> QED BY <2>1, <2>2
<1> QED BY <1>2, <1>3, <1>4, <1>5, <1>6, <1>7, <1>8 DEF MarketTypeOK

(* Every row of the derived tables is well formed and refers to rows and    *)
(* candles there are.                                                       *)
THEOREM MarketTypes == Spec => []MarketTypeOK
<1>1. MarketInv => MarketTypeOK
  BY RowsInForm
<1> QED BY <1>1, MarketInvariant, PTL

LEMMA OneRowPerKey ==
  ASSUME MarketInv
  PROVE  RowsAreUnique
<1>1. FeedOK /\ SwingsOK(swings) /\ EventsOK(events, swings) /\ GapsOK(gaps)
      /\ BlocksOK(blocks, events) /\ PoolsOK(pools, swings) /\ CountsOK(counts, swings)
  BY DEF MarketInv
<1>2. Unique(swings, LAMBDA s : <<s.candle, s.type>>)
  BY <1>1 DEF Unique, SwingsOK
<1>3. Unique(events, LAMBDA e : <<e.type, e.swing, e.at>>)
  BY <1>1 DEF Unique, EventsOK
<1>4. Unique(gaps, LAMBDA g : <<g.candles, g.direction>>)
  BY <1>1 DEF Unique, GapsOK
<1>5. Unique(blocks, LAMBDA b : b.event)
  BY <1>1 DEF Unique, BlocksOK
<1>6. Unique(pools, LAMBDA p : <<p.type, p.first, p.second>>)
  BY <1>1 DEF Unique, PoolsOK
<1>7. Unique(counts, LAMBDA c : <<c.pattern, c.direction, c.start, c.end>>)
  BY <1>1 DEF Unique, CountsOK, SameCount
<1> QED BY <1>2, <1>3, <1>4, <1>5, <1>6, <1>7 DEF RowsAreUnique

(* Late, repeated and recalculated analyses leave one row per natural key   *)
(* in every table.                                                          *)
THEOREM OneRowEach == Spec => []RowsAreUnique
<1>1. MarketInv => RowsAreUnique
  BY OneRowPerKey
<1> QED BY <1>1, MarketInvariant, PTL

LEMMA PoolsFollow ==
  ASSUME MarketInv
  PROVE  PoolFollowsSweep
<1> DEFINE of(p) == {s \in DOMAIN sweeps : sweeps[s].pool = p}
<1>1. FeedOK /\ PoolsOK(pools, swings) /\ SweepsOK(sweeps, pools) /\ Followed(pools, sweeps)
  BY DEF MarketInv
<1>2. SUFFICES ASSUME NEW p \in DOMAIN pools
               PROVE  /\ Cardinality(of(p)) <= 1
                      /\ pools[p].status = "active" <=> \A s \in of(p) : sweeps[s].status = "candidate"
                      /\ pools[p].status = "swept" <=> \E s \in of(p) : sweeps[s].status = "confirmed"
  BY DEF PoolFollowsSweep
<1> DEFINE S == of(p)
<1>3. \A s \in DOMAIN sweeps : s \in S <=> sweeps[s].pool = p
  OBVIOUS
<1>4. S \subseteq DOMAIN sweeps
  OBVIOUS
<1> HIDE DEF S
<1>5. \A a, b \in S : a = b
  BY <1>1, <1>3, <1>4 DEF SweepsOK
<1>6. \A s \in S : pools[p].status = CASE sweeps[s].status = "candidate" -> "active"
                                        [] sweeps[s].status = "confirmed" -> "swept"
                                        [] OTHER -> "invalidated"
  BY <1>1, <1>3, <1>4 DEF Followed, Due
<1>7. S = {} => pools[p].status = "active"
  BY <1>1, <1>3 DEF Followed
<1>8. CASE S = {}
  <2>1. Cardinality(S) = 0
    BY <1>8, FS_EmptySet
  <2>2. pools[p].status = "active"
    BY <1>7, <1>8
  <2>3. Cardinality(S) <= 1
    BY <2>1
  <2> QED BY <1>8, <2>2, <2>3 DEF S
<1>9. CASE S # {}
  <2>1. PICK s : s \in S
    BY <1>9
  <2>2. S = {s}
    BY <1>5, <2>1
  <2>3. Cardinality(S) = 1
    BY <2>2, FS_Singleton
  <2>4. Cardinality(S) <= 1
    BY <2>3
  <2>5. pools[p].status = "active" <=> \A q \in S : sweeps[q].status = "candidate"
    BY <1>6, <2>2
  <2>6. pools[p].status = "swept" <=> \E q \in S : sweeps[q].status = "confirmed"
    BY <1>6, <2>2
  <2> QED BY <2>4, <2>5, <2>6 DEF S
<1> QED BY <1>8, <1>9

(* A pool is swept once, is active exactly while that is undecided, and is  *)
(* swept exactly when its sweep was confirmed.                              *)
THEOREM PoolsFollowSweeps == Spec => []PoolFollowsSweep
<1>1. MarketInv => PoolFollowsSweep
  BY PoolsFollow
<1> QED BY <1>1, MarketInvariant, PTL

(* However late candles are analysed, ranks run from 1 without a gap in the *)
(* order of confidence, and the first is the only primary count.            *)
THEOREM OneRanking == Spec => []OnePrimary
<1>1. MarketInv => OnePrimary
  BY DEF MarketInv, OnePrimary, RanksOK, InPlace
<1> QED BY <1>1, MarketInvariant, PTL

LEMMA NothingFromLater ==
  ASSUME MarketInv
  PROVE  NoFutureLeak
<1>1. EventsOK(events, swings) /\ BlocksOK(blocks, events) /\ PoolsOK(pools, swings)
      /\ SweepsOK(sweeps, pools) /\ CountsOK(counts, swings)
  BY DEF MarketInv
<1>2. \A e \in DOMAIN events :
        swings[events[e].swing].at <= events[e].at /\ swings[events[e].swing].candle < events[e].at
  BY <1>1 DEF EventsOK
<1>3. \A p \in DOMAIN pools : \A s \in {pools[p].first, pools[p].second} : swings[s].at <= pools[p].at
  BY <1>1 DEF PoolsOK
<1>4. \A s \in DOMAIN sweeps : pools[sweeps[s].pool].at <= sweeps[s].candle
  BY <1>1 DEF SweepsOK
<1>5. \A b \in DOMAIN blocks : blocks[b].candle < events[blocks[b].event].at
  BY <1>1 DEF BlocksOK
<1>6. \A r \in DOMAIN counts : \A s \in Range(counts[r].points) : swings[s].at <= counts[r].at
  BY <1>1 DEF CountsOK
<1> QED BY <1>2, <1>3, <1>4, <1>5, <1>6 DEF NoFutureLeak

(* What an analysis of a candle adds rests on nothing that only a later     *)
(* candle has shown.                                                        *)
THEOREM NothingLeaks == Spec => []NoFutureLeak
<1>1. MarketInv => NoFutureLeak
  BY NothingFromLater
<1> QED BY <1>1, MarketInvariant, PTL

(* No setup is accepted on a candle that has already touched its stop or    *)
(* passed its zone.                                                         *)
THEOREM AcceptedStand == Spec => []AcceptedNotStopped
<1>1. MarketInv => AcceptedNotStopped
  BY DEF MarketInv
<1> QED BY <1>1, MarketInvariant, PTL
=============================================================================
