------------------------- MODULE PaperForward_proofs -------------------------
(***************************************************************************)
(* What PaperForward promises, for any targets, any number of candles and  *)
(* any number of replays.  The argument: every walk over stored candles,   *)
(* by the pipeline, late or replayed, is made of the same step, so what a  *)
(* step keeps of a trade every walk keeps (ReplayKeeps, by induction over  *)
(* the window).  WellFormed says what a step needs: how much is left at    *)
(* each stage, and that the stop is the entry exactly after target 1.      *)
(***************************************************************************)
EXTENDS PaperForward, Recursion, SequenceTheorems

Statuses == {"none", "waiting_entry", "open", "partially_closed"} \cup Terminal
TradeRecords == [status : Statuses, next : 1..4, stop : {Stop, Entry}, remaining : 0..Whole,
                 exits : Seq(Exits)]

(* The quantity before target n.                                            *)
LeftBefore(n) == IF n = 1 THEN 10 ELSE IF n = 2 THEN 7 ELSE 3

(* The first target is among the exits before the n-th.                     *)
FirstHit(exits, n) == \E m \in 1..(n - 1) : exits[m].price = Target(1)

GoodExits(exits) ==
  /\ \A n \in DOMAIN exits : exits[n].bar \in DOMAIN candles
  /\ \A n \in DOMAIN exits : exits[n].reason = "target" =>
       candles[exits[n].bar].low > IF FirstHit(exits, n) THEN Entry ELSE Stop
  /\ \A n \in DOMAIN exits : FirstHit(exits, n) => exits[n].price >= Entry

Untouched(t) ==
  t.status \in {"none", "waiting_entry", "open", "expired"} =>
    t.next = 1 /\ t.stop = Stop /\ t.remaining = Whole /\ t.exits = <<>>

UnderWay(t) ==
  t.status = "partially_closed" =>
    /\ t.next \in {2, 3} /\ t.stop = Entry /\ t.remaining = LeftBefore(t.next)
    /\ TargetsLeft(t) # {} /\ FirstHit(t.exits, Len(t.exits) + 1)

WellFormed(t) ==
  /\ t \in TradeRecords /\ GoodExits(t.exits)
  /\ Untouched(t) /\ UnderWay(t)
  /\ t.status = "closed" <=> t.remaining = 0
  /\ Sold(t.exits) + t.remaining = Whole

PaperInv ==
  /\ candles \in Seq(Candles) /\ Len(candles) <= Bars /\ analysed \subseteq DOMAIN candles
  /\ WellFormed(trade)

-----------------------------------------------------------------------------
(* Sums of exits.                                                           *)
LEMMA SoldNothing == Sold(<<>>) = 0
<1> DEFINE q == [n \in DOMAIN <<>> |-> <<>>[n].quantity]
<1>1. Summands(q, 1, 0)
  BY DEF Summands
<1>2. Total(q, 1, 0) = 0
  <2> HIDE DEF q
  <2>1. 1 - 1 <= 0 /\ 0 = 1 - 1 /\ 0 \in Int
    OBVIOUS
  <2> QED BY <1>1, <2>1, TotalType
<1> QED BY <1>2 DEF Sold

LEMMA SoldAppends ==
  ASSUME NEW exits \in Seq(Exits), NEW e \in Exits
  PROVE  /\ Sold(exits) \in Int
         /\ Sold(Append(exits, e)) = Sold(exits) + e.quantity
<1> DEFINE q(s) == [n \in DOMAIN s |-> s[n].quantity]
           n == Len(exits) + 1
           longer == Append(exits, e)
<1>1. n \in Int /\ 1 <= n /\ 1 \in Int /\ Len(exits) \in Int /\ n - 1 = Len(exits)
  OBVIOUS
<1>2. Summands(q(exits), 1, n - 1)
  <2> SUFFICES ASSUME NEW i \in 1..(n - 1) PROVE q(exits)[i] \in Int
    BY DEF Summands
  <2>1. exits[i] \in Exits /\ i \in DOMAIN exits
    BY <1>1, ElementOfSeq
  <2> QED BY <2>1 DEF Exits, Whole
<1>3. Len(longer) = n /\ DOMAIN longer = 1..n /\ longer[n] = e
      /\ \A i \in 1..(n - 1) : longer[i] = exits[i]
  BY AppendProperties
<1>4. \A i \in 1..(n - 1) : q(exits)[i] = q(longer)[i]
  BY <1>1, <1>3
<1>5. Summands(q(longer), 1, n)
  <2>1. q(longer)[n] = e.quantity /\ e.quantity \in Int
    BY <1>1, <1>3 DEF Exits, Whole
  <2> HIDE DEF q, longer
  <2> QED BY <1>1, <1>2, <1>4, <2>1 DEF Summands
<1>6. Total(q(exits), 1, n - 1) = Total(q(longer), 1, n - 1)
  <2> HIDE DEF q, longer
  <2>1. 1 - 1 <= n - 1 /\ n - 1 \in Int
    BY <1>1
  <2> QED BY <1>2, <1>4, <2>1, TotalAgrees
<1>7. Total(q(longer), 1, n) = Total(q(longer), 1, n - 1) + q(longer)[n]
  <2> HIDE DEF q, longer
  <2> QED BY <1>1, <1>5, TotalStep
<1>8. Sold(exits) \in Int
  <2>1. Total(q(exits), 1, n - 1) \in Int
    <3> HIDE DEF q
    <3>1. 1 - 1 <= n - 1 /\ n - 1 \in Int
      BY <1>1
    <3> QED BY <1>2, <3>1, TotalType
  <2> QED BY <1>1, <2>1 DEF Sold
<1> QED
  <2>1. Sold(longer) = Total(q(longer), 1, n) /\ Sold(exits) = Total(q(exits), 1, n - 1)
    BY <1>1, <1>3 DEF Sold
  <2>2. q(longer)[n] = e.quantity
    BY <1>1, <1>3
  <2> QED BY <1>6, <1>7, <1>8, <2>1, <2>2

(* An exit at the active stop, or at a target of a candle above it.         *)
LEMMA ExitAppends ==
  ASSUME NEW exits \in Seq(Exits), GoodExits(exits), NEW e \in Exits, e.bar \in DOMAIN candles,
         e.reason = "target" =>
           candles[e.bar].low > IF FirstHit(exits, Len(exits) + 1) THEN Entry ELSE Stop,
         FirstHit(exits, Len(exits) + 1) => e.price >= Entry
  PROVE  /\ Append(exits, e) \in Seq(Exits) /\ GoodExits(Append(exits, e))
         /\ FirstHit(Append(exits, e), Len(Append(exits, e)) + 1)
              <=> FirstHit(exits, Len(exits) + 1) \/ e.price = Target(1)
<1> DEFINE n == Len(exits) + 1
           longer == Append(exits, e)
<1>1. /\ Len(longer) = n /\ DOMAIN longer = 1..n /\ longer[n] = e /\ longer \in Seq(Exits)
      /\ \A i \in 1..(n - 1) : longer[i] = exits[i]
      /\ n \in Nat /\ n - 1 = Len(exits) /\ DOMAIN exits = 1..(n - 1)
  BY AppendProperties
<1> HIDE DEF longer
<1>2. ASSUME NEW i \in 1..n PROVE FirstHit(longer, i) <=> FirstHit(exits, i)
  <2>1. \A m \in 1..(i - 1) : longer[m] = exits[m]
    BY <1>1
  <2> QED BY <2>1 DEF FirstHit
<1>3. FirstHit(longer, n + 1) <=> FirstHit(exits, n) \/ e.price = Target(1)
  BY <1>1 DEF FirstHit
<1>4. GoodExits(longer)
  <2>1. ASSUME NEW i \in 1..n
        PROVE  /\ longer[i].bar \in DOMAIN candles
               /\ longer[i].reason = "target" =>
                    candles[longer[i].bar].low > IF FirstHit(longer, i) THEN Entry ELSE Stop
               /\ FirstHit(longer, i) => longer[i].price >= Entry
    <3>1. CASE i = n
      BY <1>1, <1>2, <3>1
    <3>2. CASE i # n
      <4>1. i \in DOMAIN exits /\ longer[i] = exits[i]
        BY <1>1, <3>2
      <4> QED BY <1>2, <4>1 DEF GoodExits
    <3> QED BY <3>1, <3>2
  <2> QED BY <1>1, <2>1 DEF GoodExits
<1> QED BY <1>1, <1>3, <1>4 DEF longer

(* The next target is one of those left, and the first of them.             *)
LEMMA NextTarget ==
  ASSUME NEW t, t.next \in 1..4, TargetsLeft(t) # {}
  PROVE  LET n == Min(TargetsLeft(t)) IN
         n \in Targets /\ n \in 1..3 /\ t.next <= n /\ \A m \in TargetsLeft(t) : n <= m
<1> DEFINE S == TargetsLeft(t)
<1>1. S \subseteq 1..3
  BY PaperAssumption DEF TargetsLeft
<1>2. \E x \in S : \A y \in S : x <= y
  <2>1. CASE 1 \in S
    BY <1>1, <2>1
  <2>2. CASE 1 \notin S /\ 2 \in S
    BY <1>1, <2>2
  <2>3. CASE 1 \notin S /\ 2 \notin S
    <3>1. S = {3}
      BY <1>1, <2>3
    <3> QED BY <3>1
  <2> QED BY <2>1, <2>2, <2>3
<1>3. Min(S) \in S /\ \A y \in S : Min(S) <= y
  <2> HIDE DEF S
  <2> QED BY <1>2 DEF Min
<1> QED BY <1>1, <1>3 DEF TargetsLeft
-----------------------------------------------------------------------------
(* One candle.                                                              *)
Managed(t) == WellFormed(t) /\ t.status \in {"open", "partially_closed"}

(* What a trade that is under way looks like at each of its stages.         *)
LEMMA Stage ==
  ASSUME NEW t, Managed(t)
  PROVE  /\ TargetsLeft(t) # {} /\ t.remaining = LeftBefore(t.next) /\ t.next \in 1..3
         /\ t.stop = IF FirstHit(t.exits, Len(t.exits) + 1) THEN Entry ELSE Stop
         /\ t.next = 1 => t.exits = <<>>
<1>1. CASE t.status = "open"
  <2>1. t.next = 1 /\ t.stop = Stop /\ t.remaining = Whole /\ t.exits = <<>>
    BY <1>1 DEF Managed, WellFormed, Untouched
  <2>2. ~FirstHit(t.exits, Len(t.exits) + 1)
    BY <2>1 DEF FirstHit
  <2>3. 1 \in TargetsLeft(t)
    BY <2>1, PaperAssumption DEF TargetsLeft
  <2> QED BY <2>1, <2>2, <2>3 DEF LeftBefore, Whole
<1>2. CASE t.status = "partially_closed"
  BY <1>2 DEF Managed, WellFormed, UnderWay
<1> QED BY <1>1, <1>2 DEF Managed

(* An exit and a target exit, field by field.                               *)
LEMMA RecordExitIs ==
  ASSUME NEW t \in TradeRecords, NEW i, NEW price, NEW quantity, NEW reason
  PROVE  LET u == RecordExit(t, i, price, quantity, reason)
             e == [bar |-> i, price |-> price, quantity |-> quantity, reason |-> reason]
         IN  /\ u.status = IF t.remaining - quantity = 0 THEN "closed" ELSE "partially_closed"
             /\ u.next = t.next /\ u.stop = t.stop /\ u.remaining = t.remaining - quantity
             /\ u.exits = Append(t.exits, e)
             /\ t.remaining - quantity \in 0..Whole /\ Append(t.exits, e) \in Seq(Exits)
                  => u \in TradeRecords
<1>1. ASSUME NEW x, x = Append(t.exits, [bar |-> i, price |-> price, quantity |-> quantity,
                                         reason |-> reason]),
             x \in Seq(Exits), t.remaining - quantity \in 0..Whole
      PROVE  RecordExit(t, i, price, quantity, reason) \in TradeRecords
  BY <1>1 DEF RecordExit, TradeRecords, Statuses, Terminal
<1>2. LET u == RecordExit(t, i, price, quantity, reason)
          e == [bar |-> i, price |-> price, quantity |-> quantity, reason |-> reason]
      IN  /\ u.status = IF t.remaining - quantity = 0 THEN "closed" ELSE "partially_closed"
          /\ u.next = t.next /\ u.stop = t.stop /\ u.remaining = t.remaining - quantity
          /\ u.exits = Append(t.exits, e)
  BY DEF RecordExit, TradeRecords
<1> QED BY <1>1, <1>2

LEMMA TargetExitIs ==
  ASSUME NEW t \in TradeRecords, NEW i, NEW n \in 1..3, NEW slice, slice = SliceOf(t, n),
         t.remaining - slice \in 0..Whole, NEW e,
         e = [bar |-> i, price |-> Target(n), quantity |-> slice, reason |-> "target"],
         Append(t.exits, e) \in Seq(Exits)
  PROVE  LET u == TargetExit(t, i, n) IN
         /\ u \in TradeRecords
         /\ u.status = IF t.remaining - slice = 0 THEN "closed" ELSE "partially_closed"
         /\ u.next = n + 1 /\ u.remaining = t.remaining - slice /\ u.exits = Append(t.exits, e)
         /\ u.stop = IF n = 1 /\ u.status # "closed" THEN Entry ELSE t.stop
<1> DEFINE v == RecordExit(t, i, Target(n), slice, "target")
           hit == [v EXCEPT !.next = n + 1]
           u == IF n = 1 /\ hit.status # "closed" THEN [hit EXCEPT !.stop = Entry] ELSE hit
<1>1. /\ v \in TradeRecords
      /\ v.status = IF t.remaining - slice = 0 THEN "closed" ELSE "partially_closed"
      /\ v.next = t.next /\ v.stop = t.stop /\ v.remaining = t.remaining - slice
      /\ v.exits = Append(t.exits, e)
  BY RecordExitIs
<1> HIDE DEF v
<1>2. /\ hit \in TradeRecords /\ hit.status = v.status /\ hit.next = n + 1 /\ hit.stop = v.stop
      /\ hit.remaining = v.remaining /\ hit.exits = v.exits
  <2>1. n + 1 \in 1..4
    OBVIOUS
  <2> QED BY <1>1, <2>1 DEF TradeRecords
<1> HIDE DEF hit
<1>3. /\ u \in TradeRecords /\ u.status = hit.status /\ u.next = hit.next
      /\ u.remaining = hit.remaining /\ u.exits = hit.exits
      /\ u.stop = IF n = 1 /\ u.status # "closed" THEN Entry ELSE hit.stop
  <2>1. CASE n = 1 /\ hit.status # "closed"
    <3>1. u = [hit EXCEPT !.stop = Entry]
      BY <2>1
    <3> HIDE DEF u
    <3> QED BY <1>2, <2>1, <3>1 DEF TradeRecords
  <2>2. CASE ~(n = 1 /\ hit.status # "closed")
    BY <1>2, <2>2
  <2> QED BY <2>1, <2>2
<1>4. TargetExit(t, i, n) = u
  BY DEF TargetExit, v, hit
<1> HIDE DEF u
<1> QED BY <1>1, <1>2, <1>3, <1>4

LEMMA StopExit ==
  ASSUME NEW t, Managed(t), NEW i \in DOMAIN candles, candles \in Seq(Candles),
         Len(candles) <= Bars
  PROVE  WellFormed(RecordExit(t, i, t.stop, t.remaining, "stop"))
<1> DEFINE e == [bar |-> i, price |-> t.stop, quantity |-> t.remaining, reason |-> "stop"]
           u == RecordExit(t, i, t.stop, t.remaining, "stop")
<1>1. t \in TradeRecords /\ t.remaining \in 1..Whole /\ t.exits \in Seq(Exits) /\ GoodExits(t.exits)
      /\ Sold(t.exits) + t.remaining = Whole
  BY Stage DEF Managed, WellFormed, TradeRecords, LeftBefore, Whole
<1>2. e \in Exits
  <2>1. i \in 1..Bars
    BY PaperAssumption
  <2>2. t.stop \in Levels
    BY <1>1 DEF TradeRecords, Levels, Stop, Entry, Target
  <2> QED BY <1>1, <2>1, <2>2 DEF Exits
<1>4. /\ Append(t.exits, e) \in Seq(Exits) /\ GoodExits(Append(t.exits, e))
  <2>1. FirstHit(t.exits, Len(t.exits) + 1) => e.price >= Entry
    BY Stage DEF Entry
  <2>2. e.reason # "target" /\ e.bar \in DOMAIN candles
    OBVIOUS
  <2> HIDE DEF e
  <2> QED BY <1>1, <1>2, <2>1, <2>2, ExitAppends
<1>5. Sold(Append(t.exits, e)) = Whole
  <2>1. e.quantity = t.remaining
    OBVIOUS
  <2> HIDE DEF e
  <2> QED BY <1>1, <1>2, <2>1, SoldAppends DEF Whole
<1>6. t.remaining - t.remaining = 0 /\ 0 \in 0..Whole
  BY <1>1 DEF Whole
<1>7. u \in TradeRecords /\ u.status = "closed" /\ u.remaining = 0
      /\ u.exits = Append(t.exits, e)
  BY <1>1, <1>4, <1>6, RecordExitIs
<1> HIDE DEF u, e
<1>8. WellFormed(u)
  BY <1>4, <1>5, <1>7 DEF WellFormed, Untouched, UnderWay, Whole
<1> QED BY <1>8 DEF u

LEMMA TargetExitKeeps ==
  ASSUME NEW t, Managed(t), NEW i \in DOMAIN candles, candles \in Seq(Candles),
         Len(candles) <= Bars, candles[i].low > t.stop
  PROVE  WellFormed(TargetExit(t, i, Min(TargetsLeft(t))))
<1> DEFINE n == Min(TargetsLeft(t))
           slice == SliceOf(t, n)
           e == [bar |-> i, price |-> Target(n), quantity |-> slice, reason |-> "target"]
           u == TargetExit(t, i, n)
<1> SUFFICES WellFormed(u)
  OBVIOUS
<1>1. t \in TradeRecords /\ t.remaining \in 1..Whole /\ t.exits \in Seq(Exits) /\ GoodExits(t.exits)
      /\ Sold(t.exits) + t.remaining = Whole
  BY Stage DEF Managed, WellFormed, TradeRecords, LeftBefore, Whole
<1>2. n \in Targets /\ n \in 1..3 /\ t.next <= n /\ \A m \in TargetsLeft(t) : n <= m
  BY <1>1, Stage, NextTarget DEF TradeRecords
<1> HIDE DEF n
<1>3. n = 1 <=> t.next = 1
  <2>1. t.next = 1 => 1 \in TargetsLeft(t)
    BY PaperAssumption DEF TargetsLeft
  <2> QED BY <1>1, <1>2, <2>1 DEF TradeRecords
<1>4. CASE \E m \in Targets : m > n
  <2>1. PICK m \in Targets : m > n
    BY <1>4
  <2>2. n \in {1, 2} /\ n = t.next
    <3>1. n \in {1, 2}
      BY <1>2, <2>1, PaperAssumption
    <3> QED BY <1>1, <1>2, <1>3, <3>1 DEF TradeRecords
  <2>3. slice = TPFraction[n] /\ slice \in 1..Whole /\ t.remaining - slice = LeftBefore(n + 1)
        /\ LeftBefore(n + 1) \in 1..Whole
    <3>1. t.remaining = LeftBefore(n)
      BY <2>2, Stage
    <3>2. Min({10, 3}) = 3 /\ Min({7, 4}) = 4
      BY DEF Min
    <3>3. CASE n = 1
      BY <1>4, <3>1, <3>2, <3>3 DEF SliceOf, TPFraction, LeftBefore, Whole
    <3>4. CASE n = 2
      BY <1>4, <3>1, <3>2, <3>4 DEF SliceOf, TPFraction, LeftBefore, Whole
    <3> QED BY <2>2, <3>3, <3>4
  <2> HIDE DEF slice
  <2>5. e \in Exits /\ e.bar \in DOMAIN candles /\ e.price = Target(n) /\ e.quantity = slice
    BY <1>2, <2>3, PaperAssumption DEF Exits, Levels, Target, Stop
  <2>6. /\ Append(t.exits, e) \in Seq(Exits) /\ GoodExits(Append(t.exits, e))
        /\ FirstHit(Append(t.exits, e), Len(Append(t.exits, e)) + 1)
             <=> FirstHit(t.exits, Len(t.exits) + 1) \/ e.price = Target(1)
    <3>1. candles[e.bar].low > IF FirstHit(t.exits, Len(t.exits) + 1) THEN Entry ELSE Stop
      BY Stage
    <3>2. e.price >= Entry
      BY <1>2, <2>5 DEF Target, Entry
    <3> HIDE DEF e
    <3> QED BY <1>1, <2>5, <3>1, <3>2, ExitAppends
  <2>7. Sold(Append(t.exits, e)) + LeftBefore(n + 1) = Whole
    <3> HIDE DEF e
    <3>1. Sold(Append(t.exits, e)) = Sold(t.exits) + slice /\ Sold(t.exits) \in Int
      BY <1>1, <2>5, SoldAppends
    <3>2. t.remaining \in Int /\ slice \in Int /\ LeftBefore(n + 1) \in Int
      BY <1>1, <2>3
    <3>3. Sold(t.exits) + t.remaining = Whole /\ t.remaining - slice = LeftBefore(n + 1)
      BY <1>1, <2>3
    <3> HIDE DEF slice
    <3> QED BY <3>1, <3>2, <3>3 DEF Whole
  <2>8. t.remaining - slice \in 0..Whole /\ t.remaining - slice # 0 /\ slice = SliceOf(t, n)
    BY <2>3 DEF slice
  <2>9. u \in TradeRecords /\ u.status = "partially_closed" /\ u.exits = Append(t.exits, e)
        /\ u.remaining = LeftBefore(n + 1) /\ u.next = n + 1
        /\ u.stop = IF n = 1 THEN Entry ELSE t.stop
    <3>1. /\ u \in TradeRecords
          /\ u.status = IF t.remaining - slice = 0 THEN "closed" ELSE "partially_closed"
          /\ u.next = n + 1 /\ u.remaining = t.remaining - slice /\ u.exits = Append(t.exits, e)
          /\ u.stop = IF n = 1 /\ u.status # "closed" THEN Entry ELSE t.stop
      <4>1. e = [bar |-> i, price |-> Target(n), quantity |-> slice, reason |-> "target"]
        OBVIOUS
      <4>2. u = TargetExit(t, i, n)
        OBVIOUS
      <4>3. t \in TradeRecords /\ n \in 1..3 /\ slice = SliceOf(t, n)
            /\ t.remaining - slice \in 0..Whole /\ Append(t.exits, e) \in Seq(Exits)
        BY <1>1, <1>2, <2>6, <2>8
      <4> HIDE DEF e, u, slice
      <4> QED BY <4>1, <4>2, <4>3, TargetExitIs
    <3> HIDE DEF u, e, slice
    <3> QED BY <2>3, <2>8, <3>1
  <2> HIDE DEF e, u
  <2>10. UnderWay(u)
    <3>1. u.stop = Entry /\ FirstHit(u.exits, Len(u.exits) + 1)
      <4>1. CASE n = 1
        BY <2>5, <2>6, <2>9, <4>1
      <4>2. CASE n = 2
        <5>1. t.status = "partially_closed"
          BY <1>3, <2>2, <4>2 DEF Managed, WellFormed, Untouched
        <5> QED BY <2>6, <2>9, <4>2, <5>1 DEF Managed, WellFormed, UnderWay
      <4> QED BY <2>2, <4>1, <4>2
    <3>2. m \in TargetsLeft(u)
      BY <1>2, <2>1, <2>9, PaperAssumption DEF TargetsLeft
    <3> QED BY <2>2, <2>9, <3>1, <3>2 DEF UnderWay
  <2>11. WellFormed(u)
    BY <2>3, <2>6, <2>7, <2>9, <2>10 DEF WellFormed, Untouched, Whole
  <2> QED BY <2>11
<1>5. CASE ~\E m \in Targets : m > n
  <2>1. slice = t.remaining
    BY <1>5 DEF SliceOf
  <2> HIDE DEF slice
  <2>3. e \in Exits /\ e.bar \in DOMAIN candles /\ e.price = Target(n) /\ e.quantity = slice
    BY <1>1, <1>2, <2>1, PaperAssumption DEF Exits, Levels, Target, Stop
  <2>4. Append(t.exits, e) \in Seq(Exits) /\ GoodExits(Append(t.exits, e))
    <3>1. candles[e.bar].low > IF FirstHit(t.exits, Len(t.exits) + 1) THEN Entry ELSE Stop
      BY Stage
    <3>2. e.price >= Entry
      BY <1>2, <2>3 DEF Target, Entry
    <3> HIDE DEF e
    <3> QED BY <1>1, <2>3, <3>1, <3>2, ExitAppends
  <2>5. Sold(Append(t.exits, e)) = Whole
    <3> HIDE DEF e
    <3> QED BY <1>1, <2>1, <2>3, SoldAppends DEF Whole
  <2>6. t.remaining - slice = 0 /\ 0 \in 0..Whole /\ slice = SliceOf(t, n)
    BY <1>1, <2>1 DEF Whole, slice
  <2>7. u \in TradeRecords /\ u.status = "closed" /\ u.exits = Append(t.exits, e) /\ u.remaining = 0
    BY <1>1, <1>2, <2>4, <2>6, TargetExitIs
  <2> HIDE DEF e, u
  <2>8. WellFormed(u)
    BY <2>4, <2>5, <2>7 DEF WellFormed, Untouched, UnderWay, Whole
  <2> QED BY <2>8
<1> QED BY <1>4, <1>5
LEMMA ManageKeeps ==
  ASSUME NEW t, Managed(t), NEW i \in DOMAIN candles, candles \in Seq(Candles),
         Len(candles) <= Bars
  PROVE  WellFormed(Manage(t, i))
<1>1. candles[i].low \in Int /\ t.stop \in Int
  <2>1. candles[i] \in Candles
    BY ElementOfSeq
  <2> QED BY <2>1 DEF Candles, Levels, Managed, WellFormed, TradeRecords, Stop, Entry, Target
<1>2. CASE candles[i].low <= t.stop
  BY <1>2, StopExit DEF Manage
<1>3. CASE ~(candles[i].low <= t.stop) /\ candles[i].high >= Target(Min(TargetsLeft(t)))
  <2>1. candles[i].low > t.stop
    BY <1>1, <1>3
  <2> QED BY <1>3, <2>1, TargetExitKeeps DEF Manage
<1>4. CASE ~(candles[i].low <= t.stop) /\ ~(candles[i].high >= Target(Min(TargetsLeft(t))))
  BY <1>4 DEF Manage, Managed
<1> QED BY <1>2, <1>3, <1>4

(* Only the status changes of a trade that nothing was sold of.             *)
LEMMA StatusKeeps ==
  ASSUME NEW t, WellFormed(t), t.status \in {"none", "waiting_entry"},
         NEW status \in {"waiting_entry", "open", "expired"}
  PROVE  LET u == [t EXCEPT !.status = status] IN WellFormed(u) /\ u.status = status
<1> DEFINE u == [t EXCEPT !.status = status]
<1>1. t \in TradeRecords /\ Untouched(t) /\ GoodExits(t.exits) /\ Sold(t.exits) + t.remaining = Whole
  BY DEF WellFormed
<1>2. /\ u \in TradeRecords /\ u.status = status /\ u.next = t.next /\ u.stop = t.stop
      /\ u.remaining = t.remaining /\ u.exits = t.exits
  BY <1>1 DEF TradeRecords, Statuses, Terminal
<1> HIDE DEF u
<1>3. WellFormed(u)
  BY <1>1, <1>2 DEF WellFormed, Untouched, UnderWay, Whole
<1> QED BY <1>2, <1>3 DEF u

LEMMA ProcessKeeps ==
  ASSUME NEW t, WellFormed(t), NEW i \in DOMAIN candles, candles \in Seq(Candles),
         Len(candles) <= Bars
  PROVE  /\ WellFormed(ProcessCandle(t, i))
         /\ t.status \in Terminal => ProcessCandle(t, i) = t
<1> DEFINE e == Enrolled(t, i)
<1>1. WellFormed(e) /\ (t.status # "none" => e = t)
  <2>1. CASE t.status = "none" /\ i >= Detected
    BY <2>1, StatusKeeps DEF Enrolled
  <2>2. CASE ~(t.status = "none" /\ i >= Detected)
    BY <2>2 DEF Enrolled
  <2> QED BY <2>1, <2>2
<1>2. t.status \in Terminal => ProcessCandle(t, i) = t
  BY <1>1 DEF Terminal, ProcessCandle, Process
<1> HIDE DEF e
<1>3. ASSUME e.status # "none" PROVE WellFormed(Process(e, i))
  <2>1. CASE e.status \in Terminal \/ i <= Detected
    BY <1>1, <2>1 DEF Process
  <2>2. CASE ~(e.status \in Terminal \/ i <= Detected) /\ e.status # "waiting_entry"
    <3>1. Managed(e)
      BY <1>1, <1>3, <2>2 DEF Managed, WellFormed, TradeRecords, Statuses
    <3>2. Process(e, i) = Manage(e, i)
      BY <2>2 DEF Process
    <3> QED BY <3>1, <3>2, ManageKeeps
  <2>3. CASE ~(e.status \in Terminal \/ i <= Detected) /\ e.status = "waiting_entry"
    <3> DEFINE o == [e EXCEPT !.status = "open"]
               x == [e EXCEPT !.status = "expired"]
    <3>1. WellFormed(o) /\ o.status = "open" /\ WellFormed(x)
      BY <1>1, <2>3, StatusKeeps
    <3>2. WellFormed(Manage(o, i))
      <4> HIDE DEF o
      <4>1. Managed(o)
        BY <3>1 DEF Managed
      <4> QED BY <4>1, ManageKeeps
    <3>3. Process(e, i) = IF i > Expires THEN x
                          ELSE IF TouchesEntry(candles[i]) THEN Manage(o, i) ELSE e
      BY <2>3 DEF Process
    <3> HIDE DEF o, x
    <3> QED BY <1>1, <3>1, <3>2, <3>3
  <2> QED BY <2>1, <2>2, <2>3
<1>4. ProcessCandle(t, i) = IF e.status = "none" THEN e ELSE Process(e, i)
  BY DEF ProcessCandle, e
<1> QED BY <1>1, <1>2, <1>3, <1>4

(* Whatever every step of a replay keeps, the replay keeps.                 *)
LEMMA ReplayKeeps ==
  ASSUME NEW V, NEW t \in V, NEW first \in Nat \ {0}, NEW last \in Nat, first <= last,
         \A i \in first..last, u \in V : ProcessCandle(u, i) \in V
  PROVE  Replayed(t, first, last) \in V
<1> DEFINE window == (first - 1)..last
           Eq(g) == g = [i \in window |-> IF i < first THEN t ELSE ProcessCandle(g[i - 1], i)]
           step == [i \in Int |-> [u \in V |->
                      IF i \in first..last THEN ProcessCandle(u, i) ELSE u]]
<1>1. PICK g \in [window -> V] : Recursively(g, first - 1, last, t, step)
  <2>1. step \in [Int -> [V -> V]]
    OBVIOUS
  <2>2. first - 1 \in Int /\ last \in Int /\ first - 1 <= last
    OBVIOUS
  <2> HIDE DEF step
  <2> QED BY <2>1, <2>2, RecursionSolved
<1>2. Eq(g)
  <2>1. ASSUME NEW i \in window
        PROVE  g[i] = IF i < first THEN t ELSE ProcessCandle(g[i - 1], i)
    <3>1. CASE i = first - 1
      <4>1. i < first
        BY <3>1
      <4> QED BY <1>1, <3>1, <4>1 DEF Recursively
    <3>2. CASE i # first - 1
      <4>1. i \in first..last /\ i - 1 \in window /\ ~(i < first)
        BY <3>2
      <4>2. g[i - 1] \in V
        BY <4>1
      <4>3. g[i] = step[i][g[i - 1]]
        BY <1>1, <3>2 DEF Recursively
      <4> QED BY <4>1, <4>2, <4>3
    <3> QED BY <3>1, <3>2
  <2> QED BY <2>1
<1> DEFINE f == CHOOSE h : Eq(h)
<1>3. Eq(f)
  BY <1>2
<1>4. f = [i \in window |-> IF i < first THEN t ELSE ProcessCandle(f[i - 1], i)]
  BY <1>3
<1>5. Replayed(t, first, last) = f[last]
  BY DEF Replayed
<1> HIDE DEF f
<1> DEFINE S == {i \in window : f[i] \in V}
<1>6. first - 1 \in S
  BY <1>4
<1>7. ASSUME NEW i \in Int, first - 1 < i, i <= last, i - 1 \in S PROVE i \in S
  BY <1>4, <1>7
<1>8. window \subseteq S
  <2> HIDE DEF S
  <2>1. Hereditary(S, first - 1, last)
    BY <1>7 DEF Hereditary
  <2> QED BY <1>6, <2>1, IntervalInduction
<1> QED BY <1>5, <1>8

-----------------------------------------------------------------------------
(* The specification.                                                       *)
LEMMA Initially == Init => PaperInv
<1> SUFFICES ASSUME Init PROVE PaperInv
  OBVIOUS
<1>1. trade \in TradeRecords /\ trade.exits = <<>> /\ trade.status = "none"
      /\ trade.next = 1 /\ trade.stop = Stop /\ trade.remaining = Whole
  BY EmptySeq DEF Init, NotEnrolled, TradeRecords, Statuses, Whole
<1>2. Sold(<<>>) = 0
  BY SoldNothing
<1>3. GoodExits(<<>>)
  BY DEF GoodExits
<1>4. WellFormed(trade)
  BY <1>1, <1>2, <1>3 DEF WellFormed, Untouched, UnderWay, Whole
<1> QED BY <1>4, PaperAssumption, EmptySeq DEF Init, PaperInv

(* What a trade is depends on candles that are stored only.                 *)
LEMMA StoredKeeps ==
  ASSUME PaperInv, NEW c \in Candles, CandleStored(c)
  PROVE  PaperInv'
<1>1. /\ candles' \in Seq(Candles) /\ Len(candles') = Len(candles) + 1
      /\ \A i \in DOMAIN candles : i \in DOMAIN candles' /\ candles'[i] = candles[i]
      /\ Len(candles') <= Bars /\ trade' = trade /\ analysed' = analysed
  BY AppendProperties, PaperAssumption DEF PaperInv, CandleStored
<1>2. GoodExits(trade.exits) => GoodExits(trade.exits)'
  BY <1>1 DEF GoodExits, FirstHit
<1>3. WellFormed(trade)'
  BY <1>1, <1>2 DEF PaperInv, WellFormed, Untouched, UnderWay, FirstHit, Sold, TargetsLeft
<1> QED BY <1>1, <1>3 DEF PaperInv

(* A step of the trade: it stays well formed, and a final one stays.        *)
LEMMA WalkKeeps ==
  ASSUME PaperInv, [Next]_vars
  PROVE  /\ PaperInv'
         /\ trade.status \in Terminal => trade' = trade
<1>1. CASE \E c \in Candles : CandleStored(c)
  BY <1>1, StoredKeeps DEF CandleStored
<1>2. CASE \E i \in 1..Bars : Analyse(i)
  <2>1. PICK i \in 1..Bars : Analyse(i)
    BY <1>2
  <2>2. i \in DOMAIN candles /\ candles' = candles /\ analysed' = analysed \cup {i}
        /\ (trade' = trade \/ trade' = ProcessCandle(trade, i))
    BY <2>1 DEF Analyse
  <2>3. WellFormed(trade') /\ (trade.status \in Terminal => trade' = trade)
    BY <2>2, ProcessKeeps DEF PaperInv
  <2>4. WellFormed(trade)'
    BY <2>2, <2>3 DEF WellFormed, GoodExits, FirstHit, Untouched, UnderWay, Sold, TargetsLeft
  <2> QED BY <2>2, <2>3, <2>4 DEF PaperInv
<1>3. CASE \E first, last \in 1..Bars : Backfill(first, last)
  <2>1. PICK first \in 1..Bars, last \in 1..Bars : Backfill(first, last)
    BY <1>3
  <2>2. /\ first \in DOMAIN candles /\ last \in DOMAIN candles /\ first <= last
        /\ candles' = candles /\ analysed' = analysed /\ trade' = Replayed(trade, first, last)
        /\ first \in Nat \ {0} /\ last \in Nat
    BY <2>1, PaperAssumption DEF Backfill
  <2>3. first..last \subseteq DOMAIN candles
    BY <2>2, LenProperties DEF PaperInv
  <2>4. WellFormed(trade')
    <3> DEFINE V == {u \in TradeRecords : WellFormed(u)}
    <3>1. trade \in V
      BY DEF PaperInv, WellFormed
    <3>2. \A i \in first..last, u \in V : ProcessCandle(u, i) \in V
      <4>1. ASSUME NEW i \in first..last, NEW u \in V PROVE WellFormed(ProcessCandle(u, i))
        BY <2>3, ProcessKeeps DEF PaperInv
      <4> QED BY <4>1 DEF WellFormed
    <3>3. Replayed(trade, first, last) \in V
      <4> HIDE DEF V
      <4> QED BY <2>2, <3>1, <3>2, ReplayKeeps
    <3> QED BY <2>2, <3>3
  <2>5. ASSUME trade.status \in Terminal PROVE trade' = trade
    <3> DEFINE V == {trade}
    <3>1. \A i \in first..last, u \in V : ProcessCandle(u, i) \in V
      BY <2>3, <2>5, ProcessKeeps DEF PaperInv
    <3>2. Replayed(trade, first, last) \in V
      <4>1. trade \in V
        OBVIOUS
      <4> HIDE DEF V
      <4> QED BY <2>2, <3>1, <4>1, ReplayKeeps
    <3> QED BY <2>2, <3>2
  <2>6. WellFormed(trade)'
    BY <2>2, <2>4 DEF WellFormed, GoodExits, FirstHit, Untouched, UnderWay, Sold, TargetsLeft
  <2> QED BY <2>2, <2>5, <2>6 DEF PaperInv
<1>4. CASE UNCHANGED vars
  BY <1>4 DEF vars, PaperInv, WellFormed, GoodExits, FirstHit, Untouched, UnderWay, Sold, TargetsLeft
<1> QED BY <1>1, <1>2, <1>3, <1>4 DEF Next

(* The inductive invariant.                                                 *)
THEOREM PaperInvariant == Spec => []PaperInv
<1>1. PaperInv /\ [Next]_vars => PaperInv'
  BY WalkKeeps
<1> QED BY Initially, <1>1, PTL DEF Spec

(* Rows stay well formed; an open trade has a target ahead.                 *)
THEOREM PaperTypes == Spec => []PaperTypeOK
<1>1. PaperInv => PaperTypeOK
  <2> SUFFICES ASSUME PaperInv PROVE PaperTypeOK
    OBVIOUS
  <2>1. trade \in TradeRecords
    BY DEF PaperInv, WellFormed
  <2>2. trade.status \in {"open", "partially_closed"} => TargetsLeft(trade) # {}
    BY Stage DEF PaperInv, Managed
  <2> QED BY <2>1, <2>2 DEF PaperInv, PaperTypeOK, TradeRecords, Statuses
<1> QED BY PaperInvariant, <1>1, PTL

(* What was entered is what has left plus what is left.                     *)
THEOREM NothingIsLost == Spec => []QuantityConserved
<1>1. PaperInv => QuantityConserved
  BY DEF PaperInv, WellFormed, QuantityConserved
<1> QED BY PaperInvariant, <1>1, PTL

(* A target is only counted on a candle that stayed above the active stop.  *)
THEOREM TheStopWins == Spec => []StopWins
<1>1. PaperInv => StopWins
  BY DEF PaperInv, WellFormed, GoodExits, FirstHit, StopWins, StopBefore
<1> QED BY PaperInvariant, <1>1, PTL

(* After its first target a trade cannot lose any more.                     *)
THEOREM NeverALossAgain == Spec => []NoLossAfterFirstTarget
<1>1. PaperInv => NoLossAfterFirstTarget
  <2> SUFFICES ASSUME PaperInv, NEW m \in DOMAIN trade.exits, NEW n \in DOMAIN trade.exits,
                      m < n, trade.exits[m].price = Target(1)
               PROVE  trade.exits[n].price >= Entry
    BY DEF NoLossAfterFirstTarget
  <2>1. trade.exits \in Seq(Exits) /\ GoodExits(trade.exits)
    BY DEF PaperInv, WellFormed, TradeRecords
  <2>2. m \in 1..(n - 1)
    BY <2>1, LenProperties
  <2>3. FirstHit(trade.exits, n)
    BY <2>2 DEF FirstHit
  <2> QED BY <2>1, <2>3 DEF GoodExits
<1> QED BY PaperInvariant, <1>1, PTL

(* A result is final, whatever is analysed late or replayed.                *)
THEOREM ResultsAreFinal == Spec => ResultIsFinal
<1>1. PaperInv /\ [Next]_vars => [trade.status \in Terminal => trade' = trade]_vars
  BY WalkKeeps
<1> QED BY PaperInvariant, <1>1, PTL DEF Spec, ResultIsFinal
=============================================================================
