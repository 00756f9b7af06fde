------------------------- MODULE PaperTrading_proofs -------------------------
(***************************************************************************)
(* What PaperTrading promises, for any strategies, markets, number of      *)
(* setups and of analyses.  The argument: the rows of setups never lose    *)
(* what they were created with, and a setup that has a position is never   *)
(* ready again, so it has one position at most; a step of a position moves *)
(* the balance by what it realizes (PaperStepIs); an analysis is a walk    *)
(* over the positions, and what each step keeps of the book the walk keeps *)
(* (PaperCandleIs, by induction over the positions).  The back test is a   *)
(* walk too, over setups in the order of their detection (NextTradeKeeps). *)
(***************************************************************************)
EXTENDS PaperTrading, Recursion, SequenceTheorems

RowsUpTo(known, n) ==
  [strategy : Structural \cup {PaperOnly}, event : {0} \cup known, at : 1..n,
   status : Statuses, targets : {0} \cup Counts, routed : SUBSET {"created", "triggered"}]

PositionsOf(n) ==
  [setup : 1..n, status : ActivePaper \cup Ended \cup {"closed"}, quantity : 0..Whole,
   stop : {Stop, Entry}, targets : SUBSET (1..3), realized : Int]

NotRouted(r) == r.strategy = PaperOnly => r.targets = 0 /\ r.routed = {}

Settled(p) ==
  /\ p.status = "closed" <=> p.quantity = 0
  /\ p.status \in Ended \cup {"waiting_entry"} => p.realized = 0 /\ p.quantity = Whole

(* A setup has one position at most, and is not ready once it has it.       *)
Linked(rows, ps) ==
  /\ \A k \in DOMAIN ps :
       /\ rows[ps[k].setup].targets > 0 /\ rows[ps[k].setup].status # "ready"
       /\ ps[k].status = "waiting_entry" =>
            rows[ps[k].setup].status \in {"waiting_entry", "rejected"}
  /\ \A j, k \in DOMAIN ps : ps[j].setup = ps[k].setup => j = k

(* OneSetupPerEvent, of any rows.                                           *)
SameEvent(q, r) ==
  /\ q.strategy = r.strategy
  /\ IF q.strategy = PaperOnly THEN q.at = r.at ELSE q.event = r.event

Distinct(rows) == \A r, s \in DOMAIN rows : SameEvent(rows[r], rows[s]) => r = s

NoneRouted(rows) == \A s \in DOMAIN rows : NotRouted(rows[s])

Results(ps) == [k \in DOMAIN ps |-> ps[k].realized]

Balanced(ps, balance, since) ==
  /\ \A k \in 1..since : ps[k].status \notin ActivePaper
  /\ balance = Starting + Total(Results(ps), since + 1, Len(ps))

StoredCandles == [low : Levels, high : Levels, close : Levels]

TradingInv ==
  /\ candles \in Seq(StoredCandles) /\ \E m \in Markets : IsPrefix(candles, m)
  /\ breaks \subseteq 1..Len(candles)
  /\ setups \in Seq(RowsUpTo(breaks, Len(candles)))
  /\ NoneRouted(setups) /\ Distinct(setups)
  /\ positions \in Seq(PositionsOf(Len(setups)))
  /\ \A k \in DOMAIN positions : Settled(positions[k])
  /\ Linked(setups, positions)
  /\ account \in [starting : {Starting}, balance : Int, since : 0..Len(positions)]
  /\ Balanced(positions, account.balance, account.since)

-----------------------------------------------------------------------------
(* One position.                                                            *)

(* The least of a non-empty set of targets is one of them.                  *)
LEMMA NextTarget ==
  ASSUME NEW S \in SUBSET (1..3), S # {}
  PROVE  Min(S) \in S /\ Min(S) \in 1..3
<1>1. \E x \in S : \A y \in S : x <= y
  <2>1. CASE 1 \in S
    BY <2>1
  <2>2. CASE 1 \notin S /\ 2 \in S
    BY <2>2
  <2>3. CASE 1 \notin S /\ 2 \notin S
    <3>1. \A y \in S : y = 3
      BY <2>3
    <3>2. PICK x \in S : TRUE
      OBVIOUS
    <3> QED BY <3>1, <3>2
  <2> QED BY <2>1, <2>2, <2>3
<1> QED BY <1>1 DEF Min

(* What leaves at a target is part of what is there.                        *)
LEMMA SliceIsPart ==
  ASSUME NEW n \in 1..3, NEW q \in 0..Whole
  PROVE  Slice(n, q) \in 0..q
<1>1. CASE n = 1
  <2>1. (q * 3) \div 10 \in 0..q
    BY DEF Whole
  <2> QED BY <1>1, <2>1 DEF Slice
<1>2. CASE n = 2
  <2>1. (q * 4) \div 7 \in 0..q
    BY DEF Whole
  <2> QED BY <1>2, <2>1 DEF Slice
<1>3. CASE n = 3
  BY <1>3 DEF Slice
<1> QED BY <1>1, <1>2, <1>3

LEMMA PnlType ==
  ASSUME NEW price \in Levels, NEW q \in 0..Whole
  PROVE  Pnl(price, q) \in Int /\ Fee(q) \in Int
<1>1. 10 * (price - Entry) * q \in Int
  BY DEF Levels, Stop, Target, Entry, Whole
<1> QED BY <1>1 DEF Pnl, Fee, Whole

(* What a step of a position is worth is what the balance moves by.         *)
Works(n) == [p : PositionsOf(n), setup : Statuses, balance : Int]
Carried(x, y) ==
  /\ y.p.setup = x.p.setup
  /\ y.balance - x.balance = y.p.realized - x.p.realized

LEMMA CloseQuantityIs ==
  ASSUME NEW n \in Nat, NEW x \in Works(n), NEW price \in Levels, NEW q \in 0..x.p.quantity
  PROVE  LET y == CloseQuantity(x, price, q) IN
         /\ y \in Works(n) /\ Carried(x, y) /\ y.setup = x.setup
         /\ y.p.quantity = x.p.quantity - q
         /\ y.p.status = IF y.p.quantity = 0 THEN "closed" ELSE x.p.status
         /\ y.p.targets = x.p.targets /\ y.p.stop = x.p.stop
<1> DEFINE g == Pnl(price, q)
           left == x.p.quantity - q
           y == CloseQuantity(x, price, q)
<1>1. x.p \in PositionsOf(n) /\ x.setup \in Statuses /\ x.balance \in Int
  BY DEF Works
<1>2. g \in Int /\ left \in 0..Whole /\ x.p.realized \in Int
  <2>1. q \in 0..Whole /\ x.p.quantity \in 0..Whole
    BY <1>1 DEF PositionsOf, Whole
  <2>2. left \in 0..Whole
    BY <2>1 DEF Whole
  <2> QED BY <1>1, <2>1, <2>2, PnlType DEF PositionsOf
<1>3. /\ y.setup = x.setup /\ y.balance = x.balance + g
      /\ y.p.quantity = left /\ y.p.status = IF left = 0 THEN "closed" ELSE x.p.status
      /\ y.p.targets = x.p.targets /\ y.p.stop = x.p.stop /\ y.p.setup = x.p.setup
      /\ y.p.realized = x.p.realized + g
  BY <1>1 DEF CloseQuantity, Works, PositionsOf
<1>4. y \in Works(n)
  <2>1. y.p \in PositionsOf(n)
    <3>1. y.p = [x.p EXCEPT !.realized = @ + g, !.quantity = left,
                            !.status = IF left = 0 THEN "closed" ELSE @]
      BY <1>1 DEF CloseQuantity, Works
    <3>2. x.p.realized + g \in Int
      BY <1>2
    <3> HIDE DEF y, g, left
    <3> QED BY <1>1, <1>2, <3>1, <3>2 DEF PositionsOf
  <2>2. y.balance \in Int
    BY <1>1, <1>2, <1>3
  <2> QED BY <1>1, <1>3, <2>1, <2>2 DEF CloseQuantity, Works
<1>5. Carried(x, y)
  BY <1>1, <1>2, <1>3 DEF Carried
<1> QED BY <1>3, <1>4, <1>5

(* A position that was entered, with its accounts in order.                 *)
Entered == {"open", "partially_closed"}
Works2(n) == {x \in Works(n) : x.p.status \in Entered /\ Settled(x.p)}

LEMMA EntersIs ==
  ASSUME NEW n \in Nat, NEW x \in Works(n), x.p.status = "waiting_entry", Settled(x.p)
  PROVE  LET y == Enters(x) IN
         /\ y \in Works2(n) /\ Carried(x, y) /\ y.setup = "triggered" /\ y.p.status = "open"
<1> DEFINE f == Fee(x.p.quantity)
           y == Enters(x)
<1>1. x.p \in PositionsOf(n) /\ x.setup \in Statuses /\ x.balance \in Int
  BY DEF Works
<1>2. f \in Int /\ x.p.realized \in Int
  BY <1>1 DEF PositionsOf, Fee, Whole
<1>3. /\ y.setup = "triggered" /\ y.balance = x.balance - f
      /\ y.p.quantity = x.p.quantity /\ y.p.status = "open" /\ y.p.setup = x.p.setup
      /\ y.p.realized = x.p.realized - f
  BY <1>1 DEF Enters, Works, PositionsOf
<1>4. y \in Works(n)
  <2>1. y.p \in PositionsOf(n)
    <3>1. y.p = [x.p EXCEPT !.status = "open", !.realized = @ - f]
      BY <1>1 DEF Enters, Works
    <3>2. x.p.realized - f \in Int
      BY <1>2
    <3> HIDE DEF y, f
    <3> QED BY <1>1, <3>1, <3>2 DEF PositionsOf, ActivePaper
  <2>2. y.balance \in Int
    BY <1>1, <1>2, <1>3
  <2>3. "triggered" \in Statuses
    BY DEF Statuses, Live
  <2> QED BY <1>1, <1>3, <2>1, <2>2, <2>3 DEF Enters, Works
<1> HIDE DEF y, f
<1>5. Carried(x, y)
  BY <1>1, <1>2, <1>3 DEF Carried
<1>6. Settled(y.p)
  BY <1>3 DEF Settled, Ended
<1> QED BY <1>3, <1>4, <1>5, <1>6 DEF Works2, Entered, y

LEMMA HitsTargetIs ==
  ASSUME NEW n \in Nat, NEW x \in Works2(n), NEW m \in 1..3
  PROVE  LET y == HitsTarget(x, m) IN
         /\ y \in Works(n) /\ Carried(x, y) /\ y.setup = x.setup /\ Settled(y.p)
         /\ y.p.status # "waiting_entry"
<1> DEFINE q == Slice(m, x.p.quantity)
           hit == CloseQuantity(x, Target(m), q)
           y == HitsTarget(x, m)
<1>1. x \in Works(n) /\ x.p \in PositionsOf(n) /\ x.p.quantity \in 0..Whole
  BY DEF Works2, Works, PositionsOf
<1>2. q \in 0..x.p.quantity /\ Target(m) \in Levels
  BY <1>1, SliceIsPart DEF Levels, Target, Stop
<1>3. /\ hit \in Works(n) /\ Carried(x, hit) /\ hit.setup = x.setup
      /\ hit.p.quantity = x.p.quantity - q
      /\ hit.p.status = IF hit.p.quantity = 0 THEN "closed" ELSE x.p.status
  <2> HIDE DEF q
  <2> QED BY <1>1, <1>2, CloseQuantityIs
<1>4. y = [hit EXCEPT !.p.targets = @ \ {m},
                      !.p.stop = IF m = 1 THEN Entry ELSE @,
                      !.p.status = IF hit.p.quantity > 0 THEN "partially_closed" ELSE @]
  BY DEF HitsTarget
<1> HIDE DEF hit, y
<1>5. hit.p \in PositionsOf(n) /\ hit.setup \in Statuses /\ hit.balance \in Int
  BY <1>3 DEF Works
<1>6. /\ y.setup = hit.setup /\ y.balance = hit.balance
      /\ y.p.quantity = hit.p.quantity /\ y.p.setup = hit.p.setup
      /\ y.p.realized = hit.p.realized
      /\ y.p.status = IF hit.p.quantity > 0 THEN "partially_closed" ELSE hit.p.status
  BY <1>3, <1>4, <1>5 DEF Works, PositionsOf
<1>7. y \in Works(n)
  <2>1. y.p \in PositionsOf(n)
    <3>1. y.p = [hit.p EXCEPT !.targets = @ \ {m},
                      !.stop = IF m = 1 THEN Entry ELSE @,
                      !.status = IF hit.p.quantity > 0 THEN "partially_closed" ELSE @]
      BY <1>3, <1>4 DEF Works
    <3> QED BY <1>5, <3>1 DEF PositionsOf, ActivePaper
  <2> QED BY <1>3, <1>4, <1>5, <1>6, <2>1 DEF Works
<1>8. Settled(y.p) /\ y.p.status # "waiting_entry"
  <2>1. x.p.status \in Entered /\ hit.p.quantity \in 0..Whole
    BY <1>5 DEF Works2, PositionsOf
  <2>2. hit.p.quantity > 0 <=> hit.p.quantity # 0
    BY <2>1 DEF Whole
  <2> QED BY <1>3, <1>6, <2>1, <2>2 DEF Settled, Entered, Ended
<1>9. Carried(x, y)
  BY <1>3, <1>6 DEF Carried
<1> QED BY <1>3, <1>6, <1>7, <1>8, <1>9 DEF y

LEMMA ExitsIs ==
  ASSUME NEW n \in Nat, NEW x \in Works2(n), NEW c
  PROVE  LET y == Exits(x, c) IN
         /\ y \in Works(n) /\ Carried(x, y) /\ y.setup = x.setup /\ Settled(y.p)
         /\ y.p.status # "waiting_entry"
<1> DEFINE y == Exits(x, c)
           m == Min(x.p.targets)
           out == CloseQuantity(x, x.p.stop, x.p.quantity)
<1>1. x \in Works(n) /\ x.p \in PositionsOf(n) /\ x.p.quantity \in 0..Whole
      /\ x.p.targets \in SUBSET (1..3) /\ x.p.stop \in Levels /\ x.p.status \in Entered
      /\ Settled(x.p)
  BY DEF Works2, Works, PositionsOf, Levels, Stop, Entry, Target
<1>2. /\ out \in Works(n) /\ Carried(x, out) /\ out.setup = x.setup /\ Settled(out.p)
      /\ out.p.status # "waiting_entry"
  <2>1. x.p.quantity \in 0..x.p.quantity /\ x.p.quantity - x.p.quantity = 0
    BY <1>1 DEF Whole
  <2>2. /\ out \in Works(n) /\ Carried(x, out) /\ out.setup = x.setup
        /\ out.p.quantity = 0 /\ out.p.status = "closed"
    BY <1>1, <2>1, CloseQuantityIs
  <2> QED BY <2>2 DEF Settled, Ended
<1>3. /\ x \in Works(n) /\ Carried(x, x) /\ x.p.status # "waiting_entry"
  <2>1. x.balance \in Int /\ x.p.realized \in Int
    BY <1>1 DEF Works, PositionsOf
  <2> QED BY <1>1, <2>1 DEF Carried, Entered
<1>4. CASE x.p.targets = {}
  BY <1>1, <1>3, <1>4 DEF Exits
<1>5. CASE x.p.targets # {} /\ c.low <= x.p.stop
  BY <1>2, <1>5 DEF Exits
<1>6. CASE x.p.targets # {} /\ ~(c.low <= x.p.stop) /\ c.high >= Target(m)
  <2>1. m \in 1..3
    BY <1>1, <1>6, NextTarget
  <2>2. y = HitsTarget(x, m)
    BY <1>6 DEF Exits
  <2> HIDE DEF y, m
  <2>3. /\ y \in Works(n) /\ Carried(x, y) /\ y.setup = x.setup /\ Settled(y.p)
        /\ y.p.status # "waiting_entry"
    BY <2>1, <2>2, HitsTargetIs
  <2> QED BY <2>3 DEF y
<1>7. CASE x.p.targets # {} /\ ~(c.low <= x.p.stop) /\ ~(c.high >= Target(m))
  BY <1>1, <1>3, <1>7 DEF Exits
<1> QED BY <1>4, <1>5, <1>6, <1>7

(* A step of a position: its setup's status changes only with a position    *)
(* that waited and waits no more.                                           *)
Stepped(x, y) ==
  /\ Carried(x, y) /\ Settled(y.p)
  /\ x.p.status \notin ActivePaper => y = x
  /\ y.p.status = "waiting_entry" => y = x
  /\ x.p.status # "waiting_entry" => y.setup = x.setup
  /\ y.setup \in {x.setup, "triggered", "expired", "invalidated"}

LEMMA PaperStepIs ==
  ASSUME NEW n \in Nat, NEW x \in Works(n), Settled(x.p), NEW row, NEW i, NEW c
  PROVE  LET y == PaperStep(x, row, i, c) IN y \in Works(n) /\ Stepped(x, y)
<1> DEFINE y == PaperStep(x, row, i, c)
<1>1. x.p \in PositionsOf(n) /\ x.setup \in Statuses /\ x.balance \in Int /\ x.p.realized \in Int
  BY DEF Works, PositionsOf
<1>2. Carried(x, x)
  BY <1>1 DEF Carried
<1>3. ASSUME NEW status \in {"expired", "invalidated"}, x.p.status = "waiting_entry",
             y = [x EXCEPT !.p.status = status, !.setup = status]
      PROVE  y \in Works(n) /\ Stepped(x, y)
  <2> HIDE DEF y
  <2>1. /\ y.setup = status /\ y.balance = x.balance
        /\ y.p = [x.p EXCEPT !.status = status]
    BY <1>3 DEF Works
  <2>2. /\ y.p \in PositionsOf(n) /\ y.p.status = status /\ y.p.setup = x.p.setup
        /\ y.p.quantity = x.p.quantity /\ y.p.realized = x.p.realized
    BY <1>1, <1>3, <2>1 DEF PositionsOf, Ended
  <2>3. status \in Statuses
    BY <1>3 DEF Statuses, Ended
  <2>4. y \in Works(n)
    BY <1>1, <1>3, <2>1, <2>2, <2>3 DEF Works
  <2>5. Carried(x, y)
    BY <1>1, <2>1, <2>2 DEF Carried
  <2>6. Settled(y.p)
    BY <1>3, <2>2 DEF Settled, Ended
  <2> QED BY <1>3, <2>1, <2>2, <2>4, <2>5, <2>6 DEF Stepped, ActivePaper
<1>4. CASE x.p.status \notin ActivePaper
  BY <1>2, <1>4 DEF PaperStep, Stepped
<1>5. CASE x.p.status \in ActivePaper /\ x.p.status # "waiting_entry"
  <2>1. x \in Works2(n)
    BY <1>5 DEF Works2, ActivePaper, Entered
  <2>2. y = Exits(x, c)
    BY <1>5 DEF PaperStep
  <2>3. /\ y \in Works(n) /\ Carried(x, y) /\ y.setup = x.setup /\ Settled(y.p)
        /\ y.p.status # "waiting_entry"
    <3> HIDE DEF y
    <3> QED BY <2>1, <2>2, ExitsIs
  <2> QED BY <1>5, <2>3 DEF Stepped
<1>6. CASE x.p.status = "waiting_entry"
  <2>1. x.p.status \in ActivePaper
    BY <1>6 DEF ActivePaper
  <2>2. CASE y = Exits(Enters(x), c)
    <3> DEFINE e == Enters(x)
    <3>1. e \in Works2(n) /\ Carried(x, e) /\ e.setup = "triggered"
      BY <1>6, EntersIs
    <3>2. y = Exits(e, c)
      BY <2>2
    <3> HIDE DEF e, y
    <3>3. /\ y \in Works(n) /\ Carried(e, y) /\ y.setup = e.setup /\ Settled(y.p)
          /\ y.p.status # "waiting_entry"
      BY <3>1, <3>2, ExitsIs
    <3>4. Carried(x, y)
      <4>1. /\ e.balance \in Int /\ e.p.realized \in Int /\ y.balance \in Int /\ y.p.realized \in Int
        BY <3>1, <3>3 DEF Works2, Works, PositionsOf
      <4> QED BY <1>1, <3>1, <3>3, <4>1 DEF Carried
    <3> QED BY <1>6, <2>1, <3>1, <3>3, <3>4 DEF Stepped, y
  <2>3. CASE y = x
    BY <1>2, <1>6, <2>1, <2>3 DEF Stepped
  <2> QED BY <1>3, <1>6, <2>1, <2>2, <2>3 DEF PaperStep
<1> QED BY <1>4, <1>5, <1>6

-----------------------------------------------------------------------------
(* The walk of an analysis over the positions.                              *)
SameRow(r, q) ==
  /\ r.strategy = q.strategy /\ r.event = q.event /\ r.at = q.at
  /\ r.targets = q.targets /\ r.routed = q.routed

(* One position of the walk, as in PaperCandle.                             *)
NextBook(b, k, i, c) ==
  LET s == b.positions[k].setup
      x == PaperStep([p |-> b.positions[k], setup |-> b.rows[s].status,
                      balance |-> b.balance], b.rows[s], i, c)
  IN  [rows |-> [b.rows EXCEPT ![s].status = x.setup],
       positions |-> [b.positions EXCEPT ![k] = x.p],
       balance |-> x.balance]

BookRecords(R, n) == [rows : Seq(R), positions : Seq(PositionsOf(n)), balance : Int]

(* What the walk keeps of the book, from the rows it began with.            *)
RowsKept(b, rows) ==
  /\ Len(b.rows) = Len(rows)
  /\ \A s \in DOMAIN rows :
       /\ SameRow(b.rows[s], rows[s])
       /\ rows[s].status \in Ended => b.rows[s].status = rows[s].status

(* Positions that had ended before the walk. *)
DoneKept(b) ==
  \A j \in DOMAIN b.positions :
    positions[j].status \notin ActivePaper => b.positions[j] = positions[j]

InOrder(b, n, since) ==
  /\ Len(b.positions) = n /\ \A k \in 1..n : Settled(b.positions[k])
  /\ Linked(b.rows, b.positions)
  /\ Balanced(b.positions, b.balance, since)

(* One position changes, and the balance by what it realized.               *)
LEMMA BalancedStep ==
  ASSUME NEW n \in Nat, NEW ps \in Seq(PositionsOf(n)), NEW balance \in Int,
         NEW since \in 0..Len(ps), Balanced(ps, balance, since),
         NEW k \in 1..Len(ps), NEW p \in PositionsOf(n), NEW after \in Int,
         after - balance = p.realized - ps[k].realized,
         ps[k].status \notin ActivePaper => p = ps[k]
  PROVE  Balanced([ps EXCEPT ![k] = p], after, since)
<1> DEFINE qs == [ps EXCEPT ![k] = p]
           q == Results(ps)
           r == Results(qs)
<1>1. /\ qs \in Seq(PositionsOf(n)) /\ Len(qs) = Len(ps)
      /\ \A j \in 1..Len(ps) : qs[j] = IF j = k THEN p ELSE ps[j]
  BY ExceptSeq
<1>2. Len(ps) \in Nat /\ DOMAIN ps = 1..Len(ps) /\ DOMAIN qs = 1..Len(ps) /\ since \in Nat
  BY <1>1, LenProperties
<1> HIDE DEF qs
<1>3. ASSUME NEW j \in 1..Len(ps)
      PROVE  /\ q[j] = ps[j].realized /\ r[j] = qs[j].realized
             /\ ps[j].realized \in Int /\ qs[j].realized \in Int
  <2>1. ps[j] \in PositionsOf(n) /\ qs[j] \in PositionsOf(n)
    BY <1>1, ElementOfSeq
  <2> QED BY <1>2, <2>1 DEF Results, PositionsOf
<1>4. Summands(q, since + 1, Len(ps)) /\ Summands(r, since + 1, Len(ps))
  <2>1. \A j \in (since + 1)..Len(ps) : j \in 1..Len(ps)
    BY <1>2
  <2> HIDE DEF q, r
  <2> QED BY <1>3, <2>1 DEF Summands
<1>5. since + 1 \in Int /\ Len(ps) \in Int /\ since + 1 - 1 <= Len(ps)
  BY <1>2
<1>6. \A j \in 1..since : qs[j].status \notin ActivePaper
  <2>1. \A j \in 1..since : j \in 1..Len(ps)
    BY <1>2
  <2> QED BY <1>1, <2>1 DEF Balanced
<1>7. balance = Starting + Total(q, since + 1, Len(ps))
  BY DEF Balanced
<1>8. Total(q, since + 1, Len(ps)) \in Int /\ Starting \in Int
  <2> HIDE DEF q
  <2> QED BY <1>4, <1>5, TotalType, TradingAssumption
<1>9. after = Starting + Total(r, since + 1, Len(ps))
  <2>1. CASE k > since
    <3>1. k \in (since + 1)..Len(ps)
      BY <1>2, <2>1
    <3>2. \A j \in (since + 1)..Len(ps) : j # k => r[j] = q[j]
      <4>1. \A j \in (since + 1)..Len(ps) : j \in 1..Len(ps)
        BY <1>2
      <4> HIDE DEF q, r
      <4> QED BY <1>1, <1>3, <4>1
    <3>3. Total(r, since + 1, Len(ps)) = Total(q, since + 1, Len(ps)) + r[k] - q[k]
      <4> HIDE DEF q, r
      <4> QED BY <1>4, <1>5, <3>1, <3>2, TotalUpdate
    <3>4. r[k] = p.realized /\ q[k] = ps[k].realized /\ p.realized \in Int /\ ps[k].realized \in Int
      BY <1>1, <1>3
    <3> HIDE DEF q, r
    <3> QED BY <1>7, <1>8, <3>3, <3>4
  <2>2. CASE ~(k > since)
    <3>1. k \in 1..since
      BY <1>2, <2>2
    <3>2. p = ps[k]
      BY <3>1 DEF Balanced
    <3>3. \A j \in (since + 1)..Len(ps) : q[j] = r[j]
      <4>1. \A j \in (since + 1)..Len(ps) : j \in 1..Len(ps)
        BY <1>2
      <4> HIDE DEF q, r
      <4> QED BY <1>1, <1>3, <3>2, <4>1
    <3>4. Total(q, since + 1, Len(ps)) = Total(r, since + 1, Len(ps))
      <4> HIDE DEF q, r
      <4> QED BY <1>4, <1>5, <3>3, TotalAgrees
    <3>5. after = balance
      <4>1. p.realized \in Int
        BY DEF PositionsOf
      <4> QED BY <3>2, <4>1
    <3> HIDE DEF q, r
    <3> QED BY <1>7, <3>4, <3>5
  <2> QED BY <2>1, <2>2
<1> QED BY <1>1, <1>6, <1>9 DEF Balanced, qs

(* One status changes, with the one position of its setup.                  *)
LEMMA LinkedStep ==
  ASSUME NEW R, NEW rows \in Seq(R), NEW n, n = Len(rows), NEW ps \in Seq(PositionsOf(n)),
         Linked(rows, ps), NEW k \in 1..Len(ps), NEW p \in PositionsOf(n),
         NEW s \in 1..n, s = ps[k].setup, p.setup = s,
         NEW r \in R, r.targets = rows[s].targets, r.status # "ready",
         p.status = "waiting_entry" => r.status \in {"waiting_entry", "rejected"}
  PROVE  Linked([rows EXCEPT ![s] = r], [ps EXCEPT ![k] = p])
<1> DEFINE qs == [ps EXCEPT ![k] = p]
           after == [rows EXCEPT ![s] = r]
<1>1. /\ qs \in Seq(PositionsOf(n)) /\ Len(qs) = Len(ps)
      /\ \A j \in 1..Len(ps) : qs[j] = IF j = k THEN p ELSE ps[j]
  BY ExceptSeq
<1>2. \A j \in 1..n : after[j] = IF j = s THEN r ELSE rows[j]
  BY ExceptSeq
<1>3. DOMAIN ps = 1..Len(ps) /\ DOMAIN qs = 1..Len(ps)
  BY <1>1, LenProperties
<1> HIDE DEF qs, after
<1>4. ASSUME NEW j \in 1..Len(ps)
      PROVE  /\ after[qs[j].setup].targets > 0 /\ after[qs[j].setup].status # "ready"
             /\ qs[j].status = "waiting_entry" =>
                  after[qs[j].setup].status \in {"waiting_entry", "rejected"}
             /\ qs[j].setup = ps[j].setup
  <2>1. CASE j = k
    <3>1. qs[j] = p /\ after[p.setup] = r
      BY <1>1, <1>2, <2>1
    <3>2. rows[s].targets > 0
      BY <1>3 DEF Linked
    <3> QED BY <2>1, <3>1, <3>2
  <2>2. CASE j # k
    <3>1. qs[j] = ps[j] /\ ps[j].setup # s
      BY <1>1, <1>3, <2>2 DEF Linked
    <3>2. ps[j].setup \in 1..n
      <4>1. ps[j] \in PositionsOf(n)
        BY ElementOfSeq
      <4> QED BY <4>1 DEF PositionsOf
    <3>3. after[ps[j].setup] = rows[ps[j].setup]
      BY <1>2, <3>1, <3>2
    <3> QED BY <1>3, <3>1, <3>3 DEF Linked
  <2> QED BY <2>1, <2>2
<1>5. Linked(after, qs)
  BY <1>3, <1>4 DEF Linked
<1> QED BY <1>5 DEF qs, after

LEMMA NextBookKeeps ==
  ASSUME NEW known, NEW m \in Nat, NEW rows \in Seq(RowsUpTo(known, m)), NEW n \in Nat,
         NEW since \in 0..n, NEW b \in BookRecords(RowsUpTo(known, m), Len(rows)),
         RowsKept(b, rows), InOrder(b, n, since), DoneKept(b), NEW k \in 1..n, NEW i, NEW c
  PROVE  LET d == NextBook(b, k, i, c) IN
         /\ d \in BookRecords(RowsUpTo(known, m), Len(rows))
         /\ RowsKept(d, rows) /\ InOrder(d, n, since) /\ DoneKept(d)
<1> DEFINE R == RowsUpTo(known, m)
           size == Len(rows)
           ps == b.positions
           s == ps[k].setup
           x == [p |-> ps[k], setup |-> b.rows[s].status, balance |-> b.balance]
           y == PaperStep(x, b.rows[s], i, c)
           r == [b.rows[s] EXCEPT !.status = y.setup]
           d == NextBook(b, k, i, c)
<1>1. /\ b.rows \in Seq(R) /\ ps \in Seq(PositionsOf(size)) /\ b.balance \in Int
      /\ Len(ps) = n /\ Len(b.rows) = size /\ size \in Nat
      /\ DOMAIN ps = 1..n /\ DOMAIN rows = 1..size
  BY LenProperties DEF BookRecords, RowsKept, InOrder
<1>2. ps[k] \in PositionsOf(size) /\ s \in 1..size /\ b.rows[s] \in R
  <2>1. ps[k] \in PositionsOf(size)
    BY <1>1, ElementOfSeq
  <2>2. s \in 1..size
    BY <2>1 DEF PositionsOf
  <2> QED BY <1>1, <2>1, <2>2, ElementOfSeq
<1>3. y \in Works(size) /\ Stepped(x, y)
  <2>1. x \in Works(size) /\ x.p = ps[k]
    BY <1>1, <1>2 DEF Works, RowsUpTo
  <2>2. Settled(ps[k])
    BY DEF InOrder
  <2> HIDE DEF x
  <2> QED BY <1>1, <2>1, <2>2, PaperStepIs
<1>4. x.p = ps[k] /\ x.setup = b.rows[s].status /\ x.balance = b.balance
  OBVIOUS
<1>5. /\ d.rows = [b.rows EXCEPT ![s] = r] /\ d.positions = [ps EXCEPT ![k] = y.p]
      /\ d.balance = y.balance
      /\ d = [rows |-> d.rows, positions |-> d.positions, balance |-> d.balance]
  BY DEF NextBook
<1> HIDE DEF d, y, x
<1>6. y.p \in PositionsOf(size) /\ y.setup \in Statuses /\ y.balance \in Int
  BY <1>3 DEF Works
<1>7. r \in R /\ SameRow(r, b.rows[s]) /\ r.status = y.setup
  BY <1>2, <1>6 DEF RowsUpTo, SameRow
<1> HIDE DEF r
<1>8. /\ d.rows \in Seq(R) /\ Len(d.rows) = size
      /\ \A j \in 1..size : d.rows[j] = IF j = s THEN r ELSE b.rows[j]
  BY <1>1, <1>2, <1>5, <1>7, ExceptSeq
<1>9. /\ d.positions \in Seq(PositionsOf(size)) /\ Len(d.positions) = n
      /\ \A j \in 1..n : d.positions[j] = IF j = k THEN y.p ELSE ps[j]
  BY <1>1, <1>2, <1>5, <1>6, ExceptSeq
<1>10. d \in BookRecords(R, size)
  BY <1>5, <1>6, <1>8, <1>9 DEF BookRecords
<1>11. b.rows[s].targets > 0 /\ b.rows[s].status # "ready"
       /\ (ps[k].status = "waiting_entry" => b.rows[s].status \in {"waiting_entry", "rejected"})
  BY <1>1 DEF InOrder, Linked
<1>12. RowsKept(d, rows)
  <2>1. ASSUME NEW j \in 1..size
        PROVE  /\ SameRow(d.rows[j], rows[j])
               /\ rows[j].status \in Ended => d.rows[j].status = rows[j].status
    <3>1. /\ SameRow(b.rows[j], rows[j])
          /\ rows[j].status \in Ended => b.rows[j].status = rows[j].status
      BY <1>1 DEF RowsKept
    <3>2. CASE j # s
      BY <1>8, <3>1, <3>2
    <3>3. CASE j = s
      <4>1. SameRow(r, rows[s])
        BY <1>7, <3>1, <3>3 DEF SameRow
      <4>2. ASSUME rows[s].status \in Ended PROVE r.status = rows[s].status
        <5>1. b.rows[s].status = rows[s].status /\ ps[k].status # "waiting_entry"
          BY <1>11, <3>1, <3>3, <4>2 DEF Ended
        <5> QED BY <1>3, <1>4, <1>7, <5>1 DEF Stepped
      <4> QED BY <1>8, <3>3, <4>1, <4>2
    <3> QED BY <3>2, <3>3
  <2> QED BY <1>1, <1>8, <2>1 DEF RowsKept
<1>13. Linked(d.rows, d.positions)
  <2>1. y.p.setup = s
    BY <1>3, <1>4 DEF Stepped, Carried
  <2>2. r.targets = b.rows[s].targets /\ r.status # "ready"
    BY <1>3, <1>4, <1>7, <1>11 DEF Stepped, SameRow
  <2>3. y.p.status = "waiting_entry" => r.status \in {"waiting_entry", "rejected"}
    BY <1>3, <1>4, <1>7, <1>11 DEF Stepped
  <2>4. Linked(b.rows, ps) /\ size = Len(b.rows) /\ k \in 1..Len(ps) /\ s = ps[k].setup
    BY <1>1 DEF InOrder
  <2> HIDE DEF R, size, ps, s
  <2>5. Linked([b.rows EXCEPT ![s] = r], [ps EXCEPT ![k] = y.p])
    BY <1>1, <1>2, <1>6, <1>7, <2>1, <2>2, <2>3, <2>4, LinkedStep
  <2> QED BY <1>5, <2>5
<1>14. Balanced(d.positions, d.balance, since)
  <2>1. y.balance - b.balance = y.p.realized - ps[k].realized
    BY <1>3, <1>4 DEF Stepped, Carried
  <2>2. ps[k].status \notin ActivePaper => y.p = ps[k]
    BY <1>3, <1>4 DEF Stepped
  <2>3. Balanced(ps, b.balance, since) /\ k \in 1..Len(ps) /\ since \in 0..Len(ps)
    BY <1>1 DEF InOrder
  <2> HIDE DEF size, ps
  <2>4. Balanced([ps EXCEPT ![k] = y.p], y.balance, since)
    BY <1>1, <1>6, <2>1, <2>2, <2>3, BalancedStep
  <2> QED BY <1>5, <2>4
<1>15. InOrder(d, n, since)
  <2>1. \A j \in 1..n : Settled(d.positions[j])
    BY <1>3, <1>9 DEF Stepped, InOrder
  <2> QED BY <1>9, <1>13, <1>14, <2>1 DEF InOrder
<1>16. DoneKept(d)
  <2>1. DOMAIN d.positions = 1..n
    BY <1>9, LenProperties
  <2>2. ASSUME NEW j \in 1..n, positions[j].status \notin ActivePaper
        PROVE  d.positions[j] = positions[j]
    <3>1. ps[j] = positions[j]
      BY <1>1, <2>2 DEF DoneKept
    <3>2. CASE j = k
      <4>1. y.p = x.p
        BY <1>3, <1>4, <2>2, <3>1, <3>2 DEF Stepped
      <4> QED BY <1>4, <1>9, <3>1, <3>2, <4>1
    <3> QED BY <1>9, <3>1, <3>2
  <2> QED BY <2>1, <2>2 DEF DoneKept
<1> QED BY <1>10, <1>12, <1>15, <1>16 DEF d

LEMMA PaperCandleIs ==
  ASSUME NEW known, NEW m \in Nat, NEW rows \in Seq(RowsUpTo(known, m)),
         positions \in Seq(PositionsOf(Len(rows))), NEW since \in 0..Len(positions),
         account.balance \in Int, NEW i, NEW c, NEW b0,
         b0 = [rows |-> rows, positions |-> positions, balance |-> account.balance],
         InOrder(b0, Len(positions), since)
  PROVE  LET b == PaperCandle(rows, i, c) IN
         /\ b \in BookRecords(RowsUpTo(known, m), Len(rows))
         /\ RowsKept(b, rows) /\ InOrder(b, Len(positions), since) /\ DoneKept(b)
<1> DEFINE n == Len(positions)
           V == {b \in BookRecords(RowsUpTo(known, m), Len(rows)) :
                   RowsKept(b, rows) /\ InOrder(b, n, since) /\ DoneKept(b)}
           Eq(g) == g = [k \in 0..n |-> IF k = 0 THEN b0 ELSE NextBook(g[k - 1], k, i, c)]
           step == [k \in Int |-> [b \in V |-> IF k \in 1..n THEN NextBook(b, k, i, c) ELSE b]]
<1>1. n \in Nat
  BY LenProperties
<1>2. b0 \in V
  <2>1. b0 \in BookRecords(RowsUpTo(known, m), Len(rows))
    BY DEF BookRecords
  <2>2. RowsKept(b0, rows)
    BY DEF RowsKept, SameRow
  <2>3. DoneKept(b0)
    BY DEF DoneKept
  <2> QED BY <2>1, <2>2, <2>3
<1>3. ASSUME NEW k \in 1..n, NEW b \in V PROVE NextBook(b, k, i, c) \in V
  BY <1>1, NextBookKeeps
<1> HIDE DEF V
<1>4. PICK g \in [0..n -> V] : Recursively(g, 0, n, b0, step)
  <2>1. step \in [Int -> [V -> V]]
    BY <1>3
  <2>2. 0 \in Int /\ n \in Int /\ 0 <= n
    BY <1>1
  <2> HIDE DEF step, n
  <2> QED BY <1>2, <2>1, <2>2, RecursionSolved
<1>5. Eq(g)
  <2>1. ASSUME NEW k \in 0..n
        PROVE  g[k] = IF k = 0 THEN b0 ELSE NextBook(g[k - 1], k, i, c)
    <3>1. CASE k = 0
      BY <1>4, <3>1 DEF Recursively
    <3>2. CASE k # 0
      <4>1. k \in 1..n /\ k - 1 \in 0..n
        BY <1>1, <3>2
      <4>2. g[k - 1] \in V
        BY <4>1
      <4>3. g[k] = step[k][g[k - 1]]
        BY <1>4, <3>2 DEF Recursively
      <4> QED BY <3>2, <4>1, <4>2, <4>3
    <3> QED BY <3>1, <3>2
  <2> QED BY <2>1
<1> DEFINE f == CHOOSE h : Eq(h)
<1>6. Eq(f)
  BY <1>5
<1>7. f = [k \in 0..n |-> IF k = 0 THEN b0 ELSE NextBook(f[k - 1], k, i, c)]
  BY <1>6
<1>8. PaperCandle(rows, i, c) = f[n]
  BY DEF PaperCandle, NextBook
<1> HIDE DEF f
<1> DEFINE S == {k \in 0..n : f[k] \in V}
<1>9. 0 \in S
  BY <1>1, <1>2, <1>7
<1>10. ASSUME NEW k \in Int, 0 < k, k <= n, k - 1 \in S PROVE k \in S
  BY <1>3, <1>7, <1>10
<1>11. 0..n \subseteq S
  <2> HIDE DEF S, n
  <2>1. Hereditary(S, 0, n)
    BY <1>10 DEF Hereditary
  <2> QED BY <1>1, <1>9, <2>1, IntervalInduction
<1>12. f[n] \in V
  BY <1>1, <1>11
<1> QED BY <1>8, <1>12 DEF V

-----------------------------------------------------------------------------
(* Setups: what a row is created with, and what its lifecycle changes.      *)

(* A finite set, one after the other.                                       *)
AllDifferent(s) == \A a, b \in 1..Len(s) : s[a] = s[b] => a = b

LEMMA SetToSeqIs ==
  ASSUME NEW S, IsFiniteSet(S)
  PROVE  /\ SetToSeq(S) \in Seq(S)
         /\ AllDifferent(SetToSeq(S))
<1> DEFINE n == Cardinality(S)
<1>1. n \in Nat /\ ExistsBijection(1..n, S)
  BY FS_CardinalityType
<1>2. \E f \in [1..n -> S] : IsInjective(f)
  BY <1>1 DEF ExistsBijection, Bijection, Injection, IsInjective
<1>3. SetToSeq(S) \in [1..n -> S] /\ IsInjective(SetToSeq(S))
  BY <1>2 DEF SetToSeq
<1>4. SetToSeq(S) \in Seq(S) /\ Len(SetToSeq(S)) = n
  BY <1>1, <1>3
<1> QED BY <1>3, <1>4 DEF IsInjective, AllDifferent

LEMMA LatestBreakIs ==
  ASSUME NEW n \in Nat, NEW known \in SUBSET (1..n), NEW i
  PROVE  LatestBreak(known, i) \in {0} \cup known
<1> DEFINE S == {0} \cup {b \in known : b <= i}
<1>1. S \in SUBSET (0..n) /\ S # {}
  <2>1. 0 \in S /\ \A x \in S : x \in 0..n
    OBVIOUS
  <2> QED BY <2>1
<1>2. \E x \in S : \A y \in S : x >= y
  <2> HIDE DEF S
  <2> QED BY <1>1, GreatestExists
<1>3. Max(S) \in S
  <2> HIDE DEF S
  <2> QED BY <1>2 DEF Max
<1> QED BY <1>3 DEF LatestBreak

(* The new rows of an analysis: one a strategy.                             *)
NewRows(found, decided, wave3, event, i, auto) ==
  {NewSetup(n, event, i, decided[n], auto) : n \in found} \cup
  {NewSetup(n, event, i, Wave3Decision, auto) : n \in wave3}

NewOf(S, strategies, event, i) ==
  \A r \in S : NotRouted(r) /\ r.event = event /\ r.at = i /\ r.strategy \in strategies
OneEach(S) == \A q, r \in S : q.strategy = r.strategy => q = r

LEMMA NewRowsAre ==
  ASSUME NEW found \in SUBSET Structural, NEW decided \in [found -> Decisions],
         NEW wave3 \in SUBSET {PaperOnly}, NEW n \in Nat, NEW known \in SUBSET (1..n),
         NEW event \in {0} \cup known, NEW i \in 1..n, NEW auto
  PROVE  LET S == NewRows(found, decided, wave3, event, i, auto) IN
         /\ IsFiniteSet(S) /\ S \subseteq RowsUpTo(known, n)
         /\ NewOf(S, found \cup wave3, event, i) /\ OneEach(S)
<1> DEFINE A == {NewSetup(x, event, i, decided[x], auto) : x \in found}
           B == {NewSetup(x, event, i, Wave3Decision, auto) : x \in wave3}
           fa == [x \in found |-> NewSetup(x, event, i, decided[x], auto)]
           fb == [x \in wave3 |-> NewSetup(x, event, i, Wave3Decision, auto)]
<1>1. IsFiniteSet(found) /\ IsFiniteSet(wave3)
  <2>1. IsFiniteSet({PaperOnly})
    BY FS_Singleton
  <2> QED BY <2>1, FS_Subset, TradingAssumption
<1>2. IsFiniteSet(A)
  <2>1. fa \in Surjection(found, A)
    BY DEF Surjection
  <2> HIDE DEF fa, A
  <2> QED BY <1>1, <2>1, FS_Surjection
<1>3. IsFiniteSet(B)
  <2>1. fb \in Surjection(wave3, B)
    BY DEF Surjection
  <2> HIDE DEF fb, B
  <2> QED BY <1>1, <2>1, FS_Surjection
<1>4. IsFiniteSet(A \cup B)
  <2> HIDE DEF A, B
  <2> QED BY <1>2, <1>3, FS_Union
<1>5. PaperOnly \notin found
  BY TradingAssumption
<1>6. ASSUME NEW x \in found
      PROVE  LET r == NewSetup(x, event, i, decided[x], auto) IN
             /\ r \in RowsUpTo(known, n) /\ NotRouted(r)
             /\ r.strategy = x /\ r.event = event /\ r.at = i
  <2>1. decided[x] \in Decisions
    OBVIOUS
  <2>2. decided[x].status \in Statuses /\ decided[x].targets \in {0} \cup Counts
    BY <2>1, TradingAssumption DEF Decisions, Statuses, Live
  <2>3. (IF decided[x].status = "ready" /\ auto /\ x # PaperOnly THEN {"created"} ELSE {})
          \in SUBSET {"created", "triggered"}
    OBVIOUS
  <2> QED BY <1>5, <2>2, <2>3 DEF NewSetup, RowsUpTo, NotRouted
<1>7. ASSUME NEW x \in wave3
      PROVE  LET r == NewSetup(x, event, i, Wave3Decision, auto) IN
             /\ r \in RowsUpTo(known, n) /\ NotRouted(r)
             /\ r.strategy = x /\ r.event = event /\ r.at = i
  <2>1. x = PaperOnly
    OBVIOUS
  <2>2. Wave3Decision.status \in Statuses /\ Wave3Decision.targets = 0
    BY DEF Wave3Decision, Statuses, Live
  <2> QED BY <2>1, <2>2 DEF NewSetup, RowsUpTo, NotRouted
<1>8. NewRows(found, decided, wave3, event, i, auto) = A \cup B
  BY DEF NewRows
<1>9. ASSUME NEW q \in A \cup B, NEW r \in A \cup B, q.strategy = r.strategy PROVE q = r
  <2>1. \A x \in found, y \in wave3 : x # y
    BY <1>5
  <2> QED BY <1>6, <1>7, <1>9, <2>1
<1>10. \A r \in A \cup B : /\ r \in RowsUpTo(known, n) /\ NotRouted(r) /\ r.event = event
                            /\ r.at = i /\ r.strategy \in found \cup wave3
  BY <1>6, <1>7
<1> HIDE DEF A, B
<1> QED BY <1>4, <1>8, <1>9, <1>10 DEF NewOf, OneEach

(* The lifecycle changes the status of a live row, and what it was routed   *)
(* by; none becomes ready.                                                  *)
LEMMA LivedIs ==
  ASSUME NEW known, NEW n, NEW r \in RowsUpTo(known, n), NotRouted(r),
         NEW i, NEW c, NEW broken, NEW auto
  PROVE  LET l == Lived(r, i, c, broken, auto) IN
         /\ l \in RowsUpTo(known, n) /\ NotRouted(l)
         /\ l.strategy = r.strategy /\ l.event = r.event /\ l.at = r.at /\ l.targets = r.targets
         /\ r.status \notin Live => l.status = r.status
         /\ r.status # "ready" => l.status # "ready"
<1> DEFINE l == Lived(r, i, c, broken, auto)
           next == IF broken THEN "invalidated" ELSE LifecycleStatus(r, i, c)
<1>1. next \in {"", "expired", "invalidated", "triggered"}
  BY DEF LifecycleStatus
<1>2. CASE r.status \notin Live \/ r.at >= i \/ next = ""
  BY <1>2 DEF Lived
<1>3. CASE ~(r.status \notin Live \/ r.at >= i \/ next = "") /\ next = "triggered"
  <2>1. l = Triggered(r, auto)
    BY <1>3 DEF Lived
  <2> QED BY <1>3, <2>1 DEF Triggered, RowsUpTo, NotRouted, Statuses, Live
<1>4. CASE ~(r.status \notin Live \/ r.at >= i \/ next = "") /\ next \in {"expired", "invalidated"}
  <2>1. l = [r EXCEPT !.status = next]
    BY <1>4 DEF Lived
  <2> HIDE DEF next
  <2> QED BY <1>4, <2>1 DEF RowsUpTo, NotRouted, Statuses, Ended
<1> QED BY <1>1, <1>2, <1>3, <1>4

-----------------------------------------------------------------------------
(* The actions.                                                             *)
EndedKept ==
  /\ \A s \in DOMAIN setups :
       setups[s].status \in Ended => setups'[s].status \in {setups[s].status, "rejected"}
  /\ \A k \in DOMAIN positions :
       positions[k].status \notin ActivePaper => positions'[k] = positions[k]

(* Rows that are those of before but for their statuses.                    *)
LEMMA RowsStayDistinct ==
  ASSUME NEW R, NEW rows \in Seq(R), NEW after \in Seq(R), Len(after) = Len(rows),
         \A s \in DOMAIN rows : SameRow(after[s], rows[s]), NoneRouted(rows), Distinct(rows)
  PROVE  Distinct(after) /\ NoneRouted(after)
<1>1. DOMAIN after = DOMAIN rows
  BY LenProperties
<1>2. NoneRouted(after)
  BY <1>1 DEF NoneRouted, NotRouted, SameRow
<1>3. Distinct(after)
  BY <1>1 DEF Distinct, SameEvent, SameRow
<1> QED BY <1>2, <1>3

(* Rows and new ones behind them, of which none has what another has.       *)
Apart(rows, S) ==
  \A r \in S, s \in DOMAIN rows : ~SameEvent(rows[s], r) /\ ~SameEvent(r, rows[s])

LEMMA Joined ==
  ASSUME NEW R, NEW S \in SUBSET R, NEW old \in Seq(R), NEW new \in Seq(S),
         AllDifferent(new), OneEach(S), \A r \in S : NotRouted(r), NoneRouted(old),
         Apart(old, S), Distinct(old)
  PROVE  LET rows == old \o new IN
         /\ rows \in Seq(R) /\ Len(old) <= Len(rows) /\ NoneRouted(rows) /\ Distinct(rows)
         /\ \A s \in DOMAIN old : rows[s] = old[s]
<1> DEFINE rows == old \o new
           m == Len(old)
<1>1. new \in Seq(R)
  BY SeqMonotonic
<1>2. m \in Nat /\ Len(new) \in Nat /\ DOMAIN old = 1..m
  BY LenProperties
<1>3. /\ rows \in Seq(R) /\ Len(rows) = m + Len(new)
      /\ \A s \in 1..(m + Len(new)) : rows[s] = IF s <= m THEN old[s] ELSE new[s - m]
  BY <1>1, ConcatProperties
<1>4. DOMAIN rows = 1..(m + Len(new))
  BY <1>3, LenProperties
<1> HIDE DEF rows, m
<1>5. ASSUME NEW s \in DOMAIN rows, ~(s <= m)
      PROVE  s - m \in 1..Len(new) /\ rows[s] = new[s - m] /\ rows[s] \in S
  <2>1. s - m \in 1..Len(new) /\ rows[s] = new[s - m]
    BY <1>2, <1>3, <1>4, <1>5
  <2>2. new[s - m] \in S
    BY <2>1, ElementOfSeq
  <2> QED BY <2>1, <2>2
<1>6. ASSUME NEW s \in DOMAIN rows, s <= m
      PROVE  s \in DOMAIN old /\ rows[s] = old[s]
  BY <1>2, <1>3, <1>4, <1>6
<1>7. NoneRouted(rows)
  <2> SUFFICES ASSUME NEW s \in DOMAIN rows PROVE NotRouted(rows[s])
    BY DEF NoneRouted
  <2>1. CASE s <= m
    BY <1>6, <2>1 DEF NoneRouted
  <2>2. CASE ~(s <= m)
    BY <1>5, <2>2
  <2> QED BY <2>1, <2>2
<1>8. Distinct(rows)
  <2> SUFFICES ASSUME NEW r \in DOMAIN rows, NEW s \in DOMAIN rows, SameEvent(rows[r], rows[s])
               PROVE  r = s
    BY DEF Distinct
  <2>1. CASE r <= m /\ s <= m
    BY <1>6, <2>1 DEF Distinct
  <2>2. CASE ~(r <= m) /\ ~(s <= m)
    <3>1. rows[r].strategy = rows[s].strategy
      BY DEF SameEvent
    <3>2. rows[r] = rows[s]
      BY <1>5, <2>2, <3>1 DEF OneEach
    <3>3. r - m = s - m
      BY <1>5, <2>2, <3>2 DEF AllDifferent
    <3> QED BY <1>2, <1>4, <3>3
  <2>3. CASE r <= m /\ ~(s <= m)
    BY <1>5, <1>6, <2>3 DEF Apart
  <2>4. CASE ~(r <= m) /\ s <= m
    BY <1>5, <1>6, <2>4 DEF Apart
  <2> QED BY <2>1, <2>2, <2>3, <2>4
<1>9. Len(old) <= Len(rows) /\ \A s \in DOMAIN old : rows[s] = old[s]
  BY <1>2, <1>3 DEF m
<1> QED BY <1>3, <1>7, <1>8, <1>9 DEF rows

(* The rows that were there, after their lifecycle.                         *)
LivedRows(i, c, broken, auto) ==
  [s \in DOMAIN setups |-> Lived(setups[s], i, c, s \in broken, auto)]

Aged(l, r) ==
  /\ l.strategy = r.strategy /\ l.event = r.event /\ l.at = r.at /\ l.targets = r.targets
  /\ r.status \notin Live => l.status = r.status
  /\ r.status # "ready" => l.status # "ready"

AgedRows(rows) == \A s \in DOMAIN setups : Aged(rows[s], setups[s])

LEMMA LivedRowsAre ==
  ASSUME TradingInv, NEW known, breaks \subseteq known, NEW i, NEW c, NEW broken, NEW auto
  PROVE  LET lived == LivedRows(i, c, broken, auto) IN
         /\ lived \in Seq(RowsUpTo(known, Len(candles))) /\ Len(lived) = Len(setups)
         /\ DOMAIN lived = DOMAIN setups /\ NoneRouted(lived) /\ AgedRows(lived)
<1> DEFINE n == Len(candles)
           R == RowsUpTo(known, n)
           lived == LivedRows(i, c, broken, auto)
<1>1. Len(setups) \in Nat /\ DOMAIN setups = 1..Len(setups)
  BY LenProperties DEF TradingInv
<1>2. ASSUME NEW s \in DOMAIN setups
      PROVE  lived[s] \in R /\ NotRouted(lived[s]) /\ Aged(lived[s], setups[s])
  <2>1. setups[s] \in RowsUpTo(breaks, n) /\ NotRouted(setups[s])
    BY <1>1, ElementOfSeq DEF TradingInv, NoneRouted
  <2>2. setups[s] \in R
    BY <2>1 DEF RowsUpTo
  <2>3. lived[s] = Lived(setups[s], i, c, s \in broken, auto)
    BY DEF LivedRows
  <2> HIDE DEF lived, n
  <2> QED BY <2>1, <2>2, <2>3, LivedIs DEF Aged
<1>3. lived \in Seq(R) /\ Len(lived) = Len(setups) /\ DOMAIN lived = DOMAIN setups
  <2>1. lived = [s \in 1..Len(setups) |-> lived[s]]
    BY <1>1 DEF LivedRows
  <2> HIDE DEF R, lived
  <2>2. lived \in [1..Len(setups) -> R]
    BY <1>1, <1>2, <2>1
  <2> QED BY <1>1, <2>2
<1> HIDE DEF lived
<1>4. NoneRouted(lived) /\ AgedRows(lived)
  BY <1>2, <1>3 DEF NoneRouted, AgedRows
<1> QED BY <1>3, <1>4 DEF lived

(* The rows an analysis works on: the lived ones and the new ones.          *)
NoneExists(strategies, event, i) == \A x \in strategies : ~Existing(x, event, i)

LEMMA RowsOfAnalysis ==
  ASSUME TradingInv, NEW i \in DOMAIN candles, NEW c, NEW found \in SUBSET Structural,
         NEW decided \in [found -> Decisions], NEW wave3 \in SUBSET {PaperOnly},
         NEW auto, NEW broken, NEW known \in SUBSET (1..Len(candles)), breaks \subseteq known,
         NEW event \in {0} \cup known, NoneExists(found \cup wave3, event, i)
  PROVE  LET rows == LivedRows(i, c, broken, auto)
                       \o SetToSeq(NewRows(found, decided, wave3, event, i, auto))
         IN  /\ rows \in Seq(RowsUpTo(known, Len(candles))) /\ Len(setups) <= Len(rows)
             /\ NoneRouted(rows) /\ Distinct(rows) /\ AgedRows(rows)
<1> DEFINE R == RowsUpTo(known, Len(candles))
           S == NewRows(found, decided, wave3, event, i, auto)
           new == SetToSeq(S)
           lived == LivedRows(i, c, broken, auto)
<1>1. Len(candles) \in Nat /\ i \in 1..Len(candles)
  BY LenProperties DEF TradingInv
<1>2. /\ IsFiniteSet(S) /\ S \subseteq R /\ NewOf(S, found \cup wave3, event, i) /\ OneEach(S)
  BY <1>1, NewRowsAre
<1>3. /\ lived \in Seq(R) /\ Len(lived) = Len(setups) /\ DOMAIN lived = DOMAIN setups
      /\ NoneRouted(lived) /\ AgedRows(lived)
  BY LivedRowsAre
<1> HIDE DEF S, R, lived
<1>4. new \in Seq(S) /\ AllDifferent(new)
  BY <1>2, SetToSeqIs
<1> HIDE DEF new
<1>5. Apart(lived, S)
  <2> SUFFICES ASSUME NEW r \in S, NEW s \in DOMAIN lived
               PROVE  ~SameEvent(lived[s], r) /\ ~SameEvent(r, lived[s])
    BY DEF Apart
  <2>1. ~Existing(r.strategy, r.event, r.at)
    BY <1>2 DEF NewOf, NoneExists
  <2>2. /\ s \in DOMAIN setups /\ lived[s].strategy = setups[s].strategy
        /\ lived[s].event = setups[s].event /\ lived[s].at = setups[s].at
    BY <1>3 DEF AgedRows, Aged
  <2> QED BY <2>1, <2>2 DEF Existing, SameEvent
<1>6. Distinct(lived)
  <2> SUFFICES ASSUME NEW r \in DOMAIN lived, NEW s \in DOMAIN lived, SameEvent(lived[r], lived[s])
               PROVE  r = s
    BY DEF Distinct
  <2>1. SameEvent(setups[r], setups[s])
    BY <1>3 DEF SameEvent, AgedRows, Aged
  <2> QED BY <1>3, <2>1 DEF TradingInv, Distinct
<1>7. S \in SUBSET R /\ \A r \in S : NotRouted(r)
  BY <1>2 DEF NewOf
<1> DEFINE rows == lived \o new
<1>8. /\ rows \in Seq(R) /\ Len(lived) <= Len(rows) /\ NoneRouted(rows) /\ Distinct(rows)
      /\ \A s \in DOMAIN lived : rows[s] = lived[s]
  BY <1>2, <1>3, <1>4, <1>5, <1>6, <1>7, Joined
<1> HIDE DEF rows
<1>9. Len(setups) <= Len(rows) /\ AgedRows(rows)
  BY <1>3, <1>8 DEF AgedRows
<1> QED BY <1>8, <1>9 DEF rows, lived, new, S, R

LEMMA AnalyseKeeps ==
  ASSUME TradingInv, NEW i \in DOMAIN candles, NEW broke, NEW found \in SUBSET Structural,
         NEW decided \in [found -> Decisions], NEW wave3 \in SUBSET {PaperOnly},
         NEW auto, NEW broken, Analyse(i, broke, decided, wave3, broken, auto)
  PROVE  TradingInv' /\ EndedKept
<1> DEFINE known == IF broke THEN breaks \cup {i} ELSE breaks
           event == LatestBreak(known, i)
           rows == LivedRows(i, candles[i], broken, auto)
                     \o SetToSeq(NewRows(found, decided, wave3, event, i, auto))
           paper == PaperCandle(rows, i, candles[i])
           R == RowsUpTo(known, Len(candles))
           n == Len(positions)
<1>1. /\ breaks' = known /\ setups' = paper.rows /\ positions' = paper.positions
      /\ account' = [account EXCEPT !.balance = paper.balance] /\ candles' = candles
      /\ NoneExists(found \cup wave3, event, i)
  BY DEF Analyse, NewRows, LivedRows, NoneExists
<1>1a. /\ known \in SUBSET (1..Len(candles)) /\ breaks \subseteq known
       /\ i \in 1..Len(candles) /\ Len(candles) \in Nat
  BY LenProperties DEF TradingInv
<1>1b. event \in {0} \cup known
  <2> HIDE DEF known
  <2> QED BY <1>1a, LatestBreakIs
<1> HIDE DEF known, event, paper
<1>2. /\ rows \in Seq(R) /\ Len(setups) <= Len(rows)
      /\ NoneRouted(rows) /\ Distinct(rows) /\ AgedRows(rows)
  BY <1>1, <1>1a, <1>1b, RowsOfAnalysis
<1> HIDE DEF rows
<1>3. /\ n \in Nat /\ DOMAIN positions = 1..n /\ Len(candles) \in Nat
      /\ Len(setups) \in Nat /\ DOMAIN setups = 1..Len(setups)
      /\ Len(rows) \in Nat /\ DOMAIN rows = 1..Len(rows)
      /\ account.since \in 0..n /\ account.balance \in Int
  BY <1>2, LenProperties DEF TradingInv
<1>4. positions \in Seq(PositionsOf(Len(rows)))
  <2>1. PositionsOf(Len(setups)) \subseteq PositionsOf(Len(rows))
    BY <1>2, <1>3 DEF PositionsOf
  <2> QED BY <2>1, SeqMonotonic DEF TradingInv
<1> DEFINE b0 == [rows |-> rows, positions |-> positions, balance |-> account.balance]
<1>5. InOrder(b0, n, account.since)
  <2>1. \A k \in 1..n : positions[k].setup \in DOMAIN setups
    <3> TAKE k \in 1..n
    <3>1. positions[k] \in PositionsOf(Len(setups))
      BY ElementOfSeq DEF TradingInv
    <3> QED BY <1>3, <3>1 DEF PositionsOf
  <2>2. Linked(setups, positions)
    BY DEF TradingInv
  <2>3. Linked(rows, positions)
    BY <1>2, <1>3, <2>1, <2>2 DEF Linked, Live, Aged, AgedRows
  <2>4. Balanced(positions, account.balance, account.since)
    BY DEF TradingInv
  <2>5. \A k \in 1..n : Settled(positions[k])
    BY <1>3 DEF TradingInv
  <2> QED BY <2>3, <2>4, <2>5 DEF InOrder
<1>6. /\ paper \in BookRecords(R, Len(rows)) /\ RowsKept(paper, rows)
      /\ InOrder(paper, n, account.since) /\ DoneKept(paper)
  <2> HIDE DEF b0
  <2>1. b0 = [rows |-> rows, positions |-> positions, balance |-> account.balance]
    BY DEF b0
  <2> QED BY <1>2, <1>3, <1>4, <1>5, <2>1, PaperCandleIs DEF paper
<1>7. /\ setups' \in Seq(R) /\ Len(setups') = Len(rows) /\ R = RowsUpTo(breaks', Len(candles'))
      /\ positions' \in Seq(PositionsOf(Len(setups'))) /\ Len(positions') = n
      /\ paper.balance \in Int
  BY <1>1, <1>6 DEF BookRecords, RowsKept, InOrder
<1>8. \A s \in DOMAIN rows : SameRow(setups'[s], rows[s])
                              /\ (rows[s].status \in Ended => setups'[s].status = rows[s].status)
  BY <1>1, <1>6 DEF RowsKept
<1>9. Distinct(setups') /\ NoneRouted(setups')
  <2> HIDE DEF R
  <2> QED BY <1>2, <1>7, <1>8, RowsStayDistinct
<1>10. /\ account' \in [starting : {Starting}, balance : Int, since : 0..Len(positions')]
       /\ account'.balance = paper.balance /\ account'.since = account.since
  <2>1. account \in [starting : {Starting}, balance : Int, since : 0..n]
    BY DEF TradingInv
  <2> QED BY <1>1, <1>7, <2>1
<1>11. /\ Linked(setups', positions') /\ Balanced(positions', account'.balance, account'.since)
       /\ \A k \in DOMAIN positions' : Settled(positions'[k])
  <2>1. DOMAIN positions' = 1..n
    BY <1>7, LenProperties
  <2> QED BY <1>1, <1>6, <1>10, <2>1 DEF InOrder
<1>12. TradingInv'
  <2>1. Distinct(setups)' /\ NoneRouted(setups)'
    BY <1>9 DEF Distinct, SameEvent, NoneRouted, NotRouted
  <2>2. /\ Linked(setups, positions)' /\ Balanced(positions, account.balance, account.since)'
        /\ (\A k \in DOMAIN positions : Settled(positions[k]))'
    BY <1>11 DEF Linked, Balanced, Settled, Results
  <2>3. /\ (setups \in Seq(RowsUpTo(breaks, Len(candles))))'
        /\ (positions \in Seq(PositionsOf(Len(setups))))'
    BY <1>1, <1>7 DEF RowsUpTo, PositionsOf
  <2>4. (breaks \subseteq 1..Len(candles))'
    BY <1>1, <1>1a
  <2>5. (candles \in Seq(StoredCandles) /\ \E m \in Markets : IsPrefix(candles, m))'
    BY <1>1 DEF TradingInv
  <2> QED BY <1>10, <2>1, <2>2, <2>3, <2>4, <2>5 DEF TradingInv
<1>13. EndedKept
  <2>1. ASSUME NEW s \in DOMAIN setups, setups[s].status \in Ended
        PROVE  setups'[s].status = setups[s].status
    <3>1. s \in DOMAIN rows /\ rows[s].status = setups[s].status
      BY <1>2, <1>3, <2>1 DEF Ended, Live, Aged, AgedRows
    <3> QED BY <1>8, <2>1, <3>1
  <2>2. ASSUME NEW k \in DOMAIN positions, positions[k].status \notin ActivePaper
        PROVE  positions'[k] = positions[k]
    <3>1. k \in DOMAIN paper.positions
      BY <1>1, <1>3, <1>7, LenProperties
    <3> QED BY <1>1, <1>6, <2>2, <3>1 DEF DoneKept
  <2> QED BY <2>1, <2>2 DEF EndedKept
<1> QED BY <1>12, <1>13

(* A request sets the status of one setup.                                  *)
WithStatus(s, status) == [setups EXCEPT ![s].status = status]

StatusOnly(after, s, status) ==
  /\ after \in Seq(RowsUpTo(breaks, Len(candles))) /\ Len(after) = Len(setups)
  /\ NoneRouted(after) /\ Distinct(after)
  /\ \A j \in DOMAIN setups :
       /\ SameRow(after[j], setups[j])
       /\ after[j].status = IF j = s THEN status ELSE setups[j].status

LEMMA StatusSet ==
  ASSUME TradingInv, NEW s \in DOMAIN setups, NEW status \in Statuses
  PROVE  StatusOnly(WithStatus(s, status), s, status)
<1> DEFINE after == WithStatus(s, status)
           R == RowsUpTo(breaks, Len(candles))
           r == [setups[s] EXCEPT !.status = status]
<1>1. setups \in Seq(R) /\ DOMAIN setups = 1..Len(setups)
  BY LenProperties DEF TradingInv
<1>2. setups[s] \in R
  BY <1>1, ElementOfSeq
<1>3. r \in R /\ SameRow(r, setups[s]) /\ r.status = status
  BY <1>2 DEF RowsUpTo, SameRow
<1>4. after = [setups EXCEPT ![s] = r]
  BY DEF WithStatus
<1> HIDE DEF r, R, after
<1>5. /\ after \in Seq(R) /\ Len(after) = Len(setups)
      /\ \A j \in 1..Len(setups) : after[j] = IF j = s THEN r ELSE setups[j]
  BY <1>1, <1>3, <1>4, ExceptSeq
<1>6. \A j \in DOMAIN setups : /\ SameRow(after[j], setups[j])
                              /\ after[j].status = IF j = s THEN status ELSE setups[j].status
  BY <1>1, <1>3, <1>5 DEF SameRow
<1>7. NoneRouted(after) /\ Distinct(after)
  BY <1>1, <1>5, <1>6, RowsStayDistinct DEF TradingInv
<1> QED BY <1>5, <1>6, <1>7 DEF R, after, StatusOnly

LEMMA RejectKeeps ==
  ASSUME TradingInv, NEW s \in DOMAIN setups, RejectTradeSetup(s)
  PROVE  TradingInv' /\ EndedKept
<1>1. "rejected" \in Statuses
  BY DEF Statuses
<1>2. /\ setups' = [setups EXCEPT ![s].status = "rejected"]
      /\ UNCHANGED <<candles, breaks, positions, account>>
  BY DEF RejectTradeSetup
<1>3. /\ setups' \in Seq(RowsUpTo(breaks, Len(candles))) /\ Len(setups') = Len(setups)
      /\ NoneRouted(setups') /\ Distinct(setups')
      /\ \A j \in DOMAIN setups :
           /\ SameRow(setups'[j], setups[j])
           /\ setups'[j].status = IF j = s THEN "rejected" ELSE setups[j].status
  <2>1. setups' = WithStatus(s, "rejected")
    BY <1>2 DEF WithStatus
  <2> QED BY <1>1, <2>1, StatusSet DEF StatusOnly
<1>4. Linked(setups', positions)
  <2>1. \A k \in DOMAIN positions : positions[k].setup \in DOMAIN setups
    <3> TAKE k \in DOMAIN positions
    <3>1. positions[k] \in PositionsOf(Len(setups)) /\ DOMAIN setups = 1..Len(setups)
      BY ElementOfSeq, LenProperties DEF TradingInv
    <3> QED BY <3>1 DEF PositionsOf
  <2> QED BY <1>3, <2>1 DEF TradingInv, Linked, SameRow
<1>5. TradingInv'
  <2>1. Linked(setups, positions)'
    BY <1>2, <1>4 DEF Linked
  <2>2. NoneRouted(setups)' /\ Distinct(setups)'
    BY <1>3 DEF NoneRouted, NotRouted, Distinct, SameEvent
  <2>3. /\ (setups \in Seq(RowsUpTo(breaks, Len(candles))))'
        /\ (positions \in Seq(PositionsOf(Len(setups))))'
    BY <1>2, <1>3 DEF TradingInv, RowsUpTo, PositionsOf
  <2>4. Balanced(positions, account.balance, account.since)'
    BY <1>2 DEF TradingInv, Balanced, Results
  <2> QED BY <1>2, <2>1, <2>2, <2>3, <2>4 DEF TradingInv, Settled
<1>6. EndedKept
  BY <1>2, <1>3 DEF EndedKept
<1> QED BY <1>5, <1>6

(* A position that has realized nothing is added.                           *)
LEMMA BalancedAppend ==
  ASSUME NEW n \in Nat, NEW ps \in Seq(PositionsOf(n)), NEW balance \in Int,
         NEW since \in 0..Len(ps), Balanced(ps, balance, since),
         NEW p \in PositionsOf(n), p.realized = 0
  PROVE  Balanced(Append(ps, p), balance, since)
<1> DEFINE qs == Append(ps, p)
           q == Results(ps)
           r == Results(qs)
           m == Len(ps) + 1
<1>1. /\ qs \in Seq(PositionsOf(n)) /\ Len(qs) = m /\ qs[m] = p
      /\ \A j \in 1..Len(ps) : qs[j] = ps[j]
  BY AppendProperties
<1>2. /\ m \in Int /\ Len(ps) \in Nat /\ m - 1 = Len(ps) /\ DOMAIN ps = 1..Len(ps)
      /\ DOMAIN qs = 1..m /\ since \in Nat /\ since <= Len(ps)
  BY <1>1, LenProperties
<1> HIDE DEF qs, m
<1>3. ASSUME NEW j \in 1..Len(ps)
      PROVE  q[j] = ps[j].realized /\ r[j] = q[j] /\ q[j] \in Int
  <2>1. ps[j] \in PositionsOf(n) /\ j \in 1..m
    BY <1>2, ElementOfSeq
  <2> QED BY <1>1, <1>2, <2>1 DEF Results, PositionsOf
<1>4. r[m] = 0
  BY <1>1, <1>2 DEF Results
<1> HIDE DEF q, r
<1>5. \A j \in (since + 1)..Len(ps) : j \in 1..Len(ps)
  BY <1>2
<1>6. Summands(q, since + 1, m - 1)
  BY <1>2, <1>3, <1>5 DEF Summands
<1>7. Summands(r, since + 1, m)
  <2>1. \A j \in (since + 1)..m : j = m \/ j \in 1..Len(ps)
    BY <1>2
  <2> QED BY <1>3, <1>4, <2>1 DEF Summands
<1>8. /\ since + 1 \in Int /\ m \in Int /\ since + 1 <= m /\ m - 1 \in Int
      /\ since + 1 - 1 <= m - 1
  BY <1>2
<1>9. Total(r, since + 1, m) = Total(r, since + 1, m - 1) + r[m]
  BY <1>7, <1>8, TotalStep
<1>10. Total(q, since + 1, m - 1) = Total(r, since + 1, m - 1)
  <2>1. \A j \in (since + 1)..(m - 1) : q[j] = r[j]
    BY <1>2, <1>3, <1>5
  <2> QED BY <1>6, <1>8, <2>1, TotalAgrees
<1>11. Total(q, since + 1, m - 1) \in Int
  BY <1>6, <1>8, TotalType
<1>12. \A j \in 1..since : qs[j].status \notin ActivePaper
  <2>1. \A j \in 1..since : j \in 1..Len(ps)
    BY <1>2
  <2> QED BY <1>1, <2>1 DEF Balanced
<1>13. balance = Starting + Total(q, since + 1, Len(ps))
  BY DEF Balanced, q
<1>14. balance = Starting + Total(r, since + 1, m)
  BY <1>2, <1>4, <1>9, <1>10, <1>11, <1>13, TradingAssumption
<1> QED BY <1>1, <1>12, <1>14 DEF Balanced, qs, r

LEMMA PaperKeeps ==
  ASSUME TradingInv, NEW s \in DOMAIN setups, PaperTradeSetup(s)
  PROVE  TradingInv' /\ EndedKept
<1> DEFINE p == [setup |-> s, status |-> "waiting_entry", quantity |-> Whole, stop |-> Stop,
                 targets |-> 1..setups[s].targets, realized |-> 0]
<1>1. "waiting_entry" \in Statuses
  BY DEF Statuses
<1>2. /\ setups' = [setups EXCEPT ![s].status = "waiting_entry"]
      /\ positions' = Append(positions, p)
      /\ setups[s].status = "ready" /\ setups[s].targets > 0
      /\ UNCHANGED <<candles, breaks, account>>
  BY DEF PaperTradeSetup
<1>3. /\ setups' \in Seq(RowsUpTo(breaks, Len(candles))) /\ Len(setups') = Len(setups)
      /\ NoneRouted(setups') /\ Distinct(setups')
      /\ \A j \in DOMAIN setups :
           /\ SameRow(setups'[j], setups[j])
           /\ setups'[j].status = IF j = s THEN "waiting_entry" ELSE setups[j].status
  <2>1. setups' = WithStatus(s, "waiting_entry")
    BY <1>2 DEF WithStatus
  <2> QED BY <1>1, <2>1, StatusSet DEF StatusOnly
<1>4. /\ Len(setups) \in Nat /\ DOMAIN setups = 1..Len(setups)
      /\ Len(positions) \in Nat /\ DOMAIN positions = 1..Len(positions)
  BY LenProperties DEF TradingInv
<1>5. p \in PositionsOf(Len(setups)) /\ Settled(p) /\ p.realized = 0
  <2>1. setups[s] \in RowsUpTo(breaks, Len(candles))
    BY <1>4, ElementOfSeq DEF TradingInv
  <2>2. 1..setups[s].targets \in SUBSET (1..3)
    <3>1. setups[s].targets \in 0..3
      <4>1. setups[s].targets \in {0} \cup Counts
        BY <2>1 DEF RowsUpTo
      <4>2. Counts \subseteq 1..3
        BY TradingAssumption
      <4>3. ASSUME NEW n \in Counts PROVE n \in 0..3
        <5>1. n \in 1..3
          BY <4>2
        <5> QED BY <5>1
      <4>4. CASE setups[s].targets = 0
        BY <4>4
      <4> QED BY <4>1, <4>3, <4>4
    <3>2. \A n \in 0..3 : 1..n \in SUBSET (1..3)
      OBVIOUS
    <3> QED BY <3>1, <3>2
  <2>3. p \in PositionsOf(Len(setups))
    BY <1>4, <2>2 DEF PositionsOf, ActivePaper, Whole
  <2> QED BY <2>3 DEF Settled, Whole
<1>6. p.setup = s /\ p.status = "waiting_entry"
  OBVIOUS
<1> HIDE DEF p
<1>7. /\ positions' \in Seq(PositionsOf(Len(setups))) /\ Len(positions') = Len(positions) + 1
      /\ \A k \in 1..(Len(positions) + 1) :
           positions'[k] = IF k <= Len(positions) THEN positions[k] ELSE p
  <2>1. positions \in Seq(PositionsOf(Len(setups)))
    BY DEF TradingInv
  <2> QED BY <1>2, <1>4, <1>5, <2>1, AppendProperties
<1>8. DOMAIN positions' = 1..(Len(positions) + 1)
  BY <1>7, LenProperties
<1>9. Linked(setups', positions')
  <2>1. ASSUME NEW k \in DOMAIN positions
        PROVE  positions[k].setup \in DOMAIN setups /\ positions[k].setup # s
    <3>1. positions[k] \in PositionsOf(Len(setups))
      BY <1>4, ElementOfSeq DEF TradingInv
    <3>2. positions[k].setup \in DOMAIN setups
      BY <1>4, <3>1 DEF PositionsOf
    <3>3. setups[positions[k].setup].status # "ready"
      BY DEF TradingInv, Linked
    <3> QED BY <1>2, <3>2, <3>3
  <2>2. ASSUME NEW k \in DOMAIN positions'
        PROVE  \/ k \in DOMAIN positions /\ positions'[k] = positions[k]
               \/ k = Len(positions) + 1 /\ positions'[k] = p
    BY <1>4, <1>7, <1>8
  <2>3. ASSUME NEW k \in DOMAIN positions'
        PROVE  /\ setups'[positions'[k].setup].targets > 0
               /\ setups'[positions'[k].setup].status # "ready"
               /\ positions'[k].status = "waiting_entry" =>
                    setups'[positions'[k].setup].status \in {"waiting_entry", "rejected"}
    <3>1. CASE k \in DOMAIN positions /\ positions'[k] = positions[k]
      BY <1>3, <2>1, <3>1 DEF TradingInv, Linked, SameRow
    <3>2. CASE positions'[k] = p
      BY <1>2, <1>3, <1>6, <3>2 DEF SameRow
    <3> QED BY <2>2, <3>1, <3>2
  <2>4. ASSUME NEW j \in DOMAIN positions', NEW k \in DOMAIN positions',
               positions'[j].setup = positions'[k].setup
        PROVE  j = k
    <3>1. CASE j \in DOMAIN positions /\ k \in DOMAIN positions
      <4>1. positions'[j] = positions[j] /\ positions'[k] = positions[k]
        BY <1>4, <1>7, <3>1
      <4> QED BY <2>4, <3>1, <4>1 DEF TradingInv, Linked
    <3>2. CASE ~(j \in DOMAIN positions /\ k \in DOMAIN positions)
      BY <1>6, <2>1, <2>2, <2>4, <3>2
    <3> QED BY <3>1, <3>2
  <2> QED BY <2>3, <2>4 DEF Linked
<1>10. account.since \in 0..Len(positions) /\ account.balance \in Int
  BY DEF TradingInv
<1>11. Balanced(positions', account.balance, account.since)
  BY <1>2, <1>4, <1>5, <1>10, BalancedAppend DEF TradingInv
<1>12. \A k \in DOMAIN positions' : Settled(positions'[k])
  BY <1>4, <1>5, <1>7, <1>8 DEF TradingInv
<1>13. TradingInv'
  <2>1. Linked(setups, positions)'
    BY <1>9 DEF Linked
  <2>2. NoneRouted(setups)' /\ Distinct(setups)'
    BY <1>3 DEF NoneRouted, NotRouted, Distinct, SameEvent
  <2>3. /\ (setups \in Seq(RowsUpTo(breaks, Len(candles))))'
        /\ (positions \in Seq(PositionsOf(Len(setups))))'
    BY <1>2, <1>3, <1>7 DEF RowsUpTo, PositionsOf
  <2>4. Balanced(positions, account.balance, account.since)'
    BY <1>2, <1>11 DEF Balanced, Results
  <2>5. (account \in [starting : {Starting}, balance : Int, since : 0..Len(positions)])'
    BY <1>2, <1>4, <1>7 DEF TradingInv
  <2>6. (\A k \in DOMAIN positions : Settled(positions[k]))'
    BY <1>12 DEF Settled
  <2> QED BY <1>2, <2>1, <2>2, <2>3, <2>4, <2>5, <2>6 DEF TradingInv
<1>14. EndedKept
  <2>1. \A k \in DOMAIN positions : positions'[k] = positions[k]
    BY <1>2, <1>4, AppendProperties
  <2> QED BY <1>2, <1>3, <2>1 DEF EndedKept, Ended
<1> QED BY <1>13, <1>14

(* A position changes on its own, or with the status of its setup.          *)
LEMMA PositionChanges ==
  ASSUME TradingInv, NEW k \in DOMAIN positions, NEW p \in PositionsOf(Len(setups)),
         Settled(p), p.setup = positions[k].setup, p.status # "waiting_entry",
         positions[k].status \in ActivePaper, NEW after \in Int,
         after - account.balance = p.realized - positions[k].realized,
         positions' = [positions EXCEPT ![k] = p],
         account' = [account EXCEPT !.balance = after],
         UNCHANGED <<candles, breaks>>,
         \/ setups' = setups
         \/ setups' = WithStatus(positions[k].setup, "cancelled")
  PROVE  TradingInv'
<1> DEFINE s == positions[k].setup
           n == Len(setups)
<1>1. /\ n \in Nat /\ DOMAIN setups = 1..n /\ setups \in Seq(RowsUpTo(breaks, Len(candles)))
      /\ Len(positions) \in Nat /\ DOMAIN positions = 1..Len(positions)
      /\ positions \in Seq(PositionsOf(n))
      /\ account.since \in 0..Len(positions) /\ account.balance \in Int
  BY LenProperties DEF TradingInv
<1>2. s \in 1..n
  <2>1. positions[k] \in PositionsOf(n)
    BY <1>1, ElementOfSeq
  <2> QED BY <2>1 DEF PositionsOf
<1>3. StatusOnly(setups', s, setups'[s].status) /\ setups'[s].status # "ready"
  <2>1. CASE setups' = setups
    <3>1. setups[s].status # "ready"
      BY DEF TradingInv, Linked
    <3> QED BY <1>1, <2>1, <3>1 DEF TradingInv, StatusOnly, SameRow
  <2>2. CASE setups' = WithStatus(s, "cancelled")
    <3>1. "cancelled" \in Statuses
      BY DEF Statuses, Ended
    <3> HIDE DEF s
    <3>2. StatusOnly(setups', s, "cancelled")
      BY <1>1, <1>2, <2>2, <3>1, StatusSet
    <3> QED BY <1>1, <1>2, <3>2 DEF StatusOnly
  <2> QED BY <2>1, <2>2
<1>4. /\ positions' \in Seq(PositionsOf(n)) /\ Len(positions') = Len(positions)
      /\ \A j \in 1..Len(positions) : positions'[j] = IF j = k THEN p ELSE positions[j]
  BY <1>1, ExceptSeq
<1>5. DOMAIN positions' = 1..Len(positions)
  BY <1>4, LenProperties
<1>6. Linked(setups', positions')
  <2>1. ASSUME NEW j \in DOMAIN positions
        PROVE  /\ setups'[positions'[j].setup].targets > 0
               /\ setups'[positions'[j].setup].status # "ready"
               /\ positions'[j].status = "waiting_entry" =>
                    setups'[positions'[j].setup].status \in {"waiting_entry", "rejected"}
               /\ positions'[j].setup = positions[j].setup
    <3>1. positions[j].setup \in DOMAIN setups
      <4>1. positions[j] \in PositionsOf(n)
        BY <1>1, ElementOfSeq
      <4> QED BY <1>1, <4>1 DEF PositionsOf
    <3>2. setups[positions[j].setup].targets > 0 /\ setups[positions[j].setup].status # "ready"
          /\ (positions[j].status = "waiting_entry" =>
                 setups[positions[j].setup].status \in {"waiting_entry", "rejected"})
      BY DEF TradingInv, Linked
    <3>3. CASE j = k
      BY <1>1, <1>3, <1>4, <3>1, <3>2, <3>3 DEF StatusOnly, SameRow
    <3>4. CASE j # k
      <4>1. positions'[j] = positions[j] /\ positions[j].setup # s
        BY <1>1, <1>4, <3>4 DEF TradingInv, Linked
      <4> QED BY <1>3, <3>1, <3>2, <4>1 DEF StatusOnly, SameRow
    <3> QED BY <3>3, <3>4
  <2> QED BY <1>1, <1>5, <2>1 DEF TradingInv, Linked
<1>7. Balanced(positions', after, account.since)
  <2>1. positions[k].status \notin ActivePaper => p = positions[k]
    OBVIOUS
  <2> HIDE DEF n
  <2>2. Balanced([positions EXCEPT ![k] = p], after, account.since)
    <3>1. Balanced(positions, account.balance, account.since) /\ k \in 1..Len(positions)
      BY <1>1 DEF TradingInv
    <3> QED BY <1>1, <2>1, <3>1, BalancedStep DEF n
  <2> QED BY <2>2
<1>8. /\ account' \in [starting : {Starting}, balance : Int, since : 0..Len(positions')]
      /\ account'.balance = after /\ account'.since = account.since
  BY <1>4 DEF TradingInv
<1>9. \A j \in DOMAIN positions' : Settled(positions'[j])
  BY <1>1, <1>4, <1>5 DEF TradingInv
<1> HIDE DEF s
<1>10. Linked(setups, positions)'
  BY <1>6 DEF Linked
<1>11. NoneRouted(setups)' /\ Distinct(setups)'
  BY <1>3 DEF StatusOnly, NoneRouted, NotRouted, Distinct, SameEvent
<1>12. /\ (setups \in Seq(RowsUpTo(breaks, Len(candles))))'
       /\ (positions \in Seq(PositionsOf(Len(setups))))'
  BY <1>3, <1>4 DEF StatusOnly, RowsUpTo, PositionsOf
<1>13. Balanced(positions, account.balance, account.since)'
  BY <1>7, <1>8 DEF Balanced, Results
<1>14. (\A j \in DOMAIN positions : Settled(positions[j]))'
  BY <1>9 DEF Settled
<1> QED BY <1>8, <1>10, <1>11, <1>12, <1>13, <1>14 DEF TradingInv

LEMMA CancelKeeps ==
  ASSUME TradingInv, NEW k \in DOMAIN positions, CancelPaperPosition(k)
  PROVE  TradingInv' /\ EndedKept
<1> DEFINE p == [positions[k] EXCEPT !.status = "cancelled"]
           s == positions[k].setup
<1>1. /\ positions[k].status = "waiting_entry" /\ setups' = WithStatus(s, "cancelled")
      /\ positions' = [positions EXCEPT ![k] = p] /\ account' = account
      /\ UNCHANGED <<candles, breaks>>
  BY DEF CancelPaperPosition, CancelledPosition, WithStatus
<1>2. positions[k] \in PositionsOf(Len(setups)) /\ Settled(positions[k])
  BY ElementOfSeq, LenProperties DEF TradingInv
<1>3. /\ p \in PositionsOf(Len(setups)) /\ Settled(p) /\ p.setup = s
      /\ p.status # "waiting_entry" /\ p.realized = positions[k].realized
      /\ p.realized \in Int
  BY <1>1, <1>2 DEF PositionsOf, Settled, Ended, Whole
<1>4. /\ account' = [account EXCEPT !.balance = account.balance] /\ account.balance \in Int
      /\ account.balance - account.balance = p.realized - positions[k].realized
  BY <1>1, <1>3 DEF TradingInv
<1>5. positions[k].status \in ActivePaper
  BY <1>1 DEF ActivePaper
<1>6. TradingInv'
  <2> HIDE DEF p
  <2> QED BY <1>1, <1>3, <1>4, <1>5, PositionChanges
<1>7. EndedKept
  <2>1. setups[s].status \in {"waiting_entry", "rejected"}
    BY <1>1 DEF TradingInv, Linked
  <2>2. setups' = [setups EXCEPT ![s].status = "cancelled"]
    BY <1>1 DEF WithStatus
  <2>3. \A j \in DOMAIN positions : j # k => positions'[j] = positions[j]
    BY <1>1
  <2> HIDE DEF p, s
  <2>4. ASSUME NEW j \in DOMAIN setups, setups[j].status \in Ended
        PROVE  setups'[j].status = setups[j].status
    BY <2>1, <2>2, <2>4 DEF Ended
  <2> QED BY <1>5, <2>3, <2>4 DEF EndedKept
<1> QED BY <1>6, <1>7

LEMMA CloseKeeps ==
  ASSUME TradingInv, NEW k \in DOMAIN positions, ClosePaperPosition(k)
  PROVE  TradingInv' /\ EndedKept
<1> DEFINE price == Last(candles).close
           quantity == positions[k].quantity
           x == [p |-> positions[k], balance |-> account.balance]
           w == [p |-> positions[k], setup |-> "ready", balance |-> account.balance]
           z == CloseQuantity(x, price, quantity)
           y == CloseQuantity(w, price, quantity)
<1>1. /\ positions' = [positions EXCEPT ![k] = z.p] /\ positions[k].status \in Entered
      /\ account' = [account EXCEPT !.balance = z.balance]
      /\ UNCHANGED <<candles, breaks, setups>>
  BY DEF ClosePaperPosition, Entered
<1>2. /\ positions[k] \in PositionsOf(Len(setups)) /\ Settled(positions[k])
      /\ Len(setups) \in Nat /\ account.balance \in Int
  BY ElementOfSeq, LenProperties DEF TradingInv
<1>3. z.p = y.p /\ z.balance = y.balance
  BY DEF CloseQuantity
<1>4. price \in Levels
  <2>1. positions[k].setup \in 1..Len(setups)
    BY <1>2 DEF PositionsOf
  <2>2. setups[positions[k].setup] \in RowsUpTo(breaks, Len(candles))
    BY <2>1, ElementOfSeq DEF TradingInv
  <2>3. setups[positions[k].setup].at \in 1..Len(candles)
    BY <2>2 DEF RowsUpTo
  <2>4. Len(candles) \in 1..Len(candles)
    BY <2>3, LenProperties DEF TradingInv
  <2>5. candles[Len(candles)] \in StoredCandles
    BY <2>4, ElementOfSeq DEF TradingInv
  <2> QED BY <2>5 DEF Last, StoredCandles
<1>5. w \in Works(Len(setups)) /\ w.p = positions[k] /\ w.balance = account.balance
  BY <1>2 DEF Works, Statuses, Live
<1>6. quantity \in 0..quantity /\ quantity - quantity = 0
  BY <1>2 DEF PositionsOf, Whole
<1> HIDE DEF price, w, z
<1>7. /\ y \in Works(Len(setups)) /\ Carried(w, y)
      /\ y.p.quantity = 0 /\ y.p.status = "closed"
  BY <1>2, <1>4, <1>5, <1>6, CloseQuantityIs
<1> HIDE DEF y
<1>8. /\ y.p \in PositionsOf(Len(setups)) /\ y.balance \in Int /\ Settled(y.p)
      /\ y.p.setup = positions[k].setup /\ y.p.status # "waiting_entry"
      /\ y.balance - account.balance = y.p.realized - positions[k].realized
  BY <1>5, <1>7 DEF Works, Carried, Settled, Ended
<1>9. positions[k].status \in ActivePaper
  BY <1>1 DEF ActivePaper, Entered
<1>10. TradingInv'
  BY <1>1, <1>3, <1>8, <1>9, PositionChanges
<1>11. EndedKept
  <2>1. \A j \in DOMAIN positions : j # k => positions'[j] = positions[j]
    BY <1>1
  <2> QED BY <1>1, <1>9, <2>1 DEF EndedKept
<1> QED BY <1>10, <1>11

LEMMA ResetKeeps ==
  ASSUME TradingInv, ResetPaperAccount
  PROVE  TradingInv' /\ EndedKept
<1> DEFINE n == Len(positions)
<1>1. /\ \A k \in DOMAIN positions : positions[k].status \notin ActivePaper
      /\ account' = [starting |-> Starting, balance |-> Starting, since |-> n]
      /\ UNCHANGED <<candles, breaks, setups, positions>>
  BY DEF ResetPaperAccount
<1>2. n \in Nat /\ DOMAIN positions = 1..n
  BY LenProperties DEF TradingInv
<1>3. Total(Results(positions), n + 1, n) = 0
  <2>1. Summands(Results(positions), n + 1, n)
    BY <1>2 DEF Summands
  <2>2. n + 1 \in Int /\ n \in Int /\ n + 1 - 1 <= n /\ n = n + 1 - 1
    BY <1>2
  <2> HIDE DEF n
  <2> QED BY <2>1, <2>2, TotalType
<1>4. Balanced(positions, Starting, n)
  <2>1. Starting \in Int /\ Starting = Starting + 0
    BY TradingAssumption
  <2> QED BY <1>1, <1>2, <1>3, <2>1 DEF Balanced
<1>5. TradingInv'
  <2>1. Balanced(positions, account.balance, account.since)'
    BY <1>1, <1>4 DEF Balanced, Results
  <2>2. (account \in [starting : {Starting}, balance : Int, since : 0..Len(positions)])'
    BY <1>1, <1>2, TradingAssumption
  <2>3. Linked(setups, positions)' /\ NoneRouted(setups)' /\ Distinct(setups)'
        /\ (\A k \in DOMAIN positions : Settled(positions[k]))'
    BY <1>1 DEF TradingInv, Linked, NoneRouted, NotRouted, Distinct, SameEvent, Settled
  <2>4. /\ (setups \in Seq(RowsUpTo(breaks, Len(candles))))'
        /\ (positions \in Seq(PositionsOf(Len(setups))))'
    BY <1>1 DEF TradingInv, RowsUpTo, PositionsOf
  <2> QED BY <1>1, <2>1, <2>2, <2>3, <2>4 DEF TradingInv
<1>6. EndedKept
  BY <1>1 DEF EndedKept
<1> QED BY <1>5, <1>6

(* A candle of the market is stored behind the others.                      *)
LEMMA StoredKeeps ==
  ASSUME TradingInv, NEW m \in Markets, CandleStored(m)
  PROVE  TradingInv' /\ EndedKept
<1> DEFINE n == Len(candles)
<1>1. /\ n < Len(m) /\ IsPrefix(candles, m) /\ candles' = Append(candles, m[n + 1])
      /\ UNCHANGED <<breaks, setups, positions, account>>
  BY DEF CandleStored
<1>2. m \in Seq(StoredCandles)
  <2>1. PICK f \in Feeds :
          m = [i \in DOMAIN f |-> [low |-> f[i][1], high |-> f[i][2], close |-> f[i][3]]]
    BY DEF Markets
  <2>2. f \in Seq(Levels \X Levels \X Levels)
    BY TradingAssumption
  <2>3. Len(f) \in Nat /\ DOMAIN f = 1..Len(f)
    BY <2>2, LenProperties
  <2>4. ASSUME NEW i \in 1..Len(f)
        PROVE  [low |-> f[i][1], high |-> f[i][2], close |-> f[i][3]] \in StoredCandles
    <3>1. f[i] \in Levels \X Levels \X Levels
      BY <2>2, ElementOfSeq
    <3> QED BY <3>1 DEF StoredCandles
  <2>5. m \in [1..Len(f) -> StoredCandles]
    BY <2>1, <2>3, <2>4
  <2> QED BY <2>3, <2>5
<1>3. candles \in Seq(StoredCandles) /\ n \in Nat /\ Len(m) \in Nat /\ n + 1 \in 1..Len(m)
  BY <1>1, <1>2, LenProperties DEF TradingInv
<1>4. m[n + 1] \in StoredCandles
  BY <1>2, <1>3, ElementOfSeq
<1>5. /\ candles' \in Seq(StoredCandles) /\ Len(candles') = n + 1 /\ candles'[n + 1] = m[n + 1]
      /\ \A i \in 1..n : candles'[i] = candles[i]
  BY <1>1, <1>3, <1>4, AppendProperties
<1>6. \A i \in 1..n : candles[i] = m[i]
  <2>1. SubSeq(candles, 1, n) = SubSeq(m, 1, n)
    BY <1>1 DEF IsPrefix
  <2>2. \A i \in 1..n : candles[i] \in StoredCandles /\ m[i] \in StoredCandles
    BY <1>2, <1>3, ElementOfSeq
  <2>3. 1 \in Int /\ n \in Int /\ \A i \in 1..n : i \in 1..(n - 1 + 1) /\ 1 + i - 1 = i
    BY <1>3
  <2> HIDE DEF n
  <2>4. \A i \in 1..(n - 1 + 1) : SubSeq(candles, 1, n)[i] = candles[1 + i - 1]
    BY <2>2, <2>3, SubSeqProperties
  <2>5. \A i \in 1..(n - 1 + 1) : SubSeq(m, 1, n)[i] = m[1 + i - 1]
    BY <2>2, <2>3, SubSeqProperties
  <2> QED BY <2>1, <2>3, <2>4, <2>5
<1>7. IsPrefix(candles', m)
  <2> DEFINE k == n + 1
             a == SubSeq(candles', 1, k)
             b == SubSeq(m, 1, k)
  <2>1. \A i \in 1..k : candles'[i] = m[i] /\ candles'[i] \in StoredCandles
    <3>1. \A i \in 1..k : candles'[i] \in StoredCandles
      BY <1>5, ElementOfSeq
    <3>2. \A i \in 1..k : i \in 1..n \/ i = n + 1
      BY <1>3
    <3> QED BY <1>5, <1>6, <3>1, <3>2
  <2>2. k \in Int /\ 1 \in Int /\ 1 <= k /\ k - 1 + 1 = k /\ \A i \in 1..k : 1 + i - 1 = i
    BY <1>3
  <2> HIDE DEF k
  <2>3. /\ a \in Seq(StoredCandles) /\ Len(a) = k - 1 + 1
        /\ \A i \in 1..(k - 1 + 1) : a[i] = candles'[1 + i - 1]
    BY <2>1, <2>2, SubSeqProperties
  <2>4. /\ b \in Seq(StoredCandles) /\ Len(b) = k - 1 + 1
        /\ \A i \in 1..(k - 1 + 1) : b[i] = m[1 + i - 1]
    BY <2>1, <2>2, SubSeqProperties
  <2>5. a = b
    <3> HIDE DEF a, b
    <3>1. \A i \in 1..Len(a) : a[i] = b[i]
      BY <2>1, <2>2, <2>3, <2>4
    <3> QED BY <2>2, <2>3, <2>4, <3>1, SeqEqual
  <2> QED BY <1>3, <1>5, <2>5 DEF IsPrefix, k
<1>8. RowsUpTo(breaks, n) \subseteq RowsUpTo(breaks, n + 1)
  BY <1>3 DEF RowsUpTo
<1>9. setups \in Seq(RowsUpTo(breaks, n + 1))
  BY <1>8, SeqMonotonic DEF TradingInv
<1>10. TradingInv'
  <2>1. Balanced(positions, account.balance, account.since)'
    BY <1>1 DEF TradingInv, Balanced, Results
  <2>2. (account \in [starting : {Starting}, balance : Int, since : 0..Len(positions)])'
    BY <1>1 DEF TradingInv
  <2>3. Linked(setups, positions)' /\ NoneRouted(setups)' /\ Distinct(setups)'
        /\ (\A k \in DOMAIN positions : Settled(positions[k]))'
    BY <1>1 DEF TradingInv, Linked, NoneRouted, NotRouted, Distinct, SameEvent, Settled
  <2>4. /\ (setups \in Seq(RowsUpTo(breaks, Len(candles))))'
        /\ (positions \in Seq(PositionsOf(Len(setups))))'
    BY <1>1, <1>5, <1>9 DEF TradingInv, RowsUpTo, PositionsOf
  <2>5. (candles \in Seq(StoredCandles) /\ \E x \in Markets : IsPrefix(candles, x))'
    BY <1>5, <1>7
  <2>6. (breaks \subseteq 1..Len(candles))'
    BY <1>1, <1>3, <1>5 DEF TradingInv
  <2> QED BY <2>1, <2>2, <2>3, <2>4, <2>5, <2>6 DEF TradingInv
<1>11. EndedKept
  BY <1>1 DEF EndedKept
<1> QED BY <1>10, <1>11

-----------------------------------------------------------------------------
(* The specification.                                                       *)
LEMMA Initially == ASSUME Init PROVE TradingInv
<1>1. Balanced(<<>>, Starting, 0)
  <2>1. Summands(Results(<<>>), 1, 0)
    BY DEF Summands
  <2>2. 0 + 1 = 1 /\ 1 \in Int /\ 0 \in Int /\ 1 - 1 <= 0 /\ 0 = 1 - 1
    OBVIOUS
  <2>3. Total(Results(<<>>), 1, 0) = 0
    BY <2>1, <2>2, TotalType
  <2>4. Starting \in Int /\ Starting = Starting + 0
    BY TradingAssumption
  <2> QED BY <2>2, <2>3, <2>4 DEF Balanced
<1>2. \E m \in Markets : IsPrefix(<<>>, m)
  <2>1. PICK m \in Markets : TRUE
    BY TradingAssumption DEF Markets
  <2>2. PICK f \in Feeds :
          m = [i \in DOMAIN f |-> [low |-> f[i][1], high |-> f[i][2], close |-> f[i][3]]]
    BY DEF Markets
  <2>3. f \in Seq(Levels \X Levels \X Levels)
    BY TradingAssumption
  <2>4. Len(m) \in Nat
    <3>1. Len(f) \in Nat /\ DOMAIN f = 1..Len(f)
      BY <2>3, LenProperties
    <3> QED BY <2>2, <3>1
  <2>5. SubSeq(<<>>, 1, 0) = <<>> /\ SubSeq(m, 1, 0) = <<>>
    BY SubSeqEmpty
  <2>6. Len(<<>>) = 0
    OBVIOUS
  <2> QED BY <2>4, <2>5, <2>6 DEF IsPrefix
<1>3. /\ candles = <<>> /\ breaks = {} /\ setups = <<>> /\ positions = <<>>
      /\ account = [starting |-> Starting, balance |-> Starting, since |-> 0]
  BY DEF Init
<1>4. account \in [starting : {Starting}, balance : Int, since : 0..0]
  BY <1>3, TradingAssumption
<1>5. NoneRouted(<<>>) /\ Distinct(<<>>) /\ Linked(<<>>, <<>>)
  BY DEF NoneRouted, Distinct, Linked
<1> QED BY <1>1, <1>2, <1>3, <1>4, <1>5, EmptySeq DEF TradingInv

LEMMA StepKeeps ==
  ASSUME TradingInv, [Next]_vars
  PROVE  TradingInv' /\ EndedKept
<1>1. CASE \E m \in Markets : CandleStored(m)
  BY <1>1, StoredKeeps
<1>2. ASSUME NEW i \in DOMAIN candles, NEW broke \in BOOLEAN, NEW found \in SUBSET Structural,
             NEW wave3 \in SUBSET {PaperOnly}, NEW auto \in Routing,
             NEW broken \in SUBSET {s \in DOMAIN setups : setups[s].status \in Live},
             NEW decided \in [found -> Decisions],
             Analyse(i, broke, decided, wave3, broken, auto)
      PROVE  TradingInv' /\ EndedKept
  BY <1>2, AnalyseKeeps
<1>3. CASE \E s \in DOMAIN setups : RejectTradeSetup(s)
  BY <1>3, RejectKeeps
<1>4. CASE \E s \in DOMAIN setups : PaperTradeSetup(s)
  BY <1>4, PaperKeeps
<1>5. CASE \E k \in DOMAIN positions : CancelPaperPosition(k)
  BY <1>5, CancelKeeps
<1>6. CASE \E k \in DOMAIN positions : ClosePaperPosition(k)
  BY <1>6, CloseKeeps
<1>7. CASE ResetPaperAccount
  BY <1>7, ResetKeeps
<1>8. CASE UNCHANGED vars
  <2>1. /\ candles' = candles /\ breaks' = breaks /\ setups' = setups
        /\ positions' = positions /\ account' = account
    BY <1>8 DEF vars
  <2>2. Linked(setups, positions)' /\ NoneRouted(setups)' /\ Distinct(setups)'
        /\ (\A k \in DOMAIN positions : Settled(positions[k]))'
    BY <2>1 DEF TradingInv, Linked, NoneRouted, NotRouted, Distinct, SameEvent, Settled
  <2>3. /\ (setups \in Seq(RowsUpTo(breaks, Len(candles))))'
        /\ (positions \in Seq(PositionsOf(Len(setups))))'
    BY <2>1 DEF TradingInv, RowsUpTo, PositionsOf
  <2>4. Balanced(positions, account.balance, account.since)'
    BY <2>1 DEF TradingInv, Balanced, Results
  <2>5. TradingInv'
    BY <2>1, <2>2, <2>3, <2>4 DEF TradingInv
  <2> QED BY <2>1, <2>5 DEF EndedKept
<1> QED BY <1>1, <1>2, <1>3, <1>4, <1>5, <1>6, <1>7, <1>8 DEF Next

(* The inductive invariant.                                                 *)
THEOREM TradingInvariant == Spec => []TradingInv
<1>1. Init => TradingInv
  BY Initially
<1>2. TradingInv /\ [Next]_vars => TradingInv'
  BY StepKeeps
<1> QED BY <1>1, <1>2, PTL DEF Spec

(* The positions of the type invariant.                                     *)
PositionRows ==
  [setup : DOMAIN setups, quantity : 0..Whole, stop : {Stop, Entry},
   status : ActivePaper \cup Ended \cup {"closed"},
   targets : SUBSET (1..3), realized : Int]

(* Rows stay well formed.                                                   *)
THEOREM TradingTypes == Spec => []TradingTypeOK
<1>1. ASSUME TradingInv PROVE TradingTypeOK
  <2>1. DOMAIN candles = 1..Len(candles) /\ DOMAIN setups = 1..Len(setups)
    BY LenProperties DEF TradingInv
  <2>2. RowsUpTo(breaks, Len(candles)) =
          [strategy : Structural \cup {PaperOnly}, event : {0} \cup breaks, at : DOMAIN candles,
           status : Statuses, targets : {0} \cup Counts,
           routed : SUBSET {"created", "triggered"}]
    BY <2>1 DEF RowsUpTo
  <2>3. PositionsOf(Len(setups)) \subseteq PositionRows
    BY <2>1 DEF PositionsOf, PositionRows
  <2>4. positions \in Seq(PositionsOf(Len(setups)))
    BY <1>1 DEF TradingInv
  <2>5. positions \in Seq(PositionRows)
    BY <2>3, <2>4, SeqMonotonic
  <2>6. setups \in Seq(RowsUpTo(breaks, Len(candles)))
    BY <1>1 DEF TradingInv
  <2>7. /\ \E m \in Markets : IsPrefix(candles, m)
        /\ breaks \subseteq DOMAIN candles
        /\ account.balance \in Int /\ account.since \in 0..Len(positions)
    BY <1>1, <2>1 DEF TradingInv
  <2> QED BY <2>2, <2>5, <2>6, <2>7 DEF PositionRows, TradingTypeOK
<1> QED BY <1>1, TradingInvariant, PTL

(* The balance is what the account started with and what its positions have *)
(* realized since, however they were closed, and across resets.             *)
THEOREM TheBalanceIsRealized == Spec => []BalanceIsRealized
<1>1. TradingInv => BalanceIsRealized
  BY DEF TradingInv, Balanced, Results, BalanceIsRealized, Realized
<1> QED BY <1>1, TradingInvariant, PTL

(* A position is closed exactly when nothing is left of it, and costs       *)
(* nothing before it was entered.                                           *)
THEOREM ClosedIsSettled == Spec => []SettledWhenClosed
<1>1. TradingInv => SettledWhenClosed
  BY DEF TradingInv, Settled, SettledWhenClosed
<1> QED BY <1>1, TradingInvariant, PTL

(* A strategy has one setup for one event, however often, late or out of    *)
(* order candles are analysed.                                              *)
THEOREM OneSetup == Spec => []OneSetupPerEvent
<1>1. TradingInv => OneSetupPerEvent
  BY DEF TradingInv, Distinct, SameEvent, OneSetupPerEvent
<1> QED BY <1>1, TradingInvariant, PTL

(* The paper-only strategy reaches neither the automatic execution nor a    *)
(* paper position.                                                          *)
THEOREM PaperOnlyStaysOnPaper == Spec => []PaperOnlyNeverRouted
<1>1. ASSUME TradingInv PROVE PaperOnlyNeverRouted
  <2> SUFFICES ASSUME NEW s \in DOMAIN setups, setups[s].strategy = PaperOnly
               PROVE  /\ setups[s].routed = {}
                      /\ \A k \in DOMAIN positions : positions[k].setup # s
    BY DEF PaperOnlyNeverRouted
  <2>1. setups[s].targets = 0 /\ setups[s].routed = {}
    BY <1>1 DEF TradingInv, NoneRouted, NotRouted
  <2>2. \A k \in DOMAIN positions : setups[positions[k].setup].targets > 0
    BY <1>1 DEF TradingInv, Linked
  <2> QED BY <2>1, <2>2
<1> QED BY <1>1, TradingInvariant, PTL

(* No analysis and no request of this module takes up a setup again that    *)
(* has ended, or changes a position that has.                               *)
THEOREM TheEndedStayEnded == Spec => EndedStaysEnded
<1>1. TradingInv /\ [Next]_vars =>
        [/\ \A s \in DOMAIN setups :
              setups[s].status \in Ended => setups'[s].status \in {setups[s].status, "rejected"}
         /\ \A k \in DOMAIN positions :
              positions[k].status \notin ActivePaper => positions'[k] = positions[k]]_vars
  BY StepKeeps DEF EndedKept
<1> QED BY <1>1, TradingInvariant, PTL DEF Spec, EndedStaysEnded

-----------------------------------------------------------------------------
(* The back test.                                                           *)

(* A set of candles that is not empty has a first and a last one.           *)
LEMMA FirstAndLast ==
  ASSUME NEW n \in Nat, NEW S \in SUBSET (1..n), S # {}
  PROVE  /\ Min(S) \in S /\ \A y \in S : Min(S) <= y
         /\ Max(S) \in S /\ \A y \in S : y <= Max(S)
<1>1. \E x \in S : \A y \in S : x >= y
  <2>1. S \in SUBSET (0..n)
    OBVIOUS
  <2> QED BY <2>1, GreatestExists
<1>2. \E x \in S : \A y \in S : x <= y
  <2> DEFINE T == {n - x : x \in S}
  <2>1. T \in SUBSET (0..n) /\ T # {}
    <3>1. \A x \in S : n - x \in 0..n
      OBVIOUS
    <3> QED BY <3>1
  <2>2. PICK z \in T : \A y \in T : z >= y
    <3> HIDE DEF T
    <3> QED BY <2>1, GreatestExists
  <2>3. PICK x \in S : z = n - x
    BY <2>2
  <2>4. ASSUME NEW y \in S PROVE x <= y
    <3>1. n - y \in T
      OBVIOUS
    <3>2. n - x >= n - y
      BY <2>2, <2>3, <3>1
    <3> QED BY <3>2
  <2> QED BY <2>4
<1>3. Min(S) \in S /\ \A y \in S : Min(S) <= y
  BY <1>2 DEF Min
<1>4. Max(S) \in S /\ \A y \in S : Max(S) >= y
  BY <1>1 DEF Max
<1> QED BY <1>3, <1>4

Trades == [setup : 1..Len(setups), entry : 1..Len(candles), exit : 1..Len(candles)]

InTime(t) ==
  /\ Touches(t.setup, t.entry) /\ t.entry <= t.exit
  /\ t.exit <= setups[t.setup].at + Expiry

(* One setup on a book that is taken until a candle: its trade enters at    *)
(* its first candle, and without a trade it had none.                       *)
LEMMA BacktestTradeIs ==
  ASSUME NEW s \in 1..Len(setups), NEW occupied \in Nat, Expiry \in Nat,
         setups[s].at \in Nat, Len(candles) \in Nat, DOMAIN candles = 1..Len(candles)
  PROVE  \/ /\ BacktestTrade(s, occupied) = <<>>
            /\ \A i \in DOMAIN candles : Touches(s, i) => i <= occupied
         \/ \E t \in Trades :
              /\ BacktestTrade(s, occupied) = <<t>>
              /\ t.setup = s /\ InTime(t) /\ occupied < t.entry
              /\ \A i \in DOMAIN candles : Touches(s, i) => i <= occupied \/ t.entry <= i
<1> DEFINE n == Len(candles)
           future == Future(setups[s].at, occupied)
           entries == {i \in future : candles[i].low <= Entry /\ Entry <= candles[i].high}
           path == {i \in future : i >= Min(entries)}
           leaves == {i \in path : \/ candles[i].low <= Stop
                                   \/ candles[i].high >= Target(setups[s].targets)}
           exit == IF leaves = {} THEN Max(path) ELSE Min(leaves)
           t == [setup |-> s, entry |-> Min(entries), exit |-> exit]
<1>1. BacktestTrade(s, occupied) = IF entries = {} THEN <<>> ELSE <<t>>
  BY DEF BacktestTrade
<1>2. \A i \in future : /\ i \in 1..n /\ i > setups[s].at /\ i <= setups[s].at + Expiry
                        /\ occupied < i
  BY DEF Future
<1>3. \A i \in DOMAIN candles : i \in entries <=> Touches(s, i) /\ i > occupied
  BY DEF Future, Touches
<1>4. CASE entries = {}
  <2>1. BacktestTrade(s, occupied) = <<>>
    BY <1>1, <1>4
  <2>2. ASSUME NEW i \in DOMAIN candles, Touches(s, i) PROVE i <= occupied
    BY <1>3, <1>4, <2>2
  <2> QED BY <2>1, <2>2
<1>5. CASE entries # {}
  <2>1. entries \in SUBSET (1..n) /\ path \in SUBSET (1..n) /\ leaves \in SUBSET (1..n)
    BY <1>2
  <2>2. Min(entries) \in entries /\ \A i \in entries : Min(entries) <= i
    <3> HIDE DEF entries
    <3> QED BY <1>5, <2>1, FirstAndLast
  <2>3. Min(entries) \in path /\ Min(entries) \in 1..n
    BY <2>1, <2>2
  <2>4. exit \in path
    <3>1. leaves = {} => Max(path) \in path
      <4> HIDE DEF path, leaves
      <4> QED BY <2>1, <2>3, FirstAndLast
    <3>2. leaves # {} => Min(leaves) \in leaves
      <4> HIDE DEF path, leaves
      <4> QED BY <2>1, FirstAndLast
    <3>3. leaves \subseteq path
      OBVIOUS
    <3> HIDE DEF path, leaves
    <3> QED BY <3>1, <3>2, <3>3
  <2>5. exit \in 1..n /\ exit <= setups[s].at + Expiry /\ Min(entries) <= exit
    <3>1. exit \in future /\ exit >= Min(entries)
      <4> HIDE DEF exit, entries
      <4> QED BY <2>4
    <3> HIDE DEF exit, entries, future
    <3> QED BY <1>2, <2>3, <3>1
  <2>6. Touches(s, Min(entries)) /\ occupied < Min(entries)
    <3> HIDE DEF entries
    <3> QED BY <1>3, <2>2, <2>3
  <2>7. t \in Trades /\ t.setup = s /\ t.entry = Min(entries) /\ t.exit = exit
    <3> HIDE DEF exit, entries
    <3> QED BY <2>3, <2>5 DEF Trades
  <2>8. BacktestTrade(s, occupied) = <<t>>
    BY <1>1, <1>5
  <2>9. ASSUME NEW i \in DOMAIN candles, Touches(s, i), ~ (i <= occupied)
        PROVE  Min(entries) <= i
    <3>1. i \in entries
      <4> HIDE DEF entries
      <4> QED BY <1>3, <2>9
    <3> HIDE DEF entries
    <3> QED BY <2>2, <3>1
  <2> HIDE DEF t, exit, entries
  <2> QED BY <2>5, <2>6, <2>7, <2>8, <2>9 DEF InTime
<1> QED BY <1>4, <1>5

(* The setups of a back test, each once, in the order of their detection.   *)
Simulated == {s \in DOMAIN setups : setups[s].targets > 0}

LEMMA ByDetectionIs ==
  ASSUME Len(setups) \in Nat, DOMAIN setups = 1..Len(setups),
         \A s \in 1..Len(setups) : setups[s].at \in Nat
  PROVE  /\ ByDetection \in Seq(Simulated)
         /\ \A j, k \in 1..Len(ByDetection) : j < k =>
              /\ setups[ByDetection[j]].at <= setups[ByDetection[k]].at
              /\ ByDetection[j] # ByDetection[k]
         /\ \A s \in Simulated : \E k \in 1..Len(ByDetection) : ByDetection[k] = s
<1> DEFINE N == 1..Len(setups)
           before == {p \in N \X N : \/ setups[p[1]].at < setups[p[2]].at
                                     \/ setups[p[1]].at = setups[p[2]].at /\ p[1] < p[2]}
           q == ByDetection
<1>1. \A x, y \in N : <<x, y>> \in before <=> \/ setups[x].at < setups[y].at
                                              \/ setups[x].at = setups[y].at /\ x < y
  OBVIOUS
<1>2. q = Ordered(Simulated, before)
  BY DEF ByDetection, Simulated
<1>3. Simulated \subseteq N /\ IsFiniteSet(Simulated)
  <2>1. IsFiniteSet(N)
    BY FS_Interval
  <2>2. Simulated \subseteq N
    BY DEF Simulated
  <2> HIDE DEF N
  <2> QED BY <2>1, <2>2, FS_Subset
<1> HIDE DEF before, q
<1>4. TotalOrder(Simulated, before)
  <2>1. \A x \in Simulated : <<x, x>> \notin before
    BY <1>1, <1>3
  <2>2. \A x, y \in Simulated : x # y => <<x, y>> \in before \/ <<y, x>> \in before
    BY <1>1, <1>3
  <2>3. \A x, y, z \in Simulated :
          <<x, y>> \in before /\ <<y, z>> \in before => <<x, z>> \in before
    BY <1>1, <1>3
  <2> QED BY <2>1, <2>2, <2>3 DEF TotalOrder
<1>5. q \in Seq(Simulated) /\ Len(q) = Cardinality(Simulated)
  BY <1>2, <1>3, <1>4, OrderedIs
<1>6. /\ \A j, k \in 1..Len(q) : j < k => <<q[j], q[k]>> \in before
      /\ \A s \in Simulated : \E k \in 1..Len(q) : q[k] = s
  BY <1>2, <1>3, <1>4, <1>5, OrderedInOrder
<1>7. ASSUME NEW j \in 1..Len(q), NEW k \in 1..Len(q), j < k
      PROVE  setups[q[j]].at <= setups[q[k]].at /\ q[j] # q[k]
  <2>1. q[j] \in N /\ q[k] \in N
    BY <1>3, <1>5, ElementOfSeq
  <2>2. setups[q[j]].at \in Nat /\ setups[q[k]].at \in Nat
    BY <2>1
  <2>3. \/ setups[q[j]].at < setups[q[k]].at
        \/ setups[q[j]].at = setups[q[k]].at /\ q[j] < q[k]
    BY <1>1, <1>6, <1>7, <2>1
  <2>4. q[j] = q[k] => FALSE
    BY <2>1, <2>2, <2>3
  <2> QED BY <2>2, <2>3, <2>4
<1> QED BY <1>5, <1>6, <1>7 DEF q

(* The trades of the first k setups of q.                                   *)
Answered(trades, s) ==
  \A i \in DOMAIN candles : Touches(s, i) =>
    \E n \in DOMAIN trades : \/ trades[n].setup = s /\ trades[n].entry <= i
                             \/ /\ setups[trades[n].setup].at <= setups[s].at
                                /\ trades[n].setup # s /\ i <= trades[n].exit

BackTested(trades, q, k) ==
  /\ trades \in Seq(Trades)
  /\ \A n \in 1..Len(trades) : InTime(trades[n]) /\ \E j \in 1..k : trades[n].setup = q[j]
  /\ \A n \in 2..Len(trades) : trades[n - 1].exit < trades[n].entry
  /\ \A j \in 1..k : Answered(trades, q[j])

Occupied(trades) == IF trades = <<>> THEN 0 ELSE Last(trades).exit
NextTrade(trades, s) == trades \o BacktestTrade(s, Occupied(trades))

(* More trades answer for more.                                             *)
LEMMA AnsweredStays ==
  ASSUME NEW done \in Seq(Trades), NEW more \in Seq(Trades), NEW s, Answered(done, s)
  PROVE  Answered(done \o more, s)
<1>1. /\ DOMAIN done \subseteq DOMAIN (done \o more)
      /\ \A n \in DOMAIN done : (done \o more)[n] = done[n]
  BY ConcatProperties, LenProperties
<1> QED BY <1>1 DEF Answered

(* A setup without a trade was touched only while the book was taken by the *)
(* trade of a setup before it.                                              *)
LEMMA NextTradeKeeps ==
  ASSUME Expiry \in Nat, Len(candles) \in Nat, DOMAIN candles = 1..Len(candles),
         NEW q \in Seq(1..Len(setups)), NEW k \in 1..Len(q),
         \A s \in 1..Len(setups) : setups[s].at \in Nat,
         \A j \in 1..(k - 1) : setups[q[j]].at <= setups[q[k]].at /\ q[j] # q[k],
         NEW done, BackTested(done, q, k - 1)
  PROVE  BackTested(NextTrade(done, q[k]), q, k)
<1> DEFINE s == q[k]
           o == Occupied(done)
           m == Len(done)
           more == BacktestTrade(s, o)
           trades == done \o more
<1>1. done \in Seq(Trades) /\ m \in Nat /\ DOMAIN done = 1..m /\ s \in 1..Len(setups)
  BY LenProperties, ElementOfSeq DEF BackTested
<1>2. \A n \in 1..m : done[n] \in Trades
  BY <1>1, ElementOfSeq
<1>3. \/ done = <<>> /\ m = 0 /\ o = 0
      \/ m > 0 /\ o = done[m].exit
  <2>1. done = <<>> => m = 0 /\ o = 0
    BY EmptySeq DEF Occupied
  <2>2. done # <<>> => m > 0 /\ o = done[m].exit
    <3>1. done # <<>> => m # 0
      BY <1>1, EmptySeq
    <3> QED BY <1>1, <3>1 DEF Occupied, Last
  <2> QED BY <2>1, <2>2
<1>4. o \in Nat
  <2> HIDE DEF m
  <2>1. ASSUME m > 0 PROVE done[m].exit \in Nat
    <3>1. m \in 1..m
      BY <1>1, <2>1
    <3>2. done[m] \in Trades
      BY <1>2, <3>1
    <3> QED BY <3>2 DEF Trades
  <2> QED BY <1>3, <2>1
<1>5. NextTrade(done, q[k]) = trades
  BY DEF NextTrade
<1>6. ASSUME NEW i \in DOMAIN candles, i <= o
      PROVE  \E n \in 1..m : /\ setups[done[n].setup].at <= setups[s].at
                             /\ done[n].setup # s /\ i <= done[n].exit
  <2>1. m > 0 /\ o = done[m].exit
    BY <1>3, <1>6
  <2>2. m \in 1..m
    BY <1>1, <2>1
  <2>3. PICK j \in 1..(k - 1) : done[m].setup = q[j]
    BY <2>2 DEF BackTested
  <2>4. setups[done[m].setup].at <= setups[s].at /\ done[m].setup # s /\ i <= done[m].exit
    BY <1>6, <2>1, <2>3
  <2> QED BY <2>2, <2>4
<1>7. \/ more = <<>> /\ \A i \in DOMAIN candles : Touches(s, i) => i <= o
      \/ \E t \in Trades :
           /\ more = <<t>> /\ t.setup = s /\ InTime(t) /\ o < t.entry
           /\ \A i \in DOMAIN candles : Touches(s, i) => i <= o \/ t.entry <= i
  <2>1. setups[s].at \in Nat
    BY <1>1
  <2> HIDE DEF s, o
  <2> QED BY <1>1, <1>4, <2>1, BacktestTradeIs
<1> HIDE DEF s, o, m, more
<1>8. more \in Seq(Trades)
  <2>1. more = <<>> => more \in Seq(Trades)
    OBVIOUS
  <2>2. \A t \in Trades : <<t>> \in Seq(Trades)
    OBVIOUS
  <2> HIDE DEF trades
  <2> QED BY <1>7, <2>1, <2>2
<1>9. trades \in Seq(Trades)
  BY <1>1, <1>8, ConcatProperties
<1>10. \A j \in 1..(k - 1) : Answered(trades, q[j])
  BY <1>1, <1>8, AnsweredStays DEF BackTested
<1>11. k \in Nat /\ q[k] = s /\ \A j \in 1..k : j \in 1..(k - 1) \/ j = k
  BY DEF s
<1>12. CASE more = <<>> /\ \A i \in DOMAIN candles : Touches(s, i) => i <= o
  <2>1. trades = done
    BY <1>1, <1>12, ConcatEmptySeq
  <2>2. Answered(done, s)
    BY <1>1, <1>6, <1>12 DEF Answered
  <2>3. \A j \in 1..k : Answered(trades, q[j])
    BY <1>10, <1>11, <2>1, <2>2
  <2>4. \A j \in 1..(k - 1) : j \in 1..k
    BY <1>11
  <2> HIDE DEF trades
  <2> QED BY <1>5, <1>9, <2>1, <2>3, <2>4 DEF BackTested, m
<1>13. ASSUME NEW t \in Trades, more = <<t>>, t.setup = s, InTime(t), o < t.entry,
              \A i \in DOMAIN candles : Touches(s, i) => i <= o \/ t.entry <= i
       PROVE  BackTested(trades, q, k)
  <2>1. /\ Len(trades) = m + 1 /\ trades[m + 1] = t
        /\ \A n \in 1..m : trades[n] = done[n]
    BY <1>1, <1>13 DEF m
  <2>2. DOMAIN trades = 1..(m + 1)
    BY <1>9, <2>1, LenProperties
  <2> HIDE DEF trades
  <2>3. ASSUME NEW n \in 1..Len(trades)
        PROVE  InTime(trades[n]) /\ \E j \in 1..k : trades[n].setup = q[j]
    <3>1. CASE n = m + 1
      BY <1>11, <1>13, <2>1, <3>1
    <3>2. CASE n # m + 1
      <4>1. n \in 1..m
        BY <1>1, <2>1, <3>2
      <4>2. InTime(done[n]) /\ \E j \in 1..(k - 1) : done[n].setup = q[j]
        BY <4>1 DEF BackTested, m
      <4> QED BY <1>11, <2>1, <4>1, <4>2
    <3> QED BY <3>1, <3>2
  <2>4. ASSUME NEW n \in 2..Len(trades)
        PROVE  trades[n - 1].exit < trades[n].entry
    <3>1. CASE n = m + 1
      <4>1. n - 1 = m /\ m \in 1..m /\ o = done[m].exit
        BY <1>1, <1>3, <2>1, <3>1
      <4> QED BY <1>13, <2>1, <3>1, <4>1
    <3>2. CASE n # m + 1
      <4>1. n \in 2..m /\ n - 1 \in 1..m /\ n \in 1..m
        BY <1>1, <2>1, <3>2
      <4>2. done[n - 1].exit < done[n].entry
        BY <4>1 DEF BackTested, m
      <4> QED BY <2>1, <4>1, <4>2
    <3> QED BY <3>1, <3>2
  <2>5. Answered(trades, s)
    <3> SUFFICES ASSUME NEW i \in DOMAIN candles, Touches(s, i)
                 PROVE  \E n \in DOMAIN trades :
                          \/ trades[n].setup = s /\ trades[n].entry <= i
                          \/ /\ setups[trades[n].setup].at <= setups[s].at
                             /\ trades[n].setup # s /\ i <= trades[n].exit
      BY DEF Answered
    <3>1. CASE i <= o
      <4>1. PICK n \in 1..m : /\ setups[done[n].setup].at <= setups[s].at
                              /\ done[n].setup # s /\ i <= done[n].exit
        BY <1>6, <3>1
      <4>2. n \in DOMAIN trades /\ trades[n] = done[n]
        BY <1>1, <2>1, <2>2
      <4> QED BY <4>1, <4>2
    <3>2. CASE t.entry <= i
      <4>1. m + 1 \in DOMAIN trades
        BY <1>1, <2>2
      <4> QED BY <1>13, <2>1, <3>2, <4>1
    <3> QED BY <1>13, <3>1, <3>2
  <2>6. \A j \in 1..k : Answered(trades, q[j])
    BY <1>10, <1>11, <2>5
  <2> QED BY <1>9, <2>3, <2>4, <2>6 DEF BackTested
<1> QED BY <1>5, <1>7, <1>12, <1>13

LEMMA NextTradeType ==
  ASSUME Expiry \in Nat, Len(candles) \in Nat, DOMAIN candles = 1..Len(candles),
         NEW s \in 1..Len(setups), setups[s].at \in Nat, NEW done \in Seq(Trades)
  PROVE  NextTrade(done, s) \in Seq(Trades)
<1> DEFINE o == Occupied(done)
           m == Len(done)
           more == BacktestTrade(s, o)
<1>1. o \in Nat
  <2>1. m \in Nat /\ (done # <<>> => m # 0)
    BY LenProperties, EmptySeq
  <2>2. ASSUME done # <<>> PROVE done[m].exit \in Nat /\ o = done[m].exit
    <3>1. m \in 1..m
      BY <2>1, <2>2
    <3>2. done[m] \in Trades
      BY <3>1, ElementOfSeq
    <3> HIDE DEF m
    <3>3. o = done[m].exit
      BY <2>2 DEF Occupied, Last, m
    <3> QED BY <3>2, <3>3 DEF Trades
  <2>3. done = <<>> => o = 0
    BY DEF Occupied
  <2> QED BY <2>2, <2>3
<1> HIDE DEF o
<1>2. more = <<>> \/ \E t \in Trades : more = <<t>>
  BY <1>1, BacktestTradeIs
<1> HIDE DEF more
<1>3. more \in Seq(Trades)
  <2>1. more = <<>> => more \in Seq(Trades)
    OBVIOUS
  <2>2. \A t \in Trades : <<t>> \in Seq(Trades)
    OBVIOUS
  <2> QED BY <1>2, <2>1, <2>2
<1>4. NextTrade(done, s) = done \o more
  BY DEF NextTrade, more, o
<1> QED BY <1>3, <1>4, ConcatProperties

(* All setups, by induction over their order.                               *)
LEMMA BacktestTradesAre ==
  ASSUME Expiry \in Nat, Len(candles) \in Nat, DOMAIN candles = 1..Len(candles),
         Len(setups) \in Nat, DOMAIN setups = 1..Len(setups),
         \A s \in 1..Len(setups) : setups[s].at \in Nat
  PROVE  BackTested(BacktestTrades, ByDetection, Len(ByDetection))
<1> DEFINE q == ByDetection
           n == Len(q)
           V == Seq(Trades)
           Eq(g) == g = [k \in 0..n |-> IF k = 0 THEN <<>> ELSE NextTrade(g[k - 1], q[k])]
           step == [k \in Int |-> [b \in V |-> IF k \in 1..n THEN NextTrade(b, q[k]) ELSE b]]
<1>1. /\ q \in Seq(1..Len(setups)) /\ n \in Nat
      /\ \A k \in 1..n : q[k] \in 1..Len(setups)
      /\ \A j, k \in 1..n : j < k => setups[q[j]].at <= setups[q[k]].at /\ q[j] # q[k]
  <2>1. Simulated \subseteq 1..Len(setups)
    BY DEF Simulated
  <2>2. q \in Seq(Simulated)
    BY ByDetectionIs
  <2>3. q \in Seq(1..Len(setups))
    BY <2>1, <2>2, SeqMonotonic
  <2>4. n \in Nat /\ \A k \in 1..n : q[k] \in 1..Len(setups)
    BY <2>3, LenProperties, ElementOfSeq
  <2> QED BY <2>3, <2>4, ByDetectionIs
<1> HIDE DEF q
<1>2. <<>> \in V
  OBVIOUS
<1>3. ASSUME NEW k \in 1..n, NEW b \in V PROVE NextTrade(b, q[k]) \in V
  <2>1. q[k] \in 1..Len(setups) /\ setups[q[k]].at \in Nat
    BY <1>1
  <2> QED BY <2>1, NextTradeType
<1> HIDE DEF V
<1>4. PICK g \in [0..n -> V] : Recursively(g, 0, n, <<>>, step)
  <2>1. step \in [Int -> [V -> V]]
    BY <1>3
  <2>2. 0 \in Int /\ n \in Int /\ 0 <= n
    BY <1>1
  <2> HIDE DEF step, n
  <2> QED BY <1>2, <2>1, <2>2, RecursionSolved
<1>5. Eq(g)
  <2>1. ASSUME NEW k \in 0..n
        PROVE  g[k] = IF k = 0 THEN <<>> ELSE NextTrade(g[k - 1], q[k])
    <3>1. CASE k = 0
      BY <1>4, <3>1 DEF Recursively
    <3>2. CASE k # 0
      <4>1. k \in 1..n /\ k - 1 \in 0..n
        BY <1>1, <3>2
      <4>2. g[k - 1] \in V
        BY <4>1
      <4>3. g[k] = step[k][g[k - 1]]
        BY <1>4, <3>2 DEF Recursively
      <4> QED BY <3>2, <4>1, <4>2, <4>3
    <3> QED BY <3>1, <3>2
  <2> QED BY <2>1
<1> DEFINE f == CHOOSE h : Eq(h)
<1>6. Eq(f)
  BY <1>5
<1>7. f = [k \in 0..n |-> IF k = 0 THEN <<>> ELSE NextTrade(f[k - 1], q[k])]
  BY <1>6
<1>8. BacktestTrades = f[n]
  BY DEF BacktestTrades, NextTrade, Occupied, q
<1> HIDE DEF f
<1> DEFINE S == {k \in 0..n : BackTested(f[k], q, k)}
<1>9. 0 \in S
  <2>1. 0 \in 0..n /\ f[0] = <<>>
    BY <1>1, <1>7
  <2>2. BackTested(<<>>, q, 0)
    BY EmptySeq DEF BackTested
  <2> QED BY <2>1, <2>2
<1>10. ASSUME NEW k \in Int, 0 < k, k <= n, k - 1 \in S PROVE k \in S
  <2>1. k \in 1..n /\ k \in 0..n /\ BackTested(f[k - 1], q, k - 1)
    BY <1>1, <1>10
  <2>2. f[k] = NextTrade(f[k - 1], q[k])
    BY <1>7, <1>10, <2>1
  <2>3. \A j \in 1..(k - 1) : setups[q[j]].at <= setups[q[k]].at /\ q[j] # q[k]
    <3>1. \A j \in 1..(k - 1) : j \in 1..n /\ j < k
      BY <1>1, <2>1
    <3> QED BY <1>1, <2>1, <3>1
  <2>4. BackTested(NextTrade(f[k - 1], q[k]), q, k)
    BY <1>1, <2>1, <2>3, NextTradeKeeps
  <2> QED BY <2>1, <2>2, <2>4
<1>11. 0..n \subseteq S
  <2> HIDE DEF S, n
  <2>1. Hereditary(S, 0, n)
    BY <1>10 DEF Hereditary
  <2>2. 0 \in Int /\ n \in Int
    BY <1>1
  <2> QED BY <1>9, <2>1, <2>2, IntervalInduction
<1>12. BackTested(f[n], q, n)
  BY <1>1, <1>11
<1> QED BY <1>8, <1>12 DEF q

(* The back test of any setups on any candles looks at no candle before a   *)
(* setup was detected, holds one trade at a time, and leaves out no setup   *)
(* whose zone was touched while the book was free.                          *)
THEOREM TheBacktestIsInOrder == Spec => []BacktestInOrder
<1>1. ASSUME TradingInv PROVE BacktestInOrder
  <2> DEFINE q == ByDetection
             trades == BacktestTrades
  <2>1. /\ Len(candles) \in Nat /\ DOMAIN candles = 1..Len(candles)
        /\ Len(setups) \in Nat /\ DOMAIN setups = 1..Len(setups)
    BY <1>1, LenProperties DEF TradingInv
  <2>2. Expiry \in Nat
    BY TradingAssumption
  <2>3. \A s \in 1..Len(setups) : setups[s].at \in Nat
    <3>1. \A s \in 1..Len(setups) : setups[s] \in RowsUpTo(breaks, Len(candles))
      BY <1>1, <2>1, ElementOfSeq DEF TradingInv
    <3> QED BY <2>1, <3>1 DEF RowsUpTo
  <2>4. BackTested(trades, q, Len(q))
    BY <2>1, <2>2, <2>3, BacktestTradesAre
  <2>5. \A s \in Simulated : \E k \in 1..Len(q) : q[k] = s
    BY <2>1, <2>3, ByDetectionIs
  <2> HIDE DEF q, trades
  <2>6. DOMAIN trades = 1..Len(trades) /\ Len(trades) \in Nat
    BY <2>4, LenProperties DEF BackTested
  <2>7. ASSUME NEW n \in DOMAIN trades
        PROVE  InTime(trades[n]) /\ (n > 1 => trades[n - 1].exit < trades[n].entry)
    <3>1. n \in 1..Len(trades) /\ (n > 1 => n \in 2..Len(trades))
      BY <2>6
    <3> QED BY <2>4, <3>1 DEF BackTested
  <2>8. \A s \in DOMAIN setups : setups[s].targets > 0 => Answered(trades, s)
    BY <2>4, <2>5 DEF BackTested, Simulated
  <2> QED BY <2>7, <2>8 DEF BacktestInOrder, InTime, Answered, trades
<1> QED BY <1>1, TradingInvariant, PTL
=============================================================================
