---------------------------- MODULE PaperForward ----------------------------
(***************************************************************************)
(* The production-market simulation of one trade setup                     *)
(* (trading/paper_forward.py), fed by everything in the system that walks  *)
(* over stored candles: the live candle pipeline, the analysis backfill,   *)
(* which analyses stored candles late, and the backfill of the             *)
(* paper-forward API, which replays a window of candles.                   *)
(*                                                                         *)
(* Prices are levels in the order validate_setup demands of a bullish      *)
(* setup: the stop below the entry zone, the targets above it in turn.  A  *)
(* candle is the range of levels it touches.  Quantities are tenths of the *)
(* initial quantity.  Fees, excursions and the strategy without targets    *)
(* (elliott_wave3_heikin_ashi) are left out.                               *)
(***************************************************************************)
EXTENDS Naturals, Sequences, FiniteSets, FiniteSetsExt, Sums

CONSTANTS
  Targets,      \* numbers of the targets the setup has
  Detected,     \* the candle that produced the setup
  Expires,      \* the last candle that may open the trade
  Bars,         \* bound: candles of the symbol and timeframe
  MaxReplays    \* bound: paper-forward backfills

ASSUME PaperAssumption ==
  /\ Targets \subseteq 1..3 /\ 1 \in Targets
  /\ Detected \in Nat \ {0} /\ Expires \in Nat /\ Bars \in Nat /\ MaxReplays \in Nat

VARIABLES
  candles,    \* the closed candles stored, oldest first
  analysed,   \* those the pipeline has processed: they have a snapshot
  trade,      \* the PaperForwardTrade row and the exits it went through
  replays

vars == <<candles, analysed, trade, replays>>

Stop == 1
Entry == 2
Target(n) == 2 + n
Levels == Stop..Target(3)
Candles == {c \in [low : Levels, high : Levels] : c.low <= c.high}

Whole == 10
TPFraction == <<3, 4, 3>>
Terminal == {"closed", "expired"}

NotEnrolled == [status |-> "none", next |-> 1, stop |-> Stop, remaining |-> Whole, exits |-> <<>>]

Init ==
  /\ candles = <<>> /\ analysed = {} /\ replays = 0
  /\ trade = NotEnrolled

(***************************************************************************)
(* process_trade_candle, as operators on the row and the candle's number.  *)
(***************************************************************************)

(* Mutant: any exit closes the trade. *)
RecordExitCloses(t, i, price, quantity, reason) ==
  [t EXCEPT !.remaining = @ - quantity,
            !.status = "closed",
            !.exits = Append(@, [bar |-> i, price |-> price, quantity |-> quantity,
                                 reason |-> reason])]

RecordExit(t, i, price, quantity, reason) ==
  LET left == t.remaining - quantity IN
  [t EXCEPT !.remaining = left,
            !.status = IF left = 0 THEN "closed" ELSE "partially_closed",
            !.exits = Append(@, [bar |-> i, price |-> price, quantity |-> quantity,
                                 reason |-> reason])]

TargetsLeft(t) == {n \in Targets : n >= t.next}

(* Mutant: the last target closes its own fraction only.                    *)
FractionOnly(t, n) == Min({t.remaining, TPFraction[n]})

(* The fraction of the target; the last one closes what is left.            *)
SliceOf(t, n) ==
  IF \E m \in Targets : m > n THEN Min({t.remaining, TPFraction[n]}) ELSE t.remaining

(* Mutant: the stop stays where it was. *)
TargetExitKeepsStop(t, i, n) ==
  [RecordExit(t, i, Target(n), SliceOf(t, n), "target") EXCEPT !.next = n + 1]

(* The first target moves the stop of what is left to the entry.            *)
TargetExit(t, i, n) ==
  LET hit == [RecordExit(t, i, Target(n), SliceOf(t, n), "target") EXCEPT !.next = n + 1]
  IN  IF n = 1 /\ hit.status # "closed" THEN [hit EXCEPT !.stop = Entry] ELSE hit

(* Mutant: a candle that touches both is counted for the target. *)
ManageTargetFirst(t, i) ==
  LET n == Min(TargetsLeft(t)) IN
  IF candles[i].high >= Target(n) THEN TargetExit(t, i, n)
  ELSE IF candles[i].low <= t.stop THEN RecordExit(t, i, t.stop, t.remaining, "stop")
  ELSE t

(* candle_exit with the policy "stop_first".                                *)
Manage(t, i) ==
  LET n == Min(TargetsLeft(t)) IN
  IF candles[i].low <= t.stop THEN RecordExit(t, i, t.stop, t.remaining, "stop")
  ELSE IF candles[i].high >= Target(n) THEN TargetExit(t, i, n)
  ELSE t

TouchesEntry(c) == c.low <= Entry /\ Entry <= c.high

(* Mutant: a trade that was closed is simulated on. *)
ProcessClosed(t, i) ==
  IF t.status = "expired" \/ i <= Detected THEN t
  ELSE IF t.status # "waiting_entry"
  THEN IF candles[i].low <= t.stop THEN RecordExit(t, i, t.stop, t.remaining, "stop") ELSE t
  ELSE IF i > Expires THEN [t EXCEPT !.status = "expired"]
  ELSE IF TouchesEntry(candles[i]) THEN Manage([t EXCEPT !.status = "open"], i)
  ELSE t

(* detected_at is the close of the detecting candle.                        *)
Process(t, i) ==
  IF t.status \in Terminal \/ i <= Detected THEN t
  ELSE IF t.status # "waiting_entry" THEN Manage(t, i)
  ELSE IF i > Expires THEN [t EXCEPT !.status = "expired"]
  ELSE IF TouchesEntry(candles[i]) THEN Manage([t EXCEPT !.status = "open"], i)
  ELSE t

(* process_paper_forward_candle: enrolls the setup if there is one.         *)
Enrolled(t, i) ==
  IF t.status = "none" /\ i >= Detected THEN [t EXCEPT !.status = "waiting_entry"] ELSE t

ProcessCandle(t, i) ==
  LET e == Enrolled(t, i) IN IF e.status = "none" THEN e ELSE Process(e, i)

(***************************************************************************)
(* Who processes candles.                                                  *)
(***************************************************************************)

(* A candle is stored by the market stream or by a history backfill.        *)
CandleStored(c) ==
  /\ Len(candles) < Bars
  /\ candles' = Append(candles, c)
  /\ UNCHANGED <<analysed, trade, replays>>

(* The analysis of its candle creates the setup.                            *)
SetupKnown(done) == Detected \in done

(* process_closed_candle: the stream analyses the newest candle, the        *)
(* analysis backfill any candle that has no snapshot.                       *)
Analyse(i) ==
  /\ i \in DOMAIN candles \ analysed
  /\ analysed' = analysed \cup {i}
  /\ trade' = IF SetupKnown(analysed') THEN ProcessCandle(trade, i) ELSE trade
  /\ UNCHANGED <<candles, replays>>

(* backfill(apply=True): every candle of the window, in their order and in  *)
(* one transaction.                                                         *)
Replayed(t, first, last) ==
  LET after[i \in (first - 1)..last] ==
        IF i < first THEN t ELSE ProcessCandle(after[i - 1], i)
  IN  after[last]

Backfill(first, last) ==
  /\ replays < MaxReplays /\ SetupKnown(analysed)
  /\ first \in DOMAIN candles /\ last \in DOMAIN candles /\ first <= last
  /\ trade' = Replayed(trade, first, last)
  /\ replays' = replays + 1
  /\ UNCHANGED <<candles, analysed>>

Next ==
  \/ \E c \in Candles : CandleStored(c)
  \/ \E i \in 1..Bars : Analyse(i)
  \/ \E first, last \in 1..Bars : Backfill(first, last)

Spec == Init /\ [][Next]_vars

-----------------------------------------------------------------------------
Exits == [bar : 1..Bars, price : Levels, quantity : 1..Whole, reason : {"stop", "target"}]

(* The row stays well formed; an open trade always has a target ahead, so   *)
(* the branch "targets_completed" (paper_forward.py:205-208) is dead.       *)
PaperTypeOK ==
  /\ candles \in Seq(Candles) /\ analysed \subseteq DOMAIN candles
  /\ trade.status \in {"none", "waiting_entry", "open", "partially_closed"} \cup Terminal
  /\ trade.stop \in {Stop, Entry} /\ trade.remaining \in 0..Whole
  /\ trade.exits \in Seq(Exits)
  /\ trade.status \in {"open", "partially_closed"} => TargetsLeft(trade) # {}

(* What was entered is what has left plus what is left, and a trade is      *)
(* closed exactly when nothing is left, however its targets are configured  *)
(* and whatever is replayed (paper_forward.py:109-120, 216-223).            *)
Sold(exits) == Total([n \in DOMAIN exits |-> exits[n].quantity], 1, Len(exits))

QuantityConserved ==
  /\ Sold(trade.exits) + trade.remaining = Whole
  /\ trade.status = "closed" <=> trade.remaining = 0

(* "If the active stop and target are both touched by one candle, the stop  *)
(* wins": a target is only ever counted on a candle that stayed above the   *)
(* stop that was active then: the entry once a first target had filled.     *)
StopBefore(n) == IF \E m \in 1..(n - 1) : trade.exits[m].price = Target(1) THEN Entry ELSE Stop

StopWins ==
  \A n \in DOMAIN trade.exits :
    trade.exits[n].reason = "target" => candles[trade.exits[n].bar].low > StopBefore(n)

(* After its first target a trade cannot lose any more, also if candles     *)
(* reach it late, twice or out of order (paper_forward.py:220-221).         *)
NoLossAfterFirstTarget ==
  \A m, n \in DOMAIN trade.exits :
    m < n /\ trade.exits[m].price = Target(1) => trade.exits[n].price >= Entry

(* A result is final: no late candle and no backfill changes a trade that   *)
(* was closed or has expired (paper_forward.py:180).                        *)
ResultIsFinal == [][trade.status \in Terminal => trade' = trade]_vars

(* README.md:284: "Only one exit event is processed per candle."            *)
OneExitPerCandle ==
  \A m, n \in DOMAIN trade.exits : trade.exits[m].bar = trade.exits[n].bar => m = n
=============================================================================
