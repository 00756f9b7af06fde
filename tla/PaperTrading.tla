---------------------------- MODULE PaperTrading ----------------------------
(***************************************************************************)
(* The trade setups of one symbol and timeframe, and the paper positions   *)
(* opened on them: what process_closed_candle (services/pipeline.py)       *)
(* creates, ends, hands over and simulates when it analyses a candle, and  *)
(* what the API (api/routes.py) lets a user do with setups, positions and  *)
(* the account between two candles.                                        *)
(*                                                                         *)
(* A candle is analysed once by the stream, late by the analysis backfill, *)
(* or again when a snapshot is missing or rebuilt; each analysis is one    *)
(* transaction on the event loop, each request one transaction of its own. *)
(* What the detectors say of a candle is a choice of the step.             *)
(*                                                                         *)
(* Prices are levels: the stop below the entry zone, the targets above it. *)
(* Quantities are tenths of the first quantity; money is counted in tenths *)
(* of a level times a tenth of the quantity, so a fee of one tenth of a    *)
(* level per unit is 1.  Slippage is left out.                             *)
(***************************************************************************)
EXTENDS Naturals, Integers, Sequences, FiniteSets, FiniteSetsExt, SequencesExt, Sums, Orders

CONSTANTS
  Structural,   \* names of the strategies that need a structure event
  PaperOnly,    \* elliott_wave3_heikin_ashi
  Grades,       \* the statuses generate_setup may give an accepted setup
  Counts,       \* how many of the three targets a setup may have
  Expiry,       \* candles a setup lives (setup_expiry_candles)
  Starting,     \* the account's starting balance
  Routing,      \* what automatic_routing_enabled may say: a subset of BOOLEAN
  Feeds,        \* bound: markets, sequences of candles: low, high, close
  MaxSetups,    \* bound: setups
  MaxAnalyses   \* bound: analyses of candles, first or repeated

Stop == 1
Entry == 2
Target(n) == 2 + n
Levels == Stop..Target(3)

ASSUME TradingAssumption ==
  /\ IsFiniteSet(Structural) /\ PaperOnly \notin Structural /\ Counts \subseteq 1..3
  /\ Grades \subseteq {"ready", "watching"}
  /\ {Expiry, Starting, MaxSetups, MaxAnalyses} \subseteq Nat
  /\ Routing \subseteq BOOLEAN /\ Feeds # {} /\ Feeds \subseteq Seq(Levels \X Levels \X Levels)

VARIABLES
  candles,    \* the closed candles stored, oldest first
  breaks,     \* the candles on which a MarketStructureEvent was detected
  setups,     \* TradeSetup rows
  positions,  \* PaperPosition rows
  account,    \* the PaperAccount row; since: positions before the last reset
  analyses

vars == <<candles, breaks, setups, positions, account, analyses>>

Markets == {[i \in DOMAIN f |-> [low |-> f[i][1], high |-> f[i][2], close |-> f[i][3]]] : f \in Feeds}
Whole == 10

Live == {"watching", "ready", "triggered"}
Ended == {"expired", "invalidated", "cancelled"}
ActivePaper == {"waiting_entry", "open", "partially_closed"}

Init ==
  /\ candles = <<>> /\ breaks = {} /\ setups = <<>> /\ positions = <<>>
  /\ account = [starting |-> Starting, balance |-> Starting, since |-> 0]
  /\ analyses = 0

-----------------------------------------------------------------------------
(* Setups                                                                  *)

(* What generate_setup may decide: rejected, or the first so many of the    *)
(* three targets; confidence says whether it is ready.                      *)
Decisions == [status : Grades, targets : Counts] \cup
             [status : {"rejected"}, targets : {0}]

(* Mutant: the lookup of an existing row asks for the candle only.          *)
ExistingAtCandle(strategy, event, i) ==
  \E s \in DOMAIN setups : setups[s].strategy = strategy /\ setups[s].at = i

Existing(strategy, event, i) ==
  \E s \in DOMAIN setups :
    /\ setups[s].strategy = strategy
    /\ IF strategy = PaperOnly THEN setups[s].at = i ELSE setups[s].event = event

(* The latest event detected up to candle i, 0 without one.                 *)
LatestBreak(known, i) == Max({0} \cup {b \in known : b <= i})

NewSetup(strategy, event, i, d, auto) ==
  [strategy |-> strategy, event |-> event, at |-> i, status |-> d.status,
   targets |-> d.targets,
   routed |-> IF d.status = "ready" /\ auto /\ strategy # PaperOnly THEN {"created"} ELSE {}]

(* Without targets of its own; valid until its fixed time.                  *)
Wave3Decision == [status |-> "ready", targets |-> 0]

(* update_setup_lifecycle, "" for no change.                                *)
LifecycleStatus(s, i, c) ==
  IF i > s.at + Expiry /\ s.status # "triggered" THEN "expired"
  ELSE IF c.low <= Stop THEN "invalidated"
  ELSE IF s.status # "triggered" /\ c.low <= Entry /\ Entry <= c.high THEN "triggered"
  ELSE ""

(* Mutant: the hand-over at the trigger forgets the paper-only strategy.    *)
TriggeredRoutesAll(s, auto) ==
  [s EXCEPT !.status = "triggered", !.routed = IF auto THEN @ \cup {"triggered"} ELSE @]

Triggered(s, auto) ==
  [s EXCEPT !.status = "triggered",
            !.routed = IF auto /\ s.strategy # PaperOnly THEN @ \cup {"triggered"} ELSE @]

(* The lifecycle of a row created before; broken: its zone was invalidated. *)
Lived(s, i, c, broken, auto) ==
  LET next == IF broken THEN "invalidated" ELSE LifecycleStatus(s, i, c) IN
  IF s.status \notin Live \/ s.at >= i \/ next = "" THEN s
  ELSE IF next = "triggered" THEN Triggered(s, auto)
  ELSE [s EXCEPT !.status = next]

-----------------------------------------------------------------------------
(* Paper positions.  x holds the rows a step works on: the position p, the  *)
(* status of its setup and the account's balance.                           *)

Fee(quantity) == quantity
Pnl(price, quantity) == 10 * (price - Entry) * quantity - Fee(quantity)

(* Mutant: the account is credited without the fee of the exit.             *)
CloseQuantityGross(x, price, quantity) ==
  LET realized == Pnl(price, quantity)
      left == x.p.quantity - quantity
  IN  [x EXCEPT !.p.realized = @ + realized, !.p.quantity = left,
                !.p.status = IF left = 0 THEN "closed" ELSE @,
                !.balance = @ + realized + Fee(quantity)]

CloseQuantity(x, price, quantity) ==
  LET realized == Pnl(price, quantity)
      left == x.p.quantity - quantity
  IN  [x EXCEPT !.p.realized = @ + realized, !.p.quantity = left,
                !.p.status = IF left = 0 THEN "closed" ELSE @,
                !.balance = @ + realized]

Enters(x) ==
  [x EXCEPT !.p.status = "open", !.setup = "triggered",
            !.p.realized = @ - Fee(x.p.quantity), !.balance = @ - Fee(x.p.quantity)]

(* 30 % of the quantity, then four sevenths of the rest, then all of it.    *)
Slice(n, quantity) ==
  CASE n = 1 -> (quantity * 3) \div 10
    [] n = 2 -> (quantity * 4) \div 7
    [] n = 3 -> quantity

(* Mutant: also the last target leaves the position partially closed. *)
HitsTargetKeepsOpen(x, n) ==
  LET hit == CloseQuantity(x, Target(n), Slice(n, x.p.quantity)) IN
  [hit EXCEPT !.p.targets = @ \ {n}, !.p.stop = IF n = 1 THEN Entry ELSE @,
              !.p.status = "partially_closed"]

HitsTarget(x, n) ==
  LET hit == CloseQuantity(x, Target(n), Slice(n, x.p.quantity)) IN
  [hit EXCEPT !.p.targets = @ \ {n},
              !.p.stop = IF n = 1 THEN Entry ELSE @,
              !.p.status = IF hit.p.quantity > 0 THEN "partially_closed" ELSE @]

(* Mutant: a candle that touches both takes the target, then the stop for   *)
(* the quantity it had before.                                              *)
ExitsBoth(x, c) ==
  LET n == Min(x.p.targets)
      hit == IF c.high >= Target(n) THEN HitsTarget(x, n) ELSE x
  IN  IF x.p.targets = {} THEN x
      ELSE IF c.low <= x.p.stop THEN CloseQuantity(hit, x.p.stop, x.p.quantity)
      ELSE hit

(* candle_exit with "stop_first".  A rest without a target is left alone.   *)
Exits(x, c) ==
  LET n == Min(x.p.targets) IN
  IF x.p.targets = {} THEN x
  ELSE IF c.low <= x.p.stop THEN CloseQuantity(x, x.p.stop, x.p.quantity)
  ELSE IF c.high >= Target(n) THEN HitsTarget(x, n)
  ELSE x

(* process_paper_candle for one position; row is its setup.                 *)
PaperStep(x, row, i, c) ==
  IF x.p.status \notin ActivePaper THEN x
  ELSE IF x.p.status # "waiting_entry" THEN Exits(x, c)
  ELSE IF i > row.at + Expiry THEN [x EXCEPT !.p.status = "expired", !.setup = "expired"]
  ELSE IF c.low <= Stop THEN [x EXCEPT !.p.status = "invalidated", !.setup = "invalidated"]
  ELSE IF c.low <= Entry /\ Entry <= c.high THEN Exits(Enters(x), c)
  ELSE x

(* All positions of the symbol, one after the other, on the rows the        *)
(* analysis has left so far.                                                *)
PaperCandle(rows, i, c) ==
  LET after[k \in 0..Len(positions)] ==
        IF k = 0 THEN [rows |-> rows, positions |-> positions, balance |-> account.balance]
        ELSE LET b == after[k - 1]
                 s == b.positions[k].setup
                 x == PaperStep([p |-> b.positions[k], setup |-> b.rows[s].status,
                                 balance |-> b.balance], b.rows[s], i, c)
             IN  [rows |-> [b.rows EXCEPT ![s].status = x.setup],
                  positions |-> [b.positions EXCEPT ![k] = x.p],
                  balance |-> x.balance]
  IN  after[Len(positions)]

-----------------------------------------------------------------------------
(* run_backtest: the setups the same candles produce, simulated one after   *)
(* the other, in the order of their detection, with a single exit each.     *)

(* Mutant: a trade may enter on the candle the one before it left on.       *)
FutureFromExit(at, occupied) ==
  {i \in DOMAIN candles : i > at /\ i <= at + Expiry /\ i >= occupied}

(* The candles a setup may enter on.                                        *)
Future(at, occupied) ==
  {i \in DOMAIN candles : i > at /\ i <= at + Expiry /\ i > occupied}

BacktestTrade(s, occupied) ==
  LET future == Future(setups[s].at, occupied)
      entries == {i \in future : candles[i].low <= Entry /\ Entry <= candles[i].high}
      path == {i \in future : i >= Min(entries)}
      leaves == {i \in path : \/ candles[i].low <= Stop
                              \/ candles[i].high >= Target(setups[s].targets)}
  IN  IF entries = {} THEN <<>>
      ELSE <<[setup |-> s, entry |-> Min(entries),
              exit |-> IF leaves = {} THEN Max(path) ELSE Min(leaves)]>>

ByDetection ==
  Ordered({s \in DOMAIN setups : setups[s].targets > 0},
          {p \in (DOMAIN setups) \X (DOMAIN setups) :
             \/ setups[p[1]].at < setups[p[2]].at
             \/ setups[p[1]].at = setups[p[2]].at /\ p[1] < p[2]})

BacktestTrades ==
  LET order == ByDetection
      upTo[n \in 0..Len(order)] ==
        IF n = 0 THEN <<>>
        ELSE LET done == upTo[n - 1]
                 occupied == IF done = <<>> THEN 0 ELSE Last(done).exit
             IN  done \o BacktestTrade(order[n], occupied)
  IN  upTo[Len(order)]

-----------------------------------------------------------------------------
(* Actions                                                                 *)

CandleStored(m) ==
  /\ Len(candles) < Len(m) /\ IsPrefix(candles, m)
  /\ candles' = Append(candles, m[Len(candles) + 1])
  /\ UNCHANGED <<breaks, setups, positions, account, analyses>>

(* process_closed_candle of candle i.  broke: it adds a structure event;    *)
(* decided: what is decided of the candidates that have no row yet, by      *)
(* strategy; wave3: the paper-only strategy, if it has a signal and no row; *)
(* broken: setups whose zone is invalidated; auto: automatic_routing_enabled. *)
Analyse(i, broke, decided, wave3, broken, auto) ==
  LET c == candles[i]
      known == IF broke THEN breaks \cup {i} ELSE breaks
      event == LatestBreak(known, i)
      rows == SetToSeq({NewSetup(n, event, i, decided[n], auto) : n \in DOMAIN decided} \cup
                       {NewSetup(n, event, i, Wave3Decision, auto) : n \in wave3})
      lived == [s \in DOMAIN setups |-> Lived(setups[s], i, c, s \in broken, auto)]
      paper == PaperCandle(lived \o rows, i, c)
  IN
  /\ analyses < MaxAnalyses
  /\ Len(setups) + Cardinality(DOMAIN decided) + Cardinality(wave3) <= MaxSetups
  /\ broke => i \notin breaks
  /\ DOMAIN decided # {} => event # 0
  /\ \A n \in DOMAIN decided \cup wave3 : ~Existing(n, event, i)
  /\ analyses' = analyses + 1
  /\ breaks' = known
  /\ setups' = paper.rows
  /\ positions' = paper.positions
  /\ account' = [account EXCEPT !.balance = paper.balance]
  /\ UNCHANGED candles

RejectTradeSetup(s) ==
  /\ setups[s].status \notin {"triggered", "rejected"}
  /\ setups' = [setups EXCEPT ![s].status = "rejected"]
  /\ UNCHANGED <<candles, breaks, positions, account, analyses>>

(* validate_setup refuses a setup without targets.                          *)
PaperTradeSetup(s) ==
  /\ setups[s].status = "ready" /\ setups[s].targets > 0
  /\ \A k \in DOMAIN positions : positions[k].setup = s => positions[k].status \notin ActivePaper
  /\ positions' = Append(positions,
       [setup |-> s, status |-> "waiting_entry", quantity |-> Whole, stop |-> Stop,
        targets |-> 1..setups[s].targets, realized |-> 0])
  /\ setups' = [setups EXCEPT ![s].status = "waiting_entry"]
  /\ UNCHANGED <<candles, breaks, account, analyses>>

(* Mutant: the setup is cancelled, its position goes on waiting. *)
CancelledSetupOnly(k) == positions

CancelledPosition(k) == [positions EXCEPT ![k].status = "cancelled"]

CancelPaperPosition(k) ==
  /\ positions[k].status = "waiting_entry"
  /\ positions' = CancelledPosition(k)
  /\ setups' = [setups EXCEPT ![positions[k].setup].status = "cancelled"]
  /\ UNCHANGED <<candles, breaks, account, analyses>>

(* Everything is sold at the close of the newest candle.                    *)
ClosePaperPosition(k) ==
  LET x == CloseQuantity([p |-> positions[k], balance |-> account.balance],
                         Last(candles).close, positions[k].quantity) IN
  /\ positions[k].status \in {"open", "partially_closed"}
  /\ positions' = [positions EXCEPT ![k] = x.p]
  /\ account' = [account EXCEPT !.balance = x.balance]
  /\ UNCHANGED <<candles, breaks, setups, analyses>>

(* A reset without a position since the last one changes nothing.           *)
ResetPaperAccount ==
  /\ account.since < Len(positions)
  /\ \A k \in DOMAIN positions : positions[k].status \notin ActivePaper
  /\ account' = [starting |-> Starting, balance |-> Starting, since |-> Len(positions)]
  /\ UNCHANGED <<candles, breaks, setups, positions, analyses>>

Next ==
  \/ \E m \in Markets : CandleStored(m)
  \/ \E i \in DOMAIN candles, broke \in BOOLEAN, found \in SUBSET Structural,
        wave3 \in SUBSET {PaperOnly}, auto \in Routing,
        broken \in SUBSET {s \in DOMAIN setups : setups[s].status \in Live} :
       \E decided \in [found -> Decisions] : Analyse(i, broke, decided, wave3, broken, auto)
  \/ \E s \in DOMAIN setups : RejectTradeSetup(s)
  \/ \E s \in DOMAIN setups : PaperTradeSetup(s)
  \/ \E k \in DOMAIN positions : CancelPaperPosition(k)
  \/ \E k \in DOMAIN positions : ClosePaperPosition(k)
  \/ ResetPaperAccount

Spec == Init /\ [][Next]_vars

-----------------------------------------------------------------------------
Statuses == Live \cup Ended \cup {"waiting_entry", "rejected"}

(* Rows stay well formed.                                                   *)
TradingTypeOK ==
  /\ \E m \in Markets : IsPrefix(candles, m)
  /\ breaks \subseteq DOMAIN candles
  /\ setups \in Seq([strategy : Structural \cup {PaperOnly}, event : {0} \cup breaks, at : DOMAIN candles,
                     status : Statuses, targets : {0} \cup Counts,
                     routed : SUBSET {"created", "triggered"}])
  /\ positions \in Seq([setup : DOMAIN setups, quantity : 0..Whole, stop : {Stop, Entry},
                        status : ActivePaper \cup Ended \cup {"closed"},
                        targets : SUBSET (1..3), realized : Int])
  /\ account.balance \in Int /\ account.since \in 0..Len(positions)

(* The account's balance is what it started with and what its positions     *)
(* have realized since, with the fees of their entries and exits, however   *)
(* they were closed: by the stop, in parts by their targets, by the user at *)
(* the last price, and across resets (trading/paper.py:26-53).              *)
Realized == Total([k \in DOMAIN positions |-> positions[k].realized],
                  account.since + 1, Len(positions))

BalanceIsRealized == account.balance = account.starting + Realized

(* A position that was never entered has cost nothing, and one is closed    *)
(* exactly when nothing of it is left, whether its last part went at the    *)
(* stop, at its last target or by the user's request                        *)
(* (trading/paper.py:49-53, 107-124).                                       *)
SettledWhenClosed ==
  \A k \in DOMAIN positions :
    LET p == positions[k] IN
    /\ p.status = "closed" <=> p.quantity = 0
    /\ p.status \in Ended \cup {"waiting_entry"} => p.realized = 0 /\ p.quantity = Whole

(* Candles are analysed late and again, and a structure event stays the     *)
(* latest one for many candles: still a strategy has one setup for one      *)
(* event, and the paper-only one a single setup for one candle              *)
(* (services/pipeline.py:727-737, 857-866, 986-999).                        *)
OneSetupPerEvent ==
  \A r, s \in DOMAIN setups :
    /\ setups[r].strategy = setups[s].strategy
    /\ IF setups[r].strategy = PaperOnly THEN setups[r].at = setups[s].at
                                        ELSE setups[r].event = setups[s].event
    => r = s

(* "elliott_wave3_heikin_ashi must never reach automatic execution"         *)
(* (services/pipeline.py:1093-1098), neither when its setup is created nor  *)
(* when a later candle triggers it; and without targets it is not traded on *)
(* paper by a request either.                                               *)
PaperOnlyNeverRouted ==
  \A s \in DOMAIN setups : setups[s].strategy = PaperOnly =>
    /\ setups[s].routed = {}
    /\ \A k \in DOMAIN positions : positions[k].setup # s

(* A setup that has expired, was invalidated or was cancelled is not taken  *)
(* up again, by the analyses and requests of this module: no waiting        *)
(* position and no late or repeated candle brings it back; and a position   *)
(* that has ended stays as it is, whichever candles come                    *)
(* (api/routes.py:822-836, trading/paper.py:58-91).                         *)
EndedStaysEnded ==
  [][/\ \A s \in DOMAIN setups :
          setups[s].status \in Ended => setups'[s].status \in {setups[s].status, "rejected"}
     /\ \A k \in DOMAIN positions :
          positions[k].status \notin ActivePaper => positions'[k] = positions[k]]_vars

(* The zone of setup s is touched while it is valid.                        *)
Touches(s, i) ==
  /\ i > setups[s].at /\ i <= setups[s].at + Expiry
  /\ candles[i].low <= Entry /\ Entry <= candles[i].high

(* The back test never looks ahead, holds one trade at a time and leaves    *)
(* nothing out: a trade enters after its setup was detected and while it is *)
(* valid, at the first candle of its zone after the trade before it has     *)
(* left; a setup without a trade had no such candle while the book was      *)
(* free (trading/backtest.py:179-218).                                      *)
BacktestInOrder ==
  LET trades == BacktestTrades IN
  /\ \A n \in DOMAIN trades :
       /\ Touches(trades[n].setup, trades[n].entry) /\ trades[n].entry <= trades[n].exit
       /\ trades[n].exit <= setups[trades[n].setup].at + Expiry
       /\ n > 1 => trades[n - 1].exit < trades[n].entry
  /\ \A s \in DOMAIN setups : setups[s].targets > 0 =>
       \A i \in DOMAIN candles : Touches(s, i) =>
         \E n \in DOMAIN trades : \/ trades[n].setup = s /\ trades[n].entry <= i
                                  \/ /\ setups[trades[n].setup].at <= setups[s].at
                                     /\ trades[n].setup # s /\ i <= trades[n].exit
=============================================================================
