--------------------------- MODULE EntryExecution ---------------------------
(***************************************************************************)
(* Order entry on the Binance Spot testnet: the automatic executor         *)
(* (execution/orchestrator.py), the admin endpoint that executes a setup   *)
(* directly (api/execution.py), the entry half of the user-data stream     *)
(* (services/binance_user_stream.py) and the operator's controls.          *)
(*                                                                         *)
(* The backend is one asyncio loop: code between two awaits is one action, *)
(* and anything may happen at an await.  A handoff task walks through      *)
(*   begin -> market -> submit -> test -> place -> ack (-> lookup)         *)
(* where each name says what the task does or awaits next.  An execute     *)
(* request walks through market -> test -> place -> ack (-> lookup) inside *)
(* ONE open transaction: it holds the row lock of the setup and its        *)
(* order row stays uncommitted until the exchange has answered.            *)
(***************************************************************************)
EXTENDS BotControl, Naturals, Sequences, FiniteSets

CONSTANTS
  Setups,            \* trade setups; one symbol or several
  SymbolOf,          \* SymbolOf[s]: the setup's symbol
  WindowOf,          \* WindowOf[s]: its setup_fingerprint
  Workers,           \* concurrent handoff() tasks
  Executors,         \* concurrent POST /setups/{id}/execute requests
  MaxOpenPositions,  \* risk_config "max_open_positions"
  Lots,              \* fills that complete one order
  MaxOps,            \* bound: operator commands in one behaviour
  MaxFaults          \* bound: crashes, disconnections and redeliveries

ASSUME EntryAssumption ==
  /\ Workers \cap Executors = {}
  /\ MaxOpenPositions \in Nat \ {0}
  /\ Lots \in Nat \ {0}
  /\ MaxOps \in Nat /\ MaxFaults \in Nat
  /\ Setups # {}
  /\ \A s, t \in Setups : WindowOf[s] = WindowOf[t] => SymbolOf[s] = SymbolOf[t]

VARIABLES
  \* the database
  setupStatus,   \* TradeSetup.status
  order,         \* ExecutionOrder.execution_state of the committed entry row, or "none"
  fills,         \* ExecutionFill rows: the exchange trade ids recorded
  position,      \* LivePosition opened by the setup
  \* the tasks of the event loop
  pc, target, manual,
  resp,          \* what the exchange answered: travels back while pc = "ack"
  hung,          \* the loop is blocked in a database call that waits for a lock
  protecting,    \* user stream: the position whose establish() it is awaiting
  checking,      \* POST /reconcile: the rows its query selected
  \* the exchange and the user-data stream
  accepted,      \* orders accepted for the setup's clientOrderId
  traded,        \* trades executed for it
  left,          \* lots still open at the exchange
  wire,          \* events on the socket, oldest first
  connected,
  \* history and bounds
  sends,         \* place_order calls made by handoff tasks
  ops, faults

dbVars == <<setupStatus, order, fills, position>>
taskVars == <<pc, target, manual, resp>>
loopVars == <<hung, protecting, checking>>
exchangeVars == <<accepted, traded, left, wire, connected>>
countVars == <<sends, ops, faults>>
vars == <<bot, ledgerKill, dbVars, taskVars, loopVars, exchangeVars, countVars>>

Tasks == Workers \cup Executors
Eligible == {"ready", "approved"}
OrderStates == {"none", "created", "submitting", "acknowledged", "filled",
                "partially_filled", "expired", "canceled", "unknown", "reconciled",
                "rejected", "failed"}
EventStates == {"acknowledged", "partially_filled", "filled", "expired", "canceled"}
Events == [setup : Setups, trade : Nat, status : EventStates]
Positions == [status : {"none", "open", "closed"}, base : Nat, remaining : Nat,
              prot : {"none", "protection_pending", "protected", "unprotected",
                      "closed"}]
NoPosition == [status |-> "none", base |-> 0, remaining |-> 0, prot |-> "none"]

(* An operator has started the bot, in automatic or in approval mode. *)
RunningBot == {[DefaultBot EXCEPT !.status = "running", !.auto = TRUE,
                 !.approval = a, !.pause = FALSE, !.enabled = TRUE] : a \in BOOLEAN}

SomeSetup == CHOOSE s \in Setups : TRUE

Init ==
  /\ bot \in RunningBot /\ ledgerKill = FALSE
  /\ setupStatus = [s \in Setups |-> "ready"]
  /\ order = [s \in Setups |-> "none"]
  /\ fills = [s \in Setups |-> {}]
  /\ position = [s \in Setups |-> NoPosition]
  /\ pc = [w \in Tasks |-> "idle"]
  /\ target = [w \in Tasks |-> SomeSetup]
  /\ manual = [w \in Tasks |-> FALSE]
  /\ resp = [w \in Tasks |-> "none"]
  /\ hung = FALSE /\ protecting = {} /\ checking = {}
  /\ accepted = [s \in Setups |-> 0]
  /\ traded = [s \in Setups |-> 0]
  /\ left = [s \in Setups |-> 0]
  /\ wire = <<>> /\ connected = TRUE
  /\ sends = [s \in Setups |-> 0] /\ ops = 0 /\ faults = 0

Goto(w, label) ==
  /\ pc' = [pc EXCEPT ![w] = label]
  /\ UNCHANGED <<target, manual>>

Begin(w, s, label, approved) ==
  /\ pc' = [pc EXCEPT ![w] = label]
  /\ target' = [target EXCEPT ![w] = s]
  /\ manual' = [manual EXCEPT ![w] = approved]
  /\ UNCHANGED resp

(* The task ends and its locals with it. *)
Finish(w) ==
  /\ pc' = [pc EXCEPT ![w] = "idle"]
  /\ target' = [target EXCEPT ![w] = SomeSetup]
  /\ manual' = [manual EXCEPT ![w] = FALSE]
  /\ resp' = [resp EXCEPT ![w] = "none"]

(***************************************************************************)
(* Row locks and unique keys.  context() of /execute selects the setup FOR *)
(* UPDATE and keeps the transaction open over every await.                 *)
(***************************************************************************)
Holds(x, s) == x \in Executors /\ pc[x] \in {"market", "test", "place", "ack"} /\ target[x] = s
RowFree(s) == \A x \in Executors : ~Holds(x, s)

(* An /execute request's own order row, inserted but not committed. *)
Uncommitted(t) == \E x \in Executors : Holds(x, t) /\ pc[x] # "market"
SameWindow(s, t) == WindowOf[s] = WindowOf[t]

(***************************************************************************)
(* The gates in front of an entry.                                         *)
(***************************************************************************)
Active(s) == position[s].status = "open"

PreflightOK(s, approved) ==
  /\ bot.status = "running"
  /\ ~bot.pause
  /\ ~bot.kill /\ ~ledgerKill
  /\ IF approved THEN bot.approval ELSE bot.auto /\ ~bot.approval
  /\ \A t \in Setups : SymbolOf[t] = SymbolOf[s] /\ Active(t) => position[t].prot = "protected"
  /\ setupStatus[s] \in Eligible

(* Mutant: the fingerprint is not compared, only the setup. *)
NoOrderOfSetup(s) == order[s] = "none"

NoOrderInWindow(s) == \A t \in Setups : SameWindow(s, t) => order[t] = "none"

PositionsBelowLimit ==
  Cardinality({t \in Setups : Active(t)}) < MaxOpenPositions

(* ExecutionRiskEngine.evaluate; its checks of prices, sizes and balances   *)
(* only ever refuse more, which the actions below allow at any time.        *)
RiskOK(s) ==
  /\ setupStatus[s] \in Eligible
  /\ NoOrderInWindow(s)
  /\ PositionsBelowLimit

(* What a task may do with the setup's row: everybody but the lock's holder *)
(* would block the whole loop, see LoopHangs.                               *)
Running(w, label) ==
  /\ ~hung
  /\ pc[w] = label
  /\ w \in Workers => RowFree(target[w])

(***************************************************************************)
(* handoff(): two transactions around three market reads, a third that     *)
(* marks the order submitted, then test_order, place_order and the answer. *)
(***************************************************************************)

(* process_closed_candle routes a setup that became ready or triggered.     *)
AutoHandoff(w, s) ==
  /\ ~hung /\ pc[w] = "idle"
  /\ AutomaticRoutingEnabled
  /\ setupStatus[s] = "ready"
  /\ Begin(w, s, "begin", FALSE)
  /\ UNCHANGED <<bot, ledgerKill, dbVars, loopVars, exchangeVars, countVars>>

(* POST /setups/{id}/approve: marks the setup approved, then awaits handoff. *)
Approve(w, s) ==
  /\ ~hung /\ pc[w] = "idle" /\ RowFree(s)
  /\ bot.approval
  /\ setupStatus[s] = "ready"
  /\ setupStatus' = [setupStatus EXCEPT ![s] = "approved"]
  /\ Begin(w, s, "begin", TRUE)
  /\ UNCHANGED <<bot, ledgerKill, order, fills, position, loopVars, exchangeVars, countVars>>

(* A handoff is skipped for a reason the gates name, for an existing order  *)
(* of the setup, or for one the model leaves out (expired, not allowed).    *)
HandoffSkips(w) ==
  /\ w \in Workers
  /\ Running(w, "begin") \/ Running(w, "market")
  /\ Finish(w)
  /\ UNCHANGED <<bot, ledgerKill, dbVars, loopVars, exchangeVars,
                 countVars>>

HandoffBegins(w) ==
  /\ w \in Workers /\ Running(w, "begin")
  /\ order[target[w]] = "none"
  /\ PreflightOK(target[w], manual[w])
  /\ Goto(w, "market")
  /\ UNCHANGED <<bot, ledgerKill, dbVars, resp, loopVars, exchangeVars,
                 countVars>>

(* The market reads answered: the gates are evaluated again and the order   *)
(* row is inserted.  An uncommitted row of the same window would block the  *)
(* insert on its unique key.                                                *)
HandoffClaims(w) ==
  LET s == target[w] IN
  /\ w \in Workers /\ Running(w, "market")
  /\ order[s] = "none"
  /\ PreflightOK(s, manual[w])
  /\ RiskOK(s)
  /\ \A t \in Setups : SameWindow(s, t) => ~Uncommitted(t)
  /\ order' = [order EXCEPT ![s] = "created"]
  /\ Goto(w, "submit")
  /\ UNCHANGED <<bot, ledgerKill, setupStatus, fills, position, resp,
                 loopVars, exchangeVars, countVars>>

HandoffSubmits(w) ==
  /\ w \in Workers /\ Running(w, "submit")
  /\ order' = [order EXCEPT ![target[w]] = "submitting"]
  /\ Goto(w, "test")
  /\ resp' = [resp EXCEPT ![w] = "none"]
  /\ UNCHANGED <<bot, ledgerKill, setupStatus, fills, position, loopVars,
                 exchangeVars, countVars>>

(* test_order accepted the parameters; place_order is called next, without  *)
(* looking at any gate again.                                               *)
TestPasses(w) ==
  /\ ~hung /\ pc[w] = "test"
  /\ Goto(w, "place")
  /\ UNCHANGED <<bot, ledgerKill, dbVars, resp, loopVars, exchangeVars,
                 countVars>>

Event(s, trade, status) == [setup |-> s, trade |-> trade, status |-> status]

StatusAfter(rest) == IF rest = 0 THEN "filled" ELSE "partially_filled"

(* The events the exchange sends for an accepted order with k trades.       *)
Reports(s, k) ==
  <<Event(s, 0, "acknowledged")>> \o
    [i \in 1..k |-> Event(s, traded[s] + i, StatusAfter(left[s] + Lots - i))]

Deliver(events) == wire' = IF connected THEN wire \o events ELSE wire

(* The exchange takes the order, trades k lots of it at once, and answers.  *)
Accept(w, k) ==
  LET s == target[w] IN
  /\ accepted' = [accepted EXCEPT ![s] = @ + 1]
  /\ traded' = [traded EXCEPT ![s] = @ + k]
  /\ left' = [left EXCEPT ![s] = @ + Lots - k]
  /\ Deliver(Reports(s, k))
  /\ resp' = [resp EXCEPT ![w] = IF k = Lots THEN "filled" ELSE "acknowledged"]
  /\ UNCHANGED connected

CountSend(w) ==
  sends' = IF w \in Workers THEN [sends EXCEPT ![target[w]] = @ + 1] ELSE sends

(* Mutant: a request without an answer is sent again. *)
PlaceOrderRetrying(w) ==
  /\ ~hung /\ pc[w] = "place"
  /\ CountSend(w)
  /\ \/ Goto(w, "ack") /\ \E k \in 0..Lots : Accept(w, k)
     \/ sends[target[w]] < 2 /\ UNCHANGED <<pc, target, manual, resp, exchangeVars>>
  /\ UNCHANGED <<bot, ledgerKill, dbVars, loopVars, ops, faults>>

(* place_order: one request, repeated only if a rate limit refused it.  It  *)
(* may be taken by the exchange or not; the task learns which only from     *)
(* the answer.                                                              *)
PlaceOrder(w) ==
  /\ ~hung /\ pc[w] = "place"
  /\ Goto(w, "ack")
  /\ CountSend(w)
  /\ \/ \E k \in 0..Lots : Accept(w, k)
     \/ UNCHANGED <<resp, exchangeVars>>
  /\ UNCHANGED <<bot, ledgerKill, dbVars, loopVars, ops, faults>>

(* The answer is recorded over whatever the user stream has written.        *)
RecordAck(w) ==
  LET s == target[w] IN
  /\ w \in Workers /\ Running(w, "ack") /\ resp[w] # "none"
  /\ order' = [order EXCEPT ![s] = resp[w]]
  /\ setupStatus' = [setupStatus EXCEPT ![s] =
                       IF resp[w] = "filled" THEN "executed" ELSE "acknowledged"]
  /\ Finish(w)
  /\ UNCHANGED <<bot, ledgerKill, fills, position, loopVars,
                 exchangeVars, countVars>>

(* _handle_binance_error with exc.unknown: a timeout or a 5xx answer.       *)
OutcomeUnknown(w) ==
  /\ w \in Workers /\ (Running(w, "test") \/ Running(w, "ack"))
  /\ order' = [order EXCEPT ![target[w]] = "unknown"]
  /\ Goto(w, "lookup")
  /\ UNCHANGED <<bot, ledgerKill, setupStatus, fills, position, resp,
                 loopVars, exchangeVars, countVars>>

(* Mutant: the order is asked for until it is found. *)
LookupOrderPolls(w) ==
  /\ Running(w, "lookup")
  /\ accepted[target[w]] > 0
  /\ order' = [order EXCEPT ![target[w]] = "reconciled"]
  /\ Finish(w)
  /\ UNCHANGED <<bot, ledgerKill, setupStatus, fills, position, loopVars, exchangeVars, countVars>>

(* get_order by clientOrderId, once: found, or still unknown.               *)
LookupOrder(w) ==
  LET s == target[w] IN
  /\ Running(w, "lookup")
  /\ \/ accepted[s] > 0 /\ order' = [order EXCEPT ![s] = "reconciled"]
     \/ UNCHANGED order
  /\ Finish(w)
  /\ UNCHANGED <<bot, ledgerKill, setupStatus, fills, position, loopVars, exchangeVars, countVars>>

(* _handle_binance_error otherwise: the order it marks rejected is looked   *)
(* up by setup, so a failed market read also hits another task's order.     *)
OutcomeRejected(w) ==
  LET s == target[w] IN
  /\ w \in Workers
  /\ \/ Running(w, "market") \/ Running(w, "test")
     \/ Running(w, "ack") /\ resp[w] = "none"
  /\ order' = [order EXCEPT ![s] = IF @ = "none" THEN "none" ELSE "rejected"]
  /\ Finish(w)
  /\ UNCHANGED <<bot, ledgerKill, setupStatus, fills, position, loopVars, exchangeVars, countVars>>

(* Any other exception, such as a disconnect while the answer is read.      *)
OutcomeException(w) ==
  LET s == target[w] IN
  /\ w \in Workers
  /\ Running(w, "market") \/ Running(w, "test") \/ Running(w, "ack")
  /\ order' = [order EXCEPT ![s] = IF @ \in {"created", "submitting"} THEN "failed" ELSE @]
  /\ Finish(w)
  /\ UNCHANGED <<bot, ledgerKill, setupStatus, fills, position, loopVars, exchangeVars, countVars>>

(***************************************************************************)
(* POST /setups/{id}/execute.                                              *)
(***************************************************************************)
ExecuteBegins(x, s) ==
  /\ ~hung /\ pc[x] = "idle" /\ RowFree(s) /\ ops < MaxOps
  /\ Begin(x, s, "market", TRUE)
  /\ ops' = ops + 1
  /\ UNCHANGED <<bot, ledgerKill, dbVars, loopVars, exchangeVars, sends, faults>>

(* The endpoint consults the ledger's kill switch and the risk engine, not  *)
(* the runtime row; execution_require_manual_approval = false is allowed.   *)
ExecuteInserts(x) ==
  LET s == target[x] IN
  /\ x \in Executors /\ Running(x, "market")
  /\ ~ledgerKill
  /\ RiskOK(s)
  /\ \A t \in Setups : SameWindow(s, t) => ~Uncommitted(t)
  /\ Goto(x, "test")
  /\ UNCHANGED <<bot, ledgerKill, dbVars, resp, loopVars, exchangeVars, countVars>>

ExecuteAcks(x) ==
  LET s == target[x] IN
  /\ x \in Executors /\ Running(x, "ack") /\ resp[x] # "none"
  /\ order' = [order EXCEPT ![s] = "acknowledged"]
  /\ setupStatus' = [setupStatus EXCEPT ![s] = "acknowledged"]
  /\ Finish(x)
  /\ UNCHANGED <<bot, ledgerKill, fills, position, loopVars, exchangeVars, countVars>>

ExecuteUnknown(x) ==
  /\ x \in Executors /\ (Running(x, "test") \/ Running(x, "ack"))
  /\ order' = [order EXCEPT ![target[x]] = "unknown"]
  /\ Goto(x, "lookup")
  /\ UNCHANGED <<bot, ledgerKill, setupStatus, fills, position, resp, loopVars, exchangeVars,
                 countVars>>

ExecuteRejected(x) ==
  /\ x \in Executors
  /\ Running(x, "test") \/ (Running(x, "ack") /\ resp[x] = "none")
  /\ order' = [order EXCEPT ![target[x]] = "rejected"]
  /\ Finish(x)
  /\ UNCHANGED <<bot, ledgerKill, setupStatus, fills, position, loopVars, exchangeVars,
                 countVars>>

(* A refused request, or an exception that is not a BinanceError: the       *)
(* session is closed and the inserted row is rolled back.                   *)
ExecuteAborts(x) ==
  /\ x \in Executors
  /\ Running(x, "market") \/ Running(x, "test") \/ Running(x, "ack")
  /\ Finish(x)
  /\ UNCHANGED <<bot, ledgerKill, dbVars, loopVars, exchangeVars, countVars>>

(* Another coroutine runs into the lock an /execute request holds across    *)
(* its awaits.  The driver is synchronous: the wait stops the event loop,   *)
(* and with it the holder.                                                  *)
LoopHangs ==
  /\ ~hung
  /\ \/ \E w \in Workers : pc[w] \notin {"idle", "place"} /\ ~RowFree(target[w])
     \/ \E w \in Workers : /\ pc[w] = "market"
                           /\ \E t \in Setups : SameWindow(target[w], t) /\ Uncommitted(t)
     \/ \E x \in Executors, s \in Setups :
          /\ ~RowFree(s)
          /\ \/ pc[x] = "idle" /\ ops < MaxOps
             \/ pc[x] = "market" /\ Uncommitted(s) /\ SameWindow(target[x], s)
     \/ wire # <<>> /\ order[Head(wire).setup] # "none" /\ ~RowFree(Head(wire).setup)
  /\ hung' = TRUE
  /\ UNCHANGED <<bot, ledgerKill, dbVars, taskVars, protecting, checking, exchangeVars,
                 countVars>>

(***************************************************************************)
(* The user-data stream: one consumer, one event at a time.                *)
(***************************************************************************)
StreamReady == ~hung /\ connected /\ protecting = {} /\ wire # <<>>

(* No committed row has this clientOrderId: not an order of this system.    *)
StreamIgnores ==
  /\ StreamReady
  /\ order[Head(wire).setup] = "none"
  /\ wire' = Tail(wire)
  /\ UNCHANGED <<bot, ledgerKill, dbVars, taskVars, loopVars, accepted, traded, left,
                 connected, countVars>>

(* Mutant: a further lot is booked as sold. *)
BoughtWrongSign(p) ==
  IF p.status = "none"
  THEN [status |-> "open", base |-> 1, remaining |-> 1, prot |-> "protection_pending"]
  ELSE [p EXCEPT !.status = "open", !.base = @ + 1, !.remaining = @ - 1]

(* _update_position for a BUY fill of one lot.                              *)
Bought(p) ==
  IF p.status = "none"
  THEN [status |-> "open", base |-> 1, remaining |-> 1, prot |-> "protection_pending"]
  ELSE [p EXCEPT !.status = "open", !.base = @ + 1, !.remaining = @ + 1]

(* Mutant: fills have no unique key. *)
DuplicateFillIgnored(e) == e.trade = 0 /\ FALSE

DuplicateFill(e) == e.trade \in fills[e.setup]

(* A report of an order of this system that is not a repeated fill: the     *)
(* order row takes its status whatever it was, a trade becomes a fill row   *)
(* and part of the position, and a complete order is protected next.        *)
StreamReports ==
  LET e == Head(wire) s == Head(wire).setup IN
  /\ StreamReady
  /\ order[s] # "none" /\ RowFree(s)
  /\ ~DuplicateFill(e)
  /\ order' = [order EXCEPT ![s] = e.status]
  /\ IF e.trade = 0
     THEN UNCHANGED <<fills, position, protecting>>
     ELSE /\ fills' = [fills EXCEPT ![s] = @ \cup {e.trade}]
          /\ position' = [position EXCEPT ![s] = Bought(@)]
          /\ protecting' = IF e.status = "filled" THEN {s} ELSE {}
  /\ wire' = Tail(wire)
  /\ UNCHANGED <<bot, ledgerKill, setupStatus, taskVars, hung, checking, accepted, traded,
                 left, connected, countVars>>

(* The unique key of the fill refuses it: everything is rolled back.        *)
StreamRepeats ==
  LET e == Head(wire) IN
  /\ StreamReady
  /\ order[e.setup] # "none" /\ RowFree(e.setup)
  /\ DuplicateFill(e)
  /\ wire' = Tail(wire)
  /\ UNCHANGED <<bot, ledgerKill, dbVars, taskVars, loopVars, accepted, traded, left,
                 connected, countVars>>

(* establish(): the position ends up protected or flagged, see Protection.  *)
StreamProtects(s) ==
  /\ ~hung /\ s \in protecting
  /\ \E result \in {"protected", "unprotected"} :
       position' = [position EXCEPT ![s].prot = IF Active(s) THEN result ELSE @]
  /\ protecting' = {}
  /\ UNCHANGED <<bot, ledgerKill, setupStatus, order, fills, taskVars, hung, checking,
                 exchangeVars, countVars>>

(***************************************************************************)
(* POST /execution/reconcile: selects rows, asks for each, commits once.   *)
(***************************************************************************)
ReconcileSelects ==
  /\ ~hung /\ checking = {} /\ ops < MaxOps
  /\ checking' = {s \in Setups : order[s] \in {"unknown", "submitting", "acknowledged"}}
  /\ ops' = ops + 1
  /\ UNCHANGED <<bot, ledgerKill, dbVars, taskVars, hung, protecting, exchangeVars, sends,
                 faults>>

(* Mutant: an order the exchange does not know is queued again. *)
ReconcileRequeues ==
  /\ ~hung /\ checking # {}
  /\ order' = [s \in Setups |-> IF s \notin checking THEN order[s]
                                ELSE IF accepted[s] > 0 THEN "reconciled" ELSE "submitting"]
  /\ checking' = {}
  /\ UNCHANGED <<bot, ledgerKill, setupStatus, fills, position, taskVars, hung, protecting,
                 exchangeVars, countVars>>

(* An order is found if the exchange had taken it when it was asked for; an *)
(* error of the exchange rolls the whole request back.                      *)
ReconcileCommits ==
  /\ ~hung /\ checking # {}
  /\ \E found \in SUBSET {s \in checking : accepted[s] > 0} :
       order' = [s \in Setups |-> IF s \in found THEN "reconciled" ELSE order[s]]
  /\ checking' = {}
  /\ UNCHANGED <<bot, ledgerKill, setupStatus, fills, position, taskVars, hung, protecting,
                 exchangeVars, countVars>>

(***************************************************************************)
(* The rest of the system, the operator, the exchange and failures.        *)
(***************************************************************************)

(* POST /setups/{id}/reject, and the lifecycle step of the candle pipeline: *)
(* both take the setup to a status no gate lets through.                    *)
SetupDropped(s) ==
  /\ RowFree(s)
  /\ setupStatus[s] = "ready"
  /\ setupStatus' = [setupStatus EXCEPT ![s] = "dropped"]
  /\ UNCHANGED <<bot, ledgerKill, order, fills, position, taskVars, loopVars, exchangeVars,
                 countVars>>

Reject(s) == SetupDropped(s)
Invalidate(s) == ~hung /\ SetupDropped(s)

(* A protective exit, a manual close or a reconciliation ends the position. *)
PositionCloses(s) ==
  /\ ~hung /\ Active(s)
  /\ position' = [position EXCEPT ![s].status = "closed", ![s].remaining = 0,
                                  ![s].prot = "closed"]
  /\ UNCHANGED <<bot, ledgerKill, setupStatus, order, fills, taskVars, loopVars,
                 exchangeVars, countVars>>

Operator ==
  /\ ops < MaxOps
  /\ BotNext
  /\ ops' = ops + 1
  /\ UNCHANGED <<dbVars, taskVars, loopVars, exchangeVars, sends, faults>>

ExchangeTrades(s) ==
  /\ left[s] > 0
  /\ left' = [left EXCEPT ![s] = @ - 1]
  /\ traded' = [traded EXCEPT ![s] = @ + 1]
  /\ Deliver(<<Event(s, traded[s] + 1, StatusAfter(left[s] - 1))>>)
  /\ UNCHANGED <<bot, ledgerKill, dbVars, taskVars, loopVars, accepted, connected, countVars>>

ExchangeExpires(s) ==
  /\ left[s] > 0
  /\ left' = [left EXCEPT ![s] = 0]
  /\ Deliver(<<Event(s, 0, "expired")>>)
  /\ UNCHANGED <<bot, ledgerKill, dbVars, taskVars, loopVars, accepted, traded, connected,
                 countVars>>

(* POST /orders/{id}/cancel: only a cancellation Binance confirms is saved.   *)
CancelOrder(s) ==
  /\ ~hung /\ ops < MaxOps
  /\ order[s] # "none" /\ left[s] > 0
  /\ order' = [order EXCEPT ![s] = "canceled"]
  /\ left' = [left EXCEPT ![s] = 0]
  /\ Deliver(<<Event(s, 0, "canceled")>>)
  /\ ops' = ops + 1
  /\ UNCHANGED <<bot, ledgerKill, setupStatus, fills, position, taskVars, loopVars, accepted,
                 traded, connected, sends, faults>>

Fault == faults < MaxFaults /\ faults' = faults + 1

(* The socket drops: what was not consumed is gone, and so is what the      *)
(* exchange reports until the loop has subscribed again.                    *)
Disconnect ==
  /\ Fault /\ connected
  /\ connected' = FALSE /\ wire' = <<>>
  /\ UNCHANGED <<bot, ledgerKill, dbVars, taskVars, loopVars, accepted, traded, left, sends,
                 ops>>

Reconnect ==
  /\ ~hung /\ ~connected /\ protecting = {}
  /\ connected' = TRUE
  /\ UNCHANGED <<bot, ledgerKill, dbVars, taskVars, loopVars, accepted, traded, left, wire,
                 countVars>>

(* An event is delivered a second time, behind later ones. *)
Redeliver ==
  /\ Fault
  /\ \E i \in DOMAIN wire : wire' = Append(wire, wire[i])
  /\ UNCHANGED <<bot, ledgerKill, dbVars, taskVars, loopVars, accepted, traded, left,
                 connected, sends, ops>>

(* The process dies and is started again: only the database remains.        *)
CrashRestart ==
  /\ Fault
  /\ pc' = [w \in Tasks |-> "idle"]
  /\ target' = [w \in Tasks |-> SomeSetup]
  /\ manual' = [w \in Tasks |-> FALSE]
  /\ resp' = [w \in Tasks |-> "none"]
  /\ hung' = FALSE /\ protecting' = {} /\ checking' = {}
  /\ connected' = FALSE /\ wire' = <<>>
  /\ UNCHANGED <<bot, ledgerKill, dbVars, accepted, traded, left, sends, ops>>

HandoffStep(w) ==
  \/ HandoffSkips(w) \/ HandoffBegins(w) \/ HandoffClaims(w) \/ HandoffSubmits(w)
  \/ RecordAck(w) \/ OutcomeUnknown(w) \/ OutcomeRejected(w) \/ OutcomeException(w)

ExecuteStep(x) ==
  \/ ExecuteInserts(x) \/ ExecuteAcks(x) \/ ExecuteUnknown(x) \/ ExecuteRejected(x)
  \/ ExecuteAborts(x)

SharedStep(w) == TestPasses(w) \/ PlaceOrder(w) \/ LookupOrder(w)

StreamStep == StreamIgnores \/ StreamReports \/ StreamRepeats

Environment ==
  \/ \E s \in Setups : Reject(s) \/ Invalidate(s) \/ PositionCloses(s)
  \/ \E s \in Setups : ExchangeTrades(s) \/ ExchangeExpires(s) \/ CancelOrder(s)
  \/ Operator \/ Disconnect \/ Reconnect \/ Redeliver \/ CrashRestart

Next ==
  \/ \E w \in Workers, s \in Setups : AutoHandoff(w, s) \/ Approve(w, s)
  \/ \E w \in Workers : HandoffStep(w)
  \/ \E x \in Executors, s \in Setups : ExecuteBegins(x, s)
  \/ \E x \in Executors : ExecuteStep(x)
  \/ \E w \in Tasks : SharedStep(w)
  \/ LoopHangs
  \/ StreamStep
  \/ \E s \in Setups : StreamProtects(s)
  \/ ReconcileSelects \/ ReconcileCommits
  \/ Environment

Spec == Init /\ [][Next]_vars

(* A task of the loop is scheduled again: every request it awaits has a     *)
(* timeout.  Nothing is assumed of the operator, the exchange or faults.    *)
Fairness ==
  /\ \A w \in Workers : WF_vars(HandoffStep(w) \/ SharedStep(w))
  /\ \A x \in Executors : WF_vars(ExecuteStep(x) \/ SharedStep(x))

FairSpec == Spec /\ Fairness

-----------------------------------------------------------------------------
DataTypeOK ==
  /\ setupStatus \in [Setups -> {"ready", "approved", "dropped", "acknowledged", "executed"}]
  /\ order \in [Setups -> OrderStates]
  /\ fills \in [Setups -> SUBSET Nat]
  /\ position \in [Setups -> Positions]

TaskTypeOK ==
  /\ pc \in [Tasks -> {"idle", "begin", "market", "submit", "test", "place", "ack", "lookup"}]
  /\ target \in [Tasks -> Setups]
  /\ manual \in [Tasks -> BOOLEAN]
  /\ resp \in [Tasks -> {"none", "acknowledged", "filled"}]

LoopTypeOK ==
  hung \in BOOLEAN /\ protecting \in SUBSET Setups /\ checking \in SUBSET Setups

ExchangeTypeOK ==
  /\ accepted \in [Setups -> Nat] /\ traded \in [Setups -> Nat] /\ left \in [Setups -> Nat]
  /\ wire \in Seq(Events)
  /\ connected \in BOOLEAN

CountTypeOK == sends \in [Setups -> Nat] /\ ops \in Nat /\ faults \in Nat

(* Every row, task, event and counter stays well formed; for a position the *)
(* remaining size never becomes negative, whatever fills, closes and        *)
(* repeated events (binance_user_stream.py:475-548) arrive in what order.   *)
EntryTypeOK ==
  BotTypeOK /\ DataTypeOK /\ TaskTypeOK /\ LoopTypeOK /\ ExchangeTypeOK /\ CountTypeOK

(* The promise of EntryOnce, read off the order table and the place_order   *)
(* calls of the handoff tasks (orchestrator.py:171-364): whatever tasks     *)
(* overlap, fail or are lost in a restart, one setup and one window is      *)
(* submitted at most once, and only after its row was committed.            *)
claimed == [s \in Setups |-> IF sends[s] > 0 THEN "sent"
                             ELSE IF order[s] # "none" THEN "claimed" ELSE "free"]

Promise == INSTANCE EntryOnce WITH claim <- claimed
SubmitsOnce == Promise!Spec

(* No two handoffs submit the same setup, or two setups of one window, and  *)
(* an order on its way has a committed row that is past "created", so the   *)
(* stream and /reconcile can find it by its clientOrderId.                  *)
AtMostOneSubmission ==
  \A s, t \in Setups :
    /\ sends[s] <= 1
    /\ sends[s] > 0 => order[s] \notin {"none", "created"}
    /\ sends[s] > 0 /\ sends[t] > 0 /\ SameWindow(s, t) => s = t

(* Why AtMostOneSubmission holds: the strengthening that each step of      *)
(* handoff(), /execute, the stream and /reconcile preserves.  A task on     *)
(* its way to place_order owns a committed, unsent row ...                  *)
OnTheWay == {"submit", "test", "place"}

RowOwned ==
  \A w \in Workers :
    /\ pc[w] \in OnTheWay => order[target[w]] # "none" /\ sends[target[w]] = 0
    /\ pc[w] \in {"test", "place"} => order[target[w]] # "created"
    /\ pc[w] \in {"ack", "lookup"} => order[target[w]] # "none"

(* ... alone ...                                                            *)
OwnedByOne ==
  \A v, w \in Workers :
    pc[v] \in OnTheWay /\ pc[w] \in OnTheWay /\ target[v] = target[w] => v = w

(* ... a sent row stays, and a window has one row ...                       *)
SentOnce ==
  \A s \in Setups : sends[s] <= 1 /\ (sends[s] > 0 => order[s] \notin {"none", "created"})

OneRowPerWindow ==
  \A s, t \in Setups :
    SameWindow(s, t) /\ order[s] # "none" /\ order[t] # "none" => s = t

(* ... also when an /execute request commits the row it alone has inserted, *)
(* or /reconcile writes the rows it selected before an await.               *)
HasInserted(x) == pc[x] \in {"test", "place", "ack"}

UncommittedAlone ==
  /\ \A x \in Executors :
       /\ HasInserted(x) => \A t \in Setups : SameWindow(target[x], t) => order[t] = "none"
       /\ pc[x] = "lookup" => order[target[x]] # "none"
  /\ \A x, y \in Executors :
       HasInserted(x) /\ HasInserted(y) /\ SameWindow(target[x], target[y]) => x = y

SelectedExist == \A s \in checking : order[s] # "none"

SubmissionInv ==
  RowOwned /\ OwnedByOne /\ SentOnce /\ OneRowPerWindow /\ UncommittedAlone /\ SelectedExist

(* The position's size is the sum of distinct exchange trades: an event     *)
(* that is delivered twice, late or after a close (binance_user_stream.py:  *)
(* 398-421) neither adds a lot twice nor invents one.                       *)
FillsCountOnce ==
  \A s \in Setups :
    /\ fills[s] \subseteq 1..traded[s]
    /\ position[s].base = Cardinality(fills[s])
    /\ position[s].remaining <= position[s].base

(* After place_order was called no error handler, lookup, /reconcile, late  *)
(* answer or event puts the row back into a state that says it has still to *)
(* be sent (orchestrator.py:274-438, api/execution.py:554-588).             *)
NeverUnsubmitted ==
  [][\A s \in Setups :
       sends[s] > 0 /\ order[s] # "submitting" => order'[s] # "submitting"]_vars

(* Every handoff ends, with one exception: an /execute request that holds   *)
(* the row lock of its setup stops the loop.                                *)
HandoffEnds == \A w \in Workers : (pc[w] # "idle") ~> (pc[w] = "idle" \/ hung)

(* README.md:266: "The global kill switch blocks new orders": while one of   *)
(* the two switches is set, no task gets past its gates to an order.        *)
KillSwitchBlocksNewOrders ==
  [][bot.kill \/ ledgerKill =>
       \A w \in Tasks : pc[w] = "market" => pc'[w] \notin {"submit", "test"}]_vars

(* README.md:266: unknown outcomes are persisted (and reconciled): an order *)
(* the exchange has taken is not on record as failed once its task is over. *)
UnknownOutcomePersisted ==
  \A s \in Setups :
    accepted[s] > 0 /\ (\A w \in Tasks : target[w] # s \/ pc[w] = "idle")
      => order[s] \notin {"failed", "rejected"}
=============================================================================
