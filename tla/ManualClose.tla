----------------------------- MODULE ManualClose -----------------------------
(***************************************************************************)
(* A manual close of the protected position (execution/position_close.py)  *)
(* composed with everything that protects it: the tasks, the exchange and  *)
(* the stream of Protection go on while a close cancels the order lists,   *)
(* sizes a market order from the free balance and sends it.  Its fills are *)
(* booked by whoever comes first, the coroutine with its answer or the     *)
(* stream with the events.                                                 *)
(*                                                                         *)
(* A closer at  cancel, account, send, lookup  awaits a request that has   *)
(* not reached the exchange, at  canceled, accounted, placed, found  one   *)
(* that was served.  A market order trades lot by lot and expires with     *)
(* what the book could not take.                                           *)
(***************************************************************************)
EXTENDS Protection, Orders

CONSTANTS
  Closers,      \* concurrent requests to close the position
  MaxCloses     \* bound: close orders in one behaviour

ASSUME CloseAssumption == MaxCloses \in Nat /\ Closers \cap (Admins \cup {Stream}) = {}

VARIABLES
  orders,       \* the close orders' rows: execution_state and trade ids booked
  market,       \* exchange: whether each close order was taken, lots it has executed
  cpc, cloc,    \* the closers and their local variables
  checking      \* close orders that a running /execution/reconcile has selected

closeVars == <<orders, market, cpc, cloc, checking>>
allVars == <<vars, closeVars>>
protectionVars == <<pos, rows, taskVars, exchangeVars, streamVars, countVars>>

NoClose == [order |-> 0, left |-> <<>>, qty |-> 0, answer |-> "none"]

CloseInit ==
  /\ Init
  /\ orders = <<>> /\ market = <<>>
  /\ cpc = [c \in Closers |-> "idle"] /\ cloc = [c \in Closers |-> NoClose]
  /\ checking = {}

CloseGoesOn(c, label, locals) ==
  cpc' = [cpc EXCEPT ![c] = label] /\ cloc' = [cloc EXCEPT ![c] = locals]

CloseEnds(c) == CloseGoesOn(c, "idle", NoClose)

SetState(i, state) == orders' = [orders EXCEPT ![i].state = state]

(* Mutant: the handler leaves the row as it is. *)
RejectsQuietly(c) == CloseEnds(c) /\ UNCHANGED orders

(* The handler around all of it.  Only an unknown BinanceError is recorded  *)
(* as unknown, and get_order is no trading request, so none arrives here.   *)
Rejects(c) == CloseEnds(c) /\ SetState(cloc[c].order, "rejected")

(***************************************************************************)
(* close_position().                                                       *)
(***************************************************************************)

(* Mutant: an order that is only being prepared does not count. *)
BlockingSent == {i \in DOMAIN orders : orders[i].state \in {"unknown", "acknowledged"}}

(* _active_close.                                                           *)
BlockingCloses ==
  {i \in DOMAIN orders : orders[i].state \in {"submitting", "unknown", "acknowledged"}}

(* The rows as they are when the close begins; no await reads them again.   *)
ProtectionsToCancel ==
  LET ids == Ascending({i \in DOMAIN rows : rows[i].status \in Blocking})
  IN  [j \in DOMAIN ids |-> [id |-> ids[j], stage |-> rows[ids[j]].stage,
                             listed |-> rows[ids[j]].listed]]

(* The next order list, or the market.  Guard rows, and brackets that were  *)
(* not acknowledged, have no order list id: the close is given up.          *)
CancelsNext(c, left, i, book) ==
  IF left = <<>>
  THEN CloseGoesOn(c, "account", [NoClose EXCEPT !.order = i]) /\ orders' = book
  ELSE IF Head(left).listed
       THEN CloseGoesOn(c, "cancel", [NoClose EXCEPT !.order = i, !.left = left]) /\ orders' = book
       ELSE CloseEnds(c) /\ orders' = [book EXCEPT ![i].state = "rejected"]

CloseBegins(c) ==
  LET i == Len(orders) + 1
      book == Append(orders, [state |-> "submitting", fills |-> {}, looked |-> FALSE])
  IN
  /\ cpc[c] = "idle" /\ i <= MaxCloses
  /\ pos.status # "closed" /\ pos.remaining > 0
  /\ BlockingCloses = {}
  /\ CancelsNext(c, ProtectionsToCancel, i, book)
  /\ market' = Append(market, [taken |-> FALSE, executed |-> 0])
  /\ UNCHANGED <<protectionVars, checking>>

(* cancel_order_list.                                                       *)
CloseCancels(c) ==
  LET k == Head(cloc[c].left).stage IN
  /\ cpc[c] = "cancel"
  /\ \/ /\ oco[k].state = "live"
        /\ oco' = [oco EXCEPT ![k].state = "done"]
        /\ Send(<<Report("tp", k, "CANCELED", 0), Report("stop", k, "CANCELED", 0),
                  Report("list", k, "ALL_DONE", 0)>>)
        /\ \E answer \in {"ok", "error"} :
             CloseGoesOn(c, "canceled", [cloc[c] EXCEPT !.answer = answer])
     \/ /\ UNCHANGED <<oco, wire>>
        /\ CloseGoesOn(c, "canceled", [cloc[c] EXCEPT !.answer = "error"])
  /\ UNCHANGED <<pos, rows, taskVars, guard, sold, connected, countVars, orders, market>>

CloseUnprotects(c) ==
  LET db == SetRow(SetProt(DB, "unprotected"), Head(cloc[c].left).id, "closed") IN
  /\ cpc[c] = "canceled"
  /\ IF cloc[c].answer = "ok"
     THEN /\ pos' = db.pos /\ rows' = db.rows
          /\ CancelsNext(c, Tail(cloc[c].left), cloc[c].order, orders)
     ELSE Rejects(c) /\ UNCHANGED <<pos, rows>>
  /\ UNCHANGED <<taskVars, exchangeVars, streamVars, countVars, market>>

(* exchange_info(), account(): free is as old as the answer.                *)
CloseReadsBalance(c) ==
  /\ cpc[c] = "account"
  /\ CloseGoesOn(c, "accounted", [cloc[c] EXCEPT !.qty = Free])
  /\ UNCHANGED <<protectionVars, orders, market>>

(* The position is read once more, after the balance.                       *)
SizeOfClose(c) == Min({pos.remaining, cloc[c].qty})

(* The filters of the exchange cap the quantity, and they and the awaited   *)
(* price may refuse.                                                        *)
CloseSizes(c) ==
  /\ cpc[c] = "accounted"
  /\ \/ Rejects(c)
     \/ /\ \E qty \in 1..SizeOfClose(c) : CloseGoesOn(c, "send", [cloc[c] EXCEPT !.qty = qty])
        /\ UNCHANGED orders
  /\ UNCHANGED <<protectionVars, market>>

(* An awaited request before place_order raises.                            *)
CloseFails(c) ==
  /\ cpc[c] \in {"account", "send"}
  /\ Rejects(c)
  /\ UNCHANGED <<protectionVars, market>>

CloseEvent(i, status, trade) ==
  [kind |-> "close", order |-> i, status |-> status, trade |-> trade]

Trades(i, executed, qty) ==
  [j \in 1..executed |-> CloseEvent(i, IF j = qty THEN "FILLED" ELSE "PARTIALLY_FILLED", j)]

(* place_order: taken and answered in full, taken with the answer lost      *)
(* (unknown) or unreadable (error), or refused.                             *)
CloseOrder(c) ==
  LET i == cloc[c].order qty == cloc[c].qty IN
  /\ cpc[c] = "send"
  /\ \/ \E executed \in 0..qty :
          /\ qty <= Free
          /\ market' = [market EXCEPT ![i] = [taken |-> TRUE, executed |-> executed]]
          /\ sold' = sold + executed
          /\ Send(<<CloseEvent(i, "NEW", 0)>> \o Trades(i, executed, qty)
                  \o IF executed < qty THEN <<CloseEvent(i, "EXPIRED", 0)>> ELSE <<>>)
          /\ \E answer \in {"full", "unknown", "error"} :
               CloseGoesOn(c, "placed", [cloc[c] EXCEPT !.answer = answer])
     \/ /\ UNCHANGED <<market, sold, wire>>
        /\ \E answer \in {"unknown", "error"} :
             CloseGoesOn(c, "placed", [cloc[c] EXCEPT !.answer = answer])
  /\ UNCHANGED <<pos, rows, taskVars, oco, guard, connected, countVars, orders>>

(***************************************************************************)
(* The two readers of the fills.                                           *)
(***************************************************************************)

(* Mutant: the answer may take more than the position has. *)
BookAnswerUncapped(p, lots) ==
  [p EXCEPT !.remaining = @ - lots, !.status = IF @ = "closed" THEN @ ELSE "partially_closed"]

(* What a sale leaves of the position: _apply_response also closes the      *)
(* protection and writes a status when something is left.                   *)
BookAnswer(p, lots) ==
  LET left == p.remaining - Min({lots, p.remaining}) IN
  IF left = 0 THEN [p EXCEPT !.remaining = 0, !.status = "closed", !.prot = "closed"]
  ELSE [p EXCEPT !.remaining = left, !.status = IF lots > 0 THEN "partially_closed" ELSE "open"]

(* _update_position for SELL.                                               *)
BookEvent(p) ==
  IF p.remaining <= 1 THEN [p EXCEPT !.remaining = 0, !.status = "closed"]
  ELSE [p EXCEPT !.remaining = @ - 1]

(* Mutant: the answer is booked although the stream was faster. *)
ApplyAlways(c, qty, trades) ==
  LET i == cloc[c].order IN
  /\ pos' = BookAnswer(pos, market[i].executed)
  /\ orders' = [orders EXCEPT ![i].state = IF market[i].executed = qty THEN "filled" ELSE "partially_filled",
                              ![i].fills = @ \cup trades]

(* _apply_response: if the stream has booked a fill of the order, the       *)
(* answer is not booked; otherwise it is, with the trades it lists.         *)
ApplyResponse(c, qty, trades) ==
  LET i == cloc[c].order IN
  /\ orders' = [orders EXCEPT
       ![i].state = IF market[i].executed = qty THEN "filled"
                    ELSE IF market[i].executed > 0 THEN "partially_filled" ELSE "acknowledged",
       ![i].fills = IF @ = {} THEN trades ELSE @,
       ![i].looked = @ \/ cpc[c] = "found"]
  /\ pos' = IF orders[i].fills # {} THEN pos ELSE BookAnswer(pos, market[i].executed)

CloseAnswered(c) ==
  LET i == cloc[c].order IN
  /\ cpc[c] = "placed"
  /\ \/ /\ cloc[c].answer = "full"
        /\ ApplyResponse(c, cloc[c].qty, 1..market[i].executed)
        /\ CloseEnds(c)
     \/ /\ cloc[c].answer = "unknown"
        /\ CloseGoesOn(c, "lookup", cloc[c])
        /\ UNCHANGED <<pos, orders>>
     \/ cloc[c].answer = "error" /\ Rejects(c) /\ UNCHANGED pos
  /\ UNCHANGED <<rows, taskVars, exchangeVars, streamVars, countVars, market>>

(* get_order: its answer has the executed quantity and lists no trades.     *)
CloseLookup(c) ==
  LET i == cloc[c].order IN
  /\ cpc[c] = "lookup"
  /\ \E answer \in (IF market[i].taken THEN {"full"} ELSE {}) \cup {"error"} :
       CloseGoesOn(c, "found", [cloc[c] EXCEPT !.answer = answer])
  /\ UNCHANGED <<protectionVars, orders, market>>

CloseFound(c) ==
  /\ cpc[c] = "found"
  /\ IF cloc[c].answer = "full"
     THEN ApplyResponse(c, cloc[c].qty, {}) /\ CloseEnds(c)
     ELSE Rejects(c) /\ UNCHANGED pos
  /\ UNCHANGED <<rows, taskVars, exchangeVars, streamVars, countVars, market>>

StateOf == [NEW |-> "acknowledged", PARTIALLY_FILLED |-> "partially_filled",
            FILLED |-> "filled", EXPIRED |-> "expired"]

(* Mutant: no unique key of the fills. *)
NeverBooked(e) == FALSE

AlreadyBooked(e) == e.trade \in orders[e.order].fills

(* _process_order for a close order: a trade that is booked already rolls   *)
(* back everything the event says.                                          *)
StreamCloses ==
  LET e == Head(wire) IN
  /\ StreamReady /\ e.kind = "close"
  /\ IF AlreadyBooked(e) THEN UNCHANGED <<pos, orders>>
     ELSE /\ orders' = [orders EXCEPT ![e.order].state = StateOf[e.status],
                                      ![e.order].fills = @ \cup ({e.trade} \ {0})]
          /\ pos' = IF e.trade = 0 THEN pos ELSE BookEvent(pos)
  /\ Consume
  /\ UNCHANGED <<rows, taskVars, market, cpc, cloc, checking>>

(***************************************************************************)
(* POST /execution/reconcile, the part about orders: the rows are selected *)
(* before the exchange is awaited.  The request is counted as a fault.     *)
(***************************************************************************)
ReconcileSelects ==
  /\ Fault /\ checking = {} /\ BlockingCloses # {}
  /\ checking' = BlockingCloses
  /\ UNCHANGED <<pos, rows, taskVars, exchangeVars, streamVars, requests, orders, market, cpc, cloc>>

(* An order is found if the exchange had taken it when it was asked for,    *)
(* and its row is written whatever it says by now; any error but "no such   *)
(* order" rolls the whole request back.                                     *)
ReconcileCommits ==
  /\ checking # {}
  /\ \E found \in SUBSET {i \in checking : market[i].taken} :
       orders' = [i \in DOMAIN orders |-> IF i \in found
                                         THEN [orders[i] EXCEPT !.state = "reconciled"]
                                         ELSE orders[i]]
  /\ checking' = {}
  /\ UNCHANGED <<protectionVars, market, cpc, cloc>>

CloserStep(c) ==
  /\ \/ CloseCancels(c) \/ CloseUnprotects(c) \/ CloseReadsBalance(c) \/ CloseSizes(c)
     \/ CloseFails(c) \/ CloseOrder(c) \/ CloseAnswered(c) \/ CloseLookup(c) \/ CloseFound(c)
  /\ UNCHANGED checking

ProtectiveEvent == wire # <<>> /\ Head(wire).kind # "close"

ProtectionStep ==
  /\ \/ \E t \in Tasks : TaskStep(t)
     \/ \E t \in Admins : EstablishRequest(t) \/ ReconcileRequest(t)
     \/ StreamEstablishes
     \/ ProtectiveEvent /\ (StreamIgnores \/ StreamFills \/ StreamFlags \/ StreamListDone)
     \/ \E k \in Stages : TargetFills(k) \/ StopFills(k) \/ GuardFills(k)
     \/ Disconnect \/ Reconnect
  /\ UNCHANGED closeVars

ProcessDies ==
  /\ CrashRestart
  /\ cpc' = [c \in Closers |-> "idle"] /\ cloc' = [c \in Closers |-> NoClose]
  /\ checking' = {}
  /\ UNCHANGED <<orders, market>>

CloseNext ==
  \/ ProtectionStep
  \/ \E c \in Closers : CloseBegins(c) \/ CloserStep(c)
  \/ StreamCloses \/ ReconcileSelects \/ ReconcileCommits \/ ProcessDies

CloseSpec == CloseInit /\ [][CloseNext]_allVars

-----------------------------------------------------------------------------
CloseStates == {"submitting", "acknowledged", "partially_filled", "filled", "expired",
                "reconciled", "rejected"}

(* Close orders, their fills and their coroutines stay well formed, and the *)
(* position never goes below nothing nor the exchange above what was bought *)
(* (position_close.py:75-280).                                              *)
CloseTypeOK ==
  /\ ProtectionTypeOK
  /\ \A i \in DOMAIN orders : /\ orders[i].state \in CloseStates
                              /\ orders[i].fills \subseteq 1..Base
                              /\ orders[i].fills \subseteq 1..market[i].executed
  /\ \A c \in Closers : cloc[c].order \in 0..Len(orders) /\ cloc[c].qty \in 0..Base
  /\ checking \subseteq DOMAIN orders

(* The transaction that inserts a close order looks for another one: two    *)
(* requests never prepare an order for the same lots, although the first    *)
(* one awaits cancellations, the balance and the price before it sends      *)
(* (position_close.py:65-110).                                              *)
Preparing(c) == cpc[c] \in {"cancel", "canceled", "account", "accounted", "send"}
OnePreparing == \A c, d \in Closers : Preparing(c) /\ Preparing(d) => c = d

(* The books do not run ahead of the exchange while a close order's fills   *)
(* are reported twice, by the answer and by the stream, and protective      *)
(* orders fill beside it, unless an answer had to be looked up, which lists *)
(* no trades (position_close.py:215-280, binance_user_stream.py:403-417).   *)
ManualFillsCountOnce == SoldIsSold \/ \E i \in DOMAIN orders : orders[i].looked

(* An order that blocks later closes because it is "submitting" has a       *)
(* coroutine at work on it: it is answered or the handler records a         *)
(* failure.  Only the death of the process leaves one behind                *)
(* (position_close.py:65-71, 88, 190-205).                                  *)
SubmittingIsOwned ==
  \A i \in DOMAIN orders :
    orders[i].state = "submitting" => faults > 0 \/ \E c \in Closers : cpc[c] # "idle" /\ cloc[c].order = i
=============================================================================
