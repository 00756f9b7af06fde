----------------------------- MODULE Protection -----------------------------
(***************************************************************************)
(* Protective exits of one filled long position (execution/protection.py), *)
(* the half of the user-data stream that consumes their events             *)
(* (services/binance_user_stream.py) and the comparison of the position    *)
(* with the balance (execution/reconciliation.py).  Stage k protects the   *)
(* position up to target k+1 with an OCO "bracket" for a slice of it and,  *)
(* if the slice is not all of it, a separate "guard_stop" for the rest.    *)
(*                                                                         *)
(* establish(), advance_stage(), reconcile() and reconcile_all() run as    *)
(* coroutines of the stream consumer, of admin requests and of a periodic  *)
(* job.  A task at                                                         *)
(*   market, place, guard, cancel, unwind, list, balances, orders          *)
(* awaits a request that has not reached the exchange, at                  *)
(*   account, placed, guarded, canceled, unwound, details, balanced        *)
(* one that was served but whose answer it has not seen.  Code between two *)
(* awaits is one action, so the calls advance_stage -> establish are       *)
(* composed as operators on the database.                                  *)
(*                                                                         *)
(* Quantities are counted in lots, the slice one target takes; the account *)
(* holds nothing else of the asset.  Protective orders fill in one trade   *)
(* and their events are not redelivered.  A short position differs in the  *)
(* side of its orders only, and the entry path never opens one.            *)
(***************************************************************************)
EXTENDS Naturals, Sequences, FiniteSets, FiniteSetsExt, Sums

CONSTANTS
  Stream,       \* the consumer of the user-data stream
  Admins,       \* concurrent requests and the periodic job
  Reconcilers,  \* those among Admins that may run reconcile(), reconcile_all()
  Targets,      \* take-profit targets of the setup
  Base,         \* lots bought; one lot is the slice of a target
  MaxRequests,  \* bound: requests in one behaviour
  MaxFaults     \* bound: disconnections and crashes

ASSUME ProtectionAssumption ==
  /\ Stream \notin Admins /\ Reconcilers \subseteq Admins
  /\ Targets \in 1..3 /\ Base \in Nat \ {0}
  /\ MaxRequests \in Nat /\ MaxFaults \in Nat

VARIABLES
  pos,        \* the LivePosition row
  rows,       \* its ProtectiveOrder rows, in the order of their ids
  pc, loc,    \* the tasks and their local variables
  oco, guard, \* exchange: the order list and the guard order of each stage
  sold,       \* exchange: lots of the position sold
  wire, connected,
  requests, faults

taskVars == <<pc, loc>>
exchangeVars == <<oco, guard, sold>>
streamVars == <<wire, connected>>
countVars == <<requests, faults>>
vars == <<pos, rows, taskVars, exchangeVars, streamVars, countVars>>

Tasks == {Stream} \cup Admins
Stages == 0..(Targets - 1)
Blocking == {"submitting", "protected"}

Entered == [status |-> "open", remaining |-> Base, stage |-> 0, stop |-> "initial",
            prot |-> "protection_pending"]

(* all, owned and seen are the locals of a reconcile_all() around the rest. *)
NoLocals == [stage |-> 0, lots |-> 0, stop |-> "initial", row |-> 0, guard |-> 0,
             answer |-> "none", all |-> FALSE, owned |-> 0, seen |-> Entered]

Init ==
  /\ pos = Entered
  /\ rows = <<>>
  /\ pc \in {[t \in Tasks |-> "idle"], [t \in Tasks |-> IF t = Stream THEN "start" ELSE "idle"]}
  /\ loc = [t \in Tasks |-> NoLocals]
  /\ oco = [k \in Stages |-> [state |-> "none", qty |-> 0, stop |-> "initial", filled |-> "none",
                           placed |-> 0]]
  /\ guard = [k \in Stages |-> [state |-> "none", qty |-> 0]]
  /\ sold = 0
  /\ wire = <<>> /\ connected = TRUE
  /\ requests = 0 /\ faults = 0

(***************************************************************************)
(* The database, as operators on db = [pos, rows].                         *)
(***************************************************************************)
DB == [pos |-> pos, rows |-> rows]

RowOf(db, role, stage) ==
  {i \in DOMAIN db.rows : db.rows[i].role = role /\ db.rows[i].stage = stage}

SetRow(db, i, status) == [db EXCEPT !.rows[i].status = status]
SetRows(db, ids, status) ==
  [db EXCEPT !.rows = [i \in DOMAIN @ |-> IF i \in ids THEN [@[i] EXCEPT !.status = status]
                                          ELSE @[i]]]
SetProt(db, value) == [db EXCEPT !.pos.prot = value]

(* Mutant: the position is not flagged. *)
FailedQuietly(db) == SetRows(db, {Len(db.rows)} \cap DOMAIN db.rows, "protection_failed")

(* The handler around establish() marks whatever row is the latest.         *)
Failed(db) ==
  SetRows(SetProt(db, "unprotected"), {Len(db.rows)} \cap DOMAIN db.rows, "protection_failed")

(* The first transaction of establish(), then the reads before its first    *)
(* await.  Prices may leave no valid geometry.                              *)
Refused(db) == db.pos.status = "closed" \/ \E i \in DOMAIN db.rows : db.rows[i].status \in Blocking

Protectable(db) == db.pos.stage < Targets /\ db.pos.remaining > 0

Establishing(t, db) ==
  IF Refused(db) THEN {[db |-> db, pc |-> "idle", loc |-> NoLocals]}
  ELSE {[db |-> SetProt(db, "unprotected"), pc |-> "idle", loc |-> NoLocals]}
       \cup IF ~Protectable(db) THEN {}
            ELSE {[db |-> SetProt(db, "protection_pending"), pc |-> "market",
                   loc |-> [NoLocals EXCEPT !.stage = db.pos.stage, !.stop = db.pos.stop,
                                            !.lots = db.pos.remaining]]}

(* The transaction of advance_stage(), and establish() if no guard order of *)
(* the stage has to be canceled first.                                      *)
Advanced(db) ==
  LET k == db.pos.stage
      closed == SetRows(db, RowOf(db, "bracket", k), "closed")
  IN  [closed EXCEPT !.pos.stage = k + 1,
                     !.pos.stop = IF k = 0 THEN "breakeven" ELSE @]

LiveGuard(db, k) == {i \in RowOf(db, "guard_stop", k) : db.rows[i].status = "protected"}

Advancing(t, db) ==
  LET next == Advanced(db) guards == LiveGuard(db, db.pos.stage) IN
  IF guards # {}
  THEN {[db |-> next, pc |-> "cancel",
         loc |-> [NoLocals EXCEPT !.stage = db.pos.stage, !.row = CHOOSE i \in guards : TRUE,
                                  !.lots = IF db.pos.status = "closed" THEN 0
                                                ELSE db.pos.remaining]]}
  ELSE IF next.pos.remaining > 0 /\ next.pos.status # "closed" THEN Establishing(t, next)
  ELSE {[db |-> next, pc |-> "idle", loc |-> NoLocals]}

(* A task goes on with one of the outcomes of an operator above; one that   *)
(* is done returns to the reconcile_all() that called it, which then reads  *)
(* the rows and awaits the open orders.                                     *)
Becomes(t, outcomes) ==
  \E o \in outcomes :
    LET returns == o.pc = "idle" /\ loc[t].all
        kept == [o.loc EXCEPT !.all = loc[t].all, !.owned = loc[t].owned]
    IN  /\ pos' = o.db.pos /\ rows' = o.db.rows
        /\ pc' = [pc EXCEPT ![t] = IF returns THEN "orders" ELSE o.pc]
        /\ loc' = [loc EXCEPT ![t] =
                     IF returns THEN [kept EXCEPT !.seen = o.db.pos, !.row = Len(o.db.rows)]
                     ELSE kept]

Ends(t, db) == Becomes(t, {[db |-> db, pc |-> "idle", loc |-> NoLocals]})
GoesOn(t, db, label, locals) == Becomes(t, {[db |-> db, pc |-> label, loc |-> locals]})

(***************************************************************************)
(* The exchange.                                                           *)
(***************************************************************************)
LotsIn(order) == IF order.state = "live" THEN order.qty ELSE 0
LotsAtStage == [k \in Stages |-> LotsIn(oco[k]) + LotsIn(guard[k])]
Locked == Total(LotsAtStage, 0, Targets - 1)
Free == Base - sold - Locked

Send(events) == wire' = IF connected THEN wire \o events ELSE wire

Report(kind, stage, status, qty) ==
  [kind |-> kind, stage |-> stage, status |-> status, qty |-> qty]

(* A leg fills: the other one expires and the list is done.                 *)
LegFills(k, leg, other) ==
  LET filled == Report(leg, k, "FILLED", oco[k].qty)
      expired == Report(other, k, "EXPIRED", 0)
      done == Report("list", k, "ALL_DONE", 0)
  IN  /\ oco[k].state = "live"
      /\ oco' = [oco EXCEPT ![k].state = "done", ![k].filled = leg]
      /\ sold' = sold + oco[k].qty
      /\ Send(<<expired, filled, done>>) \/ Send(<<filled, expired, done>>)
      /\ UNCHANGED <<pos, rows, taskVars, guard, connected, countVars>>

TargetFills(k) == LegFills(k, "tp", "stop")
StopFills(k) == LegFills(k, "stop", "tp")

GuardFills(k) ==
  /\ guard[k].state = "live"
  /\ guard' = [guard EXCEPT ![k].state = "filled"]
  /\ sold' = sold + guard[k].qty
  /\ Send(<<Report("guard", k, "FILLED", guard[k].qty)>>)
  /\ UNCHANGED <<pos, rows, taskVars, oco, connected, countVars>>

(***************************************************************************)
(* establish().                                                            *)
(***************************************************************************)
EstablishRequest(t) ==
  /\ t \in Admins /\ pc[t] = "idle" /\ requests < MaxRequests
  /\ requests' = requests + 1
  /\ Becomes(t, Establishing(t, DB))
  /\ UNCHANGED <<exchangeVars, streamVars, faults>>

(* The order is filled: _process_order goes on to establish().              *)
StreamEstablishes ==
  /\ pc[Stream] = "start"
  /\ Becomes(Stream, Establishing(Stream, DB))
  /\ UNCHANGED <<exchangeVars, streamVars, countVars>>

(* exchange_info() and account(): the balance is as old as the answer.      *)
ReadBalance(t) ==
  /\ pc[t] = "market"
  /\ GoesOn(t, DB, "account", [loc[t] EXCEPT !.lots = IF Free < @ THEN Free ELSE @])
  /\ UNCHANGED <<exchangeVars, streamVars, countVars>>

(* Any exception before the order list is placed. *)
EstablishFails(t) ==
  /\ pc[t] \in {"market", "account"}
  /\ Ends(t, Failed(DB))
  /\ UNCHANGED <<exchangeVars, streamVars, countVars>>

(* Mutant: the limits of the quantity are not checked. *)
AnyBracketSize(t) == {1, loc[t].lots}

(* The bracket takes one lot and leaves the rest to a guard, or takes all:  *)
(* for the last target, or when a part is below the exchange's minimum.     *)
BracketSizes(t) ==
  {qty \in {1, loc[t].lots} : /\ 0 < qty /\ qty <= loc[t].lots
                              /\ qty < loc[t].lots => loc[t].stage < Targets - 1}

(* Mutant: the client order ids of a stage are not unique. *)
AlwaysNew(t) == TRUE

(* The unique keys of protective_orders: one bracket per position and stage.*)
KeyIsNew(t) == RowOf(DB, "bracket", loc[t].stage) = {}

EstablishSubmits(t) ==
  /\ pc[t] = "account" /\ KeyIsNew(t)
  /\ \E qty \in BracketSizes(t) :
       LET row == [role |-> "bracket", stage |-> loc[t].stage, status |-> "submitting",
                   listed |-> FALSE, qty |-> qty]
       IN  GoesOn(t, [DB EXCEPT !.rows = Append(@, row)], "place",
                  [loc[t] EXCEPT !.row = Len(rows) + 1, !.guard = loc[t].lots - qty])
  /\ UNCHANGED <<exchangeVars, streamVars, countVars>>

Answer(t, label, answer) ==
  /\ pc' = [pc EXCEPT ![t] = label]
  /\ loc' = [loc EXCEPT ![t].answer = answer]

(* place_oco_order: taken and acknowledged, taken with an answer that does  *)
(* not show both legs at work, taken with the answer lost, or refused.      *)
PlaceOco(t) ==
  LET k == loc[t].stage qty == rows[loc[t].row].qty IN
  /\ pc[t] = "place"
  /\ \/ /\ oco[k].state # "live" /\ qty <= Free
        /\ oco' = [oco EXCEPT ![k] = [state |-> "live", qty |-> qty, stop |-> loc[t].stop,
                                      filled |-> "none", placed |-> @.placed + 1]]
        /\ \E answer \in {"executing", "incomplete", "error"} : Answer(t, "placed", answer)
     \/ UNCHANGED oco /\ Answer(t, "placed", "error")
  /\ UNCHANGED <<pos, rows, guard, sold, streamVars, countVars>>

EstablishAcks(t) ==
  LET listed == [DB EXCEPT !.rows[loc[t].row].listed = TRUE] IN
  /\ pc[t] = "placed"
  /\ \/ /\ loc[t].answer = "executing"
        /\ LET db == [SetRow(SetProt(listed, "protected"), loc[t].row, "protected")
                        EXCEPT !.pos.stop = loc[t].stop]
           IN  IF loc[t].guard > 0 THEN GoesOn(t, db, "guard", loc[t]) ELSE Ends(t, db)
     \/ /\ loc[t].answer = "incomplete"
        /\ Ends(t, SetRow(SetProt(listed, "unprotected"), loc[t].row, "protection_failed"))
     \/ loc[t].answer = "error" /\ Ends(t, Failed(DB))
  /\ UNCHANGED <<exchangeVars, streamVars, countVars>>

PlaceGuard(t) ==
  LET k == loc[t].stage IN
  /\ pc[t] = "guard"
  /\ \/ /\ loc[t].guard <= Free
        /\ guard' = [guard EXCEPT ![k] = [state |-> "live", qty |-> loc[t].guard]]
        /\ \E answer \in {"ok", "error"} : Answer(t, "guarded", answer)
     \/ UNCHANGED guard /\ Answer(t, "guarded", "error")
  /\ UNCHANGED <<pos, rows, oco, sold, streamVars, countVars>>

(* Mutant: a guard that fails is forgotten. *)
GuardFailureIgnored(t) ==
  /\ pc[t] = "guarded"
  /\ Ends(t, DB)
  /\ UNCHANGED <<exchangeVars, streamVars, countVars>>

(* The guard's row is inserted as protected, after its answer only.         *)
GuardAcks(t) ==
  LET row == [role |-> "guard_stop", stage |-> loc[t].stage, status |-> "protected",
              listed |-> FALSE, qty |-> loc[t].guard]
  IN
  /\ pc[t] = "guarded"
  /\ \/ loc[t].answer = "ok" /\ Ends(t, [DB EXCEPT !.rows = Append(@, row)])
     \/ loc[t].answer = "error" /\ GoesOn(t, DB, "unwind", loc[t])
  /\ UNCHANGED <<exchangeVars, streamVars, countVars>>

(* No guard: the bracket is canceled; whatever comes of it is ignored.      *)
CancelList(t) ==
  LET k == loc[t].stage IN
  /\ pc[t] = "unwind"
  /\ Answer(t, "unwound", "none")
  /\ \/ /\ oco[k].state = "live"
        /\ oco' = [oco EXCEPT ![k].state = "done"]
        /\ Send(<<Report("tp", k, "CANCELED", 0), Report("stop", k, "CANCELED", 0),
                  Report("list", k, "ALL_DONE", 0)>>)
     \/ UNCHANGED <<oco, wire>>
  /\ UNCHANGED <<pos, rows, guard, sold, connected, countVars>>

EstablishUnwinds(t) ==
  /\ pc[t] = "unwound"
  /\ Ends(t, SetRow(SetProt(DB, "unprotected"), loc[t].row, "protection_failed"))
  /\ UNCHANGED <<exchangeVars, streamVars, countVars>>

(***************************************************************************)
(* advance_stage() after its transaction.                                  *)
(***************************************************************************)
CancelGuard(t) ==
  LET k == loc[t].stage IN
  /\ pc[t] = "cancel"
  /\ \/ /\ guard[k].state = "live"
        /\ guard' = [guard EXCEPT ![k].state = "canceled"]
        /\ Send(<<Report("guard", k, "CANCELED", 0)>>)
        /\ \E answer \in {"ok", "error"} : Answer(t, "canceled", answer)
     \/ UNCHANGED <<guard, wire>> /\ Answer(t, "canceled", "error")
  /\ UNCHANGED <<pos, rows, oco, sold, connected, countVars>>

(* A failed cancellation is logged only.                                    *)
AdvanceGoesOn(t) ==
  LET db == IF loc[t].answer = "ok" THEN SetRow(DB, loc[t].row, "closed") ELSE DB IN
  /\ pc[t] = "canceled"
  /\ IF loc[t].lots > 0 THEN Becomes(t, Establishing(t, db)) ELSE Ends(t, db)
  /\ UNCHANGED <<exchangeVars, streamVars, countVars>>

(***************************************************************************)
(* reconcile() of the latest bracket.  An accepted list is either at work  *)
(* or done, so the branch for any other status is not taken.               *)
(***************************************************************************)
Brackets == {i \in DOMAIN rows : rows[i].role = "bracket"}

Reconciling(db) ==
  IF Brackets = {} THEN {}
  ELSE LET i == Max(Brackets) IN
       IF rows[i].listed /\ rows[i].status = "protected"
       THEN {[db |-> db, pc |-> "list", loc |-> [NoLocals EXCEPT !.row = i,
                                                                 !.stage = rows[i].stage]]}
       ELSE {}

ReconcileRequest(t) ==
  /\ t \in Reconcilers /\ pc[t] = "idle" /\ requests < MaxRequests
  /\ requests' = requests + 1
  /\ Becomes(t, Reconciling(DB))
  /\ UNCHANGED <<exchangeVars, streamVars, faults>>

ListAnswers(t) ==
  LET list == oco[loc[t].stage] IN
  /\ pc[t] = "list"
  /\ \/ list.state = "done" /\ GoesOn(t, DB, "details", [loc[t] EXCEPT !.answer = list.filled])
     \/ Ends(t, DB)
  /\ UNCHANGED <<exchangeVars, streamVars, countVars>>

ReconcileCloses(t) ==
  LET db == SetRow(DB, loc[t].row, "closed") IN
  /\ pc[t] = "details"
  /\ IF loc[t].answer = "tp" /\ pos.remaining > 0 /\ pos.status # "closed"
     THEN Becomes(t, Advancing(t, db))
     ELSE Ends(t, db)
  /\ UNCHANGED <<exchangeVars, streamVars, countVars>>

ReconcileFails(t) ==
  /\ pc[t] = "details"
  /\ Ends(t, DB)
  /\ UNCHANGED <<exchangeVars, streamVars, countVars>>

(***************************************************************************)
(* reconcile_all(): reads the balance, lets reconcile() run, and cuts the  *)
(* position down to the balance it has read.                               *)
(***************************************************************************)
BalancesRequest(t) ==
  /\ t \in Reconcilers /\ pc[t] = "idle" /\ requests < MaxRequests
  /\ requests' = requests + 1
  /\ pc' = [pc EXCEPT ![t] = "balances"]
  /\ loc' = [loc EXCEPT ![t].all = TRUE]
  /\ UNCHANGED <<pos, rows, exchangeVars, streamVars, faults>>

BalancesRead(t) ==
  /\ pc[t] = "balances"
  /\ pc' = [pc EXCEPT ![t] = "balanced"]
  /\ loc' = [loc EXCEPT ![t].owned = Base - sold]
  /\ UNCHANGED <<pos, rows, exchangeVars, streamVars, countVars>>

ReconcilesActive(t) ==
  /\ pc[t] = "balanced" /\ pos.status # "closed"
  /\ IF Reconciling(DB) = {} THEN Ends(t, DB) ELSE Becomes(t, Reconciling(DB))
  /\ UNCHANGED <<exchangeVars, streamVars, countVars>>

(* The session writes an attribute only if it is set to another value than  *)
(* the one that was read before the awaits.                                 *)
Written(value, seen, now) == IF value = seen THEN now ELSE value

CorrectPosition(t) ==
  LET seen == loc[t].seen
      remaining == Min({seen.remaining, loc[t].owned})
      status == IF remaining = 0 THEN "closed"
                ELSE IF remaining < Base THEN "partially_closed" ELSE "open"
      prot == IF remaining = 0 THEN "closed"
              ELSE IF loc[t].row = 0 THEN "unprotected" ELSE seen.prot
  IN
  /\ pc[t] = "orders"
  /\ pos' = [pos EXCEPT !.remaining = Written(remaining, seen.remaining, @),
                        !.status = Written(status, seen.status, @),
                        !.prot = Written(prot, seen.prot, @)]
  /\ pc' = [pc EXCEPT ![t] = "idle"] /\ loc' = [loc EXCEPT ![t] = NoLocals]
  /\ UNCHANGED <<rows, exchangeVars, streamVars, countVars>>

(* No active position, or a request that failed: nothing is written.        *)
ReconcileAllEnds(t) ==
  /\ pc[t] \in {"balances", "orders"} \/ (pc[t] = "balanced" /\ pos.status = "closed")
  /\ pc' = [pc EXCEPT ![t] = "idle"] /\ loc' = [loc EXCEPT ![t] = NoLocals]
  /\ UNCHANGED <<pos, rows, exchangeVars, streamVars, countVars>>

(***************************************************************************)
(* The consumer of the stream.  Rows are found by the client order id, a   *)
(* list by the order list id its acknowledgement has stored.               *)
(***************************************************************************)
RowsOf(e) ==
  IF e.kind = "guard" THEN RowOf(DB, "guard_stop", e.stage)
  ELSE IF e.kind = "list" THEN {i \in RowOf(DB, "bracket", e.stage) : rows[i].listed}
  ELSE IF e.kind \in {"tp", "stop"} THEN RowOf(DB, "bracket", e.stage)
  ELSE {}

StreamReady == connected /\ pc[Stream] = "idle" /\ wire # <<>>
Consume == wire' = Tail(wire) /\ UNCHANGED <<connected, exchangeVars, countVars>>

StreamIgnores ==
  /\ StreamReady /\ RowsOf(Head(wire)) = {}
  /\ Consume /\ UNCHANGED <<pos, rows, taskVars>>

(* Mutant: the whole position is closed by any leg that fills. *)
SellsAll(p, qty) == [p EXCEPT !.remaining = 0, !.status = "closed", !.prot = "closed"]

Sells(p, qty) ==
  IF qty >= p.remaining THEN [p EXCEPT !.remaining = 0, !.status = "closed", !.prot = "closed"]
  ELSE [p EXCEPT !.remaining = @ - qty, !.status = "partially_closed",
                 !.prot = "partially_protected"]

(* Mutant: any leg that fills moves the position on. *)
StreamFillsAnyLeg ==
  LET e == Head(wire) IN
  /\ StreamReady /\ e.status = "FILLED"
  /\ \E i \in RowsOf(e) :
       LET db == [SetRow(DB, i, "closed") EXCEPT !.pos = Sells(pos, e.qty)] IN
       IF db.pos.remaining > 0 THEN Becomes(Stream, Advancing(Stream, db)) ELSE Ends(Stream, db)
  /\ Consume

(* _process_protective_order for FILLED; a target goes on to the next stage.*)
StreamFills ==
  LET e == Head(wire) IN
  /\ StreamReady /\ e.status = "FILLED"
  /\ \E i \in RowsOf(e) :
       LET db == [SetRow(DB, i, "closed") EXCEPT !.pos = Sells(pos, e.qty)] IN
       IF e.kind = "tp" /\ db.pos.remaining > 0
       THEN Becomes(Stream, Advancing(Stream, db))
       ELSE Ends(Stream, db)
  /\ Consume

(* EXPIRED flags the position even if it is closed, CANCELED does not.      *)
StreamFlags ==
  LET e == Head(wire) IN
  /\ StreamReady /\ e.status \in {"EXPIRED", "CANCELED"}
  /\ \E i \in RowsOf(e) :
       Ends(Stream, IF e.status = "EXPIRED" \/ pos.status # "closed"
                    THEN SetRow(SetProt(DB, "unprotected"), i, "protection_failed") ELSE DB)
  /\ Consume

(* _process_order_list.                                                     *)
StreamListDone ==
  LET e == Head(wire) IN
  /\ StreamReady /\ e.status = "ALL_DONE"
  /\ \E i \in RowsOf(e) :
       Ends(Stream, IF pos.status = "closed" THEN SetRow(DB, i, "closed")
                    ELSE SetRow(SetProt(DB, "unprotected"), i, "protection_failed"))
  /\ Consume

(***************************************************************************)
(* Failures.                                                               *)
(***************************************************************************)
Fault == faults < MaxFaults /\ faults' = faults + 1

Disconnect ==
  /\ Fault /\ connected
  /\ connected' = FALSE /\ wire' = <<>>
  /\ UNCHANGED <<pos, rows, taskVars, exchangeVars, requests>>

Reconnect ==
  /\ ~connected /\ pc[Stream] = "idle"
  /\ connected' = TRUE
  /\ UNCHANGED <<pos, rows, taskVars, exchangeVars, wire, countVars>>

CrashRestart ==
  /\ Fault
  /\ pc' = [t \in Tasks |-> "idle"] /\ loc' = [t \in Tasks |-> NoLocals]
  /\ connected' = FALSE /\ wire' = <<>>
  /\ UNCHANGED <<pos, rows, exchangeVars, requests>>

TaskStep(t) ==
  \/ ReadBalance(t) \/ EstablishFails(t) \/ EstablishSubmits(t) \/ PlaceOco(t) \/ EstablishAcks(t)
  \/ PlaceGuard(t) \/ GuardAcks(t) \/ CancelList(t) \/ EstablishUnwinds(t)
  \/ CancelGuard(t) \/ AdvanceGoesOn(t)
  \/ ListAnswers(t) \/ ReconcileCloses(t) \/ ReconcileFails(t)
  \/ BalancesRead(t) \/ ReconcilesActive(t) \/ CorrectPosition(t) \/ ReconcileAllEnds(t)

Next ==
  \/ \E t \in Tasks : TaskStep(t)
  \/ \E t \in Admins : EstablishRequest(t) \/ ReconcileRequest(t) \/ BalancesRequest(t)
  \/ StreamEstablishes \/ StreamIgnores \/ StreamFills \/ StreamFlags \/ StreamListDone
  \/ \E k \in Stages : TargetFills(k) \/ StopFills(k) \/ GuardFills(k)
  \/ Disconnect \/ Reconnect \/ CrashRestart

Spec == Init /\ [][Next]_vars

(* Every request a task awaits has a timeout and the loop goes on.          *)
FairSpec == Spec /\ \A t \in Tasks : WF_vars(TaskStep(t) \/ (t = Stream /\ StreamEstablishes))

-----------------------------------------------------------------------------
RowStatus == {"submitting", "protected", "protection_failed", "closed"}
Labels == {"idle", "start", "market", "account", "place", "placed", "guard", "guarded", "unwind", "unwound",
           "cancel", "canceled", "list", "details", "balances", "balanced", "orders"}

(* Rows, tasks and the exchange's books stay well formed: no order row is   *)
(* written for nothing, no lot is locked or sold twice (protection.py:      *)
(* 238-309, binance_user_stream.py:550-590).                                *)
ProtectionTypeOK ==
  /\ pos.status \in {"open", "partially_closed", "closed"} /\ pos.remaining \in 0..Base
  /\ pos.stage \in Nat /\ pos.stop \in {"initial", "breakeven"}
  /\ pos.prot \in {"protection_pending", "protected", "unprotected", "partially_protected",
                   "closed"}
  /\ \A i \in DOMAIN rows :
       /\ rows[i].role \in {"bracket", "guard_stop"} /\ rows[i].stage \in Stages
       /\ rows[i].status \in RowStatus /\ rows[i].listed \in BOOLEAN
       /\ rows[i].qty \in 1..Base
  /\ pc \in [Tasks -> Labels]
  /\ Free \in 0..Base /\ sold \in 0..Base

(* No two establish() calls, of the stream, an admin or a reconcile that    *)
(* overlap at an await, nor a call after a crash, put a second order list   *)
(* of one stage on the exchange (protection.py:143-159, 309-357).           *)
PlacedOnce == \A k \in Stages : oco[k].placed <= 1

(* The books never run ahead of the exchange: what the position counts as   *)
(* sold was sold, and a closed position has nothing left there, although    *)
(* fills, cancellations and list events of several stages interleave        *)
(* (binance_user_stream.py:550-590).                                        *)
SoldIsSold == Base - pos.remaining <= sold /\ (pos.status = "closed" => sold = Base)

(* Each filled target moves the position on by one stage (protection.py:    *)
(* 584-664): the stage is never ahead of the targets that filled.           *)
TargetsFilled == {k \in Stages : oco[k].filled = "tp"}
AdvanceOncePerTarget == pos.stage <= Cardinality(TargetsFilled)

(* A position that is reported as protected is covered in full by live exit *)
(* orders, once every event is consumed and no task is at work: a guard     *)
(* that failed or was canceled is not covered up by its bracket             *)
(* (protection.py:430-516, 639-662).                                        *)
Quiet == wire = <<>> /\ \A t \in Tasks : pc[t] = "idle"

ProtectedIsCovered ==
  Quiet /\ faults = 0 /\ pos.prot = "protected" => pos.status = "closed" \/ Free = 0

(* reconciliation.py:113: "Never increase a bot position from unrelated     *)
(* account holdings": nothing that compares balances, nor any exit, makes   *)
(* the position larger again.                                               *)
NeverIncreased == [][pos'.remaining <= pos.remaining]_vars

(* A position some task is protecting does not stay "protection_pending":   *)
(* every await of establish() ends in an answer or in the handler that      *)
(* flags the position (protection.py:524-551), unless the process dies.     *)
Protecting(t) == pc[t] \in {"start", "market", "account", "place", "placed"}

PendingEnds ==
  (pos.prot = "protection_pending" /\ \E t \in Tasks : Protecting(t))
    ~> (pos.prot # "protection_pending" \/ faults > 0)
=============================================================================
