-------------------------- MODULE ManualClose_proofs --------------------------
(***************************************************************************)
(* Theorems about ManualClose, for any number of concurrent requests, any  *)
(* lots, targets and bounds: whatever the tasks that protect the position  *)
(* do between two awaits of a close, one close order is being prepared at  *)
(* a time, and none blocks later closes without a coroutine at work on it, *)
(* unless the process died.  Then the books: the answer and the stream     *)
(* together book no lot of a close order twice, unless an answer had to be *)
(* looked up.  Last, that the protection stays well formed beside closes.  *)
(***************************************************************************)
EXTENDS ManualClose, Protection_proofs

(***************************************************************************)
(* Shapes.  Only the states of the orders and who works on them matter.    *)
(***************************************************************************)
CloseShape ==
  /\ Table(orders) /\ Table(market) /\ DOMAIN market = DOMAIN orders
  /\ \A i \in DOMAIN orders : "state" \in DOMAIN orders[i]
  /\ cpc = [c \in Closers |-> cpc[c]] /\ cloc = [c \in Closers |-> cloc[c]]
  /\ \A c \in Closers : "order" \in DOMAIN cloc[c]
  /\ faults \in Nat

(***************************************************************************)
(* The invariant.  A closer works on an order of its own; until the order  *)
(* is sent it is "submitting" and unknown to the exchange, so no event and *)
(* no answer is about it, which is what the events on the wire add.        *)
(***************************************************************************)
Works(c) == cpc[c] # "idle"

OwnOrders ==
  /\ \A c \in Closers : Works(c) => cloc[c].order \in DOMAIN orders
  /\ \A c, d \in Closers : Works(c) /\ Works(d) /\ cloc[c].order = cloc[d].order => c = d

PreparedUnsent ==
  \A c \in Closers : Preparing(c) =>
    orders[cloc[c].order].state = "submitting" /\ ~market[cloc[c].order].taken

CloseReport(e, book, taken) ==
  e.kind = "close" =>
    /\ e.order \in DOMAIN book /\ taken[e.order].taken
    /\ e.status \in DOMAIN StateOf /\ e.trade \in 0..taken[e.order].executed

WireInv == \E S : wire \in Seq(S) /\ \A e \in S : CloseReport(e, orders, market)

CloseInv ==
  CloseShape /\ OwnOrders /\ PreparedUnsent /\ WireInv /\ OnePreparing /\ SubmittingIsOwned

(* The initial state: nothing was closed yet. *)
LEMMA InitClose == CloseInit => CloseInv
<1> SUFFICES ASSUME CloseInit PROVE CloseInv
  OBVIOUS
<1>1. /\ orders = <<>> /\ market = <<>> /\ DOMAIN orders = {} /\ DOMAIN market = {}
      /\ cpc = [c \in Closers |-> "idle"] /\ cloc = [c \in Closers |-> NoClose]
      /\ wire = <<>> /\ faults = 0
  BY DEF CloseInit, Init
<1>2. Table(<<>>)
  <2>1. <<>> = [i \in 1..0 |-> <<>>[i]]
    OBVIOUS
  <2> QED
    BY <2>1 DEF Table
<1>3. CloseShape
  BY <1>1, <1>2 DEF CloseShape, NoClose
<1>4. OwnOrders /\ PreparedUnsent /\ OnePreparing /\ SubmittingIsOwned
  BY <1>1 DEF OwnOrders, PreparedUnsent, OnePreparing, SubmittingIsOwned, Works, Preparing
<1>5. WireInv
  <2>1. wire \in Seq({})
    BY <1>1
  <2> QED
    BY <2>1 DEF WireInv
<1> QED
  BY <1>3, <1>4, <1>5 DEF CloseInv

(***************************************************************************)
(* The wire.                                                               *)
(***************************************************************************)

(* What the exchange has taken it does not give back. *)
Lasting ==
  /\ DOMAIN orders \subseteq DOMAIN orders'
  /\ \A i \in DOMAIN orders : market[i].taken => market'[i] = market[i]

(* Reports stay true. *)
LEMMA ReportsLast ==
  ASSUME Lasting, NEW S, \A e \in S : CloseReport(e, orders, market)
  PROVE  \A e \in S : CloseReport(e, orders', market')
BY DEF Lasting, CloseReport

(* Nothing new is on the wire, or less. *)
LEMMA WireShrinks ==
  ASSUME WireInv, Lasting, \/ wire' = wire \/ wire' = <<>>
                           \/ wire # <<>> /\ wire' = Tail(wire)
  PROVE  WireInv'
<1>1. PICK S : wire \in Seq(S) /\ \A e \in S : CloseReport(e, orders, market)
  BY DEF WireInv
<1>2. wire' \in Seq(S)
  BY <1>1, EmptySeq, HeadTailProperties
<1>3. \A e \in S : CloseReport(e, orders', market')
  BY <1>1, ReportsLast
<1> QED
  BY <1>2, <1>3 DEF WireInv

(* The exchange sends reports that are true. *)
LEMMA WireGrows ==
  ASSUME WireInv, Lasting, NEW T, NEW events \in Seq(T),
         wire' = wire \/ wire' = wire \o events,
         \A e \in T : CloseReport(e, orders', market')
  PROVE  WireInv'
<1>1. PICK S : wire \in Seq(S) /\ \A e \in S : CloseReport(e, orders, market)
  BY DEF WireInv
<1>2. wire \in Seq(S \cup T) /\ events \in Seq(S \cup T)
  BY <1>1, SeqMonotonic
<1>3. wire' \in Seq(S \cup T)
  BY <1>2, ConcatProperties
<1>4. \A e \in S \cup T : CloseReport(e, orders', market')
  BY <1>1, ReportsLast
<1> QED
  BY <1>3, <1>4 DEF WireInv

(* The protective orders' reports are not about close orders. *)
LEMMA ReportsOfProtection ==
  ASSUME NEW kind \in {"tp", "stop", "list", "guard"}, NEW k, NEW status, NEW qty
  PROVE  CloseReport(Report(kind, k, status, qty), orders', market')
BY DEF CloseReport, Report

(* GuardFills and CancelGuard send one event. *)
LEMMA OneReport ==
  ASSUME WireInv, Lasting, NEW a, CloseReport(a, orders', market'), Send(<<a>>)
  PROVE  WireInv'
<1> DEFINE events == <<a>>
           T == {a}
<1>1. events \in Seq(T)
  OBVIOUS
<1>2. \A e \in T : CloseReport(e, orders', market')
  OBVIOUS
<1>3. wire' = wire \/ wire' = wire \o events
  BY DEF Send
<1> HIDE DEF events, T
<1> QED
  BY <1>1, <1>2, <1>3, WireGrows

(* An order list that ends sends three. *)
LEMMA ThreeReports ==
  ASSUME WireInv, Lasting, NEW a, NEW b, NEW c,
         CloseReport(a, orders', market'), CloseReport(b, orders', market'),
         CloseReport(c, orders', market'), Send(<<a, b, c>>)
  PROVE  WireInv'
<1> DEFINE events == <<a, b, c>>
           T == {a, b, c}
<1>1. events \in Seq(T)
  OBVIOUS
<1>2. \A e \in T : CloseReport(e, orders', market')
  OBVIOUS
<1>3. wire' = wire \/ wire' = wire \o events
  BY DEF Send
<1> HIDE DEF events, T
<1> QED
  BY <1>1, <1>2, <1>3, WireGrows

(***************************************************************************)
(* Steps that leave the closers where they are.                            *)
(***************************************************************************)

(* Orders that were taken may change their state, the others stay. *)
LEMMA RestingCloses ==
  ASSUME CloseInv, UNCHANGED <<market, cpc, cloc>>, WireInv',
         faults' \in Nat, faults > 0 => faults' > 0,
         Table(orders'), DOMAIN orders' = DOMAIN orders,
         \A i \in DOMAIN orders :
           /\ "state" \in DOMAIN orders'[i]
           /\ \/ orders'[i].state = orders[i].state
              \/ market[i].taken /\ orders'[i].state # "submitting"
  PROVE  CloseInv'
<1>1. CloseShape'
  BY DEF CloseInv, CloseShape, Table
<1>2. OwnOrders' /\ OnePreparing'
  BY DEF CloseInv, OwnOrders, OnePreparing, Works, Preparing
<1>3. PreparedUnsent'
  <2> SUFFICES ASSUME NEW c \in Closers, Preparing(c)
               PROVE  orders'[cloc[c].order].state = "submitting" /\ ~market[cloc[c].order].taken
    BY DEF PreparedUnsent, Preparing
  <2>1. cloc[c].order \in DOMAIN orders
    BY DEF CloseInv, OwnOrders, Works, Preparing
  <2> QED
    BY <2>1 DEF CloseInv, PreparedUnsent
<1>4. SubmittingIsOwned'
  BY DEF CloseInv, SubmittingIsOwned, CloseShape
<1> QED
  BY <1>1, <1>2, <1>3, <1>4 DEF CloseInv

(* The coroutines and orders of Protection: nothing they do is about a close
   order, and their events say so. *)
LEMMA ProtectionKeeps == CloseInv /\ ProtectionStep => CloseInv'
<1> SUFFICES ASSUME CloseInv, ProtectionStep PROVE CloseInv'
  OBVIOUS
<1>1. UNCHANGED <<orders, market, cpc, cloc>>
  BY DEF ProtectionStep, closeVars
<1>2. Lasting /\ WireInv /\ faults \in Nat
  BY <1>1 DEF Lasting, CloseInv, CloseShape
<1>3. WireInv' /\ faults' \in Nat /\ (faults > 0 => faults' > 0)
  <2>1. ASSUME NEW t \in Tasks, TaskStep(t) PROVE WireInv' /\ faults' = faults
    <3>1. CASE CancelList(t)
      <4>1. \/ wire' = wire
            \/ \E k : Send(<<Report("tp", k, "CANCELED", 0), Report("stop", k, "CANCELED", 0),
                             Report("list", k, "ALL_DONE", 0)>>)
        BY <3>1 DEF CancelList
      <4>2. faults' = faults
        BY <3>1 DEF CancelList, countVars
      <4> QED
        BY <1>2, <4>1, <4>2, WireShrinks, ThreeReports, ReportsOfProtection
    <3>2. CASE CancelGuard(t)
      <4>1. wire' = wire \/ \E k : Send(<<Report("guard", k, "CANCELED", 0)>>)
        BY <3>2 DEF CancelGuard
      <4>2. faults' = faults
        BY <3>2 DEF CancelGuard, countVars
      <4> QED
        BY <1>2, <4>1, <4>2, WireShrinks, OneReport, ReportsOfProtection
    <3>3. CASE UNCHANGED <<streamVars, countVars>>
      BY <1>2, <3>3, WireShrinks DEF streamVars, countVars
    <3>4. CASE \/ ReadBalance(t) \/ EstablishFails(t) \/ EstablishSubmits(t) \/ PlaceOco(t)
               \/ EstablishAcks(t) \/ PlaceGuard(t) \/ GuardAcks(t) \/ EstablishUnwinds(t)
      BY <3>3, <3>4 DEF ReadBalance, EstablishFails, EstablishSubmits, PlaceOco, EstablishAcks,
                        PlaceGuard, GuardAcks, EstablishUnwinds
    <3>5. CASE \/ AdvanceGoesOn(t) \/ ListAnswers(t) \/ ReconcileCloses(t) \/ ReconcileFails(t)
               \/ BalancesRead(t) \/ ReconcilesActive(t) \/ CorrectPosition(t)
               \/ ReconcileAllEnds(t)
      BY <3>3, <3>5 DEF AdvanceGoesOn, ListAnswers, ReconcileCloses, ReconcileFails,
                        BalancesRead, ReconcilesActive, CorrectPosition, ReconcileAllEnds
    <3> QED
      BY <2>1, <3>1, <3>2, <3>4, <3>5 DEF TaskStep
  <2>2. ASSUME NEW t \in Admins, EstablishRequest(t) \/ ReconcileRequest(t)
        PROVE  WireInv' /\ faults' = faults
    BY <1>2, <2>2, WireShrinks DEF EstablishRequest, ReconcileRequest, streamVars
  <2>3. CASE StreamEstablishes
    BY <1>2, <2>3, WireShrinks DEF StreamEstablishes, streamVars, countVars
  <2>4. CASE ProtectiveEvent /\ (StreamIgnores \/ StreamFills \/ StreamFlags \/ StreamListDone)
    <3>1. wire # <<>> /\ Consume
      BY <2>4 DEF ProtectiveEvent, StreamIgnores, StreamFills, StreamFlags, StreamListDone
    <3> QED
      BY <1>2, <3>1, WireShrinks DEF Consume, countVars
  <2>5. ASSUME NEW k \in Stages, TargetFills(k) \/ StopFills(k) \/ GuardFills(k)
        PROVE  WireInv' /\ faults' = faults
    <3>1. CASE GuardFills(k)
      BY <1>2, <3>1, OneReport, ReportsOfProtection DEF GuardFills, countVars
    <3>2. ASSUME NEW leg \in {"tp", "stop"}, NEW other \in {"tp", "stop"}, LegFills(k, leg, other)
          PROVE  WireInv' /\ faults' = faults
      <4> DEFINE filled == Report(leg, k, "FILLED", oco[k].qty)
                 expired == Report(other, k, "EXPIRED", 0)
                 done == Report("list", k, "ALL_DONE", 0)
      <4>1. Send(<<expired, filled, done>>) \/ Send(<<filled, expired, done>>)
        BY <3>2 DEF LegFills
      <4>2. faults' = faults
        BY <3>2 DEF LegFills, countVars
      <4>3. /\ CloseReport(filled, orders', market') /\ CloseReport(expired, orders', market')
            /\ CloseReport(done, orders', market')
        BY DEF CloseReport, Report
      <4> HIDE DEF filled, expired, done
      <4> QED
        BY <1>2, <4>1, <4>2, <4>3, ThreeReports
    <3> QED
      BY <2>5, <3>1, <3>2 DEF TargetFills, StopFills
  <2>6. CASE Disconnect
    BY <1>2, <2>6, WireShrinks DEF Disconnect, Fault
  <2>7. CASE Reconnect
    BY <1>2, <2>7, WireShrinks DEF Reconnect, countVars
  <2> QED
    BY <1>2, <2>1, <2>2, <2>3, <2>4, <2>5, <2>6, <2>7 DEF ProtectionStep
<1> QED
  BY <1>1, <1>3, RestingCloses DEF CloseInv, CloseShape, Table

(***************************************************************************)
(* Steps of one closer.                                                    *)
(***************************************************************************)
PreparingLabels == {"cancel", "canceled", "account", "accounted", "send"}

(* A closer at work changes the state of its own order only.  It ends with
   an order that is not "submitting", and one that goes on preparing has
   neither recorded nor sent it. *)
LEMMA CloserMoves ==
  ASSUME CloseInv, NEW c \in Closers, Works(c), NEW label, NEW locals,
         CloseGoesOn(c, label, locals), "order" \in DOMAIN locals,
         label # "idle" => locals.order = cloc[c].order,
         label \in PreparingLabels =>
           cpc[c] \in PreparingLabels /\ orders' = orders /\ market' = market,
         label = "idle" => orders'[cloc[c].order].state # "submitting",
         Table(orders'), DOMAIN orders' = DOMAIN orders,
         Table(market'), DOMAIN market' = DOMAIN market,
         \A i \in DOMAIN orders :
           /\ "state" \in DOMAIN orders'[i]
           /\ i # cloc[c].order => orders'[i].state = orders[i].state /\ market'[i] = market[i],
         WireInv', faults' = faults
  PROVE  CloseInv'
<1>1. /\ cpc' = [d \in Closers |-> cpc'[d]] /\ cloc' = [d \in Closers |-> cloc'[d]]
      /\ cpc'[c] = label /\ cloc'[c] = locals
      /\ \A d \in Closers : d # c => cpc'[d] = cpc[d] /\ cloc'[d] = cloc[d]
  BY DEF CloseInv, CloseShape, CloseGoesOn
<1>2. CloseShape'
  BY <1>1 DEF CloseInv, CloseShape, Table
<1>3. OwnOrders'
  BY <1>1 DEF CloseInv, OwnOrders, Works
<1>4. \A d \in Closers : Preparing(d)' => Preparing(d)
  BY <1>1 DEF Preparing, PreparingLabels
<1>5. OnePreparing'
  BY <1>4 DEF CloseInv, OnePreparing
<1>6. PreparedUnsent'
  <2> SUFFICES ASSUME NEW d \in Closers, Preparing(d)'
               PROVE  orders'[cloc'[d].order].state = "submitting" /\ ~market'[cloc'[d].order].taken
    BY DEF PreparedUnsent
  <2>1. Preparing(d) /\ Works(d) /\ cloc[d].order \in DOMAIN orders
    BY <1>4 DEF CloseInv, OwnOrders, Works, Preparing
  <2>2. orders[cloc[d].order].state = "submitting" /\ ~market[cloc[d].order].taken
    BY <2>1 DEF CloseInv, PreparedUnsent
  <2>3. CASE d = c
    <3>1. label \in PreparingLabels
      BY <1>1, <2>3 DEF Preparing, PreparingLabels
    <3> QED
      BY <1>1, <2>2, <2>3, <3>1 DEF PreparingLabels
  <2>4. CASE d # c
    BY <1>1, <2>1, <2>2, <2>4 DEF CloseInv, OwnOrders
  <2> QED
    BY <2>3, <2>4
<1>7. SubmittingIsOwned'
  <2> SUFFICES ASSUME NEW i \in DOMAIN orders, orders'[i].state = "submitting", ~(faults > 0)
               PROVE  \E d \in Closers : cpc'[d] # "idle" /\ cloc'[d].order = i
    BY DEF SubmittingIsOwned
  <2>1. CASE i = cloc[c].order
    BY <1>1, <2>1
  <2>2. CASE i # cloc[c].order
    <3>1. PICK d \in Closers : cpc[d] # "idle" /\ cloc[d].order = i
      BY <2>2 DEF CloseInv, SubmittingIsOwned
    <3> QED
      BY <1>1, <2>2, <3>1
  <2> QED
    BY <2>1, <2>2
<1> QED
  BY <1>2, <1>3, <1>5, <1>6, <1>7 DEF CloseInv

(* Writing a row that has a state leaves a table of such rows. *)
LEMMA RowWritten ==
  ASSUME CloseInv, NEW i \in DOMAIN orders, NEW row, "state" \in DOMAIN row,
         orders' = [orders EXCEPT ![i] = row]
  PROVE  /\ Table(orders') /\ DOMAIN orders' = DOMAIN orders /\ orders'[i] = row
         /\ \A j \in DOMAIN orders : /\ "state" \in DOMAIN orders'[j]
                                     /\ j # i => orders'[j] = orders[j]
<1>1. PICK n \in Nat : orders = [j \in 1..n |-> orders[j]]
  BY DEF CloseInv, CloseShape, Table
<1>2. orders' = [j \in 1..n |-> orders'[j]] /\ DOMAIN orders' = DOMAIN orders
  BY <1>1
<1>3. orders'[i] = row /\ \A j \in DOMAIN orders : j # i => orders'[j] = orders[j]
  BY <1>1
<1> QED
  BY <1>1, <1>2, <1>3 DEF CloseInv, CloseShape, Table

(* A closer that goes on without a word about its order. *)
LEMMA QuietMove ==
  ASSUME CloseInv, NEW c \in Closers, Works(c), NEW label, NEW locals,
         CloseGoesOn(c, label, locals), label # "idle", "order" \in DOMAIN locals,
         locals.order = cloc[c].order,
         label \in PreparingLabels => cpc[c] \in PreparingLabels,
         UNCHANGED <<orders, market, faults>>, WireInv'
  PROVE  CloseInv'
BY CloserMoves DEF CloseInv, CloseShape, Table

(* A closer that ends and leaves another state than "submitting". *)
LEMMA LastMove ==
  ASSUME CloseInv, NEW c \in Closers, Works(c), CloseEnds(c),
         NEW row, "state" \in DOMAIN row, row.state # "submitting",
         orders' = [orders EXCEPT ![cloc[c].order] = row],
         UNCHANGED <<market, wire, faults>>
  PROVE  CloseInv'
<1>1. cloc[c].order \in DOMAIN orders
  BY DEF CloseInv, OwnOrders
<1>2. /\ Table(orders') /\ DOMAIN orders' = DOMAIN orders /\ orders'[cloc[c].order] = row
      /\ \A j \in DOMAIN orders : /\ "state" \in DOMAIN orders'[j]
                                  /\ j # cloc[c].order => orders'[j] = orders[j]
  BY <1>1, RowWritten
<1>3. Lasting /\ WireInv
  BY <1>2 DEF Lasting, CloseInv
<1>4. WireInv'
  BY <1>3, WireShrinks
<1>5. CloseGoesOn(c, "idle", NoClose) /\ "order" \in DOMAIN NoClose
  BY DEF CloseEnds, NoClose
<1>6. Table(market') /\ DOMAIN market' = DOMAIN market
  BY DEF CloseInv, CloseShape, Table
<1> QED
  BY <1>2, <1>4, <1>5, <1>6, CloserMoves DEF PreparingLabels

(* The handler: the order is "rejected". *)
LEMMA RejectsKeeps ==
  ASSUME CloseInv, NEW c \in Closers, Works(c), Rejects(c), UNCHANGED <<market, wire, faults>>
  PROVE  CloseInv'
<1> DEFINE row == [orders[cloc[c].order] EXCEPT !.state = "rejected"]
<1>1. cloc[c].order \in DOMAIN orders /\ "state" \in DOMAIN orders[cloc[c].order]
  BY DEF CloseInv, OwnOrders, CloseShape
<1>2. "state" \in DOMAIN row /\ row.state # "submitting"
  BY <1>1
<1>3. CloseEnds(c) /\ orders' = [orders EXCEPT ![cloc[c].order] = row]
  BY DEF Rejects, SetState
<1> HIDE DEF row
<1> QED
  BY <1>2, <1>3, LastMove

(* _apply_response: a state of the answer. *)
LEMMA ResponseKeeps ==
  ASSUME CloseInv, NEW c \in Closers, Works(c), NEW qty, NEW trades,
         ApplyResponse(c, qty, trades), CloseEnds(c), UNCHANGED <<market, wire, faults>>
  PROVE  CloseInv'
<1> DEFINE i == cloc[c].order
           state == IF market[i].executed = qty THEN "filled"
                    ELSE IF market[i].executed > 0 THEN "partially_filled" ELSE "acknowledged"
           row == [orders[i] EXCEPT !.state = state,
                                    !.fills = IF @ = {} THEN trades ELSE @,
                                    !.looked = @ \/ cpc[c] = "found"]
<1>1. i \in DOMAIN orders /\ "state" \in DOMAIN orders[i]
  BY DEF CloseInv, OwnOrders, CloseShape
<1>2. state # "submitting"
  OBVIOUS
<1>3. orders' = [orders EXCEPT ![i] = row]
  BY <1>1 DEF ApplyResponse
<1> HIDE DEF state
<1>4. "state" \in DOMAIN row /\ row.state = state
  BY <1>1
<1> HIDE DEF row
<1> QED
  BY <1>2, <1>3, <1>4, LastMove

(* CancelsNext on the way: the next list, the market, or a row without an
   order list id, which gives the close up. *)
LEMMA NextKeeps ==
  ASSUME CloseInv, NEW c \in Closers, cpc[c] \in PreparingLabels, NEW left,
         CancelsNext(c, left, cloc[c].order, orders), UNCHANGED <<market, wire, faults>>
  PROVE  CloseInv'
<1> DEFINE i == cloc[c].order
           toMarket == [NoClose EXCEPT !.order = i]
           toList == [NoClose EXCEPT !.order = i, !.left = left]
<1>1. "order" \in DOMAIN toMarket /\ toMarket.order = i /\ "order" \in DOMAIN toList /\ toList.order = i
  BY DEF NoClose
<1>2. \/ CloseGoesOn(c, "account", toMarket) /\ orders' = orders
      \/ CloseGoesOn(c, "cancel", toList) /\ orders' = orders
      \/ CloseEnds(c) /\ orders' = [orders EXCEPT ![i].state = "rejected"]
  BY DEF CancelsNext
<1>3. Works(c)
  BY DEF Works, PreparingLabels
<1>4. WireInv /\ (orders' = orders => Lasting)
  BY DEF CloseInv, Lasting
<1> HIDE DEF toMarket, toList
<1>5. CASE CloseGoesOn(c, "account", toMarket) /\ orders' = orders
  BY <1>1, <1>3, <1>4, <1>5, WireShrinks, QuietMove DEF PreparingLabels
<1>6. CASE CloseGoesOn(c, "cancel", toList) /\ orders' = orders
  BY <1>1, <1>3, <1>4, <1>6, WireShrinks, QuietMove DEF PreparingLabels
<1>7. CASE CloseEnds(c) /\ orders' = [orders EXCEPT ![i].state = "rejected"]
  BY <1>3, <1>7, RejectsKeeps DEF Rejects, SetState
<1> QED
  BY <1>2, <1>5, <1>6, <1>7

(* Up to the send: the cancellations, the balance, the size, and what may
   fail before. *)
LEMMA PreparationKeeps ==
  ASSUME CloseInv, NEW c \in Closers,
         CloseCancels(c) \/ CloseUnprotects(c) \/ CloseReadsBalance(c) \/ CloseSizes(c) \/ CloseFails(c)
  PROVE  CloseInv'
<1>1. WireInv /\ "order" \in DOMAIN cloc[c] /\ (UNCHANGED <<orders, market>> => Lasting)
  BY DEF CloseInv, CloseShape, Lasting
<1>2. CASE CloseCancels(c)
  <2>1. PICK answer : CloseGoesOn(c, "canceled", [cloc[c] EXCEPT !.answer = answer])
    BY <1>2 DEF CloseCancels
  <2>2. cpc[c] = "cancel" /\ UNCHANGED <<orders, market, faults>>
    BY <1>2 DEF CloseCancels, countVars
  <2>3. \/ wire' = wire
        \/ \E k : Send(<<Report("tp", k, "CANCELED", 0), Report("stop", k, "CANCELED", 0),
                         Report("list", k, "ALL_DONE", 0)>>)
    BY <1>2 DEF CloseCancels
  <2>4. WireInv'
    BY <1>1, <2>2, <2>3, WireShrinks, ThreeReports, ReportsOfProtection
  <2> DEFINE locals == [cloc[c] EXCEPT !.answer = answer]
  <2>5. "order" \in DOMAIN locals /\ locals.order = cloc[c].order
    BY <1>1
  <2>6. CloseGoesOn(c, "canceled", locals)
    BY <2>1
  <2> HIDE DEF locals
  <2> QED
    BY <2>2, <2>4, <2>5, <2>6, QuietMove DEF Works, PreparingLabels
<1>3. CASE CloseUnprotects(c)
  <2>1. cpc[c] \in PreparingLabels /\ Works(c) /\ UNCHANGED <<market, wire, faults>>
    BY <1>3 DEF CloseUnprotects, PreparingLabels, Works, streamVars, countVars
  <2>2. \/ CancelsNext(c, Tail(cloc[c].left), cloc[c].order, orders)
        \/ Rejects(c)
    BY <1>3 DEF CloseUnprotects
  <2> QED
    BY <2>1, <2>2, NextKeeps, RejectsKeeps
<1>4. CASE CloseReadsBalance(c)
  <2> DEFINE locals == [cloc[c] EXCEPT !.qty = Free]
  <2>1. "order" \in DOMAIN locals /\ locals.order = cloc[c].order
    BY <1>1
  <2>2. /\ CloseGoesOn(c, "accounted", locals) /\ cpc[c] = "account"
        /\ UNCHANGED <<orders, market, wire, faults>>
    BY <1>4 DEF CloseReadsBalance, protectionVars, streamVars, countVars
  <2>3. WireInv'
    BY <1>1, <2>2, WireShrinks
  <2> HIDE DEF locals
  <2> QED
    BY <2>1, <2>2, <2>3, QuietMove DEF Works, PreparingLabels
<1>5. CASE CloseSizes(c)
  <2>1. cpc[c] = "accounted" /\ Works(c) /\ UNCHANGED <<market, wire, faults>>
    BY <1>5 DEF CloseSizes, Works, protectionVars, streamVars, countVars
  <2>2. ASSUME NEW qty, CloseGoesOn(c, "send", [cloc[c] EXCEPT !.qty = qty]), orders' = orders
        PROVE  CloseInv'
    <3> DEFINE locals == [cloc[c] EXCEPT !.qty = qty]
    <3>1. "order" \in DOMAIN locals /\ locals.order = cloc[c].order
      BY <1>1
    <3>2. WireInv' /\ CloseGoesOn(c, "send", locals)
      BY <1>1, <2>1, <2>2, WireShrinks
    <3> HIDE DEF locals
    <3> QED
      BY <2>1, <2>2, <3>1, <3>2, QuietMove DEF PreparingLabels
  <2>3. \/ Rejects(c)
        \/ \E qty : CloseGoesOn(c, "send", [cloc[c] EXCEPT !.qty = qty]) /\ orders' = orders
    BY <1>5 DEF CloseSizes
  <2> QED
    BY <2>1, <2>2, <2>3, RejectsKeeps
<1>6. CASE CloseFails(c)
  BY <1>6, RejectsKeeps DEF CloseFails, Works, protectionVars, streamVars, countVars
<1> QED
  BY <1>2, <1>3, <1>4, <1>5, <1>6

(* After the send: the answer, the lookup and its answer. *)
LEMMA AnswersKeep ==
  ASSUME CloseInv, NEW c \in Closers, CloseAnswered(c) \/ CloseLookup(c) \/ CloseFound(c)
  PROVE  CloseInv'
<1>1. Works(c) /\ UNCHANGED <<market, wire, faults>>
  BY DEF CloseAnswered, CloseLookup, CloseFound, Works, protectionVars, streamVars, countVars
<1>2. "order" \in DOMAIN cloc[c] /\ (orders' = orders => WireInv')
  BY <1>1, WireShrinks DEF CloseInv, CloseShape, Lasting
<1>3. CASE CloseAnswered(c)
  <2>1. \/ ApplyResponse(c, cloc[c].qty, 1..market[cloc[c].order].executed) /\ CloseEnds(c)
        \/ CloseGoesOn(c, "lookup", cloc[c]) /\ orders' = orders
        \/ Rejects(c)
    BY <1>3 DEF CloseAnswered
  <2>2. CASE CloseGoesOn(c, "lookup", cloc[c]) /\ orders' = orders
    BY <1>1, <1>2, <2>2, QuietMove DEF PreparingLabels
  <2> QED
    BY <1>1, <2>1, <2>2, ResponseKeeps, RejectsKeeps
<1>4. CASE CloseLookup(c)
  <2>1. PICK answer : CloseGoesOn(c, "found", [cloc[c] EXCEPT !.answer = answer])
    BY <1>4 DEF CloseLookup
  <2> DEFINE locals == [cloc[c] EXCEPT !.answer = answer]
  <2>2. "order" \in DOMAIN locals /\ locals.order = cloc[c].order /\ CloseGoesOn(c, "found", locals)
    BY <1>2, <2>1
  <2>3. orders' = orders
    BY <1>4 DEF CloseLookup
  <2> HIDE DEF locals
  <2> QED
    BY <1>1, <1>2, <2>2, <2>3, QuietMove DEF PreparingLabels
<1>5. CASE CloseFound(c)
  <2>1. \/ ApplyResponse(c, cloc[c].qty, {}) /\ CloseEnds(c)
        \/ Rejects(c)
    BY <1>5 DEF CloseFound
  <2> QED
    BY <1>1, <2>1, ResponseKeeps, RejectsKeeps
<1> QED
  BY <1>3, <1>4, <1>5

(* What the exchange reports of an order it has taken.                      *)
ReportsOf(i, executed) == {CloseEvent(i, status, j) : status \in DOMAIN StateOf, j \in 0..executed}

LEMMA OrderReports ==
  ASSUME NEW i, NEW qty, NEW executed \in 0..qty
  PROVE  <<CloseEvent(i, "NEW", 0)>> \o Trades(i, executed, qty)
           \o (IF executed < qty THEN <<CloseEvent(i, "EXPIRED", 0)>> ELSE <<>>)
         \in Seq(ReportsOf(i, executed))
<1> DEFINE T == ReportsOf(i, executed)
           new == <<CloseEvent(i, "NEW", 0)>>
           trades == Trades(i, executed, qty)
           rest == IF executed < qty THEN <<CloseEvent(i, "EXPIRED", 0)>> ELSE <<>>
<1>1. DOMAIN StateOf = {"NEW", "PARTIALLY_FILLED", "FILLED", "EXPIRED"} /\ executed \in Nat
  BY DEF StateOf
<1>2. new \in Seq(T) /\ rest \in Seq(T)
  <2>1. CloseEvent(i, "NEW", 0) \in T /\ CloseEvent(i, "EXPIRED", 0) \in T
    BY <1>1 DEF ReportsOf
  <2> HIDE DEF T
  <2> QED
    BY <2>1
<1>3. trades \in Seq(T)
  <2>1. \A j \in 1..executed : trades[j] \in T
    BY <1>1 DEF Trades, ReportsOf
  <2>2. trades = [j \in 1..executed |-> trades[j]]
    BY DEF Trades
  <2> HIDE DEF T, trades
  <2> QED
    BY <1>1, <2>1, <2>2
<1> HIDE DEF T, new, trades, rest
<1>4. new \o trades \o rest \in Seq(T)
  BY <1>2, <1>3, ConcatProperties
<1> QED
  BY <1>4 DEF T, new, trades, rest

(* The send: the exchange takes the order, and reports it, or not. *)
LEMMA SendKeeps ==
  ASSUME CloseInv, NEW c \in Closers, CloseOrder(c)
  PROVE  CloseInv'
<1> DEFINE i == cloc[c].order
           qty == cloc[c].qty
<1>1. /\ cpc[c] = "send" /\ Works(c) /\ i \in DOMAIN orders /\ "order" \in DOMAIN cloc[c]
      /\ orders' = orders /\ faults' = faults
  BY DEF CloseOrder, CloseInv, CloseShape, OwnOrders, Works, countVars
<1>2. PICK answer : CloseGoesOn(c, "placed", [cloc[c] EXCEPT !.answer = answer])
  BY DEF CloseOrder
<1> DEFINE locals == [cloc[c] EXCEPT !.answer = answer]
<1>3. "order" \in DOMAIN locals /\ locals.order = i /\ CloseGoesOn(c, "placed", locals)
  BY <1>1, <1>2
<1> HIDE DEF locals
<1>4. CASE UNCHANGED <<market, sold, wire>>
  <2>1. WireInv'
    BY <1>1, <1>4, WireShrinks DEF CloseInv, Lasting
  <2> QED
    BY <1>1, <1>3, <1>4, <2>1, QuietMove DEF PreparingLabels
<1>5. ASSUME NEW executed \in 0..qty,
             market' = [market EXCEPT ![i] = [taken |-> TRUE, executed |-> executed]],
             Send(<<CloseEvent(i, "NEW", 0)>> \o Trades(i, executed, qty)
                  \o IF executed < qty THEN <<CloseEvent(i, "EXPIRED", 0)>> ELSE <<>>)
      PROVE  CloseInv'
  <2>1. PICK n \in Nat : market = [j \in 1..n |-> market[j]]
    BY DEF CloseInv, CloseShape, Table
  <2>2. /\ Table(market') /\ DOMAIN market' = DOMAIN market
        /\ market'[i] = [taken |-> TRUE, executed |-> executed]
        /\ \A j \in DOMAIN orders : j # i => market'[j] = market[j]
    <3>1. market' = [j \in 1..n |-> market'[j]]
      BY <1>5, <2>1
    <3>2. i \in 1..n /\ DOMAIN market = 1..n
      BY <1>1, <2>1 DEF CloseInv, CloseShape
    <3>3. market'[i] = [taken |-> TRUE, executed |-> executed]
      BY <1>5, <2>1, <3>2
    <3> QED
      BY <1>5, <2>1, <3>1, <3>2, <3>3 DEF Table, CloseInv, CloseShape
  <2>3. Lasting
    <3>1. ~market[i].taken
      BY <1>1 DEF CloseInv, PreparedUnsent, Preparing
    <3> QED
      BY <1>1, <2>2, <3>1 DEF Lasting
  <2> DEFINE T == ReportsOf(i, executed)
             events == <<CloseEvent(i, "NEW", 0)>> \o Trades(i, executed, qty)
                         \o IF executed < qty THEN <<CloseEvent(i, "EXPIRED", 0)>> ELSE <<>>
  <2>4. \A e \in T : CloseReport(e, orders', market')
    BY <1>1, <2>2 DEF ReportsOf, CloseReport, CloseEvent
  <2>5. wire' = wire \/ wire' = wire \o events
    BY <1>5 DEF Send
  <2>6. events \in Seq(T)
    BY OrderReports
  <2> HIDE DEF events, T
  <2>7. WireInv'
    BY <2>3, <2>4, <2>5, <2>6, WireGrows DEF CloseInv
  <2>8. Table(orders) /\ \A j \in DOMAIN orders : "state" \in DOMAIN orders[j]
    BY DEF CloseInv, CloseShape
  <2> QED
    BY <1>1, <1>3, <2>2, <2>7, <2>8, CloserMoves DEF PreparingLabels, Table
<1> QED
  BY <1>4, <1>5 DEF CloseOrder

(***************************************************************************)
(* A new close, the stream, the reconciliation of orders, a crash.         *)
(***************************************************************************)

(* close_position() inserts its order only when no other one blocks it: no
   closer is preparing then. *)
LEMMA BeginKeeps ==
  ASSUME CloseInv, NEW c \in Closers, CloseBegins(c)
  PROVE  CloseInv'
<1> DEFINE i == Len(orders) + 1
           row == [state |-> "submitting", fills |-> {}, looked |-> FALSE]
           book == Append(orders, row)
           mark == [taken |-> FALSE, executed |-> 0]
           left == ProtectionsToCancel
<1>1. PICK n \in Nat : orders = [j \in 1..n |-> orders[j]]
  BY DEF CloseInv, CloseShape, Table
<1>2. market = [j \in 1..n |-> market[j]]
  <2>1. PICK m \in Nat : market = [j \in 1..m |-> market[j]]
    BY DEF CloseInv, CloseShape, Table
  <2>2. DOMAIN market = 1..m /\ DOMAIN market = 1..n
    BY <1>1, <2>1 DEF CloseInv, CloseShape
  <2> QED
    BY <2>1, <2>2
<1>3. i = n + 1 /\ orders \in Seq({orders[j] : j \in 1..n}) /\ market \in Seq({market[j] : j \in 1..n})
      /\ Len(market) = n
  BY <1>1, <1>2
<1>4. book = [j \in 1..(n + 1) |-> IF j = n + 1 THEN row ELSE orders[j]]
  BY <1>1, <1>3
<1>5. market' = [j \in 1..(n + 1) |-> IF j = n + 1 THEN mark ELSE market[j]]
  BY <1>2, <1>3 DEF CloseBegins
<1>6. /\ BlockingCloses = {} /\ cpc[c] = "idle" /\ CancelsNext(c, left, i, book)
      /\ UNCHANGED <<wire, faults>>
  BY DEF CloseBegins, protectionVars, streamVars, countVars
<1> DEFINE toMarket == [NoClose EXCEPT !.order = i]
           toList == [NoClose EXCEPT !.order = i, !.left = left]
<1>7. /\ "order" \in DOMAIN toMarket /\ toMarket.order = n + 1
      /\ "order" \in DOMAIN toList /\ toList.order = n + 1 /\ "order" \in DOMAIN NoClose
  BY <1>3 DEF NoClose
<1>8. PICK label, locals :
        /\ CloseGoesOn(c, label, locals) /\ "order" \in DOMAIN locals
        /\ \/ orders' = book /\ locals.order = n + 1 /\ label \in PreparingLabels
           \/ orders' = [book EXCEPT ![n + 1].state = "rejected"] /\ label = "idle"
  <2> HIDE DEF toMarket, toList, book
  <2>1. \/ CloseGoesOn(c, "account", toMarket) /\ orders' = book
        \/ CloseGoesOn(c, "cancel", toList) /\ orders' = book
        \/ CloseEnds(c) /\ orders' = [book EXCEPT ![n + 1].state = "rejected"]
    BY <1>3, <1>6 DEF CancelsNext, toMarket, toList
  <2> QED
    BY <1>7, <2>1 DEF CloseEnds, PreparingLabels
<1>9. /\ cpc' = [d \in Closers |-> cpc'[d]] /\ cloc' = [d \in Closers |-> cloc'[d]]
      /\ cpc'[c] = label /\ cloc'[c] = locals
      /\ \A d \in Closers : d # c => cpc'[d] = cpc[d] /\ cloc'[d] = cloc[d]
  BY <1>8 DEF CloseInv, CloseShape, CloseGoesOn
<1>10. /\ DOMAIN orders = 1..n /\ orders' = [j \in 1..(n + 1) |-> orders'[j]]
       /\ \A j \in 1..n : orders'[j] = orders[j]
       /\ "state" \in DOMAIN orders'[n + 1]
       /\ label # "idle" => orders'[n + 1].state = "submitting"
       /\ label = "idle" => orders'[n + 1].state = "rejected"
  <2>1. DOMAIN orders = 1..n
    BY <1>1
  <2>2. CASE orders' = book /\ label \in PreparingLabels
    BY <1>4, <2>1, <2>2 DEF PreparingLabels
  <2>3. CASE orders' = [book EXCEPT ![n + 1].state = "rejected"] /\ label = "idle"
    <3> DEFINE rejected == [row EXCEPT !.state = "rejected"]
    <3>1. "state" \in DOMAIN rejected /\ rejected.state = "rejected"
      OBVIOUS
    <3>2. orders' = [book EXCEPT ![n + 1] = rejected]
      BY <1>4, <2>3
    <3> HIDE DEF rejected, row
    <3>3. orders' = [j \in 1..(n + 1) |-> IF j = n + 1 THEN rejected ELSE orders[j]]
      BY <1>4, <3>2
    <3> QED
      BY <2>1, <2>3, <3>1, <3>3
  <2> QED
    BY <1>8, <2>1, <2>2, <2>3
<1>11. /\ DOMAIN orders' = 1..(n + 1) /\ DOMAIN market' = 1..(n + 1) /\ ~market'[n + 1].taken
       /\ \A j \in 1..n : market'[j] = market[j]
       /\ Table(orders') /\ Table(market')
  <2>1. market' = [j \in 1..(n + 1) |-> market'[j]]
    BY <1>5
  <2> QED
    BY <1>5, <1>10, <2>1 DEF Table
<1> HIDE DEF i, book, row, mark, left, toMarket, toList
<1>12. \A d \in Closers : ~Preparing(d)
  <2> SUFFICES ASSUME NEW d \in Closers, Preparing(d) PROVE FALSE
    OBVIOUS
  <2>1. cloc[d].order \in DOMAIN orders /\ orders[cloc[d].order].state = "submitting"
    BY DEF CloseInv, OwnOrders, PreparedUnsent, Works, Preparing
  <2> QED
    BY <1>6, <2>1 DEF BlockingCloses
<1>13. CloseShape'
  <2>1. \A d \in Closers : "order" \in DOMAIN cloc'[d]
    BY <1>8, <1>9 DEF CloseInv, CloseShape
  <2>2. \A j \in DOMAIN orders' : "state" \in DOMAIN orders'[j]
    BY <1>10, <1>11 DEF CloseInv, CloseShape
  <2>3. faults' \in Nat
    BY <1>6 DEF CloseInv, CloseShape
  <2> QED
    BY <1>9, <1>11, <2>1, <2>2, <2>3 DEF CloseShape
<1>14. OwnOrders'
  <2>1. \A d \in Closers : d # c /\ cpc'[d] # "idle" => cloc'[d].order \in 1..n
    BY <1>9, <1>10 DEF CloseInv, OwnOrders, Works
  <2>2. cpc'[c] # "idle" => cloc'[c].order = n + 1
    BY <1>8, <1>9
  <2>3. \A d, f \in Closers : d # c /\ f # c /\ cpc'[d] # "idle" /\ cpc'[f] # "idle"
                              /\ cloc'[d].order = cloc'[f].order => d = f
    BY <1>9 DEF CloseInv, OwnOrders, Works
  <2>4. \A d \in Closers : cpc'[d] # "idle" => cloc'[d].order \in DOMAIN orders'
    BY <1>11, <2>1, <2>2
  <2> QED
    BY <2>1, <2>2, <2>3, <2>4 DEF OwnOrders, Works
<1>15. \A d \in Closers : Preparing(d)' => d = c /\ label # "idle"
  BY <1>9, <1>12 DEF Preparing
<1>16. OnePreparing'
  BY <1>15 DEF OnePreparing
<1>17. PreparedUnsent'
  BY <1>8, <1>9, <1>10, <1>11, <1>15 DEF PreparedUnsent
<1>18. WireInv'
  <2>1. Lasting
    BY <1>10, <1>11 DEF Lasting
  <2> QED
    BY <1>6, <2>1, WireShrinks DEF CloseInv
<1>19. SubmittingIsOwned'
  <2> SUFFICES ASSUME NEW j \in 1..(n + 1), orders'[j].state = "submitting", ~(faults' > 0)
               PROVE  \E d \in Closers : cpc'[d] # "idle" /\ cloc'[d].order = j
    BY <1>11 DEF SubmittingIsOwned
  <2>1. CASE j = n + 1
    BY <1>8, <1>9, <1>10, <2>1
  <2>2. CASE j \in 1..n
    <3>1. PICK d \in Closers : cpc[d] # "idle" /\ cloc[d].order = j
      BY <1>6, <1>10, <2>2 DEF CloseInv, SubmittingIsOwned
    <3> QED
      BY <1>6, <1>9, <3>1
  <2> QED
    BY <2>1, <2>2
<1> QED
  BY <1>13, <1>14, <1>16, <1>17, <1>18, <1>19 DEF CloseInv

(* The consumer of the stream writes the order an event is about, which the
   exchange has taken. *)
LEMMA StreamKeeps == CloseInv /\ StreamCloses => CloseInv'
<1> SUFFICES ASSUME CloseInv, StreamCloses PROVE CloseInv'
  OBVIOUS
<1> DEFINE e == Head(wire)
<1>1. /\ wire # <<>> /\ e.kind = "close" /\ wire' = Tail(wire)
      /\ UNCHANGED <<market, cpc, cloc, faults>>
  BY DEF StreamCloses, StreamReady, Consume, countVars
<1>2. CloseReport(e, orders, market)
  <2>1. PICK S : wire \in Seq(S) /\ \A x \in S : CloseReport(x, orders, market)
    BY DEF CloseInv, WireInv
  <2> QED
    BY <1>1, <2>1, HeadTailProperties
<1>3. /\ e.order \in DOMAIN orders /\ market[e.order].taken
      /\ StateOf[e.status] # "submitting"
  BY <1>1, <1>2 DEF CloseReport, StateOf
<1> DEFINE row == [orders[e.order] EXCEPT !.state = StateOf[e.status],
                                          !.fills = @ \cup ({e.trade} \ {0})]
<1>4. "state" \in DOMAIN row /\ row.state = StateOf[e.status]
  BY <1>3 DEF CloseInv, CloseShape
<1>5. orders' = orders \/ orders' = [orders EXCEPT ![e.order] = row]
  BY DEF StreamCloses
<1> HIDE DEF row, e
<1>6. /\ Table(orders') /\ DOMAIN orders' = DOMAIN orders
      /\ \A j \in DOMAIN orders :
           /\ "state" \in DOMAIN orders'[j]
           /\ \/ orders'[j].state = orders[j].state
              \/ market[j].taken /\ orders'[j].state # "submitting"
  BY <1>3, <1>4, <1>5, RowWritten DEF CloseInv, CloseShape, Table
<1>7. WireInv'
  BY <1>1, <1>6, WireShrinks DEF CloseInv, Lasting
<1> QED
  BY <1>1, <1>6, <1>7, RestingCloses DEF CloseInv, CloseShape

(* /execution/reconcile only reads when it selects its rows. *)
LEMMA SelectKeeps == CloseInv /\ ReconcileSelects => CloseInv'
<1> SUFFICES ASSUME CloseInv, ReconcileSelects PROVE CloseInv'
  OBVIOUS
<1>1. UNCHANGED <<orders, market, cpc, cloc, wire>> /\ faults' = faults + 1
  BY DEF ReconcileSelects, Fault, streamVars
<1>2. faults' \in Nat /\ faults' > 0 /\ WireInv'
  BY <1>1, WireShrinks DEF CloseInv, CloseShape, Lasting
<1> QED
  BY <1>1, <1>2, RestingCloses DEF CloseInv, CloseShape, Table

(* Its answers close rows that the exchange has taken, whatever they say by
   now, and leave the exchange's books as they are. *)
LEMMA ReconciledKeeps == CloseInv /\ ReconcileCommits => CloseInv'
<1> SUFFICES ASSUME CloseInv, ReconcileCommits PROVE CloseInv'
  OBVIOUS
<1>1. PICK known \in SUBSET {i \in checking : market[i].taken} :
        orders' = [i \in DOMAIN orders |-> IF i \in known
                                          THEN [orders[i] EXCEPT !.state = "reconciled"]
                                          ELSE orders[i]]
  BY DEF ReconcileCommits
<1>2. UNCHANGED <<market, cpc, cloc, wire, faults>> /\ \A i \in known : market[i].taken
  BY DEF ReconcileCommits, protectionVars, streamVars, countVars
<1>3. PICK n \in Nat : orders = [j \in 1..n |-> orders[j]]
  BY DEF CloseInv, CloseShape, Table
<1>4. DOMAIN orders = 1..n /\ DOMAIN orders' = 1..n /\ Table(orders')
  BY <1>1, <1>3 DEF Table
<1>5. \A j \in DOMAIN orders :
        /\ "state" \in DOMAIN orders'[j]
        /\ \/ orders'[j].state = orders[j].state
           \/ market[j].taken /\ orders'[j].state # "submitting"
  BY <1>1, <1>2 DEF CloseInv, CloseShape
<1>6. WireInv'
  BY <1>1, <1>2, <1>4, WireShrinks DEF CloseInv, Lasting
<1> QED
  BY <1>2, <1>4, <1>5, <1>6, RestingCloses DEF CloseInv, CloseShape

(* A crash forgets the closers; their orders stay, and the fault is counted. *)
LEMMA DeathKeeps == CloseInv /\ ProcessDies => CloseInv'
<1> SUFFICES ASSUME CloseInv, ProcessDies PROVE CloseInv'
  OBVIOUS
<1>1. /\ cpc' = [c \in Closers |-> "idle"] /\ cloc' = [c \in Closers |-> NoClose]
      /\ UNCHANGED <<orders, market>> /\ wire' = <<>> /\ faults' = faults + 1
  BY DEF ProcessDies, CrashRestart, Fault
<1>2. faults' \in Nat /\ faults' > 0
  BY <1>1 DEF CloseInv, CloseShape
<1>3. CloseShape'
  BY <1>1, <1>2 DEF CloseInv, CloseShape, Table, NoClose
<1>4. OwnOrders' /\ PreparedUnsent' /\ OnePreparing' /\ SubmittingIsOwned'
  BY <1>1, <1>2 DEF OwnOrders, PreparedUnsent, OnePreparing, SubmittingIsOwned, Works, Preparing
<1>5. WireInv'
  BY <1>1, WireShrinks DEF CloseInv, Lasting
<1> QED
  BY <1>3, <1>4, <1>5 DEF CloseInv

(* Every step keeps the invariant. *)
LEMMA CloseStep == CloseInv /\ [CloseNext]_allVars => CloseInv'
<1> SUFFICES ASSUME CloseInv, [CloseNext]_allVars PROVE CloseInv'
  OBVIOUS
<1>1. CASE UNCHANGED allVars
  <2>1. UNCHANGED <<orders, market, cpc, cloc, wire, faults>>
    BY <1>1 DEF allVars, closeVars, vars, streamVars, countVars
  <2>2. WireInv'
    BY <2>1, WireShrinks DEF CloseInv, Lasting
  <2> QED
    BY <2>1, <2>2, RestingCloses DEF CloseInv, CloseShape, Table
<1>2. ASSUME NEW c \in Closers, CloserStep(c) PROVE CloseInv'
  BY <1>2, PreparationKeeps, SendKeeps, AnswersKeep DEF CloserStep
<1> QED
  BY <1>1, <1>2, ProtectionKeeps, BeginKeeps, StreamKeeps, SelectKeeps, ReconciledKeeps, DeathKeeps
     DEF CloseNext

(* CloseInv holds in every reachable state: closers work on orders of their
   own, and what they have not sent nobody reports. *)
THEOREM CloseInvariant == CloseSpec => []CloseInv
<1>1. CloseInit => CloseInv
  BY InitClose
<1> QED
  BY <1>1, CloseStep, PTL DEF CloseSpec

(* Two requests never prepare an order for the same lots, although the first
   one awaits cancellations, the balance and the price before it sends
   (position_close.py:65-110). *)
THEOREM OneCloseAtATime == CloseSpec => []OnePreparing
<1>1. CloseInv => OnePreparing
  BY DEF CloseInv
<1> QED
  BY <1>1, CloseInvariant, PTL

(* An order that blocks later closes because it is "submitting" has a
   coroutine at work on it, unless a fault was counted
   (position_close.py:65-71, 88, 190-205). *)
THEOREM NoOrphanedClose == CloseSpec => []SubmittingIsOwned
<1>1. CloseInv => SubmittingIsOwned
  BY DEF CloseInv
<1> QED
  BY <1>1, CloseInvariant, PTL
-----------------------------------------------------------------------------
(***************************************************************************)
(* The fills.  An order's open lots are those it has executed and nobody   *)
(* has booked; what the books say was sold, with the protective fills on   *)
(* the wire and the open lots of the close orders, was sold, until the     *)
(* answer of a lookup is booked without the trades it stands for.          *)
(***************************************************************************)
CloseRows == [state : CloseStates, fills : SUBSET Nat, looked : BOOLEAN]
Marks == [taken : BOOLEAN, executed : 0..Base]
ListsLeft == [id : Nat, stage : Stages, listed : BOOLEAN]
Answers == {"none", "ok", "error", "full", "unknown"}
Closing == [order : Nat, left : Seq(ListsLeft), qty : 0..Base, answer : Answers]

FillsOK(o, mark) == o.fills \subseteq 1..mark.executed /\ (~mark.taken => mark.executed = 0)

CloseTyped ==
  /\ orders \in Seq(CloseRows) /\ market \in Seq(Marks) /\ Len(market) = Len(orders)
  /\ \A i \in 1..Len(orders) : FillsOK(orders[i], market[i])
  /\ \A c \in Closers :
       /\ cloc[c] \in Closing /\ cloc[c].order <= Len(orders)
       /\ cpc[c] \in {"cancel", "canceled"} => cloc[c].left # <<>>

OpenOf(book, taken) ==
  [i \in 1..Len(book) |-> taken[i].executed - Cardinality(book[i].fills)]
OpenLots(book, taken) == Total(OpenOf(book, taken), 1, Len(book))
Looked(book) == \E i \in 1..Len(book) : book[i].looked

CloseBooks ==
  /\ pos.status = "closed" => pos.remaining = 0
  /\ \/ Looked(orders)
     \/ Base - pos.remaining + Along(FillLots, wire) + OpenLots(orders, market) <= sold

BookedInv == QuantityInv /\ Away(Correcting) /\ CloseTyped /\ CloseBooks

(* Nobody books more of an order than it has executed.                      *)
FilledOrders(book, taken) ==
  /\ book \in Seq(CloseRows) /\ taken \in Seq(Marks) /\ Len(taken) = Len(book)
  /\ \A i \in 1..Len(book) : FillsOK(book[i], taken[i])

LEMMA OpenIs ==
  ASSUME NEW book, NEW taken, FilledOrders(book, taken)
  PROVE  /\ \A i \in 1..Len(book) : /\ IsFiniteSet(book[i].fills) /\ Cardinality(book[i].fills) \in Nat
                                    /\ OpenOf(book, taken)[i] \in Nat
         /\ OpenLots(book, taken) \in Nat
         /\ Summands(OpenOf(book, taken), 1, Len(book))
<1>1. ASSUME NEW i \in 1..Len(book)
      PROVE  /\ IsFiniteSet(book[i].fills) /\ Cardinality(book[i].fills) \in Nat
             /\ OpenOf(book, taken)[i] \in Nat
  <2> DEFINE n == taken[i].executed
  <2>1. taken[i] \in Marks /\ book[i].fills \subseteq 1..n
    BY ElementOfSeq DEF FilledOrders, FillsOK
  <2>2. n \in Nat
    BY <2>1, ConstantsAre DEF Marks
  <2> HIDE DEF n
  <2>3. IsFiniteSet(1..n) /\ Cardinality(1..n) = n
    <3>1. 1 \in Int /\ n \in Int
      BY <2>2
    <3>2. IsFiniteSet(1..n) /\ Cardinality(1..n) = IF 1 > n THEN 0 ELSE n - 1 + 1
      BY <3>1, FS_Interval
    <3> QED BY <2>2, <3>2
  <2>4. /\ IsFiniteSet(book[i].fills) /\ Cardinality(book[i].fills) <= n
        /\ Cardinality(book[i].fills) \in Nat
    BY <2>1, <2>3, FS_Subset, FS_CardinalityType
  <2>5. OpenOf(book, taken)[i] = n - Cardinality(book[i].fills)
    BY DEF OpenOf, n
  <2> QED BY <2>2, <2>4, <2>5
<1>2. Len(book) \in Nat
  BY LenProperties DEF FilledOrders
<1>3. Summands(OpenOf(book, taken), 1, Len(book))
  BY <1>1 DEF Summands
<1>4. 1 \in Int /\ Len(book) \in Int /\ 1 - 1 <= Len(book)
  BY <1>2
<1>5. OpenLots(book, taken) \in Nat
  BY <1>1, <1>4, TotalNotNegative DEF OpenLots
<1> QED BY <1>1, <1>3, <1>5

(* One order changes.                                                       *)
LEMMA OpenChanges ==
  ASSUME NEW book, NEW taken, NEW book2, NEW taken2,
         FilledOrders(book, taken), FilledOrders(book2, taken2), Len(book2) = Len(book),
         NEW i \in 1..Len(book),
         \A j \in 1..Len(book) : j # i => book2[j] = book[j] /\ taken2[j] = taken[j]
  PROVE  OpenLots(book2, taken2)
           = OpenLots(book, taken) + (taken2[i].executed - Cardinality(book2[i].fills))
                                   - (taken[i].executed - Cardinality(book[i].fills))
<1> DEFINE q == OpenOf(book, taken)
           r == OpenOf(book2, taken2)
           n == Len(book)
<1>1. Summands(q, 1, n) /\ Summands(r, 1, n) /\ n \in Nat
  BY OpenIs, LenProperties DEF FilledOrders
<1>2. \A j \in 1..n : j # i => r[j] = q[j]
  BY DEF OpenOf
<1>3. /\ q[i] = taken[i].executed - Cardinality(book[i].fills)
      /\ r[i] = taken2[i].executed - Cardinality(book2[i].fills)
  BY DEF OpenOf
<1>4. OpenLots(book, taken) = Total(q, 1, n) /\ OpenLots(book2, taken2) = Total(r, 1, n)
  BY DEF OpenLots
<1> HIDE DEF q, r, n
<1>5. 1 \in Int /\ n \in Int /\ 1 - 1 <= n /\ i \in 1..n
  BY <1>1 DEF n
<1>6. Total(r, 1, n) = Total(q, 1, n) + r[i] - q[i]
  BY <1>1, <1>2, <1>5, TotalUpdate
<1> QED BY <1>1, <1>3, <1>4, <1>5, <1>6, TotalType DEF Summands

(* An order is inserted.                                                    *)
LEMMA OpenInserted ==
  ASSUME NEW book, NEW taken, FilledOrders(book, taken), NEW book2, NEW taken2,
         FilledOrders(book2, taken2), Len(book2) = Len(book) + 1,
         \A j \in 1..Len(book) : book2[j] = book[j] /\ taken2[j] = taken[j],
         book2[Len(book) + 1].fills = {}, taken2[Len(book) + 1].executed = 0
  PROVE  OpenLots(book2, taken2) = OpenLots(book, taken)
<1> DEFINE q == OpenOf(book, taken)
           r == OpenOf(book2, taken2)
           n == Len(book)
<1>1. Summands(q, 1, n) /\ Summands(r, 1, n + 1) /\ n \in Nat
  <2>1. n \in Nat
    BY LenProperties DEF FilledOrders
  <2>2. Summands(OpenOf(book, taken), 1, Len(book))
    BY OpenIs
  <2>3. Summands(OpenOf(book2, taken2), 1, Len(book2))
    BY OpenIs
  <2>4. Summands(r, 1, n + 1)
    <3> HIDE DEF r
    <3> QED BY <2>3 DEF r
  <2> QED BY <2>1, <2>2, <2>4
<1>2. \A j \in 1..n : q[j] = r[j]
  BY <1>1 DEF OpenOf
<1>3. r[n + 1] = 0
  <2>1. n + 1 \in 1..Len(book2) /\ Cardinality({}) = 0
    BY <1>1, FS_EmptySet
  <2>2. r[n + 1] = taken2[n + 1].executed - Cardinality(book2[n + 1].fills)
    BY <2>1 DEF OpenOf
  <2>3. taken2[n + 1].executed = 0 /\ book2[n + 1].fills = {}
    OBVIOUS
  <2> HIDE DEF r, n
  <2> QED BY <2>1, <2>2, <2>3
<1>4. OpenLots(book, taken) = Total(q, 1, n) /\ OpenLots(book2, taken2) = Total(r, 1, n + 1)
  BY DEF OpenLots
<1> HIDE DEF q, r, n
<1>5. /\ 1 \in Int /\ n \in Int /\ 1 - 1 <= n /\ n + 1 \in Int /\ 1 <= n + 1 /\ (n + 1) - 1 = n
      /\ Summands(r, 1, n)
  BY <1>1 DEF Summands
<1>6. Total(r, 1, n + 1) = Total(r, 1, (n + 1) - 1) + r[n + 1]
  BY <1>1, <1>5, TotalStep
<1>7. Total(q, 1, n) = Total(r, 1, n)
  BY <1>1, <1>2, <1>5, TotalAgrees
<1>8. Total(r, 1, n) \in Int
  BY <1>5, TotalType
<1> QED BY <1>3, <1>4, <1>5, <1>6, <1>7, <1>8

LEMMA OrdersAre ==
  ASSUME CloseTyped
  PROVE  FilledOrders(orders, market) /\ OpenLots(orders, market) \in Nat
BY OpenIs DEF CloseTyped, FilledOrders

LEMMA OrdersNext ==
  ASSUME CloseTyped'
  PROVE  FilledOrders(orders', market') /\ OpenLots(orders', market') \in Nat
<1>1. FilledOrders(orders', market')
  BY DEF CloseTyped, FilledOrders, FillsOK, CloseRows, CloseStates, Marks
<1> QED BY <1>1, OpenIs

LEMMA LotsAddUp ==
  ASSUME NEW x \in Nat, NEW y \in Nat, NEW u \in Nat, NEW v \in Nat, NEW p \in Nat, NEW q \in Nat,
         NEW s \in Nat, NEW t \in Nat, NEW b \in Nat,
         y + v + p + s <= x + u + q + t, b - p + x + u <= s
  PROVE  b - q + y + v <= t
OBVIOUS

(* A step that moves the position, the fills on the wire and the open lots  *)
(* by no more than is sold.                                                 *)
LEMMA BookedOn ==
  ASSUME BookedInv, QuantityInv', Away(Correcting)', CloseTyped',
         pos'.status = "closed" => pos'.remaining = 0 \/ pos.status = "closed",
         pos'.remaining <= pos.remaining,
         Looked(orders) => Looked(orders'),
         \/ Looked(orders')
         \/ Along(FillLots, wire') + OpenLots(orders', market') + pos.remaining + sold
              <= Along(FillLots, wire) + OpenLots(orders, market) + pos'.remaining + sold'
  PROVE  BookedInv'
<1>1. /\ Along(FillLots, wire) \in Nat /\ sold \in Nat /\ pos.remaining \in 0..Base
      /\ Along(FillLots, wire') \in Nat /\ sold' \in Nat /\ pos'.remaining \in 0..Base
      /\ OpenLots(orders, market) \in Nat /\ OpenLots(orders', market') \in Nat
  BY WiresAre, WiresNext, OrdersAre, OrdersNext DEF BookedInv
<1>2. pos'.status = "closed" => pos'.remaining = 0
  BY <1>1, ConstantsAre DEF BookedInv, CloseBooks
<1>3. \/ Looked(orders')
      \/ Base - pos'.remaining + Along(FillLots, wire') + OpenLots(orders', market') <= sold'
  <2>1. CASE Looked(orders')
    BY <2>1
  <2>2. CASE ~Looked(orders')
    <3>1. Base - pos.remaining + Along(FillLots, wire) + OpenLots(orders, market) <= sold
      BY <2>2 DEF BookedInv, CloseBooks
    <3> DEFINE x == Along(FillLots, wire)
               y == Along(FillLots, wire')
               u == OpenLots(orders, market)
               v == OpenLots(orders', market')
               p == pos.remaining
               q == pos'.remaining
    <3>2. /\ y + v + p + sold <= x + u + q + sold' /\ Base - p + x + u <= sold
          /\ x \in Nat /\ y \in Nat /\ u \in Nat /\ v \in Nat /\ p \in Nat /\ q \in Nat
          /\ sold \in Nat /\ sold' \in Nat /\ Base \in Nat
      BY <1>1, <2>2, <3>1, ConstantsAre
    <3> HIDE DEF x, y, u, v, p, q
    <3>3. Base - q + y + v <= sold'
      BY <3>2, LotsAddUp
    <3> QED BY <3>3 DEF y, v, q
  <2> QED BY <2>1, <2>2
<1>4. CloseBooks'
  <2>1. FillLots' = FillLots
    BY DEF FillLots, Events, Protective, Foreign, Trading, Stages, Sides, EventStatuses
  <2> QED BY <1>2, <1>3, <2>1 DEF CloseBooks, Looked, OpenLots, OpenOf, Along, Weights
<1> QED BY <1>4 DEF BookedInv

(* A step outside the tasks leaves their part of the invariant as it is.    *)
LEMMA BesideTasks ==
  ASSUME QuantityInv, Away(Correcting), Position(pos'), PositionOK(pos'), Grown(rows'),
         \A i \in DOMAIN rows' : RowOK(rows'[i]), pc' = pc, loc' = loc, ExchangeInv',
         oco' = [k \in Stages |-> oco'[k]],
         \A k \in Stages : Order(oco'[k]) /\ oco'[k].placed = oco[k].placed
  PROVE  QuantityInv' /\ Away(Correcting)'
<1>1. PlacedInv'
  BY OthersKeep DEF QuantityInv
<1>2. DeskInv'
  BY DEF QuantityInv, DeskInv, LocalOK, PositionOK, RowOK, RowStatus, Carries, Labels, Tasks, Stages
<1>3. Away(Correcting)'
  BY DEF Away, Correcting, Tasks
<1> QED BY <1>1, <1>2, <1>3 DEF QuantityInv

(* So does one that changes the position only, or the account.              *)
LEMMA PositionMoves ==
  ASSUME QuantityInv, Away(Correcting), Position(pos'), PositionOK(pos'),
         UNCHANGED <<rows, pc, loc, oco>>, ExchangeInv'
  PROVE  QuantityInv' /\ Away(Correcting)'
<1>1. Grown(rows') /\ \A i \in DOMAIN rows' : RowOK(rows'[i])
  BY DEF QuantityInv, PlacedInv, ShapeInv, DeskInv, Grown
<1>2. /\ oco' = [k \in Stages |-> oco'[k]]
      /\ \A k \in Stages : Order(oco'[k]) /\ oco'[k].placed = oco[k].placed
  BY DEF QuantityInv, PlacedInv, ShapeInv
<1> QED BY <1>1, <1>2, BesideTasks

LEMMA NothingMoves ==
  ASSUME QuantityInv, Away(Correcting), UNCHANGED <<pos, rows, pc, loc, oco, guard, sold, wire>>
  PROVE  QuantityInv' /\ Away(Correcting)'
<1>1. ExchangeInv'
  BY ExchangeRests DEF QuantityInv, exchangeVars
<1>2. Position(pos') /\ PositionOK(pos')
  BY DEF QuantityInv, PlacedInv, ShapeInv, DeskInv
<1> QED BY <1>1, <1>2, PositionMoves

LEMMA NothingToClose == NoClose \in Closing /\ NoClose.order = 0
<1>1. <<>> \in Seq(ListsLeft) /\ 0 \in 0..Base
  BY EmptySeq, ConstantsAre
<1>2. \A x \in Seq(ListsLeft), lots \in 0..Base :
        [order |-> 0, left |-> x, qty |-> lots, answer |-> "none"] \in Closing
  <2>1. ASSUME NEW Q PROVE \A x \in Q, lots \in 0..Base :
          [order |-> 0, left |-> x, qty |-> lots, answer |-> "none"]
            \in [order : Nat, left : Q, qty : 0..Base, answer : Answers]
    BY DEF Answers
  <2> QED BY <2>1 DEF Closing
<1>3. NoClose = [order |-> 0, left |-> <<>>, qty |-> 0, answer |-> "none"]
  BY DEF NoClose
<1>4. NoClose \in Closing
  BY <1>1, <1>2, <1>3
<1> QED BY <1>3, <1>4

(* The orders of the closers stay as they are.                              *)
LEMMA ClosersRest ==
  ASSUME CloseTyped, UNCHANGED <<orders, market>>,
         \/ UNCHANGED <<cpc, cloc>>
         \/ cpc' = [c \in Closers |-> "idle"] /\ cloc' = [c \in Closers |-> NoClose]
  PROVE  CloseTyped'
<1>1. NoClose \in Closing /\ NoClose.order = 0
  BY NothingToClose
<1>2. Len(orders) \in Nat
  BY LenProperties DEF CloseTyped
<1>3. \A c \in Closers :
        /\ cloc'[c] \in Closing /\ cloc'[c].order <= Len(orders)
        /\ cpc'[c] \in {"cancel", "canceled"} => cloc'[c].left # <<>>
  BY <1>1, <1>2 DEF CloseTyped
<1> QED BY <1>3 DEF CloseTyped, FillsOK, CloseRows, CloseStates, Marks, Closing, ListsLeft, Stages

(* The tasks, the exchange, the stream and a crash: BooksMove.              *)
LEMMA ProtectionBooks ==
  ASSUME BookedInv, \/ ProtectionStep \/ ProcessDies \/ UNCHANGED allVars
  PROVE  BookedInv'
<1>1. QuantityInv /\ Away(Correcting) /\ CloseTyped /\ PlacedInv
  BY DEF BookedInv, QuantityInv
<1>2. [Next]_vars
  BY DEF ProtectionStep, ProcessDies, Next, allVars
<1>3. QuantityInv'
  BY <1>1, <1>2, QuantityStep
<1>4. NoCorrection
  BY <1>1 DEF Away, Correcting, NoCorrection, CorrectPosition
<1>5. /\ Along(FillLots, wire') + pos.remaining + sold
           <= Along(FillLots, wire) + pos'.remaining + sold'
      /\ pos'.remaining <= pos.remaining
      /\ pos'.status = "closed" => pos'.remaining = 0 \/ pos.status = "closed"
  BY <1>1, <1>2, <1>3, <1>4, BooksMove
<1>6. Away(Correcting)'
  <2>1. Correcting \in {Comparing, Correcting} /\ Sound(DB)
    BY <1>1, SoundDB DEF PlacedInv
  <2>2. ASSUME NEW t \in Admins, EstablishRequest(t) \/ ReconcileRequest(t) PROVE Away(Correcting)'
    <3>1. t \in Tasks
      BY DEF Tasks
    <3>2. CASE EstablishRequest(t)
      BY <1>1, <2>1, <3>1, <3>2, CalmCalls DEF EstablishRequest
    <3>3. CASE ReconcileRequest(t)
      <4>1. \A o \in Reconciling(DB) : Calm(o, Correcting)
        <5>1. \A o \in Reconciling(DB) : o.pc = "list"
          BY DEF Reconciling
        <5>2. \A o \in Reconciling(DB) : Local(o.loc)
          BY <1>1, <2>1, ReconcilingKeeps DEF Outcome
        <5> QED BY <5>1, <5>2 DEF Calm, Correcting
      <4> QED BY <1>1, <2>1, <3>1, <3>3, <4>1, CalmBecomes DEF ReconcileRequest
    <3> QED BY <2>2, <3>2, <3>3
  <2>3. ASSUME NEW t \in Tasks, TaskStep(t) PROVE Away(Correcting)'
    BY <1>1, <2>1, <2>3, CalmTask
  <2>4. ASSUME StreamEstablishes \/ StreamIgnores \/ StreamFills \/ StreamFlags \/ StreamListDone
        PROVE  Away(Correcting)'
    BY <1>1, <2>1, <2>4, CalmStream
  <2>5. ASSUME \/ \E k \in Stages : TargetFills(k) \/ StopFills(k) \/ GuardFills(k)
               \/ Disconnect \/ Reconnect \/ CrashRestart \/ UNCHANGED vars
        PROVE  Away(Correcting)'
    BY <1>1, <2>1, <2>5, AwayElsewhere
  <2> QED BY <2>2, <2>3, <2>4, <2>5 DEF ProtectionStep, ProcessDies, allVars
<1>7. /\ UNCHANGED <<orders, market>>
      /\ \/ UNCHANGED <<cpc, cloc>>
         \/ cpc' = [c \in Closers |-> "idle"] /\ cloc' = [c \in Closers |-> NoClose]
  BY DEF ProtectionStep, ProcessDies, allVars, closeVars
<1>8. CloseTyped'
  BY <1>1, <1>7, ClosersRest
<1>9. OpenLots(orders', market') = OpenLots(orders, market) /\ Looked(orders') = Looked(orders)
  BY <1>7
<1>10. /\ Along(FillLots, wire) \in Nat /\ sold \in Nat /\ pos.remaining \in Nat
       /\ Along(FillLots, wire') \in Nat /\ sold' \in Nat /\ pos'.remaining \in Nat
       /\ OpenLots(orders, market) \in Nat
  BY <1>1, <1>3, WiresAre, WiresNext, OrdersAre, ConstantsAre
<1>11. Along(FillLots, wire') + OpenLots(orders', market') + pos.remaining + sold
         <= Along(FillLots, wire) + OpenLots(orders, market) + pos'.remaining + sold'
  BY <1>5, <1>9, <1>10
<1> QED BY <1>3, <1>5, <1>6, <1>8, <1>9, <1>11, BookedOn

(* A step about which the books are silent: the position keeps its lots and *)
(* its status, no fill is booked, nothing is sold.                          *)
LEMMA SilentStep ==
  ASSUME BookedInv, QuantityInv', Away(Correcting)', CloseTyped',
         pos'.remaining = pos.remaining,
         pos'.status = pos.status \/ pos'.remaining = 0 \/ pos'.status # "closed",
         Looked(orders) => Looked(orders'), sold' = sold,
         Along(FillLots, wire') <= Along(FillLots, wire),
         OpenLots(orders', market') = OpenLots(orders, market)
  PROVE  BookedInv'
<1>1. /\ Along(FillLots, wire) \in Nat /\ sold \in Nat /\ pos.remaining \in Nat
      /\ Along(FillLots, wire') \in Nat /\ sold' \in Nat /\ pos'.remaining \in Nat
      /\ OpenLots(orders, market) \in Nat
  BY WiresAre, WiresNext, OrdersAre, ConstantsAre DEF BookedInv
<1>2. Along(FillLots, wire') + OpenLots(orders', market') + pos.remaining + sold
        <= Along(FillLots, wire) + OpenLots(orders, market) + pos'.remaining + sold'
  BY <1>1
<1>3. pos'.remaining <= pos.remaining
  BY <1>1
<1>4. pos'.status = "closed" => pos'.remaining = 0 \/ pos.status = "closed"
  OBVIOUS
<1> QED BY <1>2, <1>3, <1>4, BookedOn

(* The row of one order is written.                                         *)
LEMMA RowChanges ==
  ASSUME CloseTyped, NEW i \in 1..Len(orders), NEW row \in CloseRows,
         orders' = [orders EXCEPT ![i] = row], market' = market,
         row.fills \subseteq 1..market[i].executed, orders[i].looked => row.looked
  PROVE  /\ FilledOrders(orders', market') /\ Len(orders') = Len(orders)
         /\ (Looked(orders) => Looked(orders')) /\ (row.looked => Looked(orders'))
         /\ OpenLots(orders', market') = OpenLots(orders, market)
              + Cardinality(orders[i].fills) - Cardinality(row.fills)
         /\ Cardinality(row.fills) \in Nat /\ IsFiniteSet(row.fills)
<1>1. /\ Len(orders) \in Nat /\ orders \in Seq(CloseRows) /\ market \in Seq(Marks)
      /\ Len(market) = Len(orders)
  BY LenProperties DEF CloseTyped
<1>2. /\ orders' \in Seq(CloseRows) /\ Len(orders') = Len(orders) /\ orders'[i] = row
      /\ \A j \in 1..Len(orders) : j # i => orders'[j] = orders[j]
  BY <1>1, ExceptSeq
<1>3. \A j \in 1..Len(orders') : FillsOK(orders'[j], market'[j])
  <2>1. FillsOK(row, market[i])
    BY DEF CloseTyped, FillsOK
  <2> QED BY <1>2, <2>1 DEF CloseTyped
<1>4. FilledOrders(orders, market) /\ FilledOrders(orders', market')
  BY <1>1, <1>2, <1>3, OrdersAre DEF FilledOrders
<1>5. \A j \in 1..Len(orders) : j # i => orders'[j] = orders[j] /\ market'[j] = market[j]
  BY <1>2
<1>6. OpenLots(orders', market')
        = OpenLots(orders, market) + (market'[i].executed - Cardinality(orders'[i].fills))
                                   - (market[i].executed - Cardinality(orders[i].fills))
  <2> DEFINE book == orders'
             taken == market'
  <2>1. /\ FilledOrders(book, taken) /\ Len(book) = Len(orders)
        /\ \A j \in 1..Len(orders) : j # i => book[j] = orders[j] /\ taken[j] = market[j]
    BY <1>2, <1>4, <1>5
  <2> HIDE DEF book, taken
  <2>2. OpenLots(book, taken)
          = OpenLots(orders, market) + (taken[i].executed - Cardinality(book[i].fills))
                                     - (market[i].executed - Cardinality(orders[i].fills))
    BY <1>4, <2>1, OpenChanges
  <2> QED BY <2>2 DEF book, taken
<1>7. /\ Cardinality(orders[i].fills) \in Nat /\ Cardinality(row.fills) \in Nat
      /\ IsFiniteSet(row.fills) /\ market[i].executed \in Nat /\ OpenLots(orders, market) \in Nat
  <2>1. market[i] \in Marks
    BY <1>1, ElementOfSeq
  <2>2. market[i].executed \in Nat
    BY <2>1, ConstantsAre DEF Marks
  <2>3. Cardinality(orders[i].fills) \in Nat /\ OpenLots(orders, market) \in Nat
    BY <1>4, OpenIs
  <2>4. IsFiniteSet(orders'[i].fills) /\ Cardinality(orders'[i].fills) \in Nat
    <3> DEFINE book == orders'
               taken == market'
    <3>1. FilledOrders(book, taken) /\ i \in 1..Len(book)
      BY <1>2, <1>4
    <3> HIDE DEF book, taken
    <3>2. IsFiniteSet(book[i].fills) /\ Cardinality(book[i].fills) \in Nat
      BY <3>1, OpenIs
    <3> QED BY <3>2 DEF book
  <2> QED BY <1>2, <2>2, <2>3, <2>4
<1>8. OpenLots(orders', market') = OpenLots(orders, market)
              + Cardinality(orders[i].fills) - Cardinality(row.fills)
  BY <1>2, <1>6, <1>7
<1>9. (Looked(orders) => Looked(orders')) /\ (row.looked => Looked(orders'))
  BY <1>2 DEF Looked
<1> QED BY <1>2, <1>4, <1>7, <1>8, <1>9

(* A closer goes on.                                                        *)
LEMMA CloserTyped ==
  ASSUME CloseInv, CloseTyped, NEW c \in Closers, NEW label, NEW locals,
         CloseGoesOn(c, label, locals), locals \in Closing, locals.order <= Len(orders'),
         label \in {"cancel", "canceled"} => locals.left # <<>>,
         FilledOrders(orders', market'), Len(orders) <= Len(orders')
  PROVE  CloseTyped'
<1>1. /\ cpc'[c] = label /\ cloc'[c] = locals
      /\ \A d \in Closers : d # c => cpc'[d] = cpc[d] /\ cloc'[d] = cloc[d]
  BY DEF CloseInv, CloseShape, CloseGoesOn
<1>2. Len(orders) \in Nat /\ Len(orders') \in Nat
  BY LenProperties DEF CloseTyped, FilledOrders
<1>3. \A d \in Closers :
        /\ cloc'[d] \in Closing /\ cloc'[d].order <= Len(orders')
        /\ cpc'[d] \in {"cancel", "canceled"} => cloc'[d].left # <<>>
  <2>1. \A d \in Closers : cloc[d] \in Closing /\ cloc[d].order <= Len(orders)
    BY DEF CloseTyped
  <2>2. \A d \in Closers : cloc[d].order \in Int
    BY <2>1 DEF Closing
  <2>3. \A d \in Closers : cloc[d].order <= Len(orders')
    BY <1>2, <2>1, <2>2
  <2> QED BY <1>1, <2>1, <2>3 DEF CloseTyped
<1> QED BY <1>3 DEF CloseTyped, FilledOrders, FillsOK, CloseRows, CloseStates, Marks, Closing, Answers,
                    ListsLeft, Stages

(* What a closer at work has at hand.                                       *)
LEMMA AtHand ==
  ASSUME CloseInv, CloseTyped, NEW c \in Closers
  PROVE  /\ NoClose \in Closing /\ NoClose.order <= Len(orders) /\ Len(orders) \in Nat
         /\ cloc[c] \in Closing /\ cloc[c].order \in Nat /\ cloc[c].order <= Len(orders)
         /\ Works(c) => /\ cloc[c].order \in 1..Len(orders)
                        /\ orders[cloc[c].order] \in CloseRows /\ market[cloc[c].order] \in Marks
<1>1. Len(orders) \in Nat /\ cloc[c] \in Closing /\ cloc[c].order <= Len(orders)
  BY LenProperties DEF CloseTyped
<1>2. cloc[c].order \in Nat
  BY <1>1 DEF Closing
<1>3. NoClose \in Closing /\ NoClose.order = 0
  BY NothingToClose
<1>4. Works(c) => cloc[c].order \in 1..Len(orders)
  <2>1. DOMAIN orders = 1..Len(orders)
    BY LenProperties DEF CloseTyped
  <2> QED BY <2>1 DEF CloseInv, OwnOrders
<1>5. Works(c) => orders[cloc[c].order] \in CloseRows /\ market[cloc[c].order] \in Marks
  BY <1>4, ElementOfSeq DEF CloseTyped
<1> QED BY <1>1, <1>2, <1>3, <1>4, <1>5

(* Nothing is sold, booked or corrected.                                    *)
Undisturbed ==
  /\ QuantityInv' /\ Away(Correcting)' /\ sold' = sold
  /\ pos'.remaining = pos.remaining /\ pos'.status = pos.status
  /\ Along(FillLots, wire') <= Along(FillLots, wire)

LEMMA StillUndisturbed ==
  ASSUME BookedInv, UNCHANGED <<pos, rows, pc, loc, oco, guard, sold, wire>>
  PROVE  Undisturbed
<1>1. QuantityInv' /\ Away(Correcting)'
  BY NothingMoves DEF BookedInv
<1>2. Along(FillLots, wire) \in Nat
  BY WiresAre DEF BookedInv
<1> QED BY <1>1, <1>2 DEF Undisturbed

LEMMA MovesQuietly ==
  ASSUME CloseInv, BookedInv, Undisturbed, NEW c \in Closers, NEW label, NEW locals,
         CloseGoesOn(c, label, locals), locals \in Closing, locals.order <= Len(orders),
         label \in {"cancel", "canceled"} => locals.left # <<>>, UNCHANGED <<orders, market>>
  PROVE  BookedInv'
<1>1. CloseTyped /\ FilledOrders(orders, market) /\ Len(orders) \in Nat
  BY OrdersAre, LenProperties DEF BookedInv, CloseTyped
<1>2. FilledOrders(orders', market') /\ Len(orders) <= Len(orders') /\ locals.order <= Len(orders')
  BY <1>1
<1>3. CloseTyped'
  BY <1>1, <1>2, CloserTyped
<1>4. OpenLots(orders', market') = OpenLots(orders, market) /\ (Looked(orders) => Looked(orders'))
  OBVIOUS
<1> QED BY <1>3, <1>4, SilentStep DEF Undisturbed

(* The handler books nothing.                                               *)
LEMMA RejectsBooked ==
  ASSUME CloseInv, BookedInv, Undisturbed, NEW c \in Closers, Works(c), Rejects(c), market' = market
  PROVE  BookedInv'
<1> DEFINE i == cloc[c].order
           row == [orders[i] EXCEPT !.state = "rejected"]
<1>1. /\ CloseTyped /\ NoClose \in Closing /\ NoClose.order <= Len(orders) /\ Len(orders) \in Nat
      /\ i \in 1..Len(orders) /\ orders[i] \in CloseRows
  BY AtHand DEF BookedInv
<1>2. row \in CloseRows /\ row.fills = orders[i].fills /\ row.looked = orders[i].looked
  BY <1>1 DEF CloseRows, CloseStates
<1>3. orders' = [orders EXCEPT ![i] = row] /\ CloseGoesOn(c, "idle", NoClose)
  BY DEF Rejects, CloseEnds, SetState
<1>4. row.fills \subseteq 1..market[i].executed
  BY <1>1, <1>2 DEF CloseTyped, FillsOK
<1> HIDE DEF row, i
<1>5. /\ FilledOrders(orders', market') /\ Len(orders') = Len(orders)
      /\ (Looked(orders) => Looked(orders'))
      /\ OpenLots(orders', market') = OpenLots(orders, market)
           + Cardinality(orders[i].fills) - Cardinality(row.fills)
      /\ Cardinality(row.fills) \in Nat
  BY <1>1, <1>2, <1>3, <1>4, RowChanges
<1>6. CloseTyped'
  <2>1. /\ NoClose.order <= Len(orders') /\ Len(orders) <= Len(orders')
        /\ "idle" \in {"cancel", "canceled"} => NoClose.left # <<>>
    BY <1>1, <1>5
  <2> QED BY <1>1, <1>3, <1>5, <2>1, CloserTyped
<1>7. OpenLots(orders', market') = OpenLots(orders, market)
  BY <1>1, <1>2, <1>5, OrdersAre
<1> QED BY <1>5, <1>6, <1>7, SilentStep DEF Undisturbed

LEMMA NextBooked ==
  ASSUME CloseInv, BookedInv, Undisturbed, NEW c \in Closers, Works(c), NEW left \in Seq(ListsLeft),
         CancelsNext(c, left, cloc[c].order, orders), market' = market
  PROVE  BookedInv'
<1> DEFINE i == cloc[c].order
           toMarket == [NoClose EXCEPT !.order = i]
           toList == [NoClose EXCEPT !.order = i, !.left = left]
<1>1. NoClose \in Closing /\ i \in Nat /\ i <= Len(orders)
  BY AtHand DEF BookedInv
<1>2. /\ toMarket \in Closing /\ toMarket.order = i
      /\ toList \in Closing /\ toList.order = i /\ toList.left = left
  <2>1. ASSUME NEW Q, NEW x \in Q, NEW r \in [order : Nat, left : Q, qty : 0..Base, answer : Answers]
        PROVE  /\ [r EXCEPT !.order = i] \in [order : Nat, left : Q, qty : 0..Base, answer : Answers]
               /\ [r EXCEPT !.order = i, !.left = x]
                    \in [order : Nat, left : Q, qty : 0..Base, answer : Answers]
               /\ [r EXCEPT !.order = i].order = i
               /\ [r EXCEPT !.order = i, !.left = x].order = i
               /\ [r EXCEPT !.order = i, !.left = x].left = x
    BY <1>1
  <2> QED BY <1>1, <2>1 DEF Closing
<1>3. \/ CloseGoesOn(c, "account", toMarket) /\ orders' = orders
      \/ CloseGoesOn(c, "cancel", toList) /\ orders' = orders /\ left # <<>>
      \/ CloseEnds(c) /\ orders' = [orders EXCEPT ![i].state = "rejected"]
  BY DEF CancelsNext
<1> HIDE DEF toMarket, toList
<1>4. CASE CloseGoesOn(c, "account", toMarket) /\ orders' = orders
  BY <1>1, <1>2, <1>4, MovesQuietly
<1>5. CASE CloseGoesOn(c, "cancel", toList) /\ orders' = orders /\ left # <<>>
  BY <1>1, <1>2, <1>5, MovesQuietly
<1>6. CASE CloseEnds(c) /\ orders' = [orders EXCEPT ![i].state = "rejected"]
  BY <1>6, RejectsBooked DEF Rejects, SetState
<1> QED BY <1>3, <1>4, <1>5, <1>6

(* Writing one local of a closer.                                           *)
LEMMA ClosingWritten ==
  ASSUME NEW l \in Closing
  PROVE  /\ \A answer \in Answers : /\ [l EXCEPT !.answer = answer] \in Closing
                                    /\ [l EXCEPT !.answer = answer].order = l.order
                                    /\ [l EXCEPT !.answer = answer].left = l.left
         /\ \A qty \in 0..Base : /\ [l EXCEPT !.qty = qty] \in Closing
                                 /\ [l EXCEPT !.qty = qty].order = l.order
         /\ l.left \in Seq(ListsLeft) /\ l.qty \in 0..Base
<1>1. ASSUME NEW Q, NEW r \in [order : Nat, left : Q, qty : 0..Base, answer : Answers]
      PROVE  /\ \A answer \in Answers :
                  /\ [r EXCEPT !.answer = answer] \in [order : Nat, left : Q, qty : 0..Base, answer : Answers]
                  /\ [r EXCEPT !.answer = answer].order = r.order
                  /\ [r EXCEPT !.answer = answer].left = r.left
             /\ \A qty \in 0..Base :
                  /\ [r EXCEPT !.qty = qty] \in [order : Nat, left : Q, qty : 0..Base, answer : Answers]
                  /\ [r EXCEPT !.qty = qty].order = r.order
             /\ r.left \in Q /\ r.qty \in 0..Base
  OBVIOUS
<1> QED BY <1>1 DEF Closing

(* An order list is canceled: what was locked is free.                      *)
LEMMA CancelsUndisturbed ==
  ASSUME BookedInv, NEW c \in Closers, cpc[c] = "cancel", CloseCancels(c)
  PROVE  Undisturbed
<1> DEFINE left == cloc[c].left
           k == Head(left).stage
<1>1. QuantityInv /\ PlacedInv /\ ExchangeInv /\ Away(Correcting)
  BY DEF BookedInv, QuantityInv
<1>2. k \in Stages
  <2>1. left \in Seq(ListsLeft) /\ left # <<>>
    BY ClosingWritten DEF BookedInv, CloseTyped
  <2>2. Head(left) \in ListsLeft
    BY <2>1, HeadTailProperties
  <2> QED BY <2>2 DEF ListsLeft
<1>3. /\ pos' = pos /\ rows' = rows /\ pc' = pc /\ loc' = loc /\ guard' = guard /\ sold' = sold
      /\ \/ oco' = oco /\ wire' = wire
         \/ /\ oco[k].state = "live" /\ oco' = [oco EXCEPT ![k].state = "done"]
            /\ Send(<<Report("tp", k, "CANCELED", 0), Report("stop", k, "CANCELED", 0),
                      Report("list", k, "ALL_DONE", 0)>>)
  BY DEF CloseCancels, taskVars
<1> HIDE DEF k, left
<1>4. ExchangeInv' /\ SalesCovered
  BY <1>1, <1>2, <1>3, ListCanceled
<1>5. /\ oco' = [j \in Stages |-> oco'[j]]
      /\ \A j \in Stages : Order(oco'[j]) /\ oco'[j].placed = oco[j].placed
  <2>1. oco = [j \in Stages |-> oco[j]] /\ \A j \in Stages : Order(oco[j])
    BY <1>1 DEF PlacedInv, ShapeInv
  <2>2. CASE oco' = oco
    BY <2>1, <2>2
  <2>3. CASE oco' = [oco EXCEPT ![k].state = "done"]
    <3> DEFINE o == [oco[k] EXCEPT !.state = "done"]
    <3>1. Order(o) /\ o.placed = oco[k].placed
      BY <1>2, <2>1 DEF Order, OrderFields
    <3>2. oco' = [j \in Stages |-> IF j = k THEN o ELSE oco[j]]
      BY <2>1, <2>3
    <3> HIDE DEF o
    <3>3. ASSUME NEW j \in Stages PROVE Order(oco'[j]) /\ oco'[j].placed = oco[j].placed
      BY <2>1, <3>1, <3>2
    <3>4. oco' = [j \in Stages |-> oco'[j]]
      BY <3>2
    <3> QED BY <3>3, <3>4
  <2> QED BY <1>3, <2>2, <2>3
<1>6. Position(pos') /\ PositionOK(pos') /\ Grown(rows') /\ \A i \in DOMAIN rows' : RowOK(rows'[i])
  BY <1>1, <1>3 DEF QuantityInv, PlacedInv, ShapeInv, DeskInv, Grown
<1>7. QuantityInv' /\ Away(Correcting)'
  BY <1>1, <1>3, <1>4, <1>5, <1>6, BesideTasks
<1>8. Along(FillLots, wire') <= Along(FillLots, wire)
  BY <1>1, <1>3, <1>4, <1>7, WiresAre, WiresNext DEF SalesCovered
<1> QED BY <1>3, <1>7, <1>8 DEF Undisturbed

(* The database is told that the list is gone.                              *)
LEMMA UnprotectsUndisturbed ==
  ASSUME BookedInv, NEW c \in Closers, CloseUnprotects(c)
  PROVE  Undisturbed
<1> DEFINE flagged == SetProt(DB, "unprotected")
           db == SetRow(flagged, Head(cloc[c].left).id, "closed")
<1>1. QuantityInv /\ PlacedInv /\ ExchangeInv /\ Away(Correcting) /\ DeskInv
  BY DEF BookedInv, QuantityInv
<1>2. Sound(DB) /\ TypedDB(DB)
  BY <1>1, SoundDB DEF PlacedInv, TypedDB, DeskInv, DB
<1>3. Kept(flagged, DB)
  BY <1>2, WritesTyped DEF Protections
<1> HIDE DEF flagged
<1>4. Kept(db, flagged)
  BY <1>3, WritesTyped DEF Kept, RowStatus
<1>5. /\ (pos' = db.pos /\ rows' = db.rows) \/ (pos' = pos /\ rows' = rows)
      /\ pc' = pc /\ loc' = loc /\ oco' = oco /\ guard' = guard /\ sold' = sold /\ wire' = wire
  BY DEF CloseUnprotects, taskVars, exchangeVars, streamVars, flagged
<1> HIDE DEF db
<1>6. PICK d : /\ d = db \/ d = DB
               /\ pos' = d.pos /\ rows' = d.rows
  <2>1. DB.pos = pos /\ DB.rows = rows
    BY DEF DB
  <2> QED BY <1>5, <2>1
<1>7. /\ Sound(d) /\ TypedDB(d)
      /\ d.pos.remaining = pos.remaining /\ d.pos.status = pos.status
  BY <1>2, <1>3, <1>4, <1>6 DEF Kept, SameBooks, DB
<1>8. /\ Position(pos') /\ PositionOK(pos') /\ Grown(rows')
      /\ \A i \in DOMAIN rows' : RowOK(rows'[i])
  BY <1>6, <1>7 DEF Sound, TypedDB
<1>9. ExchangeInv'
  BY <1>1, <1>5, ExchangeRests DEF exchangeVars
<1>10. /\ oco' = [k \in Stages |-> oco'[k]]
       /\ \A k \in Stages : Order(oco'[k]) /\ oco'[k].placed = oco[k].placed
  BY <1>1, <1>5 DEF PlacedInv, ShapeInv
<1>11. QuantityInv' /\ Away(Correcting)'
  BY <1>1, <1>5, <1>8, <1>9, <1>10, BesideTasks
<1>12. Along(FillLots, wire) \in Nat
  BY <1>1, WiresAre
<1> QED BY <1>5, <1>6, <1>7, <1>11, <1>12 DEF Undisturbed

(* Up to the send nothing is booked.                                        *)
LEMMA PreparationBooked ==
  ASSUME CloseInv, BookedInv, NEW c \in Closers,
         \/ CloseCancels(c) \/ CloseUnprotects(c) \/ CloseReadsBalance(c) \/ CloseSizes(c)
         \/ CloseFails(c) \/ CloseLookup(c)
  PROVE  BookedInv'
<1>1. /\ cloc[c] \in Closing /\ cloc[c].order <= Len(orders)
      /\ cloc[c].left \in Seq(ListsLeft) /\ cloc[c].qty \in 0..Base
      /\ \A answer \in Answers : /\ [cloc[c] EXCEPT !.answer = answer] \in Closing
                                 /\ [cloc[c] EXCEPT !.answer = answer].order = cloc[c].order
                                 /\ [cloc[c] EXCEPT !.answer = answer].left = cloc[c].left
      /\ \A qty \in 0..Base : /\ [cloc[c] EXCEPT !.qty = qty] \in Closing
                              /\ [cloc[c] EXCEPT !.qty = qty].order = cloc[c].order
  BY AtHand, ClosingWritten DEF BookedInv
<1>2. /\ "ok" \in Answers /\ "error" \in Answers /\ "full" \in Answers
  BY DEF Answers
<1>3. CASE CloseCancels(c)
  <2>1. Undisturbed /\ cloc[c].left # <<>> /\ UNCHANGED <<orders, market>>
    BY <1>3, CancelsUndisturbed DEF CloseCancels, BookedInv, CloseTyped
  <2>2. PICK answer \in Answers : CloseGoesOn(c, "canceled", [cloc[c] EXCEPT !.answer = answer])
    BY <1>2, <1>3 DEF CloseCancels
  <2> DEFINE locals == [cloc[c] EXCEPT !.answer = answer]
  <2>3. locals \in Closing /\ locals.order <= Len(orders) /\ locals.left # <<>>
    BY <1>1, <2>1
  <2>4. CloseGoesOn(c, "canceled", locals)
    BY <2>2
  <2> HIDE DEF locals
  <2> QED BY <2>1, <2>3, <2>4, MovesQuietly
<1>4. CASE CloseUnprotects(c)
  <2>1. Undisturbed /\ Works(c) /\ market' = market
    BY <1>4, UnprotectsUndisturbed DEF CloseUnprotects, Works
  <2>2. \/ cpc[c] = "canceled" /\ CancelsNext(c, Tail(cloc[c].left), cloc[c].order, orders)
        \/ Rejects(c)
    BY <1>4 DEF CloseUnprotects
  <2>3. cpc[c] = "canceled" => Tail(cloc[c].left) \in Seq(ListsLeft)
    <3>1. cpc[c] = "canceled" => cloc[c].left # <<>>
      BY DEF BookedInv, CloseTyped
    <3> QED BY <1>1, <3>1, HeadTailProperties
  <2> QED BY <2>1, <2>2, <2>3, NextBooked, RejectsBooked
<1>5. CASE CloseReadsBalance(c)
  <2> DEFINE locals == [cloc[c] EXCEPT !.qty = Free]
  <2>1. Free \in 0..Base
    BY FreeIs DEF BookedInv, QuantityInv
  <2>2. locals \in Closing /\ locals.order <= Len(orders)
    BY <1>1, <2>1
  <2>3. CloseGoesOn(c, "accounted", locals) /\ UNCHANGED <<orders, market>>
    BY <1>5 DEF CloseReadsBalance
  <2>4. Undisturbed
    BY <1>5, StillUndisturbed DEF CloseReadsBalance, protectionVars, taskVars, exchangeVars, streamVars
  <2> HIDE DEF locals
  <2> QED BY <2>2, <2>3, <2>4, MovesQuietly
<1>6. CASE CloseSizes(c)
  <2>1. SizeOfClose(c) \in 0..Base
    <3>1. \A m, n \in 0..Base : Min({m, n}) \in {m, n}
      <4> SUFFICES ASSUME NEW m \in 0..Base, NEW n \in 0..Base PROVE Min({m, n}) \in {m, n}
        OBVIOUS
      <4>1. \E x \in {m, n} : \A y \in {m, n} : x <= y
        BY ConstantsAre
      <4> QED BY <4>1 DEF Min
    <3>2. pos.remaining \in 0..Base
      BY WiresAre DEF BookedInv
    <3> QED BY <1>1, <3>1, <3>2 DEF SizeOfClose
  <2>2. /\ \/ Rejects(c)
           \/ \E qty \in 1..SizeOfClose(c) :
                CloseGoesOn(c, "send", [cloc[c] EXCEPT !.qty = qty]) /\ orders' = orders
        /\ market' = market /\ Works(c)
    BY <1>6 DEF CloseSizes, Works
  <2>3. Undisturbed
    BY <1>6, StillUndisturbed DEF CloseSizes, protectionVars, taskVars, exchangeVars, streamVars
  <2>4. ASSUME NEW qty \in 1..SizeOfClose(c),
               CloseGoesOn(c, "send", [cloc[c] EXCEPT !.qty = qty]), orders' = orders
        PROVE  BookedInv'
    <3> DEFINE locals == [cloc[c] EXCEPT !.qty = qty]
    <3>1. qty \in 0..Base
      BY <2>1, ConstantsAre
    <3>2. locals \in Closing /\ locals.order <= Len(orders)
      BY <1>1, <3>1
    <3>3. CloseGoesOn(c, "send", locals)
      BY <2>4
    <3> HIDE DEF locals
    <3> QED BY <2>2, <2>3, <2>4, <3>2, <3>3, MovesQuietly
  <2> QED BY <2>2, <2>3, <2>4, RejectsBooked
<1>7. CASE CloseFails(c)
  <2>1. Undisturbed /\ Rejects(c) /\ Works(c) /\ market' = market
    BY <1>7, StillUndisturbed
       DEF CloseFails, Works, protectionVars, taskVars, exchangeVars, streamVars
  <2> QED BY <2>1, RejectsBooked
<1>8. CASE CloseLookup(c)
  <2>1. Undisturbed /\ UNCHANGED <<orders, market>>
    BY <1>8, StillUndisturbed
       DEF CloseLookup, protectionVars, taskVars, exchangeVars, streamVars
  <2>2. PICK answer \in Answers : CloseGoesOn(c, "found", [cloc[c] EXCEPT !.answer = answer])
    BY <1>2, <1>8 DEF CloseLookup
  <2> DEFINE locals == [cloc[c] EXCEPT !.answer = answer]
  <2>3. locals \in Closing /\ locals.order <= Len(orders) /\ CloseGoesOn(c, "found", locals)
    BY <1>1, <2>2
  <2> HIDE DEF locals
  <2> QED BY <2>1, <2>3, MovesQuietly
<1> QED BY <1>3, <1>4, <1>5, <1>6, <1>7, <1>8

(* The exchange reports a close order, which weighs nothing among the       *)
(* protective fills.                                                        *)
LEMMA SentSilently ==
  ASSUME wire \in Seq(Events), NEW i \in Nat, NEW qty, NEW executed \in 0..qty,
         Send(<<CloseEvent(i, "NEW", 0)>> \o Trades(i, executed, qty)
                \o IF executed < qty THEN <<CloseEvent(i, "EXPIRED", 0)>> ELSE <<>>)
  PROVE  wire' \in Seq(Events) /\ Along(FillLots, wire') <= Along(FillLots, wire)
<1> DEFINE v == <<CloseEvent(i, "NEW", 0)>> \o Trades(i, executed, qty)
                  \o IF executed < qty THEN <<CloseEvent(i, "EXPIRED", 0)>> ELSE <<>>
<1>1. v \in Seq(ReportsOf(i, executed))
  BY OrderReports
<1>2. wire' = wire \/ wire' = wire \o v
  BY DEF Send
<1> HIDE DEF v
<1>3. \A e \in ReportsOf(i, executed) : e \in Events /\ FillLots[e] = 0
  <2>1. ASSUME NEW status \in DOMAIN StateOf, NEW j \in 0..executed
        PROVE  CloseEvent(i, status, j) \in Events /\ FillLots[CloseEvent(i, status, j)] = 0
    <3>1. status \in Trading /\ j \in Nat
      BY DEF StateOf, Trading
    <3>2. CloseEvent(i, status, j) \in Foreign /\ CloseEvent(i, status, j).kind = "close"
      BY <3>1 DEF CloseEvent, Foreign
    <3> QED BY <3>2 DEF FillLots, Events
  <2> QED BY <2>1 DEF ReportsOf
<1>4. v \in Seq(Events) /\ \A j \in 1..Len(v) : FillLots[v[j]] = 0
  <2>1. ReportsOf(i, executed) \subseteq Events
    BY <1>3
  <2>2. \A j \in 1..Len(v) : v[j] \in ReportsOf(i, executed)
    BY <1>1, ElementOfSeq
  <2> QED BY <1>1, <1>3, <2>1, <2>2, SeqMonotonic
<1>5. wire \o v \in Seq(Events) /\ Along(FillLots, wire \o v) = Along(FillLots, wire)
  BY <1>4, WeightsAre, AlongSilent
<1>6. Along(FillLots, wire) \in Nat
  BY WeightsAre, AlongType
<1>7. CASE wire' = wire
  BY <1>6, <1>7
<1>8. CASE wire' = wire \o v
  BY <1>5, <1>6, <1>8
<1> QED BY <1>2, <1>7, <1>8

(* The send: what is executed is sold and open.                             *)
LEMMA SendBooked ==
  ASSUME CloseInv, BookedInv, NEW c \in Closers, CloseOrder(c)
  PROVE  BookedInv'
<1> DEFINE i == cloc[c].order
           qty == cloc[c].qty
<1>1. /\ Works(c) /\ Preparing(c) /\ CloseTyped /\ QuantityInv /\ Away(Correcting)
      /\ ExchangeInv /\ pos' = pos /\ rows' = rows /\ pc' = pc /\ loc' = loc
      /\ oco' = oco /\ guard' = guard /\ orders' = orders
  BY DEF CloseOrder, Works, Preparing, taskVars, BookedInv, QuantityInv
<1>2. /\ cloc[c] \in Closing /\ i \in Nat /\ i <= Len(orders) /\ Len(orders) \in Nat
      /\ i \in 1..Len(orders) /\ orders[i] \in CloseRows /\ market[i] \in Marks
      /\ qty \in 0..Base
  BY <1>1, AtHand, ClosingWritten
<1>3. PICK answer \in Answers : CloseGoesOn(c, "placed", [cloc[c] EXCEPT !.answer = answer])
  BY DEF CloseOrder, Answers
<1> DEFINE locals == [cloc[c] EXCEPT !.answer = answer]
<1>4. CloseGoesOn(c, "placed", locals) /\ locals \in Closing /\ locals.order <= Len(orders)
  BY <1>2, <1>3, ClosingWritten
<1> HIDE DEF locals
<1>5. CASE UNCHANGED <<market, sold, wire>>
  <2>1. Undisturbed
    BY <1>1, <1>5, StillUndisturbed
  <2> QED BY <1>1, <1>4, <1>5, <2>1, MovesQuietly
<1>6. ASSUME NEW executed \in 0..qty, qty <= Free, sold' = sold + executed,
             market' = [market EXCEPT ![i] = [taken |-> TRUE, executed |-> executed]],
             Send(<<CloseEvent(i, "NEW", 0)>> \o Trades(i, executed, qty)
                  \o IF executed < qty THEN <<CloseEvent(i, "EXPIRED", 0)>> ELSE <<>>)
      PROVE  BookedInv'
  <2> DEFINE mark == [taken |-> TRUE, executed |-> executed]
  <2>1. executed \in 0..Base /\ mark \in Marks /\ mark.executed = executed /\ mark.taken
    BY <1>2, <1>6, ConstantsAre DEF Marks
  <2>2. wire' \in Seq(Events) /\ Along(FillLots, wire') <= Along(FillLots, wire)
    BY <1>1, <1>2, <1>6, SentSilently DEF ExchangeInv
  <2>3. ExchangeInv'
    <3>1. Locked' = Locked
      BY <1>1 DEF Locked, LotsAtStage, LotsIn, Stages
    <3>2. sold' \in Nat /\ sold' + Locked' <= Base
      <4>1. Free = Base - sold - Locked /\ Locked \in Nat /\ sold \in Nat /\ Free \in Nat
        BY <1>1, FreeIs, ConstantsAre DEF Free
      <4>2. executed <= qty /\ qty \in Nat /\ executed \in Nat /\ qty <= Free /\ sold' = sold + executed
        BY <1>2, <1>6
      <4> HIDE DEF qty
      <4> QED BY <3>1, <4>1, <4>2, ConstantsAre
    <3> QED BY <1>1, <2>2, <3>2
            DEF ExchangeInv, OrderOK, GuardOK, GuardFields, Stages, Events, Protective, Foreign, Trading, Sides, EventStatuses
  <2>4. QuantityInv' /\ Away(Correcting)'
    <3>1. Position(pos') /\ PositionOK(pos')
      BY <1>1 DEF QuantityInv, PlacedInv, ShapeInv, DeskInv
    <3> QED BY <1>1, <2>3, <3>1, PositionMoves
  <2>5. market[i].executed = 0 /\ orders[i].fills = {}
    <3>1. ~market[i].taken
      BY <1>1 DEF CloseInv, PreparedUnsent
    <3>2. FillsOK(orders[i], market[i])
      BY <1>1, <1>2 DEF CloseTyped
    <3> QED BY <3>1, <3>2 DEF FillsOK
  <2>6. /\ market' \in Seq(Marks) /\ Len(market') = Len(market) /\ market'[i] = mark
        /\ \A j \in 1..Len(market) : j # i => market'[j] = market[j]
    <3>1. market \in Seq(Marks) /\ i \in 1..Len(market) /\ market' = [market EXCEPT ![i] = mark]
      BY <1>1, <1>2, <1>6 DEF CloseTyped
    <3> HIDE DEF mark, i
    <3> QED BY <2>1, <3>1, ExceptSeq
  <2> HIDE DEF mark, qty
  <2>7. FilledOrders(orders', market') /\ FilledOrders(orders, market)
    <3>1. FillsOK(orders[i], mark)
      BY <2>1, <2>5 DEF FillsOK
    <3>2. \A j \in 1..Len(orders) : FillsOK(orders[j], market'[j])
      BY <1>1, <2>6, <3>1 DEF CloseTyped
    <3> QED BY <1>1, <2>6, <3>2, OrdersAre DEF CloseTyped, FilledOrders
  <2>8. OpenLots(orders', market') = OpenLots(orders, market) + executed
    <3> DEFINE taken == market'
    <3>1. FilledOrders(orders, taken) /\ \A j \in 1..Len(orders) : j # i => taken[j] = market[j]
      BY <1>1, <2>6, <2>7 DEF CloseTyped
    <3>2. taken[i].executed = executed /\ Cardinality(orders[i].fills) = 0
      BY <2>1, <2>5, <2>6, FS_EmptySet
    <3> HIDE DEF taken, i
    <3>3. OpenLots(orders, taken) = OpenLots(orders, market)
            + (taken[i].executed - Cardinality(orders[i].fills))
            - (market[i].executed - Cardinality(orders[i].fills))
      BY <1>2, <2>7, <3>1, OpenChanges
    <3>4. OpenLots(orders, market) \in Nat /\ executed \in Nat
      BY <1>1, <2>1, OrdersAre, ConstantsAre
    <3>5. OpenLots(orders, taken) = OpenLots(orders, market) + executed
      BY <2>5, <3>2, <3>3, <3>4 DEF i
    <3> QED BY <1>1, <3>5 DEF taken
  <2>9. CloseTyped'
    <3>1. /\ locals.order <= Len(orders') /\ Len(orders) <= Len(orders')
          /\ "placed" \in {"cancel", "canceled"} => locals.left # <<>>
      BY <1>1, <1>2, <1>4
    <3> QED BY <1>1, <1>4, <2>7, <3>1, CloserTyped
  <2>10. /\ Along(FillLots, wire) \in Nat /\ sold \in Nat /\ pos.remaining \in Nat
         /\ Along(FillLots, wire') \in Nat /\ OpenLots(orders, market) \in Nat /\ executed \in Nat
    BY <1>1, <2>1, <2>4, WiresAre, WiresNext, OrdersAre, ConstantsAre
  <2>11. Along(FillLots, wire') + OpenLots(orders', market') + pos.remaining + sold
           <= Along(FillLots, wire) + OpenLots(orders, market) + pos'.remaining + sold'
    BY <1>1, <1>6, <2>2, <2>8, <2>10
  <2>12. /\ pos'.status = "closed" => pos'.remaining = 0 \/ pos.status = "closed"
         /\ pos'.remaining <= pos.remaining /\ (Looked(orders) => Looked(orders'))
    BY <1>1, <2>10
  <2> QED BY <2>4, <2>9, <2>11, <2>12, BookedOn
<1> QED BY <1>5, <1>6 DEF CloseOrder

(* A sale of lots that an answer reports.                                   *)
LEMMA AnswerBooks ==
  ASSUME NEW p, Position(p), PositionOK(p), NEW lots \in Nat
  PROVE  LET q == BookAnswer(p, lots) IN
         /\ Position(q) /\ PositionOK(q)
         /\ q.remaining = IF lots >= p.remaining THEN 0 ELSE p.remaining - lots
         /\ q.status = "closed" => q.remaining = 0
<1> DEFINE left == p.remaining - Min({lots, p.remaining})
           gone == [p EXCEPT !.remaining = 0, !.status = "closed", !.prot = "closed"]
           kept == [p EXCEPT !.remaining = left,
                             !.status = IF lots > 0 THEN "partially_closed" ELSE "open"]
<1>1. p.remaining \in 0..Base /\ p.remaining \in Nat
  BY ConstantsAre DEF PositionOK
<1>2. left = (IF lots >= p.remaining THEN 0 ELSE p.remaining - lots) /\ left \in 0..Base
  <2> DEFINE r == p.remaining
  <2>1. Min({lots, r}) = IF lots <= r THEN lots ELSE r
    <3>1. r \in Nat
      BY <1>1
    <3> HIDE DEF r
    <3>2. \E x \in {lots, r} : \A y \in {lots, r} : x <= y
      BY <3>1
    <3>3. Min({lots, r}) \in {lots, r} /\ \A y \in {lots, r} : Min({lots, r}) <= y
      BY <3>2 DEF Min
    <3> QED BY <3>1, <3>3
  <2> QED BY <1>1, <2>1, ConstantsAre
<1> HIDE DEF left
<1>3. BookAnswer(p, lots) = IF left = 0 THEN gone ELSE kept
  BY DEF BookAnswer, left
<1>4. /\ Position(gone) /\ PositionOK(gone) /\ gone.remaining = 0
  <2>1. /\ Position(gone) /\ gone.remaining = 0 /\ gone.status = "closed" /\ gone.prot = "closed"
        /\ gone.stop = p.stop
    BY DEF Position, PosFields
  <2> HIDE DEF gone
  <2> QED BY <2>1, ConstantsAre DEF PositionOK, PosStatuses, Protections
<1>5. /\ Position(kept) /\ PositionOK(kept) /\ kept.remaining = left /\ kept.status # "closed"
  BY <1>2 DEF Position, PosFields, PositionOK, PosStatuses, Protections, Stops
<1> HIDE DEF gone, kept
<1> QED BY <1>2, <1>3, <1>4, <1>5

(* A sale of one lot that an event reports.                                 *)
LEMMA EventBooks ==
  ASSUME NEW p, Position(p), PositionOK(p)
  PROVE  LET q == BookEvent(p) IN
         /\ Position(q) /\ PositionOK(q)
         /\ q.remaining = IF p.remaining <= 1 THEN 0 ELSE p.remaining - 1
         /\ q.status = "closed" => q.remaining = 0 \/ p.status = "closed"
<1> DEFINE gone == [p EXCEPT !.remaining = 0, !.status = "closed"]
           kept == [p EXCEPT !.remaining = @ - 1]
<1>1. p.remaining \in 0..Base /\ Base \in Nat
  BY ConstantsAre DEF PositionOK
<1>2. BookEvent(p) = IF p.remaining <= 1 THEN gone ELSE kept
  BY DEF BookEvent
<1>3. /\ Position(gone) /\ PositionOK(gone) /\ gone.remaining = 0
  <2>1. /\ Position(gone) /\ gone.remaining = 0 /\ gone.status = "closed" /\ gone.prot = p.prot
        /\ gone.stop = p.stop
    BY DEF Position, PosFields
  <2> HIDE DEF gone
  <2> QED BY <2>1, ConstantsAre DEF PositionOK, PosStatuses
<1>4. /\ Position(kept) /\ kept.remaining = p.remaining - 1 /\ kept.status = p.status
      /\ ~(p.remaining <= 1) => PositionOK(kept)
  <2>1. p.remaining - 1 = kept.remaining /\ kept.status = p.status /\ Position(kept)
        /\ kept.stop = p.stop /\ kept.prot = p.prot
    BY DEF Position, PosFields
  <2> HIDE DEF kept
  <2>2. ~(p.remaining <= 1) => kept.remaining \in 0..Base
    BY <1>1, <2>1
  <2> QED BY <2>1, <2>2 DEF PositionOK
<1> HIDE DEF gone, kept
<1> QED BY <1>2, <1>3, <1>4

(* _apply_response of an answer that lists its trades, or of one that was   *)
(* looked up.                                                               *)
LEMMA ResponseBooked ==
  ASSUME CloseInv, BookedInv, NEW c \in Closers, Works(c), NEW qty, NEW trades,
         ApplyResponse(c, qty, trades), CloseEnds(c),
         \/ trades = 1..market[cloc[c].order].executed
         \/ trades = {} /\ cpc[c] = "found",
         UNCHANGED <<rows, taskVars, exchangeVars, streamVars, market>>
  PROVE  BookedInv'
<1> DEFINE i == cloc[c].order
           n == market[i].executed
           state == IF n = qty THEN "filled" ELSE IF n > 0 THEN "partially_filled" ELSE "acknowledged"
           fills == IF orders[i].fills = {} THEN trades ELSE orders[i].fills
           looked == orders[i].looked \/ cpc[c] = "found"
           row == [orders[i] EXCEPT !.state = state, !.fills = fills, !.looked = looked]
<1>1. /\ CloseTyped /\ QuantityInv /\ Away(Correcting) /\ ExchangeInv
      /\ pc' = pc /\ loc' = loc /\ oco' = oco /\ guard' = guard /\ sold' = sold /\ wire' = wire
      /\ Position(pos) /\ PositionOK(pos)
  BY DEF taskVars, exchangeVars, streamVars, BookedInv, QuantityInv, PlacedInv, ShapeInv, DeskInv
<1>2. /\ NoClose \in Closing /\ NoClose.order <= Len(orders) /\ Len(orders) \in Nat
      /\ i \in 1..Len(orders) /\ orders[i] \in CloseRows /\ market[i] \in Marks
  BY <1>1, AtHand
<1>3. n \in Nat /\ orders[i].fills \subseteq 1..n /\ orders[i].looked \in BOOLEAN
  BY <1>1, <1>2, ConstantsAre DEF CloseTyped, FillsOK, Marks, CloseRows
<1>4. /\ orders' = [orders EXCEPT ![i] = row]
      /\ pos' = IF orders[i].fills # {} THEN pos ELSE BookAnswer(pos, n)
  BY <1>1, <1>2 DEF ApplyResponse, CloseTyped
<1>5. fills \subseteq 1..n
  BY <1>3
<1>6. row \in CloseRows /\ row.fills = fills /\ row.looked = looked
  <2>1. state \in CloseStates /\ looked \in BOOLEAN /\ fills \in SUBSET Nat
    BY <1>3, <1>5 DEF CloseStates
  <2>2. ASSUME NEW S, NEW F, NEW L, NEW o \in [state : S, fills : F, looked : L],
               NEW x \in S, NEW y \in F, NEW z \in L
        PROVE  LET r == [o EXCEPT !.state = x, !.fills = y, !.looked = z] IN
               r \in [state : S, fills : F, looked : L] /\ r.fills = y /\ r.looked = z
    OBVIOUS
  <2> HIDE DEF state, looked, fills
  <2> QED BY <1>2, <2>1, <2>2 DEF CloseRows
<1> HIDE DEF row
<1>7. /\ FilledOrders(orders', market') /\ Len(orders') = Len(orders)
      /\ (Looked(orders) => Looked(orders')) /\ (row.looked => Looked(orders'))
      /\ OpenLots(orders', market') = OpenLots(orders, market)
           + Cardinality(orders[i].fills) - Cardinality(row.fills)
      /\ Cardinality(row.fills) \in Nat
  <2>1. row.fills \subseteq 1..market[i].executed /\ (orders[i].looked => row.looked)
    BY <1>5, <1>6
  <2> HIDE DEF i
  <2> QED BY <1>1, <1>2, <1>4, <1>6, <2>1, RowChanges
<1>8. CloseTyped'
  <2>1. /\ CloseGoesOn(c, "idle", NoClose) /\ NoClose.order <= Len(orders') /\ Len(orders) <= Len(orders')
        /\ "idle" \in {"cancel", "canceled"} => NoClose.left # <<>>
    BY <1>2, <1>7 DEF CloseEnds
  <2> QED BY <1>1, <1>2, <1>7, <2>1, CloserTyped
<1>9. ExchangeInv'
  BY <1>1, ExchangeRests DEF exchangeVars
<1>10. /\ Along(FillLots, wire) \in Nat /\ sold \in Nat /\ pos.remaining \in Nat
       /\ OpenLots(orders, market) \in Nat
  BY <1>1, WiresAre, OrdersAre, ConstantsAre
<1>11. /\ Position(pos') /\ PositionOK(pos')
       /\ \/ orders[i].fills # {} /\ pos'.remaining = pos.remaining
          \/ /\ orders[i].fills = {}
             /\ pos'.remaining = IF n >= pos.remaining THEN 0 ELSE pos.remaining - n
       /\ pos'.status = "closed" => pos'.remaining = 0 \/ pos.status = "closed"
  BY <1>1, <1>3, <1>4, AnswerBooks
<1>12. QuantityInv' /\ Away(Correcting)'
  BY <1>1, <1>9, <1>11, PositionMoves
<1>13. pos'.remaining <= pos.remaining
  BY <1>3, <1>10, <1>11
<1>14. \/ Looked(orders')
       \/ Along(FillLots, wire') + OpenLots(orders', market') + pos.remaining + sold
            <= Along(FillLots, wire) + OpenLots(orders, market) + pos'.remaining + sold'
  <2>1. CASE cpc[c] = "found"
    BY <1>6, <1>7, <2>1
  <2>2. CASE orders[i].fills # {}
    <3>1. row.fills = orders[i].fills /\ pos' = pos
      BY <1>4, <1>6, <2>2
    <3>2. OpenLots(orders', market') = OpenLots(orders, market)
      BY <1>7, <1>10, <3>1
    <3> QED BY <1>1, <1>10, <3>1, <3>2
  <2>3. CASE orders[i].fills = {} /\ cpc[c] # "found"
    <3>1. row.fills = 1..n
      BY <1>6, <2>3
    <3>2. Cardinality(1..n) = n
      <4>1. 1 \in Int /\ n \in Int
        BY <1>3
      <4>2. Cardinality(1..n) = IF 1 > n THEN 0 ELSE n - 1 + 1
        BY <4>1, FS_Interval
      <4> QED BY <1>3, <4>2
    <3>3. OpenLots(orders', market') = OpenLots(orders, market) - n
      <4>1. Cardinality(orders[i].fills) = 0
        BY <2>3, FS_EmptySet
      <4> QED BY <1>3, <1>7, <1>10, <3>1, <3>2, <4>1
    <3>4. pos.remaining <= pos'.remaining + n
      BY <1>3, <1>10, <1>11
    <3>5. pos'.remaining \in Nat
      BY <1>12, WiresNext, ConstantsAre
    <3> HIDE DEF n
    <3> QED BY <1>1, <1>3, <1>10, <3>3, <3>4, <3>5
  <2> QED BY <2>1, <2>2, <2>3
<1> QED BY <1>7, <1>8, <1>11, <1>12, <1>13, <1>14, BookedOn

(* After the send.                                                          *)
LEMMA AnswersBooked ==
  ASSUME CloseInv, BookedInv, NEW c \in Closers, CloseAnswered(c) \/ CloseFound(c)
  PROVE  BookedInv'
<1>1. /\ Works(c) /\ UNCHANGED <<rows, taskVars, exchangeVars, streamVars, market>>
      /\ CloseAnswered(c) => cpc[c] = "placed"
      /\ CloseFound(c) => cpc[c] = "found"
  BY DEF CloseAnswered, CloseFound, Works
<1>2. CASE \E qty, trades : /\ ApplyResponse(c, qty, trades) /\ CloseEnds(c)
                            /\ \/ trades = 1..market[cloc[c].order].executed
                               \/ trades = {} /\ cpc[c] = "found"
  BY <1>1, <1>2, ResponseBooked
<1>3. pos' = pos => Undisturbed
  BY <1>1, StillUndisturbed DEF taskVars, exchangeVars, streamVars
<1>4. CASE Rejects(c) /\ pos' = pos
  BY <1>1, <1>3, <1>4, RejectsBooked
<1>5. CASE CloseGoesOn(c, "lookup", cloc[c]) /\ UNCHANGED <<pos, orders>>
  <2>1. cloc[c] \in Closing /\ cloc[c].order <= Len(orders)
    BY AtHand DEF BookedInv
  <2> QED BY <1>1, <1>3, <1>5, <2>1, MovesQuietly
<1> QED BY <1>1, <1>2, <1>4, <1>5 DEF CloseAnswered, CloseFound

(* The closers stay where they are while an order's row is written.         *)
LEMMA ClosersWait ==
  ASSUME CloseTyped, FilledOrders(orders', market'), Len(orders') = Len(orders),
         UNCHANGED <<cpc, cloc>>
  PROVE  CloseTyped'
<1>1. \A c \in Closers :
        /\ cloc'[c] \in Closing /\ cloc'[c].order <= Len(orders')
        /\ cpc'[c] \in {"cancel", "canceled"} => cloc'[c].left # <<>>
  BY DEF CloseTyped
<1> QED BY <1>1 DEF CloseTyped, FilledOrders, FillsOK, CloseRows, CloseStates, Marks, Closing, Answers,
                    ListsLeft, Stages

(* The stream books a trade of an order once.                               *)
LEMMA StreamBooked ==
  ASSUME CloseInv, BookedInv, StreamCloses
  PROVE  BookedInv'
<1> DEFINE e == Head(wire)
           i == e.order
           fills == orders[i].fills \cup ({e.trade} \ {0})
           row == [orders[i] EXCEPT !.state = StateOf[e.status], !.fills = fills]
<1>1. /\ CloseTyped /\ QuantityInv /\ Away(Correcting) /\ ExchangeInv
      /\ Position(pos) /\ PositionOK(pos)
      /\ rows' = rows /\ pc' = pc /\ loc' = loc /\ UNCHANGED <<market, cpc, cloc>>
  BY DEF StreamCloses, taskVars, BookedInv, QuantityInv, PlacedInv, ShapeInv, DeskInv
<1>2. wire # <<>> /\ e.kind = "close" /\ Consume
  BY DEF StreamCloses, StreamReady
<1>3. /\ ExchangeInv' /\ sold' = sold /\ oco' = oco /\ e \in Events
      /\ Along(FillLots, wire) = FillLots[e] + Along(FillLots, wire')
  BY <1>1, <1>2, ConsumeKeeps
<1>4. FillLots[e] = 0
  BY <1>2, <1>3 DEF FillLots
<1>5. CloseReport(e, orders, market)
  <2>1. PICK S : wire \in Seq(S) /\ \A x \in S : CloseReport(x, orders, market)
    BY DEF CloseInv, WireInv
  <2> QED
    BY <1>2, <2>1, HeadTailProperties
<1>6. /\ i \in 1..Len(orders) /\ e.status \in DOMAIN StateOf /\ e.trade \in 0..market[i].executed
      /\ orders[i] \in CloseRows /\ orders[i].fills \subseteq 1..market[i].executed
      /\ market[i].executed \in Nat
  <2>1. i \in DOMAIN orders /\ e.status \in DOMAIN StateOf /\ e.trade \in 0..market[i].executed
    BY <1>2, <1>5 DEF CloseReport
  <2>2. DOMAIN orders = 1..Len(orders)
    BY <1>1, LenProperties DEF CloseTyped
  <2>3. orders[i] \in CloseRows /\ market[i] \in Marks /\ FillsOK(orders[i], market[i])
    BY <1>1, <2>1, <2>2, ElementOfSeq DEF CloseTyped
  <2> QED BY <2>1, <2>2, <2>3, ConstantsAre DEF Marks, FillsOK
<1>7. /\ Along(FillLots, wire) \in Nat /\ sold \in Nat /\ pos.remaining \in Nat
      /\ Along(FillLots, wire') \in Nat /\ OpenLots(orders, market) \in Nat
      /\ Along(FillLots, wire') = Along(FillLots, wire)
  <2>1. /\ Along(FillLots, wire) \in Nat /\ sold \in Nat /\ pos.remaining \in Nat
        /\ OpenLots(orders, market) \in Nat
    BY <1>1, WiresAre, OrdersAre, ConstantsAre
  <2>2. Along(FillLots, wire') \in Nat
    <3>1. wire' \in Seq(Events)
      BY <1>3 DEF ExchangeInv, Events, Protective, Foreign, Trading, Stages, Sides, EventStatuses
    <3> QED BY <3>1, WeightsAre, AlongType
  <2> QED BY <1>3, <1>4, <2>1, <2>2
<1>8. CASE AlreadyBooked(e)
  <2>1. UNCHANGED <<pos, orders>>
    BY <1>8 DEF StreamCloses
  <2>2. QuantityInv' /\ Away(Correcting)'
    BY <1>1, <1>3, <2>1, PositionMoves
  <2>3. CloseTyped'
    BY <1>1, <2>1, ClosersRest
  <2>4. OpenLots(orders', market') = OpenLots(orders, market) /\ (Looked(orders) => Looked(orders'))
    BY <1>1, <2>1
  <2>5. Along(FillLots, wire') <= Along(FillLots, wire)
    BY <1>7
  <2> QED BY <1>3, <2>1, <2>2, <2>3, <2>4, <2>5, SilentStep
<1>9. CASE ~AlreadyBooked(e)
  <2>1. /\ orders' = [orders EXCEPT ![i] = row]
        /\ pos' = IF e.trade = 0 THEN pos ELSE BookEvent(pos)
    BY <1>9 DEF StreamCloses
  <2>2. row \in CloseRows /\ row.fills = fills /\ row.looked = orders[i].looked
    <3>1. StateOf[e.status] \in CloseStates /\ fills \in SUBSET Nat
      BY <1>6 DEF StateOf, CloseStates
    <3>2. ASSUME NEW S, NEW F, NEW L, NEW o \in [state : S, fills : F, looked : L],
                 NEW x \in S, NEW y \in F
          PROVE  LET r == [o EXCEPT !.state = x, !.fills = y] IN
                 r \in [state : S, fills : F, looked : L] /\ r.fills = y /\ r.looked = o.looked
      OBVIOUS
    <3> HIDE DEF fills
    <3> QED BY <1>6, <3>1, <3>2 DEF CloseRows
  <2>3. fills \subseteq 1..market[i].executed
    BY <1>6
  <2> HIDE DEF row
  <2>4. /\ FilledOrders(orders', market') /\ Len(orders') = Len(orders)
        /\ (Looked(orders) => Looked(orders'))
        /\ OpenLots(orders', market') = OpenLots(orders, market)
             + Cardinality(orders[i].fills) - Cardinality(row.fills)
        /\ Cardinality(row.fills) \in Nat
    <3>1. row.fills \subseteq 1..market[i].executed /\ market' = market
      BY <1>1, <2>2, <2>3
    <3> HIDE DEF i
    <3> QED BY <1>1, <1>6, <2>1, <2>2, <3>1, RowChanges
  <2>5. CloseTyped'
    BY <1>1, <2>4, ClosersWait
  <2>6. /\ Position(pos') /\ PositionOK(pos')
        /\ pos'.remaining = IF e.trade = 0 THEN pos.remaining
                            ELSE IF pos.remaining <= 1 THEN 0 ELSE pos.remaining - 1
        /\ pos'.status = "closed" => pos'.remaining = 0 \/ pos.status = "closed"
    BY <1>1, <2>1, EventBooks
  <2>7. QuantityInv' /\ Away(Correcting)'
    BY <1>1, <1>3, <2>6, PositionMoves
  <2>8. IsFiniteSet(orders[i].fills) /\ Cardinality(orders[i].fills) \in Nat
    BY <1>1, <1>6, OrdersAre, OpenIs
  <2>9. Cardinality(row.fills) = Cardinality(orders[i].fills) + IF e.trade = 0 THEN 0 ELSE 1
    <3>1. CASE e.trade = 0
      <4>1. fills = orders[i].fills
        BY <3>1
      <4> HIDE DEF fills, i, e
      <4> QED BY <2>2, <2>8, <3>1, <4>1
    <3>2. CASE e.trade # 0
      <4>1. fills = orders[i].fills \cup {e.trade} /\ e.trade \notin orders[i].fills
        BY <1>9, <3>2 DEF AlreadyBooked
      <4> HIDE DEF fills
      <4>2. Cardinality(orders[i].fills \cup {e.trade}) = Cardinality(orders[i].fills) + 1
        BY <2>8, <4>1, FS_AddElement
      <4> QED BY <2>2, <3>2, <4>1, <4>2
    <3> QED BY <3>1, <3>2
  <2> HIDE DEF i, fills
  <2>10. OpenLots(orders', market') = OpenLots(orders, market) - IF e.trade = 0 THEN 0 ELSE 1
    BY <1>7, <2>4, <2>8, <2>9
  <2>11. pos'.remaining <= pos.remaining
    BY <1>7, <2>6
  <2>12. Along(FillLots, wire') + OpenLots(orders', market') + pos.remaining + sold
           <= Along(FillLots, wire) + OpenLots(orders, market) + pos'.remaining + sold'
    <3>1. pos'.remaining \in Nat /\ pos.remaining <= pos'.remaining + IF e.trade = 0 THEN 0 ELSE 1
      BY <1>7, <2>6
    <3> QED BY <1>3, <1>7, <2>10, <3>1
  <2> QED BY <2>4, <2>5, <2>6, <2>7, <2>11, <2>12, BookedOn
<1> QED BY <1>8, <1>9

(* POST /execution/reconcile selects its rows.                              *)
LEMMA SelectBooked ==
  ASSUME BookedInv, ReconcileSelects
  PROVE  BookedInv'
<1>1. CloseTyped /\ UNCHANGED <<orders, market, cpc, cloc, pos, rows, pc, loc, oco, guard, sold, wire>>
  BY DEF ReconcileSelects, BookedInv, taskVars, exchangeVars, streamVars
<1>2. CloseTyped'
  BY <1>1, ClosersRest
<1>3. OpenLots(orders', market') = OpenLots(orders, market) /\ (Looked(orders) => Looked(orders'))
  BY <1>1
<1>4. Undisturbed
  BY <1>1, StillUndisturbed
<1> QED BY <1>2, <1>3, <1>4, SilentStep DEF Undisturbed

(* It writes states only.                                                   *)
LEMMA ReconciledBooked ==
  ASSUME CloseInv, BookedInv, ReconcileCommits
  PROVE  BookedInv'
<1>0. PICK known : orders' = [i \in DOMAIN orders |-> IF i \in known
                                                     THEN [orders[i] EXCEPT !.state = "reconciled"]
                                                     ELSE orders[i]]
  BY DEF ReconcileCommits
<1> DEFINE Settled(o) == [o EXCEPT !.state = "reconciled"]
           n == Len(orders)
<1>1. /\ CloseTyped /\ QuantityInv /\ Away(Correcting) /\ FilledOrders(orders, market)
      /\ orders' = [i \in DOMAIN orders |-> IF i \in known THEN Settled(orders[i]) ELSE orders[i]]
      /\ UNCHANGED <<market, cpc, cloc, pos, rows, pc, loc, oco, guard, sold, wire>>
  BY <1>0, OrdersAre DEF ReconcileCommits, BookedInv, protectionVars, taskVars, exchangeVars, streamVars
<1>2. /\ n \in Nat /\ orders \in Seq(CloseRows) /\ DOMAIN orders = 1..n
      /\ \A i \in 1..n : orders[i] \in CloseRows
  BY <1>1, LenProperties, ElementOfSeq DEF CloseTyped
<1>3. ASSUME NEW o \in CloseRows
      PROVE  Settled(o) \in CloseRows /\ Settled(o).fills = o.fills /\ Settled(o).looked = o.looked
  BY DEF CloseRows, CloseStates
<1> HIDE DEF Settled, n
<1>4. ASSUME NEW i \in 1..n
      PROVE  /\ orders'[i] \in CloseRows /\ orders'[i].fills = orders[i].fills
             /\ orders'[i].looked = orders[i].looked
  BY <1>1, <1>2, <1>3
<1>5. orders' \in Seq(CloseRows) /\ Len(orders') = n
  <2>1. orders' = [i \in 1..n |-> orders'[i]]
    BY <1>1, <1>2
  <2> QED BY <1>2, <1>4, <2>1
<1>6. FilledOrders(orders', market')
  <2>1. \A i \in 1..Len(orders') : FillsOK(orders'[i], market'[i])
    BY <1>1, <1>4, <1>5 DEF CloseTyped, FillsOK, n
  <2> QED BY <1>1, <1>5, <2>1 DEF FilledOrders, n
<1>7. CloseTyped'
  BY <1>1, <1>5, <1>6, ClosersWait DEF n
<1>8. OpenLots(orders', market') = OpenLots(orders, market) /\ (Looked(orders) => Looked(orders'))
  <2>1. OpenOf(orders', market') = OpenOf(orders, market)
    <3>1. \A j \in 1..n : orders'[j].fills = orders[j].fills /\ market'[j] = market[j]
      BY <1>1, <1>4
    <3>2. \A j \in 1..n : market'[j].executed - Cardinality(orders'[j].fills)
                            = market[j].executed - Cardinality(orders[j].fills)
      BY <3>1
    <3>3. Len(orders') = n /\ Len(orders) = n
      BY <1>5 DEF n
    <3> HIDE DEF n
    <3> QED BY <3>2, <3>3 DEF OpenOf
  <2> QED BY <1>4, <1>5, <2>1 DEF OpenLots, Looked, n
<1>9. Undisturbed
  BY <1>1, StillUndisturbed
<1> QED BY <1>7, <1>8, <1>9, SilentStep DEF Undisturbed

(* The order lists to cancel, as they are in the database.                  *)
LEMMA ListsAre ==
  ASSUME QuantityInv
  PROVE  ProtectionsToCancel \in Seq(ListsLeft)
<1> DEFINE S == {i \in DOMAIN rows : rows[i].status \in Blocking}
           ids == Ascending(S)
           list == [j \in DOMAIN ids |-> [id |-> ids[j], stage |-> rows[ids[j]].stage,
                                          listed |-> rows[ids[j]].listed]]
<1>1. PICK n \in Nat : rows = [i \in 1..n |-> rows[i]]
  BY DEF QuantityInv, PlacedInv, ShapeInv, Table
<1>2. \A i \in DOMAIN rows : rows[i].stage \in Stages /\ rows[i].listed \in BOOLEAN
  BY DEF QuantityInv, PlacedInv, ShapeInv, DeskInv, Row, RowOK
<1>3. S \in SUBSET Nat /\ IsFiniteSet(S) /\ S \subseteq DOMAIN rows
  <2>1. S \subseteq 1..n
    BY <1>1
  <2>2. IsFiniteSet(1..n)
    BY FS_Interval
  <2> HIDE DEF S
  <2>3. IsFiniteSet(S)
    BY <2>1, <2>2, FS_Subset
  <2> QED BY <1>1, <2>1, <2>3
<1> HIDE DEF S
<1>4. ids \in Seq(S)
  BY <1>3, AscendingIs
<1>5. ProtectionsToCancel = list
  BY DEF ProtectionsToCancel, S
<1> HIDE DEF ids
<1>6. DOMAIN ids = 1..Len(ids) /\ Len(ids) \in Nat /\ \A j \in 1..Len(ids) : ids[j] \in S
  BY <1>4, LenProperties, ElementOfSeq
<1>7. \A j \in 1..Len(ids) : list[j] \in ListsLeft
  BY <1>2, <1>3, <1>6 DEF ListsLeft
<1>8. list = [j \in 1..Len(ids) |-> list[j]]
  BY <1>6
<1> HIDE DEF list
<1>9. list \in Seq(ListsLeft)
  BY <1>6, <1>7, <1>8
<1> QED BY <1>5, <1>9

(* close_position() inserts an order of which nothing is executed.          *)
LEMMA BeginBooked ==
  ASSUME CloseInv, BookedInv, NEW c \in Closers, CloseBegins(c)
  PROVE  BookedInv'
<1> DEFINE n == Len(orders)
           row == [state |-> "submitting", fills |-> {}, looked |-> FALSE]
           turned == [row EXCEPT !.state = "rejected"]
           mark == [taken |-> FALSE, executed |-> 0]
           left == ProtectionsToCancel
           toMarket == [NoClose EXCEPT !.order = n + 1]
           toList == [NoClose EXCEPT !.order = n + 1, !.left = left]
<1>1. /\ CloseTyped /\ QuantityInv /\ Away(Correcting) /\ FilledOrders(orders, market)
      /\ UNCHANGED <<pos, rows, pc, loc, oco, guard, sold, wire>>
      /\ CancelsNext(c, left, n + 1, Append(orders, row)) /\ market' = Append(market, mark)
  BY OrdersAre DEF CloseBegins, BookedInv, protectionVars, taskVars, exchangeVars, streamVars
<1>2. /\ n \in Nat /\ orders \in Seq(CloseRows) /\ market \in Seq(Marks) /\ Len(market) = n
      /\ NoClose \in Closing /\ NoClose.order = 0 /\ left \in Seq(ListsLeft)
  BY <1>1, LenProperties, NothingToClose, ListsAre DEF CloseTyped
<1> HIDE DEF left
<1>3. /\ row \in CloseRows /\ row.fills = {} /\ turned \in CloseRows /\ turned.fills = {}
      /\ mark \in Marks /\ mark.executed = 0 /\ ~mark.taken
  <2>1. row \in CloseRows /\ row.fills = {}
    BY DEF CloseRows, CloseStates
  <2>2. ASSUME NEW o \in CloseRows
        PROVE  LET t == [o EXCEPT !.state = "rejected"] IN t \in CloseRows /\ t.fills = o.fills
    BY DEF CloseRows, CloseStates
  <2>3. mark \in Marks /\ mark.executed = 0 /\ ~mark.taken
    BY ConstantsAre DEF Marks
  <2> HIDE DEF row, mark
  <2> QED BY <2>1, <2>2, <2>3
<1>4. /\ toMarket \in Closing /\ toMarket.order = n + 1
      /\ toList \in Closing /\ toList.order = n + 1 /\ toList.left = left
  <2>1. ASSUME NEW Q, NEW x \in Q, NEW r \in [order : Nat, left : Q, qty : 0..Base, answer : Answers],
               NEW i \in Nat
        PROVE  /\ [r EXCEPT !.order = i] \in [order : Nat, left : Q, qty : 0..Base, answer : Answers]
               /\ [r EXCEPT !.order = i, !.left = x]
                    \in [order : Nat, left : Q, qty : 0..Base, answer : Answers]
               /\ [r EXCEPT !.order = i].order = i
               /\ [r EXCEPT !.order = i, !.left = x].order = i
               /\ [r EXCEPT !.order = i, !.left = x].left = x
    OBVIOUS
  <2>2. n + 1 \in Nat
    BY <1>2
  <2> HIDE DEF n
  <2> QED BY <1>2, <2>1, <2>2 DEF Closing
<1> HIDE DEF toMarket, toList, mark
<1>5. \/ CloseGoesOn(c, "account", toMarket) /\ orders' = Append(orders, row)
      \/ CloseGoesOn(c, "cancel", toList) /\ left # <<>> /\ orders' = Append(orders, row)
      \/ CloseGoesOn(c, "idle", NoClose) /\ orders' = [Append(orders, row) EXCEPT ![n + 1].state = "rejected"]
  BY <1>1 DEF CancelsNext, CloseEnds, toMarket, toList
<1>6. [Append(orders, row) EXCEPT ![n + 1].state = "rejected"] = Append(orders, turned)
  <2> DEFINE book == Append(orders, row)
             other == Append(orders, turned)
  <2>1. /\ DOMAIN book = 1..(n + 1) /\ book[n + 1] = row
        /\ DOMAIN other = 1..(n + 1) /\ other[n + 1] = turned
        /\ \A j \in 1..n : book[j] = orders[j] /\ other[j] = orders[j]
        /\ book \in Seq(CloseRows) /\ other \in Seq(CloseRows)
    <3> HIDE DEF row, turned
    <3> QED BY <1>2, <1>3, AppendProperties
  <2>2. /\ book = [j \in 1..(n + 1) |-> book[j]]
        /\ other = [j \in 1..(n + 1) |-> other[j]]
    BY <2>1
  <2>3. [book EXCEPT ![n + 1].state = "rejected"] = [book EXCEPT ![n + 1] = turned]
    BY <2>1
  <2> HIDE DEF book, other, turned, row
  <2>4. \A j \in 1..(n + 1) : [book EXCEPT ![n + 1] = turned][j] = other[j]
    BY <1>2, <2>1
  <2>5. [book EXCEPT ![n + 1] = turned] = other
    BY <1>2, <2>1, <2>2, <2>4
  <2> QED BY <2>3, <2>5 DEF book, other
<1>7. PICK label, locals, r :
        /\ CloseGoesOn(c, label, locals) /\ locals \in Closing /\ locals.order <= n + 1
        /\ label \in {"cancel", "canceled"} => locals.left # <<>>
        /\ orders' = Append(orders, r) /\ r \in CloseRows /\ r.fills = {}
  <2> HIDE DEF row, turned
  <2>1. CASE CloseGoesOn(c, "account", toMarket) /\ orders' = Append(orders, row)
    BY <1>2, <1>3, <1>4, <2>1
  <2>2. CASE CloseGoesOn(c, "cancel", toList) /\ left # <<>> /\ orders' = Append(orders, row)
    BY <1>2, <1>3, <1>4, <2>2
  <2>3. CASE CloseGoesOn(c, "idle", NoClose) /\ orders' = Append(orders, turned)
    BY <1>2, <1>3, <2>3
  <2> QED BY <1>5, <1>6, <2>1, <2>2, <2>3
<1> HIDE DEF row, turned
<1>8. /\ orders' \in Seq(CloseRows) /\ Len(orders') = n + 1 /\ orders'[n + 1] = r
      /\ market' \in Seq(Marks) /\ Len(market') = n + 1 /\ market'[n + 1] = mark
      /\ \A j \in 1..n : orders'[j] = orders[j] /\ market'[j] = market[j]
  BY <1>1, <1>2, <1>3, <1>7, AppendProperties
<1>9. FilledOrders(orders', market')
  <2>1. FillsOK(r, mark)
    BY <1>3, <1>7 DEF FillsOK
  <2>2. \A j \in 1..n : FillsOK(orders[j], market[j])
    BY <1>1 DEF CloseTyped
  <2>3. ASSUME NEW j \in 1..(n + 1) PROVE FillsOK(orders'[j], market'[j])
    <3>1. CASE j = n + 1
      BY <1>8, <2>1, <3>1
    <3>2. CASE j \in 1..n
      BY <1>8, <2>2, <3>2
    <3> QED BY <1>2, <3>1, <3>2
  <2> QED BY <1>8, <2>3 DEF FilledOrders
<1>10. CloseTyped'
  <2>1. locals.order <= Len(orders') /\ Len(orders) <= Len(orders')
    BY <1>2, <1>7, <1>8
  <2> QED BY <1>1, <1>7, <1>9, <2>1, CloserTyped
<1>11. OpenLots(orders', market') = OpenLots(orders, market)
  <2> DEFINE book == orders'
             taken == market'
  <2>1. /\ FilledOrders(book, taken) /\ Len(book) = Len(orders) + 1
        /\ \A j \in 1..Len(orders) : book[j] = orders[j] /\ taken[j] = market[j]
        /\ book[Len(orders) + 1].fills = {} /\ taken[Len(orders) + 1].executed = 0
    BY <1>3, <1>7, <1>8, <1>9
  <2> HIDE DEF book, taken, n
  <2>2. OpenLots(book, taken) = OpenLots(orders, market)
    BY <1>1, <2>1, OpenInserted
  <2> QED BY <2>2 DEF book, taken
<1>12. Looked(orders) => Looked(orders')
  BY <1>2, <1>8 DEF Looked
<1>13. Undisturbed
  BY <1>1, StillUndisturbed
<1> QED BY <1>10, <1>11, <1>12, <1>13, SilentStep DEF Undisturbed

(* Nothing was closed yet.                                                  *)
LEMMA InitBooked == CloseInit => BookedInv
<1> SUFFICES ASSUME CloseInit PROVE BookedInv
  OBVIOUS
<1>1. /\ Init /\ orders = <<>> /\ market = <<>>
      /\ \A c \in Closers : cpc[c] = "idle" /\ cloc[c] = NoClose
  BY DEF CloseInit
<1>2. /\ QuantityInv /\ Along(FillLots, wire) = 0 /\ pos = Entered /\ sold = 0
      /\ \A t \in Tasks : loc[t] = NoLocals /\ pc[t] \in {"idle", "start"}
  BY <1>1, InitQuantities DEF Init
<1>3. Away(Correcting)
  BY <1>2 DEF Away, Correcting, NoLocals
<1>4. /\ orders \in Seq(CloseRows) /\ market \in Seq(Marks)
      /\ Len(orders) = 0 /\ Len(market) = 0
  BY <1>1, EmptySeq
<1>5. NoClose \in Closing /\ NoClose.order = 0
  BY NothingToClose
<1>6. CloseTyped
  BY <1>1, <1>4, <1>5 DEF CloseTyped
<1>7. OpenLots(orders, market) = 0
  <2> DEFINE q == OpenOf(orders, market)
  <2>1. Summands(q, 1, 0)
    BY DEF Summands
  <2> HIDE DEF q
  <2>2. 1 \in Int /\ 0 \in Int /\ 1 - 1 <= 0 /\ 0 = 1 - 1
    OBVIOUS
  <2>3. Total(q, 1, 0) = 0
    BY <2>1, <2>2, TotalType
  <2> QED BY <1>4, <2>3 DEF OpenLots, q
<1>8. CloseBooks
  BY <1>2, <1>7, ConstantsAre DEF CloseBooks, Entered
<1> QED BY <1>2, <1>3, <1>6, <1>8 DEF BookedInv

(* Every step keeps the books.                                              *)
LEMMA BookedStep == CloseInv /\ BookedInv /\ [CloseNext]_allVars => BookedInv'
<1> SUFFICES ASSUME CloseInv, BookedInv, [CloseNext]_allVars PROVE BookedInv'
  OBVIOUS
<1>1. ASSUME NEW c \in Closers, CloserStep(c) PROVE BookedInv'
  BY <1>1, PreparationBooked, SendBooked, AnswersBooked DEF CloserStep
<1> QED
  BY <1>1, ProtectionBooks, BeginBooked, StreamBooked, SelectBooked, ReconciledBooked DEF CloseNext

(* Rows of orders are never removed, so what was selected is still there.   *)
LEMMA OrdersStay ==
  ASSUME CloseTyped, [CloseNext]_allVars
  PROVE  DOMAIN orders \subseteq DOMAIN orders'
<1>1. ASSUME NEW c \in Closers, CloserStep(c) PROVE DOMAIN orders' = DOMAIN orders
  BY <1>1 DEF CloserStep, CloseCancels, CloseUnprotects, CloseReadsBalance, CloseSizes, CloseFails,
              CloseOrder, CloseAnswered, CloseLookup, CloseFound, CancelsNext, Rejects, SetState,
              ApplyResponse
<1>2. ASSUME NEW c \in Closers, CloseBegins(c) PROVE DOMAIN orders \subseteq DOMAIN orders'
  <2> DEFINE row == [state |-> "submitting", fills |-> {}, looked |-> FALSE]
             book == Append(orders, row)
  <2>1. DOMAIN orders \subseteq DOMAIN book
    <3>1. row \in CloseRows
      BY DEF CloseRows, CloseStates
    <3> HIDE DEF row
    <3>2. /\ orders \in Seq(CloseRows) /\ Len(orders) \in Nat /\ DOMAIN orders = 1..Len(orders)
      BY LenProperties DEF CloseTyped
    <3>3. DOMAIN book = 1..(Len(orders) + 1)
      BY <3>1, <3>2, AppendProperties
    <3> QED BY <3>2, <3>3
  <2>2. CancelsNext(c, ProtectionsToCancel, Len(orders) + 1, book)
    BY <1>2 DEF CloseBegins
  <2> HIDE DEF book
  <2>3. orders' = book \/ orders' = [book EXCEPT ![Len(orders) + 1].state = "rejected"]
    BY <2>2 DEF CancelsNext
  <2> QED BY <2>1, <2>3
<1>3. CASE StreamCloses
  BY <1>3 DEF StreamCloses
<1>4. CASE ReconcileCommits
  BY <1>4 DEF ReconcileCommits
<1>5. CASE ProtectionStep \/ ReconcileSelects \/ ProcessDies \/ UNCHANGED allVars
  BY <1>5 DEF ProtectionStep, ReconcileSelects, ProcessDies, allVars, closeVars
<1> QED BY <1>1, <1>2, <1>3, <1>4, <1>5 DEF CloseNext

Selected == checking \subseteq DOMAIN orders

(* A running /execution/reconcile holds rows that exist.                    *)
LEMMA SelectedStep == CloseTyped /\ Selected /\ [CloseNext]_allVars => Selected'
<1> SUFFICES ASSUME CloseTyped, Selected, [CloseNext]_allVars PROVE Selected'
  OBVIOUS
<1>1. checking' \subseteq checking \/ checking' = BlockingCloses
  BY DEF CloseNext, ProtectionStep, CloseBegins, CloserStep, StreamCloses, ReconcileSelects,
         ReconcileCommits, ProcessDies, allVars, closeVars
<1>2. BlockingCloses \subseteq DOMAIN orders
  BY DEF BlockingCloses
<1> QED BY <1>1, <1>2, OrdersStay DEF Selected

(* BookedInv holds in every reachable state: however a close order's answer *)
(* and its events interleave with the fills of the protective orders, what  *)
(* the position counts as sold, with the fills that are still on their way, *)
(* was sold, unless an answer was looked up.                                *)
THEOREM BookedInvariant == CloseSpec => []BookedInv
BY InitBooked, BookedStep, CloseInvariant, PTL DEF CloseSpec

(* Close orders, their fills and their coroutines stay well formed, and the *)
(* position never goes below nothing nor the exchange above what was bought *)
(* (position_close.py:75-280).                                              *)
THEOREM CloseTypes == CloseSpec => []CloseTypeOK
<1>1. ASSUME BookedInv, Selected PROVE CloseTypeOK
  <2>1. QuantityInv /\ CloseTyped /\ Len(orders) \in Nat /\ DOMAIN orders = 1..Len(orders)
    BY <1>1, LenProperties DEF BookedInv, CloseTyped
  <2>2. ASSUME NEW i \in DOMAIN orders
        PROVE  /\ orders[i].state \in CloseStates /\ orders[i].fills \subseteq 1..Base
               /\ orders[i].fills \subseteq 1..market[i].executed
    <3>1. orders[i] \in CloseRows /\ market[i] \in Marks /\ FillsOK(orders[i], market[i])
      BY <2>1, ElementOfSeq DEF CloseTyped
    <3>2. market[i].executed \in 0..Base /\ Base \in Nat
      BY <3>1, ConstantsAre DEF Marks
    <3>3. 1..market[i].executed \subseteq 1..Base
      BY <3>2
    <3> QED BY <3>1, <3>3 DEF CloseRows, FillsOK
  <2>3. ASSUME NEW c \in Closers PROVE cloc[c].order \in 0..Len(orders) /\ cloc[c].qty \in 0..Base
    BY <2>1 DEF CloseTyped, Closing
  <2> QED BY <1>1, <2>1, <2>2, <2>3, QuantityTypes DEF CloseTypeOK, Selected
<1>2. CloseInit => Selected
  BY DEF CloseInit, Selected
<1>3. BookedInv => CloseTyped
  BY DEF BookedInv
<1> QED BY <1>1, <1>2, <1>3, BookedInvariant, SelectedStep, PTL DEF CloseSpec

(* The books do not run ahead of the exchange while a close order's fills   *)
(* are reported twice and protective orders fill beside it, unless an       *)
(* answer had to be looked up, which lists no trades                        *)
(* (position_close.py:215-280, binance_user_stream.py:403-417).             *)
THEOREM ManualFills == CloseSpec => []ManualFillsCountOnce
<1>1. ASSUME BookedInv PROVE ManualFillsCountOnce
  <2>1. CASE Looked(orders)
    <3>1. DOMAIN orders = 1..Len(orders)
      BY <1>1, LenProperties DEF BookedInv, CloseTyped
    <3> QED BY <2>1, <3>1 DEF Looked, ManualFillsCountOnce
  <2>2. CASE ~Looked(orders)
    <3>1. Base - pos.remaining + Along(FillLots, wire) + OpenLots(orders, market) <= sold
      BY <1>1, <2>2 DEF BookedInv, CloseBooks
    <3>2. /\ Along(FillLots, wire) \in Nat /\ OpenLots(orders, market) \in Nat
          /\ sold \in 0..Base /\ pos.remaining \in 0..Base
      BY <1>1, WiresAre, OrdersAre DEF BookedInv
    <3>3. pos.status = "closed" => pos.remaining = 0
      BY <1>1 DEF BookedInv, CloseBooks
    <3>4. Base - pos.remaining <= sold /\ (pos.status = "closed" => sold = Base)
      BY <3>1, <3>2, <3>3, ConstantsAre
    <3> QED BY <3>4 DEF ManualFillsCountOnce, SoldIsSold
  <2> QED BY <2>1, <2>2
<1> QED BY <1>1, BookedInvariant, PTL

(* Closes beside it do not disturb the protection: while any number of      *)
(* requests cancel brackets and sell beside the tasks that place them, its  *)
(* rows, tasks and lots stay well formed (protection.py:238-309,            *)
(* position_close.py:121-176).                                              *)
THEOREM ProtectionTypesBesideCloses == CloseSpec => []ProtectionTypeOK
<1>1. BookedInv => ProtectionTypeOK
  BY QuantityTypes DEF BookedInv
<1> QED BY <1>1, BookedInvariant, PTL

(* And no stage of the position is bracketed twice, although a close may    *)
(* cancel a bracket while its placement is still in flight                  *)
(* (protection.py:143-233, position_close.py:121-140).                      *)
THEOREM OneListPerStageBesideCloses == CloseSpec => []PlacedOnce
<1>1. BookedInv => PlacedOnce
  BY DEF BookedInv, QuantityInv, PlacedInv, ShapeInv, Order, PlacedOnce
<1> QED BY <1>1, BookedInvariant, PTL
=============================================================================
