------------------------ MODULE EntryExecution_proofs ------------------------
(***************************************************************************)
(* Proofs about EntryExecution for any number of setups, tasks, operator   *)
(* commands and faults: type correctness, at most one submission per setup *)
(* and window, the refinement of EntryOnce, each fill counted once, and no *)
(* setup put back whose order was sent.                                    *)
(***************************************************************************)
EXTENDS EntryExecution, FiniteSetTheorems, TLAPS

(* Two assumptions on the constants that the proofs use. *)
LEMMA DisjointTasks == Workers \cap Executors = {} /\ Lots \in Nat \ {0}
BY EntryAssumption

LEMMA SomeSetupIsSetup == SomeSetup \in Setups
BY EntryAssumption DEF SomeSetup

-----------------------------------------------------------------------------
(***************************************************************************)
(* Type correctness, one part of the state at a time.                      *)
(***************************************************************************)

(* Reports is a sequence of events.                                         *)
LEMMA ReportsType ==
  ASSUME ExchangeTypeOK, NEW s \in Setups, NEW k \in 0..Lots
  PROVE  Reports(s, k) \in Seq(Events)
<1>1. \A i \in 1..k : Event(s, traded[s] + i, StatusAfter(left[s] + Lots - i)) \in Events
  BY DisjointTasks DEF Events, EventStates, Event, StatusAfter, ExchangeTypeOK
<1>2. [i \in 1..k |-> Event(s, traded[s] + i, StatusAfter(left[s] + Lots - i))] \in Seq(Events)
  BY <1>1, DisjointTasks
<1>3. <<Event(s, 0, "acknowledged")>> \in Seq(Events)
  BY DEF Events, EventStates, Event
<1> QED BY <1>2, <1>3 DEF Reports

LEMMA DeliverType ==
  ASSUME ExchangeTypeOK, NEW events \in Seq(Events), Deliver(events)
  PROVE  wire' \in Seq(Events)
BY DEF Deliver, ExchangeTypeOK

LEMMA TypeInit == Init => EntryTypeOK
<1> SUFFICES ASSUME Init PROVE EntryTypeOK OBVIOUS
<1>1. BotTypeOK
  BY DEF Init, RunningBot, DefaultBot, BotTypeOK, BotRow, BotStatus
<1>2. DataTypeOK
  BY DEF Init, DataTypeOK, Positions, NoPosition, OrderStates
<1>3. TaskTypeOK
  BY SomeSetupIsSetup DEF Init, TaskTypeOK
<1>4. LoopTypeOK /\ CountTypeOK
  BY DEF Init, LoopTypeOK, CountTypeOK
<1>5. ExchangeTypeOK
  BY DEF Init, ExchangeTypeOK
<1> QED BY <1>1, <1>2, <1>3, <1>4, <1>5 DEF EntryTypeOK

LEMMA BotType == BotTypeOK /\ BotNext => BotTypeOK'
BY DEF BotTypeOK, BotRow, BotStatus, BotNext, PutConfig, StartTransition, Stop, Pause,
       EmergencyStop, EnableKill, DisableKill, SetKill

(* What a step leaves alone keeps its type. *)
LEMMA TypeUnchanged ==
  ASSUME EntryTypeOK
  PROVE  /\ UNCHANGED <<bot, ledgerKill>> => BotTypeOK'
         /\ UNCHANGED <<setupStatus, order, fills, position>> => DataTypeOK'
         /\ UNCHANGED <<pc, target, manual, resp>> => TaskTypeOK'
         /\ UNCHANGED <<hung, protecting, checking>> => LoopTypeOK'
         /\ UNCHANGED <<accepted, traded, left, wire, connected>> => ExchangeTypeOK'
         /\ UNCHANGED <<sends, ops, faults>> => CountTypeOK'
BY DEF EntryTypeOK, BotTypeOK, DataTypeOK, TaskTypeOK, LoopTypeOK, ExchangeTypeOK, CountTypeOK

(* The ways a task moves on. *)
LEMMA TypeMoves ==
  ASSUME TaskTypeOK, NEW w \in Tasks
  PROVE  /\ \A label \in {"idle", "begin", "market", "submit", "test", "place", "ack", "lookup"} :
              Goto(w, label) /\ resp' \in [Tasks -> {"none", "acknowledged", "filled"}]
                => TaskTypeOK'
         /\ Finish(w) => TaskTypeOK'
         /\ \A s \in Setups, label \in {"begin", "market"}, approved \in BOOLEAN :
              Begin(w, s, label, approved) => TaskTypeOK'
BY SomeSetupIsSetup DEF TaskTypeOK, Goto, Finish, Begin

(* A handoff step writes the rows of one setup and moves one task. *)
LEMMA TypeHandoff ==
  ASSUME EntryTypeOK, NEW w \in Workers, HandoffStep(w)
  PROVE  EntryTypeOK'
<1>1. UNCHANGED <<bot, ledgerKill, fills, position, hung, protecting, checking,
                  accepted, traded, left, wire, connected, sends, ops, faults>>
  BY DEF HandoffStep, HandoffSkips, HandoffBegins, HandoffClaims, HandoffSubmits, RecordAck,
         OutcomeUnknown, OutcomeRejected, OutcomeException, dbVars, loopVars, exchangeVars,
         countVars
<1>2. DataTypeOK'
  BY <1>1 DEF HandoffStep, HandoffSkips, HandoffBegins, HandoffClaims, HandoffSubmits,
         RecordAck, OutcomeUnknown, OutcomeRejected, OutcomeException, dbVars, EntryTypeOK,
         DataTypeOK, TaskTypeOK, OrderStates, Tasks
<1>3. TaskTypeOK'
  <2>1. w \in Tasks /\ TaskTypeOK /\ resp \in [Tasks -> {"none", "acknowledged", "filled"}]
    BY DEF Tasks, EntryTypeOK, TaskTypeOK
  <2> QED BY <2>1, TypeMoves
     DEF HandoffStep, HandoffSkips, HandoffBegins, HandoffClaims, HandoffSubmits, RecordAck,
         OutcomeUnknown, OutcomeRejected, OutcomeException, TaskTypeOK
<1> QED BY <1>1, <1>2, <1>3, TypeUnchanged DEF EntryTypeOK

LEMMA TypeExecute ==
  ASSUME EntryTypeOK, NEW x \in Executors, ExecuteStep(x)
  PROVE  EntryTypeOK'
<1>1. UNCHANGED <<bot, ledgerKill, fills, position, hung, protecting, checking,
                  accepted, traded, left, wire, connected, sends, ops, faults>>
  BY DEF ExecuteStep, ExecuteInserts, ExecuteAcks, ExecuteUnknown, ExecuteRejected,
         ExecuteAborts, dbVars, loopVars, exchangeVars, countVars
<1>2. DataTypeOK'
  BY <1>1 DEF ExecuteStep, ExecuteInserts, ExecuteAcks, ExecuteUnknown, ExecuteRejected,
         ExecuteAborts, dbVars, EntryTypeOK, DataTypeOK, TaskTypeOK, OrderStates, Tasks
<1>3. TaskTypeOK'
  <2>1. x \in Tasks /\ TaskTypeOK /\ resp \in [Tasks -> {"none", "acknowledged", "filled"}]
    BY DEF Tasks, EntryTypeOK, TaskTypeOK
  <2> QED BY <2>1, TypeMoves
     DEF ExecuteStep, ExecuteInserts, ExecuteAcks, ExecuteUnknown, ExecuteRejected,
         ExecuteAborts, TaskTypeOK
<1> QED BY <1>1, <1>2, <1>3, TypeUnchanged DEF EntryTypeOK

(* A task starts. *)
LEMMA TypeBegins ==
  ASSUME EntryTypeOK, NEW w \in Tasks, NEW s \in Setups,
         AutoHandoff(w, s) \/ Approve(w, s) \/ ExecuteBegins(w, s)
  PROVE  EntryTypeOK'
<1>1. UNCHANGED <<bot, ledgerKill, fills, position, hung, protecting, checking,
                  accepted, traded, left, wire, connected>>
  BY DEF AutoHandoff, Approve, ExecuteBegins, dbVars, loopVars, exchangeVars
<1>2. DataTypeOK'
  BY DEF AutoHandoff, Approve, ExecuteBegins, dbVars, EntryTypeOK, DataTypeOK
<1>3. TaskTypeOK'
  BY TypeMoves DEF AutoHandoff, Approve, ExecuteBegins, EntryTypeOK
<1>4. CountTypeOK'
  <2>1. CASE AutoHandoff(w, s) \/ Approve(w, s)
    BY <2>1, TypeUnchanged DEF AutoHandoff, Approve, countVars
  <2>2. CASE ExecuteBegins(w, s)
    BY <2>2 DEF ExecuteBegins, EntryTypeOK, CountTypeOK
  <2> QED BY <2>1, <2>2
<1> QED BY <1>1, <1>2, <1>3, <1>4, TypeUnchanged DEF EntryTypeOK

(* place_order: the exchange may take the order. *)
LEMMA TypePlace ==
  ASSUME EntryTypeOK, NEW w \in Tasks, PlaceOrder(w)
  PROVE  EntryTypeOK'
<1>1. target[w] \in Setups
  BY DEF EntryTypeOK, TaskTypeOK
<1>2. resp' \in [Tasks -> {"none", "acknowledged", "filled"}]
  BY DEF PlaceOrder, Accept, EntryTypeOK, TaskTypeOK
<1>3. ExchangeTypeOK'
  <2>1. CASE UNCHANGED <<resp, exchangeVars>>
    BY <2>1, TypeUnchanged DEF exchangeVars
  <2>2. ASSUME NEW k \in 0..Lots, Accept(w, k)
        PROVE  ExchangeTypeOK'
    <3>1. wire' \in Seq(Events)
      BY <1>1, <2>2, ReportsType, DeliverType DEF Accept, EntryTypeOK
    <3>2. k \in Nat /\ Lots - k \in Nat
      BY DisjointTasks
    <3> QED BY <1>1, <2>2, <3>1, <3>2 DEF Accept, EntryTypeOK, ExchangeTypeOK
  <2> QED BY <2>1, <2>2 DEF PlaceOrder
<1>4. TaskTypeOK'
  BY <1>2, TypeMoves DEF PlaceOrder, EntryTypeOK
<1>5. CountTypeOK'
  BY <1>1 DEF PlaceOrder, CountSend, EntryTypeOK, CountTypeOK
<1> QED BY <1>3, <1>4, <1>5, TypeUnchanged DEF PlaceOrder, EntryTypeOK, dbVars, loopVars

LEMMA TypeShared ==
  ASSUME EntryTypeOK, NEW w \in Tasks, TestPasses(w) \/ LookupOrder(w)
  PROVE  EntryTypeOK'
<1>1. DataTypeOK'
  BY DEF TestPasses, LookupOrder, dbVars, EntryTypeOK, DataTypeOK, TaskTypeOK, OrderStates
<1>2. TaskTypeOK'
  BY TypeMoves DEF TestPasses, LookupOrder, EntryTypeOK, TaskTypeOK
<1> QED BY <1>1, <1>2, TypeUnchanged
        DEF TestPasses, LookupOrder, loopVars, exchangeVars, countVars, EntryTypeOK

(* The loop stops, or runs POST /reconcile or establish(). *)
LEMMA TypeLoop ==
  ASSUME EntryTypeOK,
         \/ LoopHangs \/ ReconcileSelects \/ ReconcileCommits
         \/ \E s \in Setups : StreamProtects(s)
  PROVE  EntryTypeOK'
<1>1. UNCHANGED <<bot, ledgerKill, pc, target, manual, resp,
                  accepted, traded, left, wire, connected>>
  BY DEF LoopHangs, ReconcileSelects, ReconcileCommits, StreamProtects, taskVars, exchangeVars
<1>2. DataTypeOK'
  <2>1. CASE LoopHangs \/ ReconcileSelects
    BY <2>1, TypeUnchanged DEF LoopHangs, ReconcileSelects, dbVars
  <2>2. CASE ReconcileCommits
    BY <2>2 DEF ReconcileCommits, EntryTypeOK, DataTypeOK, OrderStates
  <2>3. ASSUME NEW s \in Setups, StreamProtects(s) PROVE DataTypeOK'
    <3>1. PICK result \in {"protected", "unprotected"} :
            position' = [position EXCEPT ![s].prot = IF Active(s) THEN result ELSE @]
      BY <2>3 DEF StreamProtects
    <3>2. position' \in [Setups -> Positions]
      BY <3>1 DEF EntryTypeOK, DataTypeOK, Positions
    <3> QED BY <2>3, <3>2 DEF StreamProtects, EntryTypeOK, DataTypeOK
  <2> QED BY <2>1, <2>2, <2>3
<1>3. LoopTypeOK'
  BY DEF LoopHangs, ReconcileSelects, ReconcileCommits, StreamProtects, EntryTypeOK, LoopTypeOK
<1>4. CountTypeOK'
  BY DEF LoopHangs, ReconcileSelects, ReconcileCommits, StreamProtects, EntryTypeOK,
         CountTypeOK, countVars
<1> QED BY <1>1, <1>2, <1>3, <1>4, TypeUnchanged DEF EntryTypeOK

LEMMA BoughtType ==
  ASSUME NEW p \in Positions
  PROVE  Bought(p) \in Positions
<1>1. p.base \in Nat /\ p.remaining \in Nat
  BY DEF Positions
<1>2. p.base + 1 \in Nat /\ p.remaining + 1 \in Nat
  BY <1>1
<1> QED BY <1>2 DEF Positions, Bought

(* The consumer of the stream takes the first event. *)
LEMMA TypeStream ==
  ASSUME EntryTypeOK, StreamStep
  PROVE  EntryTypeOK'
<1>1. Head(wire) \in Events /\ wire' \in Seq(Events)
  <2>1. wire # <<>> /\ wire \in Seq(Events) /\ wire' = Tail(wire)
    BY DEF StreamStep, StreamIgnores, StreamReports, StreamRepeats, StreamReady,
           EntryTypeOK, ExchangeTypeOK
  <2> QED BY <2>1
<1>2. UNCHANGED <<bot, ledgerKill, pc, target, manual, resp, accepted, traded, left,
                  connected, sends, ops, faults>>
  BY DEF StreamStep, StreamIgnores, StreamReports, StreamRepeats, taskVars, countVars
<1>3. ExchangeTypeOK'
  BY <1>1, <1>2 DEF EntryTypeOK, ExchangeTypeOK
<1>4. CASE StreamIgnores \/ StreamRepeats
  BY <1>2, <1>3, <1>4, TypeUnchanged
     DEF StreamIgnores, StreamRepeats, dbVars, loopVars, EntryTypeOK
<1>5. CASE StreamReports
  <2> DEFINE e == Head(wire)
  <2>1. e.setup \in Setups /\ e.trade \in Nat /\ e.status \in OrderStates
    BY <1>1 DEF Events, EventStates, OrderStates
  <2>2. Bought(position[e.setup]) \in Positions
    BY <2>1, BoughtType DEF EntryTypeOK, DataTypeOK
  <2>3. DataTypeOK'
    BY <1>5, <2>1, <2>2 DEF StreamReports, EntryTypeOK, DataTypeOK
  <2>4. LoopTypeOK'
    BY <1>5, <2>1 DEF StreamReports, EntryTypeOK, LoopTypeOK
  <2> QED BY <1>2, <1>3, <2>3, <2>4, TypeUnchanged DEF EntryTypeOK
<1> QED BY <1>4, <1>5 DEF StreamStep

(* The rest of the system writes rows, the exchange reports, things fail. *)
LEMMA TypeEnvironment ==
  ASSUME EntryTypeOK, Environment
  PROVE  EntryTypeOK'
<1>1. ASSUME NEW s \in Setups, Reject(s) \/ Invalidate(s) \/ PositionCloses(s)
      PROVE  EntryTypeOK'
  <2>1. DataTypeOK'
    BY <1>1 DEF Reject, Invalidate, SetupDropped, PositionCloses, EntryTypeOK, DataTypeOK,
                Positions
  <2> QED BY <1>1, <2>1, TypeUnchanged
          DEF Reject, Invalidate, SetupDropped, PositionCloses, EntryTypeOK, taskVars,
              loopVars, exchangeVars, countVars
<1>2. ASSUME NEW s \in Setups, ExchangeTrades(s) \/ ExchangeExpires(s) \/ CancelOrder(s)
      PROVE  EntryTypeOK'
  <2>1. \E events \in Seq(Events) : Deliver(events)
    <3>1. <<Event(s, 0, "expired")>> \in Seq(Events) /\ <<Event(s, 0, "canceled")>> \in Seq(Events)
      BY DEF Event, Events, EventStates
    <3>2. <<Event(s, traded[s] + 1, StatusAfter(left[s] - 1))>> \in Seq(Events)
      BY DEF Event, Events, EventStates, StatusAfter, EntryTypeOK, ExchangeTypeOK
    <3> QED BY <1>2, <3>1, <3>2 DEF ExchangeTrades, ExchangeExpires, CancelOrder
  <2>2. wire' \in Seq(Events)
    BY <2>1, DeliverType DEF EntryTypeOK
  <2>3. ExchangeTypeOK'
    <3>1. left[s] > 0 => left[s] - 1 \in Nat
      BY DEF EntryTypeOK, ExchangeTypeOK
    <3>2. CASE ExchangeTrades(s)
      BY <2>2, <3>1, <3>2 DEF ExchangeTrades, EntryTypeOK, ExchangeTypeOK
    <3>3. CASE ExchangeExpires(s) \/ CancelOrder(s)
      BY <2>2, <3>3 DEF ExchangeExpires, CancelOrder, EntryTypeOK, ExchangeTypeOK
    <3> QED BY <1>2, <3>2, <3>3
  <2>4. DataTypeOK'
    BY <1>2 DEF ExchangeTrades, ExchangeExpires, CancelOrder, EntryTypeOK, DataTypeOK, dbVars,
                OrderStates
  <2>5. CountTypeOK'
    BY <1>2 DEF ExchangeTrades, ExchangeExpires, CancelOrder, EntryTypeOK, CountTypeOK, countVars
  <2> QED BY <1>2, <2>3, <2>4, <2>5, TypeUnchanged
          DEF ExchangeTrades, ExchangeExpires, CancelOrder, EntryTypeOK, taskVars, loopVars
<1>3. CASE Operator
  <2>1. CountTypeOK'
    BY <1>3 DEF Operator, EntryTypeOK, CountTypeOK
  <2> QED BY <1>3, <2>1, BotType, TypeUnchanged
          DEF Operator, EntryTypeOK, dbVars, taskVars, loopVars, exchangeVars
<1>4. CASE Disconnect \/ Reconnect \/ Redeliver
  <2>1. wire' \in Seq(Events)
    <3>1. wire \in Seq(Events) /\ <<>> \in Seq(Events)
      BY DEF EntryTypeOK, ExchangeTypeOK
    <3>2. CASE Disconnect \/ Reconnect
      BY <3>1, <3>2 DEF Disconnect, Reconnect
    <3>3. ASSUME NEW i \in DOMAIN wire, wire' = Append(wire, wire[i])
          PROVE  wire' \in Seq(Events)
      BY <3>1, <3>3
    <3> QED BY <1>4, <3>2, <3>3 DEF Redeliver
  <2>2. ExchangeTypeOK'
    BY <1>4, <2>1 DEF Disconnect, Reconnect, Redeliver, EntryTypeOK, ExchangeTypeOK
  <2>3. CountTypeOK'
    <3>1. CASE Disconnect \/ Redeliver
      BY <3>1 DEF Disconnect, Redeliver, Fault, EntryTypeOK, CountTypeOK
    <3>2. CASE Reconnect
      BY <3>2, TypeUnchanged DEF Reconnect, countVars
    <3> QED BY <1>4, <3>1, <3>2
  <2> QED BY <1>4, <2>2, <2>3, TypeUnchanged
          DEF Disconnect, Reconnect, Redeliver, EntryTypeOK, dbVars, taskVars, loopVars
<1>5. CASE CrashRestart
  <2>1. TaskTypeOK'
    BY <1>5, SomeSetupIsSetup DEF CrashRestart, TaskTypeOK
  <2>2. LoopTypeOK'
    BY <1>5 DEF CrashRestart, LoopTypeOK
  <2>3. ExchangeTypeOK'
    <3>1. wire' = <<>> /\ connected' = FALSE
      BY <1>5 DEF CrashRestart
    <3>2. wire' \in Seq(Events) /\ connected' \in BOOLEAN
      <4>1. <<>> \in Seq(Events)
        OBVIOUS
      <4>2. wire' \in Seq(Events)
        BY <3>1, <4>1
      <4> QED BY <3>1, <4>2
    <3>3. UNCHANGED <<accepted, traded, left>>
      BY <1>5 DEF CrashRestart
    <3> QED BY <3>2, <3>3 DEF ExchangeTypeOK, EntryTypeOK
  <2>4. CountTypeOK'
    BY <1>5 DEF CrashRestart, Fault, EntryTypeOK, CountTypeOK
  <2> QED BY <1>5, <2>1, <2>2, <2>3, <2>4, TypeUnchanged DEF CrashRestart, EntryTypeOK, dbVars
<1> QED BY <1>1, <1>2, <1>3, <1>4, <1>5 DEF Environment

(* Every reachable state is well typed, for all values of the constants:    *)
(* rows, tasks, stream and counters of orchestrator.py:171-364 and          *)
(* binance_user_stream.py:341-548.                                          *)
THEOREM TypeCorrect == Spec => []EntryTypeOK
<1>1. EntryTypeOK /\ [Next]_vars => EntryTypeOK'
  <2> SUFFICES ASSUME EntryTypeOK, [Next]_vars PROVE EntryTypeOK' OBVIOUS
  <2>1. CASE Next
    <3>1. \A w \in Workers : w \in Tasks
      BY DEF Tasks
    <3>2. \A x \in Executors : x \in Tasks
      BY DEF Tasks
    <3> QED BY <2>1, <3>1, <3>2, TypeHandoff, TypeExecute, TypeBegins, TypePlace, TypeShared,
               TypeLoop, TypeStream, TypeEnvironment DEF Next, SharedStep
  <2>2. CASE UNCHANGED vars
    BY <2>2, TypeUnchanged
       DEF vars, EntryTypeOK, dbVars, taskVars, loopVars, exchangeVars, countVars
  <2> QED BY <2>1, <2>2
<1> QED BY <1>1, TypeInit, PTL DEF Spec

-----------------------------------------------------------------------------
(***************************************************************************)
(* At most one submission.  Most steps only move a task to where it owns   *)
(* nothing and take an existing row further; the steps that claim, submit, *)
(* insert and commit are looked at one by one.                             *)
(***************************************************************************)
RowAdvances(s) ==
  order'[s] = order[s] \/ (order[s] # "none" /\ order'[s] \notin {"none", "created"})

TaskReleases(w) ==
  \/ pc'[w] = pc[w] /\ target'[w] = target[w]
  \/ pc'[w] \in {"idle", "begin", "market"}
  \/ pc'[w] = "lookup" /\ order'[target'[w]] # "none"

LEMMA Releases ==
  ASSUME SubmissionInv, EntryTypeOK, sends' = sends,
         \A s \in Setups : RowAdvances(s),
         \A w \in Tasks : TaskReleases(w),
         \A s \in checking' : s \in checking \/ order'[s] # "none"
  PROVE  SubmissionInv'
<1> USE DEF RowAdvances, TaskReleases, Tasks
<1>0. /\ \A s \in Setups : order[s] # "none" => order'[s] # "none"
      /\ \A s \in Setups : order[s] = "none" => order'[s] = "none"
      /\ \A w \in Tasks : target[w] \in Setups
      /\ \A s \in checking : s \in Setups
  BY DEF EntryTypeOK, TaskTypeOK, LoopTypeOK
<1>1. RowOwned'
  BY <1>0 DEF SubmissionInv, RowOwned, OnTheWay
<1>2. OwnedByOne'
  BY DEF SubmissionInv, OwnedByOne, OnTheWay
<1>3. SentOnce'
  BY DEF SubmissionInv, SentOnce
<1>4. OneRowPerWindow'
  BY <1>0 DEF SubmissionInv, OneRowPerWindow, SameWindow
<1>5. UncommittedAlone'
  BY <1>0 DEF SubmissionInv, UncommittedAlone, HasInserted, SameWindow
<1>6. SelectedExist'
  BY <1>0 DEF SubmissionInv, SelectedExist
<1> QED BY <1>1, <1>2, <1>3, <1>4, <1>5, <1>6 DEF SubmissionInv

LEMMA SubmissionInit == Init => SubmissionInv
<1> SUFFICES ASSUME Init PROVE SubmissionInv OBVIOUS
<1>1. \A w \in Tasks : pc[w] = "idle"
  BY DEF Init
<1>2. \A s \in Setups : order[s] = "none" /\ sends[s] = 0
  BY DEF Init
<1>3. checking = {}
  BY DEF Init
<1> QED BY <1>1, <1>2, <1>3
        DEF SubmissionInv, RowOwned, OwnedByOne, SentOnce, OneRowPerWindow, UncommittedAlone,
            SelectedExist, OnTheWay, HasInserted, Tasks

LEMMA SubmissionHandoff ==
  ASSUME EntryTypeOK, SubmissionInv, NEW w \in Workers, HandoffStep(w)
  PROVE  SubmissionInv'
<1> DEFINE s == target[w]
<1>1. /\ w \in Tasks /\ s \in Setups
      /\ pc \in [Tasks -> {"idle", "begin", "market", "submit", "test", "place", "ack", "lookup"}]
      /\ target \in [Tasks -> Setups]
      /\ order \in [Setups -> OrderStates] /\ sends \in [Setups -> Nat]
  BY DEF Tasks, EntryTypeOK, TaskTypeOK, DataTypeOK, CountTypeOK
<1>2. UNCHANGED <<sends, checking>>
  BY DEF HandoffStep, HandoffSkips, HandoffBegins, HandoffClaims, HandoffSubmits, RecordAck,
         OutcomeUnknown, OutcomeRejected, OutcomeException, loopVars, countVars
<1>3. CASE \/ HandoffSkips(w) \/ HandoffBegins(w) \/ RecordAck(w)
           \/ OutcomeRejected(w) \/ OutcomeException(w)
  <2>1. \A v \in Tasks : TaskReleases(v)
    BY <1>1, <1>3 DEF TaskReleases, HandoffSkips, HandoffBegins, RecordAck, OutcomeRejected,
                      OutcomeException, Goto, Finish
  <2>2. RowAdvances(s)
    <3>1. CASE HandoffSkips(w) \/ HandoffBegins(w)
      BY <3>1 DEF RowAdvances, HandoffSkips, HandoffBegins, dbVars
    <3>2. CASE RecordAck(w)
      <4>1. order[s] # "none"
        BY <3>2 DEF RecordAck, Running, SubmissionInv, RowOwned
      <4>2. resp[w] \in {"acknowledged", "filled"}
        BY <1>1, <3>2 DEF RecordAck, EntryTypeOK, TaskTypeOK
      <4> QED BY <1>1, <3>2, <4>1, <4>2 DEF RecordAck, RowAdvances
    <3>3. CASE OutcomeRejected(w)
      BY <1>1, <3>3 DEF OutcomeRejected, RowAdvances
    <3>4. CASE OutcomeException(w)
      BY <1>1, <3>4 DEF OutcomeException, RowAdvances
    <3> QED BY <1>3, <3>1, <3>2, <3>3, <3>4
  <2>3. \A t \in Setups : t # s => RowAdvances(t)
    BY <1>1, <1>3 DEF RowAdvances, HandoffSkips, HandoffBegins, RecordAck, OutcomeRejected,
                      OutcomeException, dbVars
  <2> QED BY <1>2, <2>1, <2>2, <2>3, Releases
<1>4. CASE OutcomeUnknown(w)
  <2>1. order[s] # "none"
    BY <1>4 DEF OutcomeUnknown, Running, SubmissionInv, RowOwned, OnTheWay
  <2>2. order' = [order EXCEPT ![s] = "unknown"] /\ pc' = [pc EXCEPT ![w] = "lookup"]
        /\ target' = target
    BY <1>4 DEF OutcomeUnknown, Goto
  <2>3. \A v \in Tasks : TaskReleases(v)
    BY <1>1, <2>2 DEF TaskReleases
  <2>4. \A t \in Setups : RowAdvances(t)
    BY <1>1, <2>1, <2>2 DEF RowAdvances
  <2> QED BY <1>2, <2>3, <2>4, Releases
<1>5. CASE HandoffClaims(w)
  <2>1. /\ pc[w] = "market" /\ order[s] = "none"
        /\ pc' = [pc EXCEPT ![w] = "submit"] /\ target' = target
        /\ order' = [order EXCEPT ![s] = "created"]
    BY <1>5 DEF HandoffClaims, Running, Goto
  <2>2. \A t \in Setups : SameWindow(s, t) => order[t] = "none" /\ ~Uncommitted(t)
    BY <1>5 DEF HandoffClaims, RiskOK, NoOrderInWindow
  <2>3. \A v \in Workers : pc[v] \in OnTheWay => target[v] # s
    BY <2>1 DEF SubmissionInv, RowOwned
  <2>4. sends[s] = 0
    BY <1>1, <2>1 DEF SubmissionInv, SentOnce
  <2>5. \A x \in Executors : HasInserted(x) => ~SameWindow(target[x], s)
    BY <1>1, <2>2 DEF Uncommitted, Holds, HasInserted, SameWindow, Tasks
  <2>6. w \notin Executors
    BY DisjointTasks
  <2>7. RowOwned'
    BY <1>1, <1>2, <2>1, <2>3, <2>4 DEF SubmissionInv, RowOwned, OnTheWay, Tasks
  <2>8. OwnedByOne'
    BY <1>1, <2>1, <2>3 DEF SubmissionInv, OwnedByOne, OnTheWay, Tasks
  <2>9. SentOnce'
    BY <1>1, <1>2, <2>1, <2>4 DEF SubmissionInv, SentOnce
  <2>10. OneRowPerWindow'
    BY <1>1, <2>1, <2>2 DEF SubmissionInv, OneRowPerWindow, SameWindow
  <2>11. UncommittedAlone'
    BY <1>1, <2>1, <2>5, <2>6 DEF SubmissionInv, UncommittedAlone, HasInserted, SameWindow, Tasks
  <2>12. SelectedExist'
    BY <1>1, <1>2, <2>1 DEF SubmissionInv, SelectedExist, EntryTypeOK, LoopTypeOK
  <2> QED BY <2>7, <2>8, <2>9, <2>10, <2>11, <2>12 DEF SubmissionInv
<1>6. CASE HandoffSubmits(w)
  <2>1. /\ pc[w] = "submit" /\ order[s] # "none" /\ sends[s] = 0
        /\ pc' = [pc EXCEPT ![w] = "test"] /\ target' = target
        /\ order' = [order EXCEPT ![s] = "submitting"]
    BY <1>6 DEF HandoffSubmits, Running, Goto, SubmissionInv, RowOwned, OnTheWay
  <2>2. w \notin Executors
    BY DisjointTasks
  <2>3. RowOwned'
    BY <1>1, <1>2, <2>1 DEF SubmissionInv, RowOwned, OnTheWay, Tasks
  <2>4. OwnedByOne'
    BY <1>1, <2>1 DEF SubmissionInv, OwnedByOne, OnTheWay, Tasks
  <2>5. SentOnce'
    BY <1>1, <1>2, <2>1 DEF SubmissionInv, SentOnce
  <2>6. OneRowPerWindow'
    BY <1>1, <2>1 DEF SubmissionInv, OneRowPerWindow, SameWindow
  <2>7. UncommittedAlone'
    BY <1>1, <2>1, <2>2 DEF SubmissionInv, UncommittedAlone, HasInserted, SameWindow, Tasks
  <2>8. SelectedExist'
    BY <1>1, <1>2, <2>1 DEF SubmissionInv, SelectedExist, EntryTypeOK, LoopTypeOK
  <2> QED BY <2>3, <2>4, <2>5, <2>6, <2>7, <2>8 DEF SubmissionInv
<1> QED BY <1>3, <1>4, <1>5, <1>6 DEF HandoffStep

LEMMA SubmissionExecute ==
  ASSUME EntryTypeOK, SubmissionInv, NEW x \in Executors, ExecuteStep(x)
  PROVE  SubmissionInv'
<1> DEFINE s == target[x]
<1>1. /\ x \in Tasks /\ s \in Setups /\ x \notin Workers
      /\ pc \in [Tasks -> {"idle", "begin", "market", "submit", "test", "place", "ack", "lookup"}]
      /\ target \in [Tasks -> Setups]
      /\ order \in [Setups -> OrderStates] /\ sends \in [Setups -> Nat]
  BY DisjointTasks DEF Tasks, EntryTypeOK, TaskTypeOK, DataTypeOK, CountTypeOK
<1>2. UNCHANGED <<sends, checking>>
  BY DEF ExecuteStep, ExecuteInserts, ExecuteAcks, ExecuteUnknown, ExecuteRejected,
         ExecuteAborts, loopVars, countVars
<1>3. CASE ExecuteAborts(x)
  BY <1>1, <1>2, <1>3, Releases DEF ExecuteAborts, Finish, dbVars, TaskReleases, RowAdvances
<1>4. CASE ExecuteInserts(x)
  <2>1. /\ pc[x] = "market" /\ pc' = [pc EXCEPT ![x] = "test"] /\ target' = target
        /\ order' = order
    BY <1>4 DEF ExecuteInserts, Running, Goto, dbVars
  <2>2. \A t \in Setups : SameWindow(s, t) => order[t] = "none" /\ ~Uncommitted(t)
    BY <1>4 DEF ExecuteInserts, RiskOK, NoOrderInWindow
  <2>3. \A y \in Executors : HasInserted(y) => ~SameWindow(target[y], s)
    BY <1>1, <2>2 DEF Uncommitted, Holds, HasInserted, SameWindow, Tasks
  <2>4. UncommittedAlone'
    BY <1>1, <2>1, <2>2, <2>3 DEF SubmissionInv, UncommittedAlone, HasInserted, SameWindow, Tasks
  <2>5. RowOwned' /\ OwnedByOne'
    BY <1>1, <1>2, <2>1 DEF SubmissionInv, RowOwned, OwnedByOne, OnTheWay, Tasks
  <2>6. SentOnce' /\ OneRowPerWindow' /\ SelectedExist'
    BY <1>2, <2>1 DEF SubmissionInv, SentOnce, OneRowPerWindow, SelectedExist, SameWindow
  <2> QED BY <2>4, <2>5, <2>6 DEF SubmissionInv
<1>5. CASE ExecuteAcks(x) \/ ExecuteUnknown(x) \/ ExecuteRejected(x)
  <2>1. PICK status \in {"acknowledged", "unknown", "rejected"} :
          order' = [order EXCEPT ![s] = status]
    BY <1>5 DEF ExecuteAcks, ExecuteUnknown, ExecuteRejected
  <2>2. /\ HasInserted(x)
        /\ \/ pc' = [pc EXCEPT ![x] = "lookup"] /\ target' = target
           \/ pc' = [pc EXCEPT ![x] = "idle"] /\ target' = [target EXCEPT ![x] = SomeSetup]
    BY <1>5 DEF ExecuteAcks, ExecuteUnknown, ExecuteRejected, Running, HasInserted, Goto, Finish
  <2>3. \A t \in Setups : SameWindow(s, t) => order[t] = "none"
    BY <2>2 DEF SubmissionInv, UncommittedAlone
  <2>4. \A y \in Executors : HasInserted(y) /\ y # x => ~SameWindow(target[y], s)
    BY <2>2 DEF SubmissionInv, UncommittedAlone
  <2>5. order[s] = "none" /\ sends[s] = 0
    BY <1>1, <2>3 DEF SubmissionInv, SentOnce, SameWindow
  <2>6. \A w \in Workers : w \in Tasks /\ pc'[w] = pc[w] /\ target'[w] = target[w]
    BY <1>1, <2>2 DEF Tasks
  <2>7. RowOwned'
    BY <1>1, <1>2, <2>1, <2>5, <2>6 DEF SubmissionInv, RowOwned, OnTheWay
  <2>8. OwnedByOne'
    BY <2>6 DEF SubmissionInv, OwnedByOne, OnTheWay
  <2>9. SentOnce'
    BY <1>1, <1>2, <2>1 DEF SubmissionInv, SentOnce
  <2>10. OneRowPerWindow'
    BY <1>1, <2>1, <2>3 DEF SubmissionInv, OneRowPerWindow, SameWindow
  <2>11. UncommittedAlone'
    BY <1>1, <2>1, <2>2, <2>4 DEF SubmissionInv, UncommittedAlone, HasInserted, SameWindow, Tasks
  <2>12. SelectedExist'
    BY <1>1, <1>2, <2>1 DEF SubmissionInv, SelectedExist, EntryTypeOK, LoopTypeOK
  <2> QED BY <2>7, <2>8, <2>9, <2>10, <2>11, <2>12 DEF SubmissionInv
<1> QED BY <1>3, <1>4, <1>5 DEF ExecuteStep

LEMMA SubmissionShared ==
  ASSUME EntryTypeOK, SubmissionInv, NEW w \in Tasks, SharedStep(w)
  PROVE  SubmissionInv'
<1> DEFINE s == target[w]
<1>1. /\ s \in Setups
      /\ pc \in [Tasks -> {"idle", "begin", "market", "submit", "test", "place", "ack", "lookup"}]
      /\ target \in [Tasks -> Setups]
      /\ order \in [Setups -> OrderStates] /\ sends \in [Setups -> Nat]
  BY DEF Tasks, EntryTypeOK, TaskTypeOK, DataTypeOK, CountTypeOK
<1>2. UNCHANGED checking
  BY DEF SharedStep, TestPasses, PlaceOrder, LookupOrder, loopVars
<1>3. CASE LookupOrder(w)
  <2>1. UNCHANGED sends
    BY <1>3 DEF LookupOrder, countVars
  <2>2. order[s] # "none" /\ pc[w] = "lookup"
    BY <1>3 DEF LookupOrder, Running, SubmissionInv, RowOwned, UncommittedAlone, Tasks
  <2>3. \A t \in Setups : RowAdvances(t)
    BY <1>1, <1>3, <2>2 DEF LookupOrder, RowAdvances
  <2>4. \A v \in Tasks : TaskReleases(v)
    BY <1>1, <1>3 DEF LookupOrder, Finish, TaskReleases
  <2> QED BY <1>2, <2>1, <2>3, <2>4, Releases
<1>4. CASE TestPasses(w)
  <2>1. /\ pc[w] = "test" /\ pc' = [pc EXCEPT ![w] = "place"] /\ target' = target
        /\ order' = order /\ sends' = sends
    BY <1>4 DEF TestPasses, Goto, dbVars, countVars
  <2>2. RowOwned' /\ OwnedByOne'
    BY <1>1, <2>1 DEF SubmissionInv, RowOwned, OwnedByOne, OnTheWay, Tasks
  <2>3. UncommittedAlone'
    BY <1>1, <2>1 DEF SubmissionInv, UncommittedAlone, HasInserted, SameWindow, Tasks
  <2>4. SentOnce' /\ OneRowPerWindow' /\ SelectedExist'
    BY <1>2, <2>1 DEF SubmissionInv, SentOnce, OneRowPerWindow, SelectedExist, SameWindow
  <2> QED BY <2>2, <2>3, <2>4 DEF SubmissionInv
<1>5. CASE PlaceOrder(w)
  <2>1. /\ pc[w] = "place" /\ pc' = [pc EXCEPT ![w] = "ack"] /\ target' = target
        /\ order' = order
    BY <1>5 DEF PlaceOrder, Goto, dbVars
  <2>2. sends' = IF w \in Workers THEN [sends EXCEPT ![s] = @ + 1] ELSE sends
    BY <1>5 DEF PlaceOrder, CountSend
  <2>3. w \in Workers => order[s] \notin {"none", "created"} /\ sends[s] = 0
    BY <2>1 DEF SubmissionInv, RowOwned, OnTheWay
  <2>4. \A v \in Workers : v # w /\ pc[v] \in OnTheWay /\ w \in Workers => target[v] # s
    BY <2>1 DEF SubmissionInv, OwnedByOne, OnTheWay
  <2>5. RowOwned'
    BY <1>1, <2>1, <2>2, <2>3, <2>4 DEF SubmissionInv, RowOwned, OnTheWay, Tasks
  <2>6. OwnedByOne'
    BY <1>1, <2>1 DEF SubmissionInv, OwnedByOne, OnTheWay, Tasks
  <2>7. SentOnce'
    BY <1>1, <2>1, <2>2, <2>3 DEF SubmissionInv, SentOnce
  <2>8. UncommittedAlone'
    BY <1>1, <2>1 DEF SubmissionInv, UncommittedAlone, HasInserted, SameWindow, Tasks
  <2>9. OneRowPerWindow' /\ SelectedExist'
    BY <1>2, <2>1 DEF SubmissionInv, OneRowPerWindow, SelectedExist, SameWindow
  <2> QED BY <2>5, <2>6, <2>7, <2>8, <2>9 DEF SubmissionInv
<1> QED BY <1>3, <1>4, <1>5 DEF SharedStep

(* The loop, the stream and the environment only take existing rows further *)
(* or leave the order table alone.                                          *)
RestOfNext ==
  \/ LoopHangs \/ StreamStep \/ ReconcileSelects \/ ReconcileCommits \/ Environment
  \/ \E s \in Setups : StreamProtects(s)
  \/ \E w \in Workers, s \in Setups : AutoHandoff(w, s) \/ Approve(w, s)
  \/ \E x \in Executors, s \in Setups : ExecuteBegins(x, s)

LEMMA RestAdvances ==
  ASSUME EntryTypeOK, SubmissionInv, RestOfNext
  PROVE  sends' = sends /\ \A s \in Setups : RowAdvances(s)
<1>1. sends' = sends
  BY DEF RestOfNext, LoopHangs, StreamStep, StreamIgnores, StreamReports, StreamRepeats, ReconcileSelects,
         ReconcileCommits, StreamProtects, AutoHandoff, Approve, ExecuteBegins, Environment,
         Reject, Invalidate, SetupDropped, PositionCloses, ExchangeTrades, ExchangeExpires,
         CancelOrder, Operator, Disconnect, Reconnect, Redeliver, CrashRestart, countVars
<1>2. \A s \in Setups : RowAdvances(s)
  <2> SUFFICES ASSUME NEW s \in Setups PROVE RowAdvances(s) OBVIOUS
  <2>0. order \in [Setups -> OrderStates]
    BY DEF EntryTypeOK, DataTypeOK
  <2>1. CASE StreamReports
    <3>1. wire # <<>> /\ wire \in Seq(Events)
      BY <2>1 DEF StreamReports, StreamReady, EntryTypeOK, ExchangeTypeOK
    <3>2. Head(wire) \in Events
      BY <3>1
    <3>3. Head(wire).status \notin {"none", "created"}
      BY <3>2 DEF Events, EventStates
    <3>4. /\ order[Head(wire).setup] # "none"
          /\ order' = [order EXCEPT ![Head(wire).setup] = Head(wire).status]
      BY <2>1 DEF StreamReports
    <3> QED BY <2>0, <3>3, <3>4 DEF RowAdvances
  <2>2. CASE ReconcileCommits
    BY <2>2 DEF ReconcileCommits, RowAdvances, SubmissionInv, SelectedExist
  <2>3. ASSUME NEW t \in Setups, CancelOrder(t) PROVE RowAdvances(s)
    BY <2>0, <2>3 DEF CancelOrder, RowAdvances
  <2>4. order' = order \/ StreamReports \/ ReconcileCommits \/ \E t \in Setups : CancelOrder(t)
    BY DEF RestOfNext, LoopHangs, StreamStep, StreamIgnores, StreamRepeats, ReconcileSelects,
           StreamProtects, AutoHandoff, Approve, ExecuteBegins, Environment,
           Reject, Invalidate, SetupDropped, PositionCloses, ExchangeTrades, ExchangeExpires,
           Operator, Disconnect, Reconnect, Redeliver, CrashRestart, dbVars
  <2> QED BY <2>1, <2>2, <2>3, <2>4 DEF RowAdvances
<1> QED BY <1>1, <1>2

LEMMA SubmissionRest ==
  ASSUME EntryTypeOK, SubmissionInv, RestOfNext
  PROVE  SubmissionInv'
<1>1. \A w \in Tasks : TaskReleases(w)
  <2>1. CASE UNCHANGED <<pc, target>>
    BY <2>1 DEF TaskReleases
  <2>2. CASE CrashRestart
    BY <2>2 DEF CrashRestart, TaskReleases
  <2>3. ASSUME NEW w \in Tasks, NEW s \in Setups, NEW label \in {"begin", "market"},
               NEW approved \in BOOLEAN, Begin(w, s, label, approved)
        PROVE  \A v \in Tasks : TaskReleases(v)
    BY <2>3 DEF Begin, TaskReleases, EntryTypeOK, TaskTypeOK
  <2>4. ASSUME NEW w \in Workers, NEW s \in Setups, AutoHandoff(w, s) \/ Approve(w, s)
        PROVE  \A v \in Tasks : TaskReleases(v)
    BY <2>3, <2>4 DEF AutoHandoff, Approve, Tasks
  <2>5. ASSUME NEW x \in Executors, NEW s \in Setups, ExecuteBegins(x, s)
        PROVE  \A v \in Tasks : TaskReleases(v)
    BY <2>3, <2>5 DEF ExecuteBegins, Tasks
  <2>6. \/ UNCHANGED <<pc, target>> \/ CrashRestart
        \/ \E w \in Workers, s \in Setups : AutoHandoff(w, s) \/ Approve(w, s)
        \/ \E x \in Executors, s \in Setups : ExecuteBegins(x, s)
    BY DEF RestOfNext, LoopHangs, StreamStep, StreamIgnores, StreamReports, StreamRepeats, ReconcileSelects,
           ReconcileCommits, StreamProtects, Environment,
           Reject, Invalidate, SetupDropped, PositionCloses, ExchangeTrades, ExchangeExpires,
           CancelOrder, Operator, Disconnect, Reconnect, Redeliver, taskVars
  <2> QED BY <2>1, <2>2, <2>4, <2>5, <2>6
<1>2. \A s \in checking' : s \in checking \/ order'[s] # "none"
  <2>1. CASE ReconcileSelects
    BY <2>1 DEF ReconcileSelects, dbVars
  <2>2. CASE checking' \subseteq checking
    BY <2>2
  <2>3. checking' \subseteq checking \/ ReconcileSelects
    BY DEF RestOfNext, LoopHangs, StreamStep, StreamIgnores, StreamReports, StreamRepeats,
           ReconcileCommits, StreamProtects, AutoHandoff, Approve, ExecuteBegins, Environment,
           Reject, Invalidate, SetupDropped, PositionCloses, ExchangeTrades, ExchangeExpires,
           CancelOrder, Operator, Disconnect, Reconnect, Redeliver, CrashRestart, loopVars
  <2> QED BY <2>1, <2>2, <2>3
<1> QED BY <1>1, <1>2, RestAdvances, Releases

LEMMA SubmissionStep ==
  EntryTypeOK /\ SubmissionInv /\ [Next]_vars => SubmissionInv'
<1> SUFFICES ASSUME EntryTypeOK, SubmissionInv, [Next]_vars PROVE SubmissionInv' OBVIOUS
<1>1. CASE Next
  BY <1>1, SubmissionHandoff, SubmissionExecute, SubmissionShared, SubmissionRest
     DEF Next, RestOfNext
<1>2. CASE UNCHANGED vars
  BY <1>2, Releases DEF vars, dbVars, taskVars, loopVars, countVars, RowAdvances, TaskReleases
<1> QED BY <1>1, <1>2

(* The strengthening holds in every reachable state.                        *)
THEOREM SubmissionInvariant == Spec => []SubmissionInv
BY TypeCorrect, SubmissionInit, SubmissionStep, PTL DEF Spec

(* However many handoffs, executions, stream events and reconciliations     *)
(* overlap, fail or are lost in a restart, no setup and no window is        *)
(* submitted twice by handoff (orchestrator.py:171-364).                    *)
THEOREM OneSubmission == Spec => []AtMostOneSubmission
<1>1. SubmissionInv => AtMostOneSubmission
  BY DEF SubmissionInv, SentOnce, OneRowPerWindow, AtMostOneSubmission
<1> QED BY <1>1, SubmissionInvariant, PTL

-----------------------------------------------------------------------------
(***************************************************************************)
(* EntryExecution implements EntryOnce: three kinds of steps take a claim  *)
(* on, every other step leaves it alone.                                   *)
(***************************************************************************)
LEMMA ClaimKept ==
  ASSUME sends' = sends, \A s \in Setups : RowAdvances(s)
  PROVE  UNCHANGED claimed
BY DEF claimed, RowAdvances

LEMMA StepClaims ==
  ASSUME EntryTypeOK, SubmissionInv, NEW s \in Setups, NEW status \in OrderStates \ {"none"},
         \A t \in Setups : SameWindow(s, t) => order[t] = "none",
         order' = [order EXCEPT ![s] = status], sends' = sends
  PROVE  Promise!Claim(s)
<1>1. order \in [Setups -> OrderStates] /\ sends \in [Setups -> Nat]
  BY DEF EntryTypeOK, DataTypeOK, CountTypeOK
<1>2. \A t \in Setups : SameWindow(s, t) => claimed[t] = "free"
  BY <1>1 DEF claimed, SubmissionInv, SentOnce
<1>3. claimed' = [claimed EXCEPT ![s] = "claimed"]
  BY <1>1, <1>2 DEF claimed, SameWindow
<1> QED BY <1>2, <1>3 DEF Promise!Claim, SameWindow

LEMMA StepSends ==
  ASSUME EntryTypeOK, SubmissionInv, NEW w \in Workers, PlaceOrder(w)
  PROVE  Promise!Send(target[w])
<1> DEFINE s == target[w]
<1>1. s \in Setups /\ sends \in [Setups -> Nat] /\ order' = order
  BY DEF EntryTypeOK, TaskTypeOK, CountTypeOK, Tasks, PlaceOrder, dbVars
<1>2. order[s] # "none" /\ sends[s] = 0
  BY DEF PlaceOrder, SubmissionInv, RowOwned, OnTheWay
<1>3. sends' = [sends EXCEPT ![s] = @ + 1]
  BY DEF PlaceOrder, CountSend
<1>4. claimed[s] = "claimed"
  BY <1>1, <1>2 DEF claimed
<1>5. claimed' = [claimed EXCEPT ![s] = "sent"]
  <2>1. sends'[s] = 1 /\ \A t \in Setups : t # s => sends'[t] = sends[t]
    BY <1>1, <1>2, <1>3
  <2>2. \A t \in Setups : claimed'[t] = IF t = s THEN "sent" ELSE claimed[t]
    BY <1>1, <2>1 DEF claimed
  <2>3. claimed = [t \in Setups |-> claimed[t]] /\ claimed' = [t \in Setups |-> claimed'[t]]
    BY DEF claimed
  <2> QED BY <2>2, <2>3
<1> QED BY <1>4, <1>5 DEF Promise!Send

LEMMA HandoffImplements ==
  ASSUME EntryTypeOK, SubmissionInv, NEW w \in Workers, HandoffStep(w)
  PROVE  UNCHANGED claimed \/ Promise!Claim(target[w])
<1> DEFINE s == target[w]
<1>1. s \in Setups /\ order \in [Setups -> OrderStates] /\ w \in Tasks
  BY DEF EntryTypeOK, TaskTypeOK, DataTypeOK, Tasks
<1>2. UNCHANGED sends
  BY DEF HandoffStep, HandoffSkips, HandoffBegins, HandoffClaims, HandoffSubmits, RecordAck,
         OutcomeUnknown, OutcomeRejected, OutcomeException, countVars
<1>3. CASE HandoffClaims(w)
  <2>1. order' = [order EXCEPT ![s] = "created"]
    BY <1>3 DEF HandoffClaims
  <2>2. \A t \in Setups : SameWindow(s, t) => order[t] = "none"
    BY <1>3 DEF HandoffClaims, RiskOK, NoOrderInWindow
  <2>3. "created" \in OrderStates \ {"none"}
    BY DEF OrderStates
  <2> QED BY <1>1, <1>2, <2>1, <2>2, <2>3, StepClaims
<1>4. CASE HandoffSkips(w) \/ HandoffBegins(w)
  BY <1>2, <1>4, ClaimKept DEF HandoffSkips, HandoffBegins, RowAdvances, dbVars
<1>5. CASE OutcomeRejected(w) \/ OutcomeException(w)
  BY <1>1, <1>2, <1>5, ClaimKept DEF OutcomeRejected, OutcomeException, RowAdvances
<1>6. CASE HandoffSubmits(w) \/ RecordAck(w) \/ OutcomeUnknown(w)
  <2>1. order[s] # "none"
    BY <1>6 DEF HandoffSubmits, RecordAck, OutcomeUnknown, Running, SubmissionInv, RowOwned,
                OnTheWay
  <2>2. resp[w] \in {"none", "acknowledged", "filled"}
    BY <1>1 DEF EntryTypeOK, TaskTypeOK
  <2>3. PICK status \in {"submitting", "unknown", "acknowledged", "filled"} :
          order' = [order EXCEPT ![s] = status]
    BY <1>6, <2>2 DEF HandoffSubmits, RecordAck, OutcomeUnknown
  <2> QED BY <1>1, <1>2, <2>1, <2>3, ClaimKept DEF RowAdvances
<1> QED BY <1>3, <1>4, <1>5, <1>6 DEF HandoffStep

LEMMA ExecuteImplements ==
  ASSUME EntryTypeOK, SubmissionInv, NEW x \in Executors, ExecuteStep(x)
  PROVE  UNCHANGED claimed \/ Promise!Claim(target[x])
<1> DEFINE s == target[x]
<1>1. s \in Setups /\ x \in Tasks
  BY DEF EntryTypeOK, TaskTypeOK, Tasks
<1>2. UNCHANGED sends
  BY DEF ExecuteStep, ExecuteInserts, ExecuteAcks, ExecuteUnknown, ExecuteRejected,
         ExecuteAborts, countVars
<1>3. CASE ExecuteInserts(x) \/ ExecuteAborts(x)
  BY <1>2, <1>3, ClaimKept DEF ExecuteInserts, ExecuteAborts, RowAdvances, dbVars
<1>4. CASE ExecuteAcks(x) \/ ExecuteUnknown(x) \/ ExecuteRejected(x)
  <2>1. PICK status \in {"acknowledged", "unknown", "rejected"} :
          order' = [order EXCEPT ![s] = status]
    BY <1>4 DEF ExecuteAcks, ExecuteUnknown, ExecuteRejected
  <2>2. \A t \in Setups : SameWindow(s, t) => order[t] = "none"
    BY <1>4 DEF ExecuteAcks, ExecuteUnknown, ExecuteRejected, Running, HasInserted,
                SubmissionInv, UncommittedAlone
  <2>3. status \in OrderStates \ {"none"}
    BY DEF OrderStates
  <2> QED BY <1>1, <1>2, <2>1, <2>2, <2>3, StepClaims
<1> QED BY <1>3, <1>4 DEF ExecuteStep

LEMMA SharedImplements ==
  ASSUME EntryTypeOK, SubmissionInv, NEW w \in Tasks, SharedStep(w)
  PROVE  UNCHANGED claimed \/ Promise!Send(target[w])
<1>1. CASE TestPasses(w)
  BY <1>1, ClaimKept DEF TestPasses, RowAdvances, dbVars, countVars
<1>2. CASE PlaceOrder(w)
  <2>1. w \notin Workers => sends' = sends
    BY <1>2 DEF PlaceOrder, CountSend
  <2> QED BY <1>2, <2>1, ClaimKept, StepSends DEF PlaceOrder, RowAdvances, dbVars
<1>3. CASE LookupOrder(w)
  <2>1. order[target[w]] # "none"
    BY <1>3 DEF LookupOrder, Running, SubmissionInv, RowOwned, UncommittedAlone, Tasks
  <2> QED BY <1>3, <2>1, ClaimKept
          DEF LookupOrder, RowAdvances, EntryTypeOK, DataTypeOK, countVars
<1> QED BY <1>1, <1>2, <1>3 DEF SharedStep

(* Order entry as written, with its awaits, locks, handlers, stream,        *)
(* reconciliation and restarts, implements the promise of EntryOnce: one    *)
(* claim per setup and window, one submission per claim, none taken back.   *)
THEOREM EntryImplementsPromise == Spec => SubmitsOnce
<1>1. Init => Promise!Init
  BY DEF Init, Promise!Init, claimed
<1>2. EntryTypeOK /\ SubmissionInv /\ [Next]_vars => [Promise!Next]_claimed
  <2> SUFFICES ASSUME EntryTypeOK, SubmissionInv, [Next]_vars
               PROVE  UNCHANGED claimed \/ Promise!Next
    OBVIOUS
  <2>1. CASE UNCHANGED vars
    BY <2>1 DEF vars, dbVars, countVars, claimed
  <2>2. \A w \in Tasks : target[w] \in Setups
    BY DEF EntryTypeOK, TaskTypeOK
  <2>3. ASSUME NEW w \in Workers, HandoffStep(w) PROVE UNCHANGED claimed \/ Promise!Next
    BY <2>2, <2>3, HandoffImplements DEF Promise!Next, Tasks
  <2>4. ASSUME NEW x \in Executors, ExecuteStep(x) PROVE UNCHANGED claimed \/ Promise!Next
    BY <2>2, <2>4, ExecuteImplements DEF Promise!Next, Tasks
  <2>5. ASSUME NEW w \in Tasks, SharedStep(w) PROVE UNCHANGED claimed \/ Promise!Next
    BY <2>2, <2>5, SharedImplements DEF Promise!Next
  <2>6. CASE RestOfNext
    BY <2>6, RestAdvances, ClaimKept
  <2> QED BY <2>1, <2>3, <2>4, <2>5, <2>6 DEF Next, RestOfNext
<1> QED BY <1>1, <1>2, TypeCorrect, SubmissionInvariant, PTL DEF Spec, SubmitsOnce, Promise!Spec

(* After an emergency stop (bot.py:307-317) no sequence of configuration,   *)
(* start, resume and stop requests makes the bot run again while the        *)
(* runtime kill switch is set.                                              *)
THEOREM EmergencyStopIsFinal == Spec => []EmergencyStopHolds
<1>1. Init => EmergencyStopHolds
  BY DEF Init, RunningBot, DefaultBot, EmergencyStopHolds
<1>2. EntryTypeOK /\ EmergencyStopHolds /\ [Next]_vars => EmergencyStopHolds'
  <2> SUFFICES ASSUME EntryTypeOK, EmergencyStopHolds, [Next]_vars PROVE EmergencyStopHolds'
    OBVIOUS
  <2>1. CASE BotNext
    <3>1. bot \in BotRow
      BY DEF EntryTypeOK, BotTypeOK
    <3>2. CASE PutConfig \/ Stop \/ Pause
      BY <3>1, <3>2 DEF PutConfig, Stop, Pause, EmergencyStopHolds, BotRow
    <3>3. CASE StartTransition
      BY <3>1, <3>3 DEF StartTransition, EnsureStartAllowed, EmergencyStopHolds, BotRow
    <3>4. CASE EmergencyStop
      BY <3>1, <3>4 DEF EmergencyStop, EmergencyStopHolds, BotRow
    <3>5. CASE EnableKill \/ DisableKill
      BY <3>5 DEF EnableKill, DisableKill, SetKill, EmergencyStopHolds
    <3> QED BY <2>1, <3>2, <3>3, <3>4, <3>5 DEF BotNext
  <2>2. CASE UNCHANGED bot
    BY <2>2 DEF EmergencyStopHolds
  <2>3. BotNext \/ UNCHANGED bot
    BY DEF Next, vars, AutoHandoff, Approve, ExecuteBegins, SharedStep, TestPasses, PlaceOrder,
           LookupOrder, HandoffStep, HandoffSkips, HandoffBegins, HandoffClaims, HandoffSubmits,
           RecordAck, OutcomeUnknown, OutcomeRejected, OutcomeException, ExecuteStep,
           ExecuteInserts, ExecuteAcks, ExecuteUnknown, ExecuteRejected, ExecuteAborts,
           LoopHangs, StreamStep, StreamIgnores, StreamReports, StreamRepeats, ReconcileSelects,
           ReconcileCommits, StreamProtects, Environment, Reject, Invalidate, SetupDropped,
           PositionCloses, ExchangeTrades, ExchangeExpires, CancelOrder, Operator, Disconnect,
           Reconnect, Redeliver, CrashRestart
  <2> QED BY <2>1, <2>2, <2>3
<1> QED BY <1>1, <1>2, TypeCorrect, PTL DEF Spec
-----------------------------------------------------------------------------
(***************************************************************************)
(* Fills.  An event on the wire names a trade the exchange has made; a     *)
(* fill row is one, so a trade that is booked twice is seen by its key.    *)
(***************************************************************************)
Reported(events, made) ==
  \A i \in DOMAIN events : events[i].trade \in 0..made[events[i].setup]

FillsInv ==
  /\ FillsCountOnce
  /\ \A s \in Setups : position[s].status = "none" => position[s].base = 0
  /\ Reported(wire, traded)

MadeMore == \A s \in Setups : traded'[s] \in Nat /\ traded[s] <= traded'[s]

(* What was reported stays reported; a delivery adds what is.               *)
LEMMA DeliversReported ==
  ASSUME EntryTypeOK, Reported(wire, traded), MadeMore, NEW events \in Seq(Events),
         Reported(events, traded'), Deliver(events)
  PROVE  Reported(wire', traded')
<1>1. wire \in Seq(Events) /\ \A i \in DOMAIN wire : wire[i].setup \in Setups
  <2>1. wire \in Seq(Events)
    BY DEF EntryTypeOK, ExchangeTypeOK
  <2>2. \A i \in DOMAIN wire : wire[i] \in Events
    BY <2>1
  <2> QED BY <2>1, <2>2 DEF Events
<1>2. Reported(wire, traded')
  <2>1. traded \in [Setups -> Nat]
    BY DEF EntryTypeOK, ExchangeTypeOK
  <2> QED BY <1>1, <2>1 DEF Reported, MadeMore
<1>3. CASE connected
  <2>1. wire' = wire \o events
    BY <1>3 DEF Deliver
  <2>2. /\ Len(wire) \in Nat /\ Len(events) \in Nat
        /\ DOMAIN wire = 1..Len(wire) /\ DOMAIN events = 1..Len(events)
        /\ DOMAIN wire' = 1..(Len(wire) + Len(events))
        /\ \A i \in 1..(Len(wire) + Len(events)) :
             wire'[i] = IF i <= Len(wire) THEN wire[i] ELSE events[i - Len(wire)]
    BY <1>1, <2>1
  <2> QED BY <1>2, <2>2 DEF Reported
<1>4. CASE ~connected
  BY <1>2, <1>4 DEF Deliver
<1> QED BY <1>3, <1>4

(* Steps that book nothing.                                                 *)
LEMMA FillsKept ==
  ASSUME EntryTypeOK, FillsInv, MadeMore, UNCHANGED fills,
         \A s \in Setups : /\ position'[s].base = position[s].base
                           /\ position'[s].remaining <= position[s].remaining
                           /\ position'[s].remaining \in Nat
                           /\ position'[s].status = "none" => position[s].status = "none",
         Reported(wire', traded')
  PROVE  FillsInv'
<1>1. \A s \in Setups : position[s] \in Positions /\ traded[s] \in Nat /\ fills[s] \subseteq Nat
  BY DEF EntryTypeOK, DataTypeOK, ExchangeTypeOK
<1>2. FillsCountOnce'
  <2> SUFFICES ASSUME NEW s \in Setups
               PROVE  /\ fills[s] \subseteq 1..traded'[s]
                      /\ position'[s].base = Cardinality(fills[s])
                      /\ position'[s].remaining <= position'[s].base
    BY DEF FillsCountOnce
  <2>1. /\ fills[s] \subseteq 1..traded[s] /\ position[s].base = Cardinality(fills[s])
        /\ position[s].remaining <= position[s].base
    BY DEF FillsInv, FillsCountOnce
  <2>2. position[s].base \in Nat /\ position[s].remaining \in Nat
    BY <1>1 DEF Positions
  <2> QED BY <1>1, <2>1, <2>2 DEF MadeMore
<1>3. (\A s \in Setups : position[s].status = "none" => position[s].base = 0)'
  BY DEF FillsInv
<1> QED BY <1>2, <1>3 DEF FillsInv, Reported

LEMMA FillsInit == Init => FillsInv
<1> SUFFICES ASSUME Init PROVE FillsInv
  OBVIOUS
<1>1. \A s \in Setups : fills[s] = {} /\ position[s] = NoPosition
  BY DEF Init
<1>2. wire = <<>>
  BY DEF Init
<1>3. Cardinality({}) = 0
  BY FS_EmptySet
<1>4. \A s \in Setups : position[s].base = 0 /\ position[s].remaining = 0
  BY <1>1 DEF NoPosition
<1>5. FillsCountOnce
  BY <1>1, <1>3, <1>4 DEF FillsCountOnce
<1>6. Reported(wire, traded)
  BY <1>2 DEF Reported
<1> QED BY <1>4, <1>5, <1>6 DEF FillsInv

(* The consumer books a trade it has not seen.                              *)
LEMMA FillsStream ==
  ASSUME EntryTypeOK, FillsInv, StreamStep
  PROVE  FillsInv'
<1>1. /\ wire \in Seq(Events) /\ wire # <<>> /\ wire' = Tail(wire) /\ traded' = traded
      /\ traded \in [Setups -> Nat]
  BY DEF StreamStep, StreamIgnores, StreamReports, StreamRepeats, StreamReady, EntryTypeOK,
         ExchangeTypeOK
<1>2. Reported(wire', traded') /\ MadeMore
  BY <1>1 DEF FillsInv, Reported, MadeMore
<1>3. \A s \in Setups : position[s] \in Positions
  BY DEF EntryTypeOK, DataTypeOK
<1>4. CASE StreamIgnores \/ StreamRepeats \/ (StreamReports /\ Head(wire).trade = 0)
  <2>1. UNCHANGED <<fills, position>>
    BY <1>4 DEF StreamIgnores, StreamRepeats, StreamReports, dbVars
  <2> QED BY <1>2, <1>3, <2>1, FillsKept DEF Positions
<1>5. CASE StreamReports /\ Head(wire).trade # 0
  <2> DEFINE e == Head(wire)
             s == e.setup
  <2>1. e = wire[1] /\ 1 \in DOMAIN wire /\ e \in Events
    BY <1>1
  <2>2. s \in Setups /\ e.trade \in 1..traded[s]
    BY <1>1, <1>5, <2>1 DEF FillsInv, Reported, Events
  <2>3. e.trade \notin fills[s]
    BY <1>5 DEF StreamReports, DuplicateFill
  <2>4. /\ fills' = [fills EXCEPT ![s] = @ \cup {e.trade}]
        /\ position' = [position EXCEPT ![s] = Bought(@)]
    BY <1>5 DEF StreamReports
  <2> HIDE DEF e, s
  <2>5. /\ fills \in [Setups -> SUBSET Nat] /\ position \in [Setups -> Positions]
    BY DEF EntryTypeOK, DataTypeOK
  <2>6. /\ fills[s] \subseteq 1..traded[s] /\ position[s].base = Cardinality(fills[s])
        /\ position[s].remaining <= position[s].base
        /\ position[s].status = "none" => position[s].base = 0
    BY <2>2 DEF FillsInv, FillsCountOnce
  <2>7. Cardinality(fills[s] \cup {e.trade}) = Cardinality(fills[s]) + 1
    <3>1. IsFiniteSet(fills[s])
      <4>1. IsFiniteSet(1..traded[s])
        <5>1. traded[s] \in Int
          BY <1>1, <2>2
        <5> QED BY <5>1, FS_Interval
      <4> QED BY <2>6, <4>1, FS_Subset
    <3> QED BY <2>3, <3>1, FS_AddElement
  <2>8. /\ Bought(position[s]).base = position[s].base + 1
        /\ Bought(position[s]).remaining <= position[s].base + 1
        /\ Bought(position[s]).status # "none"
    BY <2>2, <2>5, <2>6 DEF Bought, Positions
  <2>9. ASSUME NEW r \in Setups
        PROVE  /\ fills'[r] \subseteq 1..traded'[r]
               /\ position'[r].base = Cardinality(fills'[r])
               /\ position'[r].remaining <= position'[r].base
               /\ position'[r].status = "none" => position'[r].base = 0
    <3>1. CASE r = s
      <4>1. fills'[r] = fills[s] \cup {e.trade} /\ position'[r] = Bought(position[s])
        BY <2>2, <2>4, <2>5, <3>1
      <4> QED BY <1>1, <2>2, <2>6, <2>7, <2>8, <3>1, <4>1
    <3>2. CASE r # s
      <4>1. fills'[r] = fills[r] /\ position'[r] = position[r]
        BY <2>4, <2>5, <3>2
      <4> QED BY <1>1, <4>1 DEF FillsInv, FillsCountOnce
    <3> QED BY <3>1, <3>2
  <2>10. FillsCountOnce' /\ (\A r \in Setups : position[r].status = "none" => position[r].base = 0)'
    BY <2>9 DEF FillsCountOnce
  <2> QED BY <1>2, <2>10 DEF FillsInv, Reported
<1> QED BY <1>4, <1>5 DEF StreamStep

(* The exchange trades and reports what it trades.                          *)
LEMMA FillsTraded ==
  ASSUME EntryTypeOK, FillsInv, UNCHANGED <<fills, position>>, MadeMore,
         NEW events \in Seq(Events), Reported(events, traded'), Deliver(events)
  PROVE  FillsInv'
<1>1. \A s \in Setups : position[s].remaining \in Nat
  BY DEF EntryTypeOK, DataTypeOK, Positions
<1>2. Reported(wire', traded')
  BY DeliversReported DEF FillsInv
<1> QED BY <1>1, <1>2, FillsKept

LEMMA FillsPlace ==
  ASSUME EntryTypeOK, FillsInv, NEW w \in Tasks, PlaceOrder(w)
  PROVE  FillsInv'
<1>1. UNCHANGED <<fills, position>>
  BY DEF PlaceOrder, dbVars
<1>2. traded \in [Setups -> Nat] /\ target[w] \in Setups
  BY DEF EntryTypeOK, ExchangeTypeOK, TaskTypeOK
<1>3. ASSUME UNCHANGED exchangeVars PROVE FillsInv'
  <2>1. \A s \in Setups : position[s].remaining \in Nat
    BY DEF EntryTypeOK, DataTypeOK, Positions
  <2>2. MadeMore /\ Reported(wire', traded')
    BY <1>2, <1>3 DEF exchangeVars, MadeMore, FillsInv, Reported
  <2> QED BY <1>1, <2>1, <2>2, FillsKept
<1>4. ASSUME NEW k \in 0..Lots, Accept(w, k) PROVE FillsInv'
  <2> DEFINE s == target[w]
             events == Reports(s, k)
  <2>1. events \in Seq(Events) /\ Deliver(events)
    BY <1>2, <1>4, ReportsType DEF Accept, EntryTypeOK
  <2>2. k \in Nat /\ traded' = [traded EXCEPT ![s] = @ + k]
    BY <1>4, DisjointTasks DEF Accept
  <2>3. traded'[s] = traded[s] + k /\ MadeMore
    BY <1>2, <2>2 DEF MadeMore
  <2>4. Reported(events, traded')
    <3>1. \A i \in DOMAIN events : /\ i \in 1..(k + 1) /\ events[i].setup = s
                                   /\ events[i].trade \in {0, traded[s] + i - 1}
      <4> DEFINE more == [i \in 1..k |-> Event(s, traded[s] + i, StatusAfter(left[s] + Lots - i))]
      <4>1. more \in Seq(Events)
        <5>1. \A i \in 1..k : Event(s, traded[s] + i, StatusAfter(left[s] + Lots - i)) \in Events
          BY <1>2, <2>2, DisjointTasks DEF Events, EventStates, Event, StatusAfter, EntryTypeOK, ExchangeTypeOK
        <5> QED BY <2>2, <5>1
      <4>2. Len(more) = k /\ \A i \in 1..k : more[i].setup = s /\ more[i].trade = traded[s] + i
        BY <2>2 DEF Event
      <4>3. events = <<Event(s, 0, "acknowledged")>> \o more
        BY DEF Reports
      <4> HIDE DEF more, events, s
      <4>4. DOMAIN events = 1..(k + 1) /\ events[1] = Event(s, 0, "acknowledged")
        BY <2>2, <4>1, <4>2, <4>3
      <4>5. \A i \in 2..(k + 1) : events[i] = more[i - 1]
        BY <2>2, <4>1, <4>2, <4>3
      <4>6. events[1].setup = s /\ events[1].trade = 0
        BY <4>4 DEF Event
      <4>7. \A i \in 2..(k + 1) : events[i].setup = s /\ events[i].trade = traded[s] + (i - 1)
        BY <2>2, <4>2, <4>5
      <4> QED BY <1>2, <2>2, <4>4, <4>6, <4>7 DEF s
    <3> HIDE DEF events
    <3> QED BY <1>2, <2>2, <2>3, <3>1 DEF Reported
  <2> HIDE DEF events
  <2> QED BY <1>1, <2>1, <2>3, <2>4, FillsTraded
<1> QED BY <1>3, <1>4 DEF PlaceOrder

LEMMA FillsEnvironment ==
  ASSUME EntryTypeOK, FillsInv, Environment
  PROVE  FillsInv'
<1>1. traded \in [Setups -> Nat] /\ wire \in Seq(Events) /\ left \in [Setups -> Nat]
  BY DEF EntryTypeOK, ExchangeTypeOK
<1>2. \A s \in Setups : position[s].remaining \in Nat /\ position[s].base \in Nat
  BY DEF EntryTypeOK, DataTypeOK, Positions
<1>3. ASSUME NEW s \in Setups, Reject(s) \/ Invalidate(s) \/ PositionCloses(s) PROVE FillsInv'
  <2>1. UNCHANGED <<fills, traded, wire>>
    BY <1>3 DEF Reject, Invalidate, SetupDropped, PositionCloses, exchangeVars
  <2>2. MadeMore /\ Reported(wire', traded')
    BY <1>1, <2>1 DEF MadeMore, FillsInv
  <2>3. position \in [Setups -> Positions]
    BY DEF EntryTypeOK, DataTypeOK
  <2>4. \A r \in Setups : /\ position'[r].base = position[r].base
                          /\ position'[r].remaining <= position[r].remaining
                          /\ position'[r].remaining \in Nat
                          /\ position'[r].status = "none" => position[r].status = "none"
    BY <1>2, <1>3, <2>3 DEF Reject, Invalidate, SetupDropped, PositionCloses, Positions
  <2> QED BY <2>1, <2>2, <2>4, FillsKept
<1>4. ASSUME NEW s \in Setups, ExchangeTrades(s) \/ ExchangeExpires(s) \/ CancelOrder(s)
      PROVE  FillsInv'
  <2>1. UNCHANGED <<fills, position>>
    BY <1>4 DEF ExchangeTrades, ExchangeExpires, CancelOrder, dbVars
  <2>2. CASE ExchangeTrades(s)
    <3> DEFINE e == Event(s, traded[s] + 1, StatusAfter(left[s] - 1))
    <3>1. e \in Events /\ e.setup = s /\ e.trade = traded[s] + 1
      BY <1>1 DEF Event, Events, EventStates, StatusAfter
    <3>2. traded' = [traded EXCEPT ![s] = @ + 1] /\ Deliver(<<e>>)
      BY <2>2 DEF ExchangeTrades
    <3>3. MadeMore
      BY <1>1, <3>2 DEF MadeMore
    <3> HIDE DEF e
    <3>4. Reported(<<e>>, traded') /\ <<e>> \in Seq(Events)
      BY <1>1, <3>1, <3>2 DEF Reported
    <3> QED BY <2>1, <3>2, <3>3, <3>4, FillsTraded
  <2>3. CASE ExchangeExpires(s) \/ CancelOrder(s)
    <3>1. PICK status \in {"expired", "canceled"} : Deliver(<<Event(s, 0, status)>>)
      BY <2>3 DEF ExchangeExpires, CancelOrder
    <3> DEFINE e == Event(s, 0, status)
    <3>2. e \in Events /\ e.setup = s /\ e.trade = 0
      BY <3>1 DEF Event, Events, EventStates
    <3>3. traded' = traded
      BY <2>3 DEF ExchangeExpires, CancelOrder
    <3>4. MadeMore /\ Deliver(<<e>>)
      BY <1>1, <3>1, <3>3 DEF MadeMore
    <3> HIDE DEF e
    <3>5. Reported(<<e>>, traded') /\ <<e>> \in Seq(Events)
      BY <1>1, <3>2, <3>3 DEF Reported
    <3> QED BY <2>1, <3>4, <3>5, FillsTraded
  <2> QED BY <1>4, <2>2, <2>3
<1>5. CASE Operator \/ Disconnect \/ Reconnect \/ Redeliver \/ CrashRestart
  <2>1. UNCHANGED <<fills, position, traded>>
    BY <1>5 DEF Operator, Disconnect, Reconnect, Redeliver, CrashRestart, dbVars, exchangeVars
  <2>2. wire' \in {wire, <<>>} \/ \E i \in DOMAIN wire : wire' = Append(wire, wire[i])
    BY <1>5 DEF Operator, Disconnect, Reconnect, Redeliver, CrashRestart, exchangeVars
  <2>3. Reported(wire', traded)
    <3>1. CASE wire' = wire
      BY <3>1 DEF FillsInv
    <3>2. CASE wire' = <<>>
      BY <3>2 DEF Reported
    <3>3. ASSUME NEW i \in DOMAIN wire, wire' = Append(wire, wire[i]) PROVE Reported(wire', traded)
      <4>1. /\ DOMAIN wire' = 1..(Len(wire) + 1) /\ DOMAIN wire = 1..Len(wire) /\ Len(wire) \in Nat
            /\ \A j \in 1..(Len(wire) + 1) : wire'[j] = wire[j] \/ wire'[j] = wire[i]
            /\ \A j \in 1..(Len(wire) + 1) : wire'[j] = wire[i] \/ j \in DOMAIN wire
        BY <1>1, <3>3
      <4> QED BY <3>3, <4>1 DEF FillsInv, Reported
    <3> QED BY <2>2, <3>1, <3>2, <3>3
  <2>4. MadeMore /\ Reported(wire', traded')
    BY <1>1, <2>1, <2>3 DEF MadeMore
  <2> QED BY <1>2, <2>1, <2>4, FillsKept
<1> QED BY <1>3, <1>4, <1>5 DEF Environment

(* Every other step leaves fills and the exchange alone, but for            *)
(* establish(), which writes how the position is protected.                 *)
LEMMA FillsRest ==
  ASSUME EntryTypeOK, FillsInv, UNCHANGED <<fills, traded, wire>>,
         UNCHANGED position \/ \E s \in Setups : StreamProtects(s)
  PROVE  FillsInv'
<1>1. position \in [Setups -> Positions] /\ traded \in [Setups -> Nat]
  BY DEF EntryTypeOK, DataTypeOK, ExchangeTypeOK
<1>2. MadeMore /\ Reported(wire', traded')
  BY <1>1 DEF MadeMore, FillsInv
<1>3. \A r \in Setups : /\ position'[r].base = position[r].base
                        /\ position'[r].remaining = position[r].remaining
                        /\ position'[r].status = position[r].status
  BY <1>1 DEF StreamProtects, Positions
<1>4. \A r \in Setups : position[r].remaining \in Nat
  BY <1>1 DEF Positions
<1> QED BY <1>2, <1>3, <1>4, FillsKept

LEMMA FillsStep == EntryTypeOK /\ FillsInv /\ [Next]_vars => FillsInv'
<1> SUFFICES ASSUME EntryTypeOK, FillsInv, [Next]_vars PROVE FillsInv'
  OBVIOUS
<1>1. CASE StreamStep \/ Environment \/ \E w \in Tasks : PlaceOrder(w)
  BY <1>1, FillsStream, FillsEnvironment, FillsPlace
<1>2. CASE ~(StreamStep \/ Environment \/ \E w \in Tasks : PlaceOrder(w))
  <2>1. ASSUME NEW w \in Workers, HandoffStep(w)
        PROVE  UNCHANGED <<fills, traded, wire, position>>
    BY <2>1 DEF HandoffStep, HandoffSkips, HandoffBegins, HandoffClaims, HandoffSubmits, RecordAck,
                OutcomeUnknown, OutcomeRejected, OutcomeException, dbVars, exchangeVars
  <2>2. ASSUME NEW x \in Executors, ExecuteStep(x)
        PROVE  UNCHANGED <<fills, traded, wire, position>>
    BY <2>2 DEF ExecuteStep, ExecuteInserts, ExecuteAcks, ExecuteUnknown, ExecuteRejected,
                ExecuteAborts, dbVars, exchangeVars
  <2>3. ASSUME NEW w \in Tasks, TestPasses(w) \/ LookupOrder(w)
        PROVE  UNCHANGED <<fills, traded, wire, position>>
    BY <2>3 DEF TestPasses, LookupOrder, dbVars, exchangeVars
  <2>4. ASSUME NEW w, NEW s \in Setups, AutoHandoff(w, s) \/ Approve(w, s) \/ ExecuteBegins(w, s)
        PROVE  UNCHANGED <<fills, traded, wire, position>>
    BY <2>4 DEF AutoHandoff, Approve, ExecuteBegins, dbVars, exchangeVars
  <2>5. ASSUME LoopHangs \/ ReconcileSelects \/ ReconcileCommits \/ UNCHANGED vars
        PROVE  UNCHANGED <<fills, traded, wire, position>>
    BY <2>5 DEF LoopHangs, ReconcileSelects, ReconcileCommits, vars, dbVars, exchangeVars
  <2>6. ASSUME NEW s \in Setups, StreamProtects(s) PROVE UNCHANGED <<fills, traded, wire>>
    BY <2>6 DEF StreamProtects, exchangeVars
  <2>7. /\ UNCHANGED <<fills, traded, wire>>
        /\ UNCHANGED position \/ \E s \in Setups : StreamProtects(s)
    BY <1>2, <2>1, <2>2, <2>3, <2>4, <2>5, <2>6 DEF Next, SharedStep
  <2> QED BY <2>7, FillsRest
<1> QED BY <1>1, <1>2

(* The position is the sum of distinct trades, however events are repeated, *)
(* delayed or lost (binance_user_stream.py:398-421).                        *)
THEOREM EachFillOnce == Spec => []FillsCountOnce
<1>1. FillsInv => FillsCountOnce
  BY DEF FillsInv
<1> QED BY <1>1, TypeCorrect, FillsInit, FillsStep, PTL DEF Spec

-----------------------------------------------------------------------------
(* Only the step that marks an order writes "submitting".                   *)
LEMMA OnlySubmits ==
  ASSUME EntryTypeOK, [Next]_vars, NEW s \in Setups, order'[s] = "submitting",
         order[s] # "submitting"
  PROVE  \E w \in Workers : HandoffSubmits(w) /\ target[w] = s
<1>1. order \in [Setups -> OrderStates] /\ target \in [Tasks -> Setups]
  BY DEF EntryTypeOK, DataTypeOK, TaskTypeOK
<1>2. CASE \E w \in Workers : HandoffSubmits(w)
  BY <1>1, <1>2 DEF HandoffSubmits
<1>3. ASSUME NEW w \in Workers, HandoffStep(w), ~HandoffSubmits(w) PROVE FALSE
  <2>1. resp[w] \in {"none", "acknowledged", "filled"}
    BY DEF EntryTypeOK, TaskTypeOK, Tasks
  <2> QED BY <1>1, <1>3, <2>1 DEF HandoffStep, HandoffSkips, HandoffBegins, HandoffClaims, RecordAck,
                OutcomeUnknown, OutcomeRejected, OutcomeException, dbVars
<1>4. ASSUME NEW x \in Executors, ExecuteStep(x) PROVE FALSE
  BY <1>1, <1>4 DEF ExecuteStep, ExecuteInserts, ExecuteAcks, ExecuteUnknown, ExecuteRejected,
                    ExecuteAborts, dbVars
<1>5. ASSUME NEW w \in Tasks, SharedStep(w) PROVE FALSE
  BY <1>1, <1>5 DEF SharedStep, TestPasses, PlaceOrder, LookupOrder, dbVars
<1>6. ASSUME StreamStep PROVE FALSE
  <2>1. StreamReports
    BY <1>6 DEF StreamStep, StreamIgnores, StreamRepeats, dbVars
  <2>2. wire # <<>> /\ wire \in Seq(Events)
    BY <2>1 DEF StreamReports, StreamReady, EntryTypeOK, ExchangeTypeOK
  <2>3. Head(wire) \in Events
    BY <2>2
  <2>4. Head(wire).status # "submitting"
    BY <2>3 DEF Events, EventStates
  <2> QED BY <1>1, <2>1, <2>4 DEF StreamReports
<1>7. ASSUME NEW t \in Setups, CancelOrder(t) PROVE FALSE
  BY <1>1, <1>7 DEF CancelOrder
<1>8. ASSUME ReconcileCommits PROVE FALSE
  BY <1>1, <1>8 DEF ReconcileCommits
<1>9. ASSUME \/ UNCHANGED vars \/ LoopHangs \/ ReconcileSelects
             \/ \E t \in Setups : StreamProtects(t)
             \/ \E w \in Workers, t \in Setups : AutoHandoff(w, t) \/ Approve(w, t)
             \/ \E x \in Executors, t \in Setups : ExecuteBegins(x, t)
             \/ \E t \in Setups : Reject(t) \/ Invalidate(t) \/ PositionCloses(t)
             \/ \E t \in Setups : ExchangeTrades(t) \/ ExchangeExpires(t)
             \/ Operator \/ Disconnect \/ Reconnect \/ Redeliver \/ CrashRestart
      PROVE  FALSE
  <2>1. order' = order
    BY <1>9 DEF vars, LoopHangs, ReconcileSelects, StreamProtects, AutoHandoff, Approve,
                ExecuteBegins, Reject, Invalidate, SetupDropped, PositionCloses, ExchangeTrades,
                ExchangeExpires, Operator, Disconnect, Reconnect, Redeliver, CrashRestart, dbVars
  <2> QED BY <2>1
<1> QED BY <1>2, <1>3, <1>4, <1>5, <1>6, <1>7, <1>8, <1>9 DEF Next, Environment

(* An order on its way does not go back to waiting to be sent, whoever      *)
(* writes its row (orchestrator.py:274-438, api/execution.py:554-588).      *)
THEOREM SubmittedForGood == Spec => NeverUnsubmitted
<1>1. EntryTypeOK /\ SubmissionInv /\ [Next]_vars
        => [\A s \in Setups :
              sends[s] > 0 /\ order[s] # "submitting" => order'[s] # "submitting"]_vars
  <2> SUFFICES ASSUME EntryTypeOK, SubmissionInv, [Next]_vars, NEW s \in Setups,
                      sends[s] > 0, order[s] # "submitting", order'[s] = "submitting"
               PROVE  FALSE
    OBVIOUS
  <2>1. PICK w \in Workers : HandoffSubmits(w) /\ target[w] = s
    BY OnlySubmits
  <2>2. sends[s] = 0
    BY <2>1 DEF HandoffSubmits, Running, SubmissionInv, RowOwned, OnTheWay
  <2> QED BY <2>2
<1> QED BY <1>1, TypeCorrect, SubmissionInvariant, PTL DEF Spec, NeverUnsubmitted
=============================================================================
