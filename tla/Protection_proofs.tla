-------------------------- MODULE Protection_proofs --------------------------
(***************************************************************************)
(* Theorems about Protection, for any number of targets and lots, any      *)
(* number of concurrent requests and any bounds.  First the orders: no     *)
(* interleaving of establish(), advance_stage(), reconcile() and           *)
(* reconcile_all(), with crashes, places the order list of a stage twice.  *)
(* Then the quantities: what is sold and locked is never more than was     *)
(* bought.  Then the books: what the position has left, with the fills the *)
(* stream has yet to consume, is what the exchange has not sold, as long   *)
(* as reconcile_all() does not correct it.  Last the cover: what a         *)
(* position that is reported as protected has left is locked by live exit  *)
(* orders, as long as nothing compares it with the exchange.               *)
(***************************************************************************)
EXTENDS Protection, Recursion

(***************************************************************************)
(* Shapes.  Quantities do not matter here; that a record keeps its fields  *)
(* does.                                                                   *)
(***************************************************************************)
PosFields == {"status", "remaining", "stage", "stop", "prot"}
RowFields == {"role", "stage", "status", "listed", "qty"}
LocFields == {"stage", "lots", "stop", "row", "guard", "answer", "all", "owned", "seen"}
OrderFields == {"state", "qty", "stop", "filled", "placed"}

Position(p) == p = [f \in PosFields |-> p[f]] /\ p.stage \in Nat
Row(r) == r = [f \in RowFields |-> r[f]] /\ r.stage \in Stages
Local(l) == l = [f \in LocFields |-> l[f]]
Order(o) == o = [f \in OrderFields |-> o[f]] /\ o.placed \in {0, 1}
Staged == {"market", "account", "placed", "guard", "guarded"}
Table(s) == \E n \in Nat : s = [i \in 1..n |-> s[i]]

ShapeInv ==
  /\ Position(pos) /\ Table(rows) /\ \A i \in DOMAIN rows : Row(rows[i])
  /\ pc = [t \in Tasks |-> pc[t]] /\ loc = [t \in Tasks |-> loc[t]]
  /\ \A t \in Tasks : Local(loc[t])
  /\ \A t \in Tasks : pc[t] \in Staged => loc[t].stage \in Stages
  /\ oco = [k \in Stages |-> oco[k]] /\ \A k \in Stages : Order(oco[k])

(***************************************************************************)
(* The invariant.  A stage has one bracket row; a task that is about to    *)
(* place an order list is the only one that may, and wrote the row of a    *)
(* stage that was not placed; a stage that was placed has a row for good.  *)
(***************************************************************************)
IsBracket(i) == i \in DOMAIN rows /\ rows[i].role = "bracket"

OneBracket ==
  \A i, j : IsBracket(i) /\ IsBracket(j) /\ rows[i].stage = rows[j].stage => i = j
PlacersOwn ==
  \A t \in Tasks : pc[t] = "place" =>
    /\ IsBracket(loc[t].row) /\ rows[loc[t].row].stage = loc[t].stage
    /\ oco[loc[t].stage].placed = 0
PlacersDiffer ==
  \A t, u \in Tasks : pc[t] = "place" /\ pc[u] = "place" /\ t # u => loc[t].row # loc[u].row
PlacedHasRow ==
  \A k \in Stages : oco[k].placed = 1 => \E i : IsBracket(i) /\ rows[i].stage = k

PlacedInv == ShapeInv /\ OneBracket /\ PlacersOwn /\ PlacersDiffer /\ PlacedHasRow

(* What the transactions of the database leave alone: the rows there are,   *)
(* with their roles and stages.  They may add guards.                       *)
Grown(new) ==
  /\ Table(new) /\ DOMAIN rows \subseteq DOMAIN new
  /\ \A i \in DOMAIN new : /\ Row(new[i])
                           /\ i \notin DOMAIN rows => new[i].role = "guard_stop"
  /\ \A i \in DOMAIN rows : new[i].role = rows[i].role /\ new[i].stage = rows[i].stage
Sound(db) == db = [pos |-> db.pos, rows |-> db.rows] /\ Position(db.pos) /\ Grown(db.rows)
Outcome(o) ==
  /\ Sound(o.db) /\ Local(o.loc) /\ o.pc # "place"
  /\ o.pc \in Staged => o.loc.stage \in Stages

USE DEF Staged

(* The database as it stands is sound. *)
LEMMA SoundDB == ShapeInv => Sound(DB)
BY DEF ShapeInv, Sound, Grown, DB

(* Writing the status of a row keeps its role and its stage. *)
LEMMA RowKeeps ==
  ASSUME NEW r, Row(r), NEW v
  PROVE  /\ Row([r EXCEPT !.status = v])
         /\ [r EXCEPT !.status = v].role = r.role /\ [r EXCEPT !.status = v].stage = r.stage
BY DEF Row, RowFields

(* The writes of protection.py and of the stream consumer keep the database
   sound: they write statuses and prot, never a role or a stage. *)
LEMMA WritesKeep ==
  ASSUME NEW db, Sound(db), NEW i, NEW ids, NEW value
  PROVE  /\ Sound(SetRow(db, i, value)) /\ Sound(SetRows(db, ids, value))
         /\ Sound(SetProt(db, value)) /\ Sound(Failed(db))
<1>1. ASSUME NEW d, Sound(d), NEW v PROVE Sound(SetProt(d, v))
  BY <1>1 DEF Sound, SetProt, Position, PosFields
<1>2. ASSUME NEW d, Sound(d), NEW S, NEW v PROVE Sound(SetRows(d, S, v))
  <2> DEFINE new == [j \in DOMAIN d.rows |-> IF j \in S THEN [d.rows[j] EXCEPT !.status = v]
                                             ELSE d.rows[j]]
  <2>1. SetRows(d, S, v) = [pos |-> d.pos, rows |-> new]
    BY <1>2 DEF Sound, SetRows
  <2>2. PICK n \in Nat : d.rows = [j \in 1..n |-> d.rows[j]]
    BY <1>2 DEF Sound, Grown, Table
  <2>3. Table(new)
    BY <2>2 DEF Table
  <2>4. ASSUME NEW j \in DOMAIN d.rows
        PROVE  Row(new[j]) /\ new[j].role = d.rows[j].role /\ new[j].stage = d.rows[j].stage
    <3> DEFINE written == [d.rows[j] EXCEPT !.status = v]
    <3>1. Row(d.rows[j])
      BY <1>2 DEF Sound, Grown
    <3>2. new[j] = written \/ new[j] = d.rows[j]
      OBVIOUS
    <3>3. Row(written) /\ written.role = d.rows[j].role /\ written.stage = d.rows[j].stage
      BY <3>1, RowKeeps
    <3> HIDE DEF new, written
    <3> QED
      BY <3>1, <3>2, <3>3
  <2>5. DOMAIN new = DOMAIN d.rows
    OBVIOUS
  <2>6. Grown(new)
    <3> HIDE DEF new
    <3> QED
      BY <1>2, <2>3, <2>4, <2>5 DEF Sound, Grown
  <2> HIDE DEF new
  <2> QED
    BY <1>2, <2>1, <2>6 DEF Sound
<1>3. Sound(SetRow(db, i, value))
  <2> DEFINE new == [db.rows EXCEPT ![i].status = value]
  <2>1. SetRow(db, i, value) = [pos |-> db.pos, rows |-> new]
    BY DEF Sound, SetRow
  <2>2. PICK n \in Nat : db.rows = [j \in 1..n |-> db.rows[j]]
    BY DEF Sound, Grown, Table
  <2>3. Table(new)
    BY <2>2 DEF Table
  <2>4. ASSUME NEW j \in DOMAIN db.rows
        PROVE  Row(new[j]) /\ new[j].role = db.rows[j].role /\ new[j].stage = db.rows[j].stage
    <3> DEFINE written == [db.rows[j] EXCEPT !.status = value]
    <3>1. Row(db.rows[j])
      BY DEF Sound, Grown
    <3>2. new[j] = written \/ new[j] = db.rows[j]
      OBVIOUS
    <3>3. Row(written) /\ written.role = db.rows[j].role /\ written.stage = db.rows[j].stage
      BY <3>1, RowKeeps
    <3> HIDE DEF new, written
    <3> QED
      BY <3>1, <3>2, <3>3
  <2>5. DOMAIN new = DOMAIN db.rows
    OBVIOUS
  <2>6. Grown(new)
    <3> HIDE DEF new
    <3> QED
      BY <2>3, <2>4, <2>5 DEF Sound, Grown
  <2> HIDE DEF new
  <2> QED
    BY <2>1, <2>6 DEF Sound
<1> QED
  BY <1>1, <1>2, <1>3 DEF Failed

(* Writing one local of a task keeps its others. *)
LEMMA LocalsKeep ==
  ASSUME NEW l, Local(l), NEW x, NEW y
  PROVE  /\ Local([l EXCEPT !.lots = x]) /\ [l EXCEPT !.lots = x].stage = l.stage
         /\ Local([l EXCEPT !.answer = x]) /\ Local([l EXCEPT !.all = x])
         /\ [l EXCEPT !.answer = x].stage = l.stage /\ [l EXCEPT !.all = x].stage = l.stage
         /\ Local([l EXCEPT !.all = x, !.owned = y])
         /\ [l EXCEPT !.all = x, !.owned = y].stage = l.stage
         /\ Local([l EXCEPT !.row = x, !.guard = y])
         /\ Local([l EXCEPT !.seen = x, !.row = y])
BY DEF Local, LocFields

(* The locals a call starts with are well formed. *)
LEMMA NewLocals ==
  ASSUME NEW k, NEW x, NEW y
  PROVE  /\ Local(NoLocals)
         /\ Local([NoLocals EXCEPT !.stage = k, !.stop = x, !.lots = y])
         /\ [NoLocals EXCEPT !.stage = k, !.stop = x, !.lots = y].stage = k
         /\ Local([NoLocals EXCEPT !.stage = k, !.row = x, !.lots = y])
         /\ Local([NoLocals EXCEPT !.row = x, !.stage = y])
BY DEF Local, LocFields, NoLocals

(* The first transaction of establish() leaves a sound database, and a call
   that goes on works on a stage of the position. *)
LEMMA EstablishingKeeps ==
  ASSUME NEW db, Sound(db), NEW t
  PROVE  \A o \in Establishing(t, db) : Outcome(o)
<1>1. \A v : Sound(SetProt(db, v))
  BY WritesKeep
<1>2. Protectable(db) => db.pos.stage \in Stages
  BY ProtectionAssumption DEF Protectable, Sound, Position, Stages
<1> DEFINE refused == [db |-> db, pc |-> "idle", loc |-> NoLocals]
           invalid == [db |-> SetProt(db, "unprotected"), pc |-> "idle", loc |-> NoLocals]
           locals == [NoLocals EXCEPT !.stage = db.pos.stage, !.stop = db.pos.stop,
                                      !.lots = db.pos.remaining]
           goesOn == [db |-> SetProt(db, "protection_pending"), pc |-> "market", loc |-> locals]
<1>3. Local(NoLocals) /\ Local(locals) /\ locals.stage = db.pos.stage
  BY NewLocals
<1>4. \A o \in Establishing(t, db) : o = refused \/ o = invalid \/ (o = goesOn /\ Protectable(db))
  BY DEF Establishing
<1> HIDE DEF locals
<1>5. Outcome(refused) /\ Outcome(invalid)
  BY <1>1, <1>3 DEF Outcome
<1>6. Protectable(db) => Outcome(goesOn)
  BY <1>1, <1>2, <1>3 DEF Outcome
<1> HIDE DEF refused, invalid, goesOn
<1> QED
  BY <1>4, <1>5, <1>6

(* So does the transaction of advance_stage(), with the establish() it may
   go on to. *)
LEMMA AdvancingKeeps ==
  ASSUME NEW db, Sound(db), NEW t
  PROVE  \A o \in Advancing(t, db) : Outcome(o)
<1> DEFINE next == Advanced(db)
           guards == LiveGuard(db, db.pos.stage)
           row == CHOOSE i \in guards : TRUE
           lots == IF db.pos.status = "closed" THEN 0 ELSE db.pos.remaining
           locals == [NoLocals EXCEPT !.stage = db.pos.stage, !.row = row, !.lots = lots]
           cancels == [db |-> next, pc |-> "cancel", loc |-> locals]
           done == [db |-> next, pc |-> "idle", loc |-> NoLocals]
<1>1. Sound(next)
  <2> DEFINE closed == SetRows(db, RowOf(db, "bracket", db.pos.stage), "closed")
             p == closed.pos
             moved == [p EXCEPT !.stage = db.pos.stage + 1,
                                !.stop = IF db.pos.stage = 0 THEN "breakeven" ELSE @]
  <2>1. Sound(closed)
    BY WritesKeep
  <2>2. db.pos.stage + 1 \in Nat
    BY DEF Sound, Position
  <2>3. next = [closed EXCEPT !.pos.stage = db.pos.stage + 1,
                              !.pos.stop = IF db.pos.stage = 0 THEN "breakeven" ELSE @]
    BY DEF Advanced
  <2> HIDE DEF closed, next
  <2>4. next = [pos |-> moved, rows |-> closed.rows]
    BY <2>1, <2>3 DEF Sound
  <2>5. Position(moved)
    BY <2>1, <2>2 DEF Sound, Position, PosFields
  <2> HIDE DEF moved
  <2> QED
    BY <2>1, <2>4, <2>5 DEF Sound
<1>2. \A o \in Establishing(t, next) : Outcome(o)
  BY <1>1, EstablishingKeeps
<1>3. Local(NoLocals) /\ Local(locals)
  <2> HIDE DEF row, lots
  <2> QED
    BY NewLocals
<1>4. \A o \in Advancing(t, db) : o = cancels \/ o = done \/ o \in Establishing(t, next)
  BY DEF Advancing
<1> HIDE DEF next, locals
<1>5. Outcome(cancels) /\ Outcome(done)
  BY <1>1, <1>3 DEF Outcome
<1> HIDE DEF cancels, done
<1> QED
  BY <1>2, <1>4, <1>5

(***************************************************************************)
(* The steps.                                                              *)
(***************************************************************************)

(* A step of one task that at most writes statuses, adds a guard or cuts the *)
(* position, and does not begin to place, keeps the invariant.              *)
LEMMA QuietStep ==
  ASSUME PlacedInv, NEW t \in Tasks, Position(pos'), Grown(rows'),
         NEW label, NEW locals, pc' = [pc EXCEPT ![t] = label], loc' = [loc EXCEPT ![t] = locals],
         Local(locals), label # "place",
         label \in Staged => locals.stage \in Stages,
         oco' = [k \in Stages |-> oco'[k]],
         \A k \in Stages : Order(oco'[k]) /\ oco'[k].placed = oco[k].placed
  PROVE  PlacedInv'
<1>1. /\ \A u \in Tasks : u # t => pc'[u] = pc[u] /\ loc'[u] = loc[u]
      /\ pc'[t] = label /\ loc'[t] = locals
      /\ pc' = [u \in Tasks |-> pc'[u]] /\ loc' = [u \in Tasks |-> loc'[u]]
  BY DEF PlacedInv, ShapeInv
<1>2. ShapeInv'
  <2>1. Position(pos)'
    BY DEF Position
  <2>2. Table(rows)'
    BY DEF Grown, Table
  <2>3. (\A i \in DOMAIN rows : Row(rows[i]))'
    BY DEF Grown, Row, Stages
  <2>4. (pc = [u \in Tasks |-> pc[u]] /\ loc = [u \in Tasks |-> loc[u]])'
    BY <1>1 DEF Tasks
  <2>5. (\A u \in Tasks : Local(loc[u]))'
    <3>1. \A u \in Tasks : Local(loc'[u])
      BY <1>1 DEF PlacedInv, ShapeInv
    <3> QED
      BY <3>1 DEF Local, Tasks
  <2>6. (\A u \in Tasks : pc[u] \in Staged => loc[u].stage \in Stages)'
    BY <1>1 DEF PlacedInv, ShapeInv, Tasks, Stages
  <2>7. (oco = [k \in Stages |-> oco[k]] /\ \A k \in Stages : Order(oco[k]))'
    BY DEF Order, Stages
  <2> QED
    BY <2>1, <2>2, <2>3, <2>4, <2>5, <2>6, <2>7 DEF ShapeInv
<1>3. \A i : IsBracket(i)' <=> IsBracket(i)
  BY DEF IsBracket, Grown
<1>4. \A i : IsBracket(i) => rows'[i].stage = rows[i].stage
  BY DEF IsBracket, Grown
<1>5. OneBracket'
  BY <1>3, <1>4 DEF PlacedInv, OneBracket
<1>6. PlacersOwn'
  <2> SUFFICES ASSUME NEW u \in Tasks, pc'[u] = "place"
               PROVE  /\ IsBracket(loc[u].row)' /\ rows'[loc'[u].row].stage = loc'[u].stage
                      /\ oco'[loc'[u].stage].placed = 0
    BY DEF PlacersOwn
  <2>1. u # t /\ pc[u] = "place" /\ loc'[u] = loc[u]
    BY <1>1
  <2>2. /\ IsBracket(loc[u].row) /\ rows[loc[u].row].stage = loc[u].stage
        /\ oco[loc[u].stage].placed = 0
    BY <2>1 DEF PlacedInv, PlacersOwn
  <2>3. loc[u].stage \in Stages
    BY <2>2 DEF PlacedInv, ShapeInv, IsBracket, Row
  <2> QED
    BY <1>3, <1>4, <2>1, <2>2, <2>3
<1>7. PlacersDiffer'
  BY <1>1 DEF PlacedInv, PlacersDiffer
<1>8. PlacedHasRow'
  BY <1>3, <1>4 DEF PlacedInv, PlacedHasRow, Stages
<1> QED
  BY <1>2, <1>5, <1>6, <1>7, <1>8 DEF PlacedInv

(* A task goes on with a sound outcome. *)
LEMMA BecomesKeeps ==
  ASSUME PlacedInv, NEW t \in Tasks, NEW outcomes, \A o \in outcomes : Outcome(o),
         Becomes(t, outcomes), UNCHANGED exchangeVars
  PROVE  PlacedInv'
<1>1. PICK o \in outcomes :
        LET returns == o.pc = "idle" /\ loc[t].all
            kept == [o.loc EXCEPT !.all = loc[t].all, !.owned = loc[t].owned]
        IN  /\ pos' = o.db.pos /\ rows' = o.db.rows
            /\ pc' = [pc EXCEPT ![t] = IF returns THEN "orders" ELSE o.pc]
            /\ loc' = [loc EXCEPT ![t] =
                         IF returns THEN [kept EXCEPT !.seen = o.db.pos, !.row = Len(o.db.rows)]
                         ELSE kept]
  BY DEF Becomes
<1> DEFINE returns == o.pc = "idle" /\ loc[t].all
           kept == [o.loc EXCEPT !.all = loc[t].all, !.owned = loc[t].owned]
           back == [kept EXCEPT !.seen = o.db.pos, !.row = Len(o.db.rows)]
<1>2. Outcome(o)
  BY <1>1
<1>3. Local(kept) /\ kept.stage = o.loc.stage
  BY <1>2 DEF Outcome, Local, LocFields
<1>4. Local(back)
  <2> HIDE DEF kept
  <2> QED
    BY <1>3, LocalsKeep
<1>5. /\ pos' = o.db.pos /\ rows' = o.db.rows
      /\ pc' = [pc EXCEPT ![t] = IF returns THEN "orders" ELSE o.pc]
      /\ loc' = [loc EXCEPT ![t] = IF returns THEN back ELSE kept]
  BY <1>1
<1> HIDE DEF returns, kept, back
<1>6. Position(pos') /\ Grown(rows')
  BY <1>2, <1>5 DEF Outcome, Sound
<1>7. oco' = oco /\ oco = [k \in Stages |-> oco[k]] /\ \A k \in Stages : Order(oco[k])
  BY DEF exchangeVars, PlacedInv, ShapeInv
<1>8. CASE returns
  BY <1>4, <1>5, <1>6, <1>7, <1>8, QuietStep
<1>9. CASE ~returns
  BY <1>2, <1>3, <1>5, <1>6, <1>7, <1>9, QuietStep DEF Outcome
<1> QED
  BY <1>8, <1>9

(* A call that ends keeps the invariant. *)
LEMMA EndsKeeps ==
  ASSUME PlacedInv, NEW t \in Tasks, NEW db, Sound(db), Ends(t, db), UNCHANGED exchangeVars
  PROVE  PlacedInv'
<1> DEFINE o == [db |-> db, pc |-> "idle", loc |-> NoLocals]
<1>1. Outcome(o)
  BY NewLocals DEF Outcome
<1>2. Becomes(t, {o})
  BY DEF Ends
<1> HIDE DEF o
<1> QED
  BY <1>1, <1>2, BecomesKeeps

(* A call that goes on to an await other than the one that places keeps the
   invariant. *)
LEMMA GoesOnKeeps ==
  ASSUME PlacedInv, NEW t \in Tasks, NEW db, Sound(db), NEW label, label # "place",
         NEW locals, Local(locals), label \in Staged => locals.stage \in Stages,
         GoesOn(t, db, label, locals), UNCHANGED exchangeVars
  PROVE  PlacedInv'
<1> DEFINE o == [db |-> db, pc |-> label, loc |-> locals]
<1>1. Outcome(o)
  BY DEF Outcome
<1>2. Becomes(t, {o})
  BY DEF GoesOn
<1> HIDE DEF o
<1> QED
  BY <1>1, <1>2, BecomesKeeps

(* The exchange serves or fills something that is no new order list. *)
LEMMA ServesKeeps ==
  ASSUME PlacedInv, NEW t \in Tasks, pos' = pos, rows' = rows,
         NEW label, NEW answer, Answer(t, label, answer), label # "place",
         label \in Staged => loc[t].stage \in Stages,
         oco' = [k \in Stages |-> oco'[k]],
         \A k \in Stages : Order(oco'[k]) /\ oco'[k].placed = oco[k].placed
  PROVE  PlacedInv'
<1> DEFINE locals == [loc[t] EXCEPT !.answer = answer]
<1>1. pc' = [pc EXCEPT ![t] = label] /\ loc' = [loc EXCEPT ![t] = locals]
  BY DEF Answer
<1>2. Local(locals) /\ locals.stage = loc[t].stage
  BY LocalsKeep DEF PlacedInv, ShapeInv
<1>3. Position(pos') /\ Grown(rows')
  BY DEF PlacedInv, ShapeInv, Grown
<1> HIDE DEF locals
<1> QED
  BY <1>1, <1>2, <1>3, QuietStep

(* Steps outside the tasks, which at most write statuses or the position,
   keep the invariant. *)
LEMMA OthersKeep ==
  ASSUME PlacedInv, Position(pos'), Grown(rows'), pc' = pc, loc' = loc,
         oco' = [k \in Stages |-> oco'[k]],
         \A k \in Stages : Order(oco'[k]) /\ oco'[k].placed = oco[k].placed
  PROVE  PlacedInv'
<1>1. ShapeInv'
  <2>1. Position(pos)' /\ Table(rows)'
    BY DEF Position, Grown, Table
  <2>2. (\A i \in DOMAIN rows : Row(rows[i]))'
    BY DEF Grown, Row, Stages
  <2>3. (/\ pc = [t \in Tasks |-> pc[t]] /\ loc = [t \in Tasks |-> loc[t]]
         /\ \A t \in Tasks : Local(loc[t])
         /\ \A t \in Tasks : pc[t] \in Staged => loc[t].stage \in Stages)'
    BY DEF PlacedInv, ShapeInv, Local, Stages, Tasks
  <2>4. (oco = [k \in Stages |-> oco[k]] /\ \A k \in Stages : Order(oco[k]))'
    BY DEF Order, Stages
  <2> QED
    BY <2>1, <2>2, <2>3, <2>4 DEF ShapeInv
<1>2. /\ \A i : IsBracket(i)' <=> IsBracket(i)
      /\ \A i : IsBracket(i) => rows'[i].stage = rows[i].stage
  BY DEF IsBracket, Grown
<1>3. OneBracket' /\ PlacersDiffer'
  BY <1>2 DEF PlacedInv, OneBracket, PlacersDiffer, Tasks
<1>4. PlacersOwn'
  <2> SUFFICES ASSUME NEW u \in Tasks, pc[u] = "place"
               PROVE  /\ IsBracket(loc[u].row)' /\ rows'[loc[u].row].stage = loc[u].stage
                      /\ oco'[loc[u].stage].placed = 0
    BY DEF PlacersOwn, Tasks
  <2>1. /\ IsBracket(loc[u].row) /\ rows[loc[u].row].stage = loc[u].stage
        /\ oco[loc[u].stage].placed = 0
    BY DEF PlacedInv, PlacersOwn
  <2>2. loc[u].stage \in Stages
    BY <2>1 DEF PlacedInv, ShapeInv, IsBracket, Row
  <2> QED
    BY <1>2, <2>1, <2>2
<1>5. PlacedHasRow'
  BY <1>2 DEF PlacedInv, PlacedHasRow, Stages
<1> QED
  BY <1>1, <1>3, <1>4, <1>5 DEF PlacedInv

(* Steps of the exchange or the connection, where no task and no row moves,
   keep the invariant. *)
LEMMA RestingKeeps ==
  ASSUME PlacedInv, pos' = pos, rows' = rows, pc' = pc, loc' = loc,
         oco' = [k \in Stages |-> oco'[k]],
         \A k \in Stages : Order(oco'[k]) /\ oco'[k].placed = oco[k].placed
  PROVE  PlacedInv'
<1>1. Position(pos') /\ Grown(rows')
  BY DEF PlacedInv, ShapeInv, Grown
<1> QED
  BY <1>1, OthersKeep

(* The bracket row is inserted: its key is new. *)
LEMMA SubmitKeeps ==
  ASSUME PlacedInv, NEW t \in Tasks, EstablishSubmits(t)
  PROVE  PlacedInv'
<1>1. PICK qty \in BracketSizes(t) :
        GoesOn(t, [DB EXCEPT !.rows = Append(@, [role |-> "bracket", stage |-> loc[t].stage,
                                                status |-> "submitting", listed |-> FALSE,
                                                qty |-> qty])],
               "place", [loc[t] EXCEPT !.row = Len(rows) + 1, !.guard = loc[t].lots - qty])
  BY DEF EstablishSubmits
<1> DEFINE k == loc[t].stage
           row == [role |-> "bracket", stage |-> k, status |-> "submitting", listed |-> FALSE,
                   qty |-> qty]
           left == loc[t].lots - qty
           next == Len(rows) + 1
           locals == [loc[t] EXCEPT !.row = next, !.guard = left]
           kept == [locals EXCEPT !.all = loc[t].all, !.owned = loc[t].owned]
<1>2. k \in Stages /\ Local(loc[t]) /\ pc[t] = "account" /\ KeyIsNew(t)
  BY DEF EstablishSubmits, PlacedInv, ShapeInv
<1>3. PICK n \in Nat : rows = [i \in 1..n |-> rows[i]]
  BY DEF PlacedInv, ShapeInv, Table
<1>4. Len(rows) = n /\ DOMAIN rows = 1..n /\ rows \in Seq({rows[i] : i \in 1..n})
  BY <1>3
<1>5. /\ Append(rows, row) = [i \in 1..(n + 1) |-> IF i = n + 1 THEN row ELSE rows[i]]
      /\ next = n + 1
  BY <1>4
<1>6. Local(locals) /\ locals.stage = k /\ locals.row = next
  BY <1>2 DEF Local, LocFields
<1>7. Local(kept) /\ kept.stage = k /\ kept.row = next
  BY <1>6 DEF Local, LocFields
<1>8. /\ pos' = pos /\ rows' = Append(rows, row)
      /\ pc' = [pc EXCEPT ![t] = "place"] /\ loc' = [loc EXCEPT ![t] = kept]
  <2> DEFINE db == [DB EXCEPT !.rows = Append(@, row)]
             o == [db |-> db, pc |-> "place", loc |-> locals]
  <2>1. Becomes(t, {o})
    BY <1>1 DEF GoesOn
  <2>2. db.pos = pos /\ db.rows = Append(rows, row)
    BY DEF DB
  <2>3. o.db = db /\ o.pc = "place" /\ o.loc = locals
    OBVIOUS
  <2> HIDE DEF o, db, locals
  <2> QED
    BY <2>1, <2>2, <2>3 DEF Becomes
<1>9. oco' = oco
  BY DEF EstablishSubmits, exchangeVars
<1>10. Row(row) /\ row.role = "bracket" /\ row.stage = k
  BY <1>2 DEF Row, RowFields
<1> HIDE DEF row, kept, locals, next
<1>11. /\ rows' = [i \in 1..(n + 1) |-> rows'[i]] /\ DOMAIN rows' = 1..(n + 1)
       /\ rows'[n + 1] = row /\ \A i \in 1..n : rows'[i] = rows[i]
  BY <1>5, <1>8
<1>12. /\ \A u \in Tasks : u # t => pc'[u] = pc[u] /\ loc'[u] = loc[u]
       /\ pc'[t] = "place" /\ loc'[t] = kept
       /\ pc' = [u \in Tasks |-> pc'[u]] /\ loc' = [u \in Tasks |-> loc'[u]]
  BY <1>8 DEF PlacedInv, ShapeInv
<1>13. \A i : IsBracket(i)' <=> IsBracket(i) \/ i = n + 1
  BY <1>4, <1>10, <1>11 DEF IsBracket
<1>14. \A i : IsBracket(i) => i \in 1..n /\ rows[i].stage # k
  BY <1>2, <1>4 DEF IsBracket, KeyIsNew, RowOf, DB
<1>15. oco[k].placed = 0
  BY <1>2, <1>14 DEF PlacedInv, PlacedHasRow, ShapeInv, Order
<1>16. ShapeInv'
  <2>1. Position(pos)'
    BY <1>8 DEF PlacedInv, ShapeInv, Position
  <2>2. Table(rows)'
    BY <1>11 DEF Table
  <2>3. (\A i \in DOMAIN rows : Row(rows[i]))'
    <3>1. \A i \in 1..(n + 1) : Row(rows'[i])
      BY <1>4, <1>10, <1>11 DEF PlacedInv, ShapeInv
    <3> QED
      BY <1>11, <3>1 DEF Row, Stages
  <2>4. (pc = [u \in Tasks |-> pc[u]] /\ loc = [u \in Tasks |-> loc[u]])'
    BY <1>12 DEF Tasks
  <2>5. (\A u \in Tasks : Local(loc[u]))'
    <3>1. \A u \in Tasks : Local(loc'[u])
      BY <1>7, <1>12 DEF PlacedInv, ShapeInv
    <3> QED
      BY <3>1 DEF Local, Tasks
  <2>6. (\A u \in Tasks : pc[u] \in Staged => loc[u].stage \in Stages)'
    BY <1>12 DEF PlacedInv, ShapeInv, Tasks, Stages
  <2>7. (oco = [j \in Stages |-> oco[j]] /\ \A j \in Stages : Order(oco[j]))'
    BY <1>9 DEF PlacedInv, ShapeInv, Order, Stages
  <2> QED
    BY <2>1, <2>2, <2>3, <2>4, <2>5, <2>6, <2>7 DEF ShapeInv
<1>17. OneBracket'
  BY <1>10, <1>11, <1>13, <1>14 DEF PlacedInv, OneBracket
<1>18. PlacersOwn'
  <2> SUFFICES ASSUME NEW u \in Tasks, pc'[u] = "place"
               PROVE  /\ IsBracket(loc[u].row)' /\ rows'[loc'[u].row].stage = loc'[u].stage
                      /\ oco'[loc'[u].stage].placed = 0
    BY DEF PlacersOwn, Tasks
  <2>1. CASE u = t
    BY <1>5, <1>7, <1>9, <1>10, <1>11, <1>12, <1>13, <1>15, <2>1
  <2>2. CASE u # t
    <3>1. /\ IsBracket(loc[u].row) /\ rows[loc[u].row].stage = loc[u].stage
          /\ oco[loc[u].stage].placed = 0 /\ loc'[u] = loc[u]
      BY <1>12, <2>2 DEF PlacedInv, PlacersOwn
    <3> QED
      BY <1>9, <1>11, <1>13, <1>14, <3>1
  <2> QED
    BY <2>1, <2>2
<1>19. PlacersDiffer'
  <2>1. \A u \in Tasks : pc[u] = "place" => loc[u].row \in 1..n
    BY <1>14 DEF PlacedInv, PlacersOwn
  <2>2. kept.row \notin 1..n
    BY <1>5, <1>7
  <2> QED
    BY <1>12, <2>1, <2>2 DEF PlacedInv, PlacersDiffer, Tasks
<1>20. PlacedHasRow'
  BY <1>9, <1>11, <1>13, <1>14 DEF PlacedInv, PlacedHasRow, Stages
<1> QED
  BY <1>16, <1>17, <1>18, <1>19, <1>20 DEF PlacedInv

(* place_oco_order is the one step that places; its task owns the stage. *)
LEMMA PlaceKeeps ==
  ASSUME PlacedInv, NEW t \in Tasks, PlaceOco(t)
  PROVE  PlacedInv'
<1> DEFINE k == loc[t].stage
<1>1. PICK answer : Answer(t, "placed", answer)
  BY DEF PlaceOco
<1>2. pc[t] = "place" /\ pos' = pos /\ rows' = rows
  BY DEF PlaceOco
<1>3. /\ IsBracket(loc[t].row) /\ rows[loc[t].row].stage = k /\ oco[k].placed = 0
      /\ k \in Stages
  BY <1>2 DEF PlacedInv, PlacersOwn, ShapeInv, IsBracket, Row
<1>4. CASE oco' = oco
  BY <1>1, <1>2, <1>3, <1>4, ServesKeeps DEF PlacedInv, ShapeInv
<1>5. ASSUME NEW order, oco' = [oco EXCEPT ![k] = order], Order(order), order.placed = 1
      PROVE  PlacedInv'
  <2>1. /\ oco' = [j \in Stages |-> oco'[j]] /\ oco'[k] = order
        /\ \A j \in Stages : j # k => oco'[j] = oco[j]
    BY <1>3, <1>5 DEF PlacedInv, ShapeInv
  <2> DEFINE locals == [loc[t] EXCEPT !.answer = answer]
  <2>2. Local(locals) /\ locals.stage = k
    BY LocalsKeep DEF PlacedInv, ShapeInv
  <2>3. pc' = [pc EXCEPT ![t] = "placed"] /\ loc' = [loc EXCEPT ![t] = locals]
    BY <1>1 DEF Answer
  <2> HIDE DEF locals
  <2>4. /\ \A u \in Tasks : u # t => pc'[u] = pc[u] /\ loc'[u] = loc[u]
        /\ pc'[t] = "placed" /\ loc'[t] = locals
        /\ pc' = [u \in Tasks |-> pc'[u]] /\ loc' = [u \in Tasks |-> loc'[u]]
    BY <2>3 DEF PlacedInv, ShapeInv
  <2>5. \A i : IsBracket(i)' <=> IsBracket(i)
    BY <1>2 DEF IsBracket
  <2>6. ShapeInv'
    <3>1. (Position(pos) /\ Table(rows) /\ \A i \in DOMAIN rows : Row(rows[i]))'
      BY <1>2 DEF PlacedInv, ShapeInv, Position, Table, Row, Stages
    <3>2. (pc = [u \in Tasks |-> pc[u]] /\ loc = [u \in Tasks |-> loc[u]])'
      BY <2>4 DEF Tasks
    <3>3. \A u \in Tasks : Local(loc'[u])
      BY <2>2, <2>4 DEF PlacedInv, ShapeInv
    <3>4. (\A u \in Tasks : Local(loc[u]))'
      BY <3>3 DEF Local, Tasks
    <3>5. (\A u \in Tasks : pc[u] \in Staged => loc[u].stage \in Stages)'
      BY <1>3, <2>2, <2>4 DEF PlacedInv, ShapeInv, Tasks, Stages, Staged
    <3>6. \A j \in Stages : Order(oco'[j])
      BY <1>5, <2>1 DEF PlacedInv, ShapeInv
    <3>7. (oco = [j \in Stages |-> oco[j]] /\ \A j \in Stages : Order(oco[j]))'
      BY <2>1, <3>6 DEF Order, Stages
    <3> QED
      BY <3>1, <3>2, <3>4, <3>5, <3>7 DEF ShapeInv
  <2>7. OneBracket'
    BY <1>2, <2>5 DEF PlacedInv, OneBracket
  <2>8. PlacersOwn'
    <3> SUFFICES ASSUME NEW u \in Tasks, pc'[u] = "place"
                 PROVE  /\ IsBracket(loc[u].row)' /\ rows'[loc'[u].row].stage = loc'[u].stage
                        /\ oco'[loc'[u].stage].placed = 0
      BY DEF PlacersOwn, Tasks
    <3>1. u # t /\ pc[u] = "place" /\ loc'[u] = loc[u]
      BY <2>4
    <3>2. /\ IsBracket(loc[u].row) /\ rows[loc[u].row].stage = loc[u].stage
          /\ oco[loc[u].stage].placed = 0
      BY <3>1 DEF PlacedInv, PlacersOwn
    <3>3. loc[u].stage \in Stages
      BY <3>2 DEF PlacedInv, ShapeInv, IsBracket, Row
    <3>4. loc[u].stage # k
      BY <1>2, <1>3, <3>1, <3>2 DEF PlacedInv, OneBracket, PlacersDiffer
    <3> QED
      BY <1>2, <2>1, <2>5, <3>1, <3>2, <3>3, <3>4
  <2>9. PlacersDiffer'
    BY <2>4 DEF PlacedInv, PlacersDiffer, Tasks
  <2>10. PlacedHasRow'
    BY <1>2, <1>3, <2>1, <2>5 DEF PlacedInv, PlacedHasRow, Stages
  <2> QED
    BY <2>6, <2>7, <2>8, <2>9, <2>10 DEF PlacedInv
<1>6. CASE oco' # oco
  <2> DEFINE order == [state |-> "live", qty |-> rows[loc[t].row].qty, stop |-> loc[t].stop,
                       filled |-> "none", placed |-> oco[k].placed + 1]
  <2>1. oco' = [oco EXCEPT ![k] = order]
    BY <1>6 DEF PlaceOco
  <2>2. Order(order) /\ order.placed = 1
    BY <1>3 DEF Order, OrderFields
  <2> HIDE DEF order
  <2> QED
    BY <1>5, <2>1, <2>2
<1> QED
  BY <1>4, <1>6

(* The invariant holds when the order of the entry has filled. *)
LEMMA InitPlaced == Init => PlacedInv
<1> SUFFICES ASSUME Init PROVE PlacedInv
  OBVIOUS
<1>1. /\ Position(pos) /\ Table(rows) /\ rows = <<>> /\ DOMAIN rows = {}
  <2>1. Position(pos)
    BY DEF Init, Entered, Position, PosFields
  <2>2. Table(rows) /\ DOMAIN rows = {}
    BY DEF Init, Table
  <2> QED
    BY <2>1, <2>2 DEF Init
<1>2. /\ pc = [t \in Tasks |-> pc[t]] /\ loc = [t \in Tasks |-> loc[t]]
      /\ \A t \in Tasks : loc[t] = NoLocals /\ pc[t] \in {"idle", "start"}
  BY DEF Init
<1>3. oco = [k \in Stages |-> oco[k]] /\ \A k \in Stages : Order(oco[k]) /\ oco[k].placed = 0
  BY DEF Init, Order, OrderFields
<1>4. ShapeInv
  BY <1>1, <1>2, <1>3, NewLocals DEF ShapeInv
<1> QED
  BY <1>1, <1>2, <1>3, <1>4
     DEF PlacedInv, OneBracket, PlacersOwn, PlacersDiffer, PlacedHasRow, IsBracket

(* An order list that is done was placed as often as before. *)
LEMMA DoneKeeps ==
  ASSUME PlacedInv, NEW j,
         \/ oco' = oco \/ oco' = [oco EXCEPT ![j].state = "done"]
         \/ \E leg : oco' = [oco EXCEPT ![j].state = "done", ![j].filled = leg]
  PROVE  /\ oco' = [k \in Stages |-> oco'[k]]
         /\ \A k \in Stages : Order(oco'[k]) /\ oco'[k].placed = oco[k].placed
<1>1. oco = [k \in Stages |-> oco[k]] /\ \A k \in Stages : Order(oco[k])
  BY DEF PlacedInv, ShapeInv
<1>2. ASSUME NEW o, Order(o), NEW leg
      PROVE  /\ Order([o EXCEPT !.state = "done"])
             /\ Order([o EXCEPT !.state = "done", !.filled = leg])
             /\ [o EXCEPT !.state = "done"].placed = o.placed
             /\ [o EXCEPT !.state = "done", !.filled = leg].placed = o.placed
  BY <1>2 DEF Order, OrderFields
<1>3. CASE oco' = oco
  BY <1>1, <1>3
<1>4. CASE oco' = [oco EXCEPT ![j].state = "done"]
  <2> DEFINE order == [oco[j] EXCEPT !.state = "done"]
  <2>1. oco' = [oco EXCEPT ![j] = order]
    BY <1>4
  <2>2. j \in Stages => Order(order) /\ order.placed = oco[j].placed
    BY <1>1, <1>2
  <2> HIDE DEF order
  <2> QED
    BY <1>1, <2>1, <2>2
<1>5. ASSUME NEW leg, oco' = [oco EXCEPT ![j].state = "done", ![j].filled = leg]
      PROVE  /\ oco' = [k \in Stages |-> oco'[k]]
             /\ \A k \in Stages : Order(oco'[k]) /\ oco'[k].placed = oco[k].placed
  <2> DEFINE order == [oco[j] EXCEPT !.state = "done", !.filled = leg]
  <2>1. oco' = [oco EXCEPT ![j] = order]
    BY <1>1, <1>5
  <2>2. j \in Stages => Order(order) /\ order.placed = oco[j].placed
    BY <1>1, <1>2
  <2> HIDE DEF order
  <2> QED
    BY <1>1, <2>1, <2>2
<1> QED
  BY <1>3, <1>4, <1>5

(* Every step of establish() keeps the invariant. *)
LEMMA EstablishStepsKeep ==
  ASSUME PlacedInv, NEW t \in Tasks,
         \/ ReadBalance(t) \/ EstablishFails(t) \/ EstablishSubmits(t) \/ PlaceOco(t)
         \/ EstablishAcks(t) \/ PlaceGuard(t) \/ GuardAcks(t) \/ CancelList(t)
         \/ EstablishUnwinds(t)
  PROVE  PlacedInv'
<1>1. Sound(DB) /\ Local(loc[t]) /\ DB.rows = rows /\ DB.pos = pos
  BY SoundDB DEF PlacedInv, ShapeInv, DB
<1>2. oco = [k \in Stages |-> oco[k]] /\ \A k \in Stages : Order(oco[k])
  BY DEF PlacedInv, ShapeInv
<1>3. CASE ReadBalance(t)
  <2> DEFINE lots == IF Free < loc[t].lots THEN Free ELSE loc[t].lots
             locals == [loc[t] EXCEPT !.lots = lots]
  <2>1. GoesOn(t, DB, "account", locals) /\ UNCHANGED exchangeVars
    BY <1>3 DEF ReadBalance
  <2>2. loc[t].stage \in Stages
    BY <1>3 DEF ReadBalance, PlacedInv, ShapeInv
  <2> HIDE DEF lots
  <2>3. Local(locals) /\ locals.stage = loc[t].stage
    BY <1>1, LocalsKeep
  <2> HIDE DEF locals
  <2> QED
    BY <1>1, <2>1, <2>2, <2>3, GoesOnKeeps
<1>4. CASE EstablishFails(t)
  BY <1>1, <1>4, WritesKeep, EndsKeeps DEF EstablishFails
<1>5. CASE EstablishSubmits(t)
  BY <1>5, SubmitKeeps
<1>6. CASE PlaceOco(t)
  BY <1>6, PlaceKeeps
<1>7. CASE EstablishAcks(t)
  <2> DEFINE listed == [DB EXCEPT !.rows[loc[t].row].listed = TRUE]
             acked == [SetRow(SetProt(listed, "protected"), loc[t].row, "protected")
                         EXCEPT !.pos.stop = loc[t].stop]
             broken == SetRow(SetProt(listed, "unprotected"), loc[t].row, "protection_failed")
  <2>1. Sound(listed)
    <3> DEFINE new == [rows EXCEPT ![loc[t].row].listed = TRUE]
    <3>1. listed = [pos |-> pos, rows |-> new]
      BY DEF DB
    <3>2. Table(new)
      BY DEF PlacedInv, ShapeInv, Table
    <3>3. ASSUME NEW j \in DOMAIN rows
          PROVE  Row(new[j]) /\ new[j].role = rows[j].role /\ new[j].stage = rows[j].stage
      BY DEF PlacedInv, ShapeInv, Row, RowFields
    <3>4. DOMAIN new = DOMAIN rows
      OBVIOUS
    <3>5. Grown(new)
      BY <3>2, <3>3, <3>4 DEF Grown
    <3> HIDE DEF new
    <3> QED
      BY <1>1, <3>1, <3>5 DEF Sound
  <2> HIDE DEF listed
  <2>2. Sound(SetRow(SetProt(listed, "protected"), loc[t].row, "protected")) /\ Sound(broken)
    BY <2>1, WritesKeep
  <2>3. Sound(acked)
    <3> DEFINE base == SetRow(SetProt(listed, "protected"), loc[t].row, "protected")
    <3>1. Sound(base)
      BY <2>2
    <3> HIDE DEF base
    <3>2. Sound([base EXCEPT !.pos.stop = loc[t].stop])
      BY <3>1 DEF Sound, Position, PosFields
    <3> QED
      BY <3>2 DEF base
  <2>4. UNCHANGED exchangeVars
    BY <1>7 DEF EstablishAcks
  <2>5. \/ GoesOn(t, acked, "guard", loc[t]) \/ Ends(t, acked) \/ Ends(t, broken)
        \/ Ends(t, Failed(DB))
    BY <1>7 DEF EstablishAcks, listed
  <2> HIDE DEF acked, broken
  <2>6. CASE GoesOn(t, acked, "guard", loc[t])
    BY <1>1, <1>7, <2>3, <2>4, <2>6, GoesOnKeeps DEF EstablishAcks, PlacedInv, ShapeInv
  <2>7. CASE Ends(t, acked) \/ Ends(t, broken)
    BY <2>2, <2>3, <2>4, <2>7, EndsKeeps
  <2>8. CASE Ends(t, Failed(DB))
    BY <1>1, <2>4, <2>8, WritesKeep, EndsKeeps
  <2> QED
    BY <2>5, <2>6, <2>7, <2>8
<1>8. CASE PlaceGuard(t)
  <2>1. PICK answer : Answer(t, "guarded", answer)
    BY <1>8 DEF PlaceGuard
  <2> QED
    BY <1>2, <1>8, <2>1, ServesKeeps DEF PlaceGuard, PlacedInv, ShapeInv
<1>9. CASE GuardAcks(t)
  <2> DEFINE row == [role |-> "guard_stop", stage |-> loc[t].stage, status |-> "protected",
                     listed |-> FALSE, qty |-> loc[t].guard]
             db == [DB EXCEPT !.rows = Append(@, row)]
  <2>1. CASE Ends(t, db)
    <3>1. Row(row) /\ row.role = "guard_stop"
      BY <1>9 DEF GuardAcks, PlacedInv, ShapeInv, Row, RowFields
    <3>2. PICK n \in Nat : rows = [i \in 1..n |-> rows[i]]
      BY DEF PlacedInv, ShapeInv, Table
    <3>3. Len(rows) = n /\ DOMAIN rows = 1..n /\ rows \in Seq({rows[i] : i \in 1..n})
      BY <3>2
    <3> DEFINE new == Append(rows, row)
    <3>4. new = [i \in 1..(n + 1) |-> IF i = n + 1 THEN row ELSE rows[i]]
      BY <3>3
    <3> HIDE DEF row
    <3>5. /\ new = [i \in 1..(n + 1) |-> new[i]] /\ DOMAIN new = 1..(n + 1)
          /\ new[n + 1] = row /\ \A i \in 1..n : new[i] = rows[i]
      BY <3>4
    <3>6. db = [pos |-> pos, rows |-> new]
      BY DEF DB
    <3> HIDE DEF new
    <3>7. Grown(new)
      <4>1. Table(new)
        BY <3>5 DEF Table
      <4>2. ASSUME NEW i \in DOMAIN new
            PROVE  Row(new[i]) /\ (i \notin DOMAIN rows => new[i].role = "guard_stop")
        <5>1. i \in 1..n \/ i = n + 1
          BY <3>2, <3>5
        <5>2. CASE i = n + 1
          BY <3>1, <3>5, <5>2
        <5>3. CASE i \in 1..n
          BY <3>3, <3>5, <5>3 DEF PlacedInv, ShapeInv
        <5> QED
          BY <5>1, <5>2, <5>3
      <4>3. DOMAIN rows \subseteq DOMAIN new /\ \A i \in DOMAIN rows : new[i] = rows[i]
        <5>1. 1..n \subseteq 1..(n + 1)
          OBVIOUS
        <5> QED
          BY <3>3, <3>5, <5>1
      <4> QED
        BY <4>1, <4>2, <4>3 DEF Grown
    <3>8. Sound(db)
      BY <1>1, <3>6, <3>7 DEF Sound
    <3> HIDE DEF db
    <3>9. UNCHANGED exchangeVars
      BY <1>9 DEF GuardAcks
    <3> QED
      BY <2>1, <3>8, <3>9, EndsKeeps
  <2>2. CASE GoesOn(t, DB, "unwind", loc[t])
    BY <1>1, <1>9, <2>2, GoesOnKeeps DEF GuardAcks
  <2> QED
    BY <1>9, <2>1, <2>2 DEF GuardAcks
<1>10. CASE CancelList(t)
  <2>1. Answer(t, "unwound", "none") /\ pos' = pos /\ rows' = rows
    BY <1>10 DEF CancelList
  <2>2. oco' = oco \/ oco' = [oco EXCEPT ![loc[t].stage].state = "done"]
    BY <1>10 DEF CancelList
  <2>3. /\ oco' = [k \in Stages |-> oco'[k]]
        /\ \A k \in Stages : Order(oco'[k]) /\ oco'[k].placed = oco[k].placed
    BY <1>2, <2>2, DoneKeeps
  <2> QED
    BY <2>1, <2>3, ServesKeeps
<1>11. CASE EstablishUnwinds(t)
  BY <1>1, <1>11, WritesKeep, EndsKeeps DEF EstablishUnwinds
<1> QED
  BY <1>3, <1>4, <1>5, <1>6, <1>7, <1>8, <1>9, <1>10, <1>11

(* Every step of advance_stage() and reconcile() after their first await
   keeps the invariant. *)
LEMMA AdvanceStepsKeep ==
  ASSUME PlacedInv, NEW t \in Tasks,
         \/ CancelGuard(t) \/ AdvanceGoesOn(t) \/ ListAnswers(t) \/ ReconcileCloses(t)
         \/ ReconcileFails(t)
  PROVE  PlacedInv'
<1>1. Sound(DB) /\ Local(loc[t]) /\ DB.rows = rows /\ DB.pos = pos
  BY SoundDB DEF PlacedInv, ShapeInv, DB
<1>2. oco = [k \in Stages |-> oco[k]] /\ \A k \in Stages : Order(oco[k])
  BY DEF PlacedInv, ShapeInv
<1>3. CASE CancelGuard(t)
  <2>1. PICK answer : Answer(t, "canceled", answer)
    BY <1>3 DEF CancelGuard
  <2> QED
    BY <1>2, <1>3, <2>1, ServesKeeps DEF CancelGuard
<1>4. CASE AdvanceGoesOn(t)
  <2> DEFINE db == IF loc[t].answer = "ok" THEN SetRow(DB, loc[t].row, "closed") ELSE DB
  <2>1. Sound(db)
    BY <1>1, WritesKeep
  <2>2. UNCHANGED exchangeVars /\ (Becomes(t, Establishing(t, db)) \/ Ends(t, db))
    BY <1>4 DEF AdvanceGoesOn
  <2> HIDE DEF db
  <2> QED
    BY <2>1, <2>2, EstablishingKeeps, BecomesKeeps, EndsKeeps
<1>5. CASE ListAnswers(t)
  <2> DEFINE locals == [loc[t] EXCEPT !.answer = oco[loc[t].stage].filled]
  <2>1. UNCHANGED exchangeVars /\ (GoesOn(t, DB, "details", locals) \/ Ends(t, DB))
    BY <1>5 DEF ListAnswers
  <2>2. Local(locals)
    BY <1>1, LocalsKeep
  <2> HIDE DEF locals
  <2> QED
    BY <1>1, <2>1, <2>2, GoesOnKeeps, EndsKeeps
<1>6. CASE ReconcileCloses(t)
  <2> DEFINE db == SetRow(DB, loc[t].row, "closed")
  <2>1. Sound(db)
    BY <1>1, WritesKeep
  <2>2. UNCHANGED exchangeVars /\ (Becomes(t, Advancing(t, db)) \/ Ends(t, db))
    BY <1>6 DEF ReconcileCloses
  <2> HIDE DEF db
  <2> QED
    BY <2>1, <2>2, AdvancingKeeps, BecomesKeeps, EndsKeeps
<1>7. CASE ReconcileFails(t)
  BY <1>1, <1>7, EndsKeeps DEF ReconcileFails
<1> QED
  BY <1>3, <1>4, <1>5, <1>6, <1>7

(* reconcile() looks at one bracket row; it writes nothing yet. *)
LEMMA ReconcilingKeeps ==
  ASSUME PlacedInv
  PROVE  \A o \in Reconciling(DB) : Outcome(o)
<1> DEFINE i == Max(Brackets)
           locals == [NoLocals EXCEPT !.row = i, !.stage = rows[i].stage]
           o == [db |-> DB, pc |-> "list", loc |-> locals]
<1>1. Sound(DB)
  BY SoundDB DEF PlacedInv
<1>2. Local(locals)
  <2> HIDE DEF i
  <2> QED
    BY NewLocals
<1>3. Outcome(o)
  <2> HIDE DEF locals
  <2> QED
    BY <1>1, <1>2 DEF Outcome
<1>4. \A x \in Reconciling(DB) : x = o
  BY DEF Reconciling
<1> HIDE DEF o
<1> QED
  BY <1>3, <1>4

(* reconcile_all() around it. *)
LEMMA CompareStepsKeep ==
  ASSUME PlacedInv, NEW t \in Tasks,
         \/ BalancesRead(t) \/ ReconcilesActive(t) \/ CorrectPosition(t) \/ ReconcileAllEnds(t)
  PROVE  PlacedInv'
<1>1. Sound(DB) /\ Local(loc[t]) /\ Local(NoLocals) /\ Position(pos) /\ Grown(rows)
  BY SoundDB, NewLocals DEF PlacedInv, ShapeInv, DB, Sound
<1>2. oco = [k \in Stages |-> oco[k]] /\ \A k \in Stages : Order(oco[k])
  BY DEF PlacedInv, ShapeInv
<1>3. CASE BalancesRead(t)
  <2> DEFINE locals == [loc[t] EXCEPT !.owned = Base - sold]
  <2>1. Local(locals)
    BY <1>1 DEF Local, LocFields
  <2>2. /\ pc' = [pc EXCEPT ![t] = "balanced"] /\ loc' = [loc EXCEPT ![t] = locals]
        /\ pos' = pos /\ rows' = rows /\ oco' = oco
    BY <1>3 DEF BalancesRead, exchangeVars
  <2> HIDE DEF locals
  <2> QED
    BY <1>1, <1>2, <2>1, <2>2, QuietStep
<1>4. CASE ReconcilesActive(t)
  BY <1>1, <1>4, ReconcilingKeeps, BecomesKeeps, EndsKeeps DEF ReconcilesActive
<1>5. CASE CorrectPosition(t)
  <2>1. PICK x, y, z : pos' = [pos EXCEPT !.remaining = x, !.status = y, !.prot = z]
    BY <1>5 DEF CorrectPosition
  <2>2. Position(pos')
    BY <1>1, <2>1 DEF Position, PosFields
  <2>3. /\ pc' = [pc EXCEPT ![t] = "idle"] /\ loc' = [loc EXCEPT ![t] = NoLocals]
        /\ rows' = rows /\ oco' = oco
    BY <1>5 DEF CorrectPosition, exchangeVars
  <2> QED
    BY <1>1, <1>2, <2>2, <2>3, QuietStep
<1>6. CASE ReconcileAllEnds(t)
  <2>1. /\ pc' = [pc EXCEPT ![t] = "idle"] /\ loc' = [loc EXCEPT ![t] = NoLocals]
        /\ pos' = pos /\ rows' = rows /\ oco' = oco
    BY <1>6 DEF ReconcileAllEnds, exchangeVars
  <2> QED
    BY <1>1, <1>2, <2>1, QuietStep
<1> QED
  BY <1>3, <1>4, <1>5, <1>6

(* A new establish(), reconcile() or reconcile_all() keeps the invariant. *)
LEMMA RequestsKeep ==
  ASSUME PlacedInv, NEW t \in Tasks,
         EstablishRequest(t) \/ ReconcileRequest(t) \/ BalancesRequest(t)
  PROVE  PlacedInv'
<1>1. Sound(DB) /\ Local(loc[t]) /\ Position(pos) /\ Grown(rows)
  BY SoundDB DEF PlacedInv, ShapeInv, DB, Sound
<1>2. CASE EstablishRequest(t)
  BY <1>1, <1>2, EstablishingKeeps, BecomesKeeps DEF EstablishRequest
<1>3. CASE ReconcileRequest(t)
  BY <1>3, ReconcilingKeeps, BecomesKeeps DEF ReconcileRequest
<1>4. CASE BalancesRequest(t)
  <2> DEFINE locals == [loc[t] EXCEPT !.all = TRUE]
  <2>1. Local(locals)
    BY <1>1, LocalsKeep
  <2>2. /\ pc' = [pc EXCEPT ![t] = "balances"] /\ loc' = [loc EXCEPT ![t] = locals]
        /\ pos' = pos /\ rows' = rows /\ oco' = oco
    BY <1>4 DEF BalancesRequest, exchangeVars
  <2>3. oco = [k \in Stages |-> oco[k]] /\ \A k \in Stages : Order(oco[k])
    BY DEF PlacedInv, ShapeInv
  <2> HIDE DEF locals
  <2> QED
    BY <1>1, <2>1, <2>2, <2>3, QuietStep
<1> QED
  BY <1>2, <1>3, <1>4

(* The consumer of the stream. *)
LEMMA StreamStepsKeep ==
  ASSUME PlacedInv,
         StreamEstablishes \/ StreamIgnores \/ StreamFills \/ StreamFlags \/ StreamListDone
  PROVE  PlacedInv'
<1> DEFINE e == Head(wire)
<1>1. Sound(DB) /\ Stream \in Tasks /\ DB.rows = rows /\ DB.pos = pos
  BY SoundDB DEF PlacedInv, DB, Tasks
<1>2. CASE StreamEstablishes
  BY <1>1, <1>2, EstablishingKeeps, BecomesKeeps DEF StreamEstablishes
<1>3. CASE StreamIgnores
  <2>1. /\ pos' = pos /\ rows' = rows /\ pc' = pc /\ loc' = loc /\ oco' = oco
    BY <1>3 DEF StreamIgnores, Consume, taskVars, exchangeVars
  <2> QED
    BY <2>1, RestingKeeps DEF PlacedInv, ShapeInv
<1>4. CASE StreamFills
  <2> DEFINE Booked(i) == [SetRow(DB, i, "closed") EXCEPT !.pos = Sells(pos, e.qty)]
  <2>1. ASSUME NEW i PROVE Sound(Booked(i))
    <3> DEFINE base == SetRow(DB, i, "closed")
               sells == Sells(pos, e.qty)
    <3>1. Sound(base) /\ Position(pos)
      BY <1>1, WritesKeep DEF Sound
    <3>2. Position(sells)
      BY <3>1 DEF Sells, Position, PosFields
    <3> HIDE DEF base, sells
    <3>3. Sound([base EXCEPT !.pos = sells])
      BY <3>1, <3>2 DEF Sound
    <3> QED
      BY <3>3 DEF base, sells
  <2>2. PICK i : \/ Becomes(Stream, Advancing(Stream, Booked(i)))
                 \/ Ends(Stream, Booked(i))
    BY <1>4 DEF StreamFills
  <2> DEFINE db == Booked(i)
  <2>3. Sound(db) /\ (Becomes(Stream, Advancing(Stream, db)) \/ Ends(Stream, db))
    BY <2>1, <2>2
  <2>4. UNCHANGED exchangeVars
    BY <1>4 DEF StreamFills, Consume
  <2> HIDE DEF db
  <2> QED
    BY <1>1, <2>3, <2>4, AdvancingKeeps, BecomesKeeps, EndsKeeps
<1>5. CASE StreamFlags
  <2>1. PICK i : \/ Ends(Stream, SetRow(SetProt(DB, "unprotected"), i, "protection_failed"))
                 \/ Ends(Stream, DB)
    BY <1>5 DEF StreamFlags
  <2>2. UNCHANGED exchangeVars
    BY <1>5 DEF StreamFlags, Consume
  <2> QED
    BY <1>1, <2>1, <2>2, WritesKeep, EndsKeeps
<1>6. CASE StreamListDone
  <2>1. PICK i : \/ Ends(Stream, SetRow(SetProt(DB, "unprotected"), i, "protection_failed"))
                 \/ Ends(Stream, SetRow(DB, i, "closed"))
    BY <1>6 DEF StreamListDone
  <2>2. UNCHANGED exchangeVars
    BY <1>6 DEF StreamListDone, Consume
  <2> QED
    BY <1>1, <2>1, <2>2, WritesKeep, EndsKeeps
<1> QED
  BY <1>2, <1>3, <1>4, <1>5, <1>6

(* Orders fill, the connection breaks or comes back. *)
LEMMA OutsideStepsKeep ==
  ASSUME PlacedInv,
         \/ \E k \in Stages : TargetFills(k) \/ StopFills(k) \/ GuardFills(k)
         \/ Disconnect \/ Reconnect
  PROVE  PlacedInv'
<1>1. \/ oco' = oco
      \/ \E k, leg : oco' = [oco EXCEPT ![k].state = "done", ![k].filled = leg]
  BY DEF TargetFills, StopFills, LegFills, GuardFills, Disconnect, Reconnect, exchangeVars
<1>2. pos' = pos /\ rows' = rows /\ pc' = pc /\ loc' = loc
  BY DEF TargetFills, StopFills, LegFills, GuardFills, Disconnect, Reconnect, taskVars
<1>3. /\ oco' = [k \in Stages |-> oco'[k]]
      /\ \A k \in Stages : Order(oco'[k]) /\ oco'[k].placed = oco[k].placed
  BY <1>1, DoneKeeps
<1> QED
  BY <1>2, <1>3, RestingKeeps

(* A crash forgets who was about to place; the rows remain. *)
LEMMA CrashKeeps == PlacedInv /\ CrashRestart => PlacedInv'
<1> SUFFICES ASSUME PlacedInv, CrashRestart PROVE PlacedInv'
  OBVIOUS
<1>1. /\ pos' = pos /\ rows' = rows /\ oco' = oco
      /\ pc' = [t \in Tasks |-> "idle"] /\ loc' = [t \in Tasks |-> NoLocals]
  BY DEF CrashRestart, exchangeVars
<1>2. ShapeInv'
  <2>1. (Position(pos) /\ Table(rows) /\ \A i \in DOMAIN rows : Row(rows[i]))'
    BY <1>1 DEF PlacedInv, ShapeInv, Position, Table, Row, Stages
  <2>2. (oco = [k \in Stages |-> oco[k]] /\ \A k \in Stages : Order(oco[k]))'
    BY <1>1 DEF PlacedInv, ShapeInv, Order, Stages
  <2>3. \A t \in Tasks : pc'[t] = "idle" /\ loc'[t] = NoLocals /\ Local(loc'[t])
    BY <1>1, NewLocals
  <2>4. (\A t \in Tasks : Local(loc[t]) /\ pc[t] = "idle")'
    BY <2>3 DEF Local, Tasks
  <2>5. (pc = [t \in Tasks |-> pc[t]] /\ loc = [t \in Tasks |-> loc[t]])'
    BY <1>1 DEF Tasks
  <2> QED
    BY <2>1, <2>2, <2>4, <2>5 DEF ShapeInv
<1>3. OneBracket' /\ PlacedHasRow'
  BY <1>1 DEF PlacedInv, OneBracket, PlacedHasRow, IsBracket, Stages
<1>4. PlacersOwn' /\ PlacersDiffer'
  BY <1>1 DEF PlacersOwn, PlacersDiffer, Tasks
<1> QED
  BY <1>2, <1>3, <1>4 DEF PlacedInv

(* Every step keeps the invariant. *)
LEMMA PlacedStep == PlacedInv /\ [Next]_vars => PlacedInv'
<1> SUFFICES ASSUME PlacedInv, [Next]_vars PROVE PlacedInv'
  OBVIOUS
<1>1. CASE UNCHANGED vars
  <2>1. pos' = pos /\ rows' = rows /\ pc' = pc /\ loc' = loc /\ oco' = oco
    BY <1>1 DEF vars, taskVars, exchangeVars
  <2> QED
    BY <2>1, RestingKeeps DEF PlacedInv, ShapeInv
<1>2. ASSUME NEW t \in Tasks, TaskStep(t) PROVE PlacedInv'
  BY <1>2, EstablishStepsKeep, AdvanceStepsKeep, CompareStepsKeep DEF TaskStep
<1>3. ASSUME NEW t \in Admins, EstablishRequest(t) \/ ReconcileRequest(t) \/ BalancesRequest(t)
      PROVE  PlacedInv'
  BY <1>3, RequestsKeep DEF Tasks
<1>4. CASE StreamEstablishes \/ StreamIgnores \/ StreamFills \/ StreamFlags \/ StreamListDone
  BY <1>4, StreamStepsKeep
<1>5. CASE \/ \E k \in Stages : TargetFills(k) \/ StopFills(k) \/ GuardFills(k)
           \/ Disconnect \/ Reconnect
  BY <1>5, OutsideStepsKeep
<1>6. CASE CrashRestart
  BY <1>6, CrashKeeps
<1> QED
  BY <1>1, <1>2, <1>3, <1>4, <1>5, <1>6 DEF Next

(* PlacedInv holds in every reachable state: one bracket row per stage, one
   task at most about to place it, a row for every stage that was placed. *)
THEOREM PlacedInvariant == Spec => []PlacedInv
  BY InitPlaced, PlacedStep, PTL DEF Spec

(* No interleaving of establish(), advance_stage(), reconcile() and
   reconcile_all(), with crashes, puts two order lists of one stage on the
   exchange (protection.py:143-159, 309-357). *)
THEOREM OneListPerStage == Spec => []PlacedOnce
<1>1. PlacedInv => PlacedOnce
  BY DEF PlacedInv, ShapeInv, Order, PlacedOnce
<1> QED
  BY <1>1, PlacedInvariant, PTL
-----------------------------------------------------------------------------
(***************************************************************************)
(* Quantities.  What the rows, the tasks and the exchange count stays in   *)
(* range, and the lots that are sold or locked are never more than were    *)
(* bought.                                                                 *)
(***************************************************************************)
PosStatuses == {"open", "partially_closed", "closed"}
Protections == {"protection_pending", "protected", "unprotected", "partially_protected", "closed"}
Stops == {"initial", "breakeven"}
Sides == {"tp", "stop", "guard", "list"}
EventStatuses == {"FILLED", "EXPIRED", "CANCELED", "ALL_DONE"}
(* The stream also carries the events of other orders, which have no row    *)
(* here; those of ManualClose sell what they sell on their own account.     *)
Protective == [kind : Sides, stage : Stages, status : EventStatuses, qty : 0..Base]
Trading == {"NEW", "PARTIALLY_FILLED", "FILLED", "EXPIRED"}
Foreign == [kind : {"close"}, order : Nat, status : Trading, trade : Nat]
Events == Protective \cup Foreign

PositionOK(p) ==
  p.status \in PosStatuses /\ p.remaining \in 0..Base /\ p.stop \in Stops /\ p.prot \in Protections
RowOK(r) ==
  /\ r.role \in {"bracket", "guard_stop"} /\ r.status \in RowStatus /\ r.listed \in BOOLEAN
  /\ r.qty \in 1..Base
LocalOK(l) ==
  /\ l.lots \in 0..Base /\ l.guard \in 0..Base /\ l.owned \in 0..Base /\ l.stop \in Stops
  /\ PositionOK(l.seen)
(* What a task carries over an await: the guard it is about to place is one, *)
(* and the stage whose order it cancels exists.                             *)
Carries(label, l) ==
  /\ label \in {"guard", "guarded"} => l.guard > 0
  /\ label \in {"unwind", "cancel"} => l.stage \in Stages

DeskInv ==
  /\ PositionOK(pos) /\ \A i \in DOMAIN rows : RowOK(rows[i])
  /\ \A t \in Tasks : pc[t] \in Labels /\ LocalOK(loc[t]) /\ Carries(pc[t], loc[t])

OrderOK(o) ==
  /\ o.state \in {"none", "live", "done"} /\ o.qty \in 0..Base
  /\ o.placed = 0 => o.state = "none"
  /\ o.state = "live" \/ o.placed = 0 => o.filled = "none"
GuardFields == {"state", "qty"}
GuardOK(g) ==
  g = [f \in GuardFields |-> g[f]] /\ g.qty \in 0..Base

ExchangeInv ==
  /\ \A k \in Stages : OrderOK(oco[k])
  /\ guard = [k \in Stages |-> guard[k]] /\ \A k \in Stages : GuardOK(guard[k])
  /\ sold \in Nat /\ sold + Locked <= Base
  /\ wire \in Seq(Events)

QuantityInv == PlacedInv /\ DeskInv /\ ExchangeInv

(* The database after a transaction: in range, and what it leaves alone.    *)
TypedDB(db) == PositionOK(db.pos) /\ \A i \in DOMAIN db.rows : RowOK(db.rows[i])
SameBooks(d, db) == d.pos.remaining = db.pos.remaining /\ d.pos.status = db.pos.status
SameStage(d, db) == d.pos.stage = db.pos.stage
Kept(d, db) == Sound(d) /\ TypedDB(d) /\ SameBooks(d, db) /\ SameStage(d, db)
TypedOutcome(o) ==
  /\ Outcome(o) /\ TypedDB(o.db) /\ LocalOK(o.loc) /\ o.pc \in Labels /\ Carries(o.pc, o.loc)

LEMMA ConstantsAre ==
  /\ Base \in Nat /\ Base >= 1 /\ Targets \in 1..3 /\ Stages = 0..(Targets - 1) /\ Stages \subseteq Int
BY ProtectionAssumption DEF Stages

(* The writes of a transaction change statuses and prot only.               *)
LEMMA WritesTyped ==
  ASSUME NEW db, Sound(db), TypedDB(db)
  PROVE  /\ \A value \in RowStatus : /\ \A i : Kept(SetRow(db, i, value), db)
                                     /\ \A ids : Kept(SetRows(db, ids, value), db)
         /\ \A p \in Protections : Kept(SetProt(db, p), db)
         /\ Kept(Failed(db), db)
<1>1. ASSUME NEW d, Sound(d), TypedDB(d), NEW v \in Protections PROVE Kept(SetProt(d, v), d)
  <2>1. Sound(SetProt(d, v))
    BY <1>1, WritesKeep
  <2>2. /\ SetProt(d, v).rows = d.rows /\ PositionOK(SetProt(d, v).pos)
        /\ SameBooks(SetProt(d, v), d) /\ SameStage(SetProt(d, v), d)
    BY <1>1 DEF SetProt, Sound, Position, PosFields, PositionOK, TypedDB, SameBooks, SameStage
  <2> QED BY <1>1, <2>1, <2>2 DEF Kept, TypedDB
<1>2. ASSUME NEW r, Row(r), RowOK(r), NEW v \in RowStatus PROVE RowOK([r EXCEPT !.status = v])
  BY <1>2 DEF Row, RowFields, RowOK
<1>3. ASSUME NEW d, Sound(d), TypedDB(d), NEW S, NEW v \in RowStatus
      PROVE  Kept(SetRows(d, S, v), d)
  <2> DEFINE new == [j \in DOMAIN d.rows |-> IF j \in S THEN [d.rows[j] EXCEPT !.status = v]
                                             ELSE d.rows[j]]
  <2>1. Sound(SetRows(d, S, v))
    BY <1>3, WritesKeep
  <2>2. SetRows(d, S, v).rows = new /\ SetRows(d, S, v).pos = d.pos
    BY <1>3 DEF SetRows, Sound
  <2>3. ASSUME NEW j \in DOMAIN new PROVE RowOK(new[j])
    <3>1. Row(d.rows[j]) /\ RowOK(d.rows[j])
      BY <1>3 DEF Sound, Grown, TypedDB
    <3>2. RowOK([d.rows[j] EXCEPT !.status = v])
      BY <1>2, <3>1
    <3>3. new[j] = [d.rows[j] EXCEPT !.status = v] \/ new[j] = d.rows[j]
      OBVIOUS
    <3> HIDE DEF new
    <3> QED BY <3>1, <3>2, <3>3
  <2> HIDE DEF new
  <2> QED BY <1>3, <2>1, <2>2, <2>3 DEF Kept, TypedDB, SameBooks, SameStage
<1>4. ASSUME NEW i, NEW value \in RowStatus PROVE Kept(SetRow(db, i, value), db)
  <2> DEFINE new == [db.rows EXCEPT ![i].status = value]
  <2>1. Sound(SetRow(db, i, value))
    BY WritesKeep
  <2>2. SetRow(db, i, value).rows = new /\ SetRow(db, i, value).pos = db.pos
    BY DEF SetRow, Sound
  <2>3. ASSUME NEW j \in DOMAIN new PROVE RowOK(new[j])
    <3>1. Row(db.rows[j]) /\ RowOK(db.rows[j])
      BY DEF Sound, Grown, TypedDB
    <3>2. RowOK([db.rows[j] EXCEPT !.status = value])
      BY <1>2, <3>1
    <3>3. new[j] = [db.rows[j] EXCEPT !.status = value] \/ new[j] = db.rows[j]
      OBVIOUS
    <3> HIDE DEF new
    <3> QED BY <3>1, <3>2, <3>3
  <2> HIDE DEF new
  <2> QED BY <2>1, <2>2, <2>3 DEF Kept, TypedDB, SameBooks, SameStage
<1>5. Kept(Failed(db), db)
  <2> DEFINE base == SetProt(db, "unprotected")
             failed == SetRows(base, {Len(db.rows)} \cap DOMAIN db.rows, "protection_failed")
  <2>1. Kept(base, db)
    BY <1>1 DEF Protections
  <2> HIDE DEF base
  <2>2. Kept(failed, base)
    <3> DEFINE S == {Len(db.rows)} \cap DOMAIN db.rows
    <3>1. Sound(base) /\ TypedDB(base) /\ "protection_failed" \in RowStatus
      BY <2>1 DEF Kept, RowStatus
    <3> HIDE DEF S
    <3>2. Kept(SetRows(base, S, "protection_failed"), base)
      BY <1>3, <3>1
    <3> QED BY <3>2 DEF S
  <2>3. Failed(db) = failed
    BY DEF Failed, base
  <2> HIDE DEF failed
  <2> QED BY <2>1, <2>2, <2>3 DEF Kept, SameBooks, SameStage
<1> QED BY <1>1, <1>3, <1>4, <1>5

(* The locals a call starts with, and those of the tasks that go on.        *)
LEMMA LocalsTyped ==
  ASSUME NEW k, NEW x \in Stops, NEW y \in 0..Base, NEW z
  PROVE  /\ LocalOK(NoLocals)
         /\ LocalOK([NoLocals EXCEPT !.stage = k, !.stop = x, !.lots = y])
         /\ LocalOK([NoLocals EXCEPT !.stage = k, !.row = z, !.lots = y])
         /\ LocalOK([NoLocals EXCEPT !.row = z, !.stage = k])
         /\ [NoLocals EXCEPT !.stage = k, !.row = z, !.lots = y].stage = k
<1> USE ConstantsAre
<1>1. PositionOK(Entered)
  BY DEF PositionOK, Entered, PosStatuses, Protections, Stops
<1> QED BY <1>1 DEF LocalOK, NoLocals, Stops
(* establish() and advance_stage() leave the books alone; advance_stage()   *)
(* moves the position on by one stage.                                      *)
LEMMA EstablishingTyped ==
  ASSUME NEW db, Sound(db), TypedDB(db), NEW t
  PROVE  \A o \in Establishing(t, db) : TypedOutcome(o) /\ SameBooks(o.db, db) /\ SameStage(o.db, db)
<1> DEFINE refused == [db |-> db, pc |-> "idle", loc |-> NoLocals]
           invalid == [db |-> SetProt(db, "unprotected"), pc |-> "idle", loc |-> NoLocals]
           locals == [NoLocals EXCEPT !.stage = db.pos.stage, !.stop = db.pos.stop,
                                      !.lots = db.pos.remaining]
           goesOn == [db |-> SetProt(db, "protection_pending"), pc |-> "market", loc |-> locals]
<1>1. \A o \in Establishing(t, db) : Outcome(o)
  BY EstablishingKeeps
<1>2. \A o \in Establishing(t, db) : o = refused \/ o = invalid \/ o = goesOn
  BY DEF Establishing
<1>3. LocalOK(NoLocals) /\ LocalOK(locals)
  <2>1. db.pos.stop \in Stops /\ db.pos.remaining \in 0..Base
    BY DEF TypedDB, PositionOK
  <2> QED BY <2>1, LocalsTyped
<1> HIDE DEF locals
<1>4. ASSUME NEW p \in {"unprotected", "protection_pending"} PROVE Kept(SetProt(db, p), db)
  <2>1. p \in Protections
    BY DEF Protections
  <2> QED BY <2>1, WritesTyped
<1> DEFINE Fine(o) == /\ TypedDB(o.db) /\ LocalOK(o.loc) /\ o.pc \in Labels /\ Carries(o.pc, o.loc)
                      /\ SameBooks(o.db, db) /\ SameStage(o.db, db)
<1>5. Fine(refused)
  BY <1>3 DEF Carries, Labels, SameBooks, SameStage
<1>6. Fine(invalid)
  BY <1>3, <1>4 DEF Carries, Labels, Kept
<1>7. Fine(goesOn)
  BY <1>3, <1>4 DEF Carries, Labels, Kept
<1> HIDE DEF refused, invalid, goesOn
<1> QED BY <1>1, <1>2, <1>5, <1>6, <1>7 DEF TypedOutcome

LEMMA AdvancedTyped ==
  ASSUME NEW db, Sound(db), TypedDB(db)
  PROVE  /\ Sound(Advanced(db)) /\ TypedDB(Advanced(db)) /\ SameBooks(Advanced(db), db)
         /\ Advanced(db).pos.stage = db.pos.stage + 1
<1> DEFINE next == Advanced(db)
           closed == SetRows(db, RowOf(db, "bracket", db.pos.stage), "closed")
           p == closed.pos
           moved == [p EXCEPT !.stage = db.pos.stage + 1,
                              !.stop = IF db.pos.stage = 0 THEN "breakeven" ELSE @]
<1>1. Kept(closed, db)
  <2>1. "closed" \in RowStatus
    BY DEF RowStatus
  <2> QED BY <2>1, WritesTyped
<1>2. db.pos.stage + 1 \in Nat
  BY DEF Sound, Position
<1>3. next = [closed EXCEPT !.pos.stage = db.pos.stage + 1,
                            !.pos.stop = IF db.pos.stage = 0 THEN "breakeven" ELSE @]
  BY DEF Advanced
<1> HIDE DEF closed, next
<1>4. next = [pos |-> moved, rows |-> closed.rows]
  BY <1>1, <1>3 DEF Sound, Kept
<1>5. /\ Position(moved) /\ PositionOK(moved) /\ moved.remaining = p.remaining
      /\ moved.status = p.status /\ moved.stage = db.pos.stage + 1
  BY <1>1, <1>2 DEF Sound, Kept, Position, PosFields, TypedDB, PositionOK, Stops
<1> HIDE DEF moved
<1> QED BY <1>1, <1>4, <1>5 DEF Sound, Kept, TypedDB, SameBooks, next

LEMMA AdvancingTyped ==
  ASSUME NEW db, Sound(db), TypedDB(db), NEW t
  PROVE  \A o \in Advancing(t, db) :
           TypedOutcome(o) /\ SameBooks(o.db, db) /\ o.db.pos.stage = db.pos.stage + 1
<1> DEFINE next == Advanced(db)
           guards == LiveGuard(db, db.pos.stage)
           row == CHOOSE i \in guards : TRUE
           lots == IF db.pos.status = "closed" THEN 0 ELSE db.pos.remaining
           locals == [NoLocals EXCEPT !.stage = db.pos.stage, !.row = row, !.lots = lots]
           cancels == [db |-> next, pc |-> "cancel", loc |-> locals]
           done == [db |-> next, pc |-> "idle", loc |-> NoLocals]
<1>1. \A o \in Advancing(t, db) : Outcome(o)
  BY AdvancingKeeps
<1>2. /\ Sound(next) /\ TypedDB(next) /\ SameBooks(next, db)
      /\ next.pos.stage = db.pos.stage + 1
  BY AdvancedTyped
<1>3. \A o \in Establishing(t, next) :
        TypedOutcome(o) /\ SameBooks(o.db, db) /\ o.db.pos.stage = db.pos.stage + 1
  <2> HIDE DEF next
  <2> QED BY <1>2, EstablishingTyped DEF SameBooks, SameStage
<1>4. lots \in 0..Base
  BY ConstantsAre DEF TypedDB, PositionOK
<1>5. LocalOK(NoLocals) /\ LocalOK(locals) /\ locals.stage = db.pos.stage
  <2> HIDE DEF row, lots
  <2>1. "initial" \in Stops
    BY DEF Stops
  <2> QED BY <1>4, <2>1, LocalsTyped
<1>6. guards # {} => db.pos.stage \in Stages
  BY DEF LiveGuard, RowOf, Sound, Grown, Row
<1>7. \A o \in Advancing(t, db) :
        (o = cancels /\ guards # {}) \/ o = done \/ o \in Establishing(t, next)
  BY DEF Advancing
<1> HIDE DEF next, guards, locals
<1> DEFINE Fine(o) == /\ TypedDB(o.db) /\ LocalOK(o.loc) /\ o.pc \in Labels /\ Carries(o.pc, o.loc)
                      /\ SameBooks(o.db, db) /\ o.db.pos.stage = db.pos.stage + 1
<1>8. Fine(done)
  BY <1>2, <1>5 DEF Carries, Labels
<1>9. guards # {} => Fine(cancels)
  BY <1>2, <1>5, <1>6 DEF Carries, Labels
<1> HIDE DEF cancels, done
<1> QED BY <1>1, <1>3, <1>7, <1>8, <1>9 DEF TypedOutcome

(* What the exchange still has free.                                        *)
LotsOf(o, g) == [k \in Stages |-> LotsIn(o[k]) + LotsIn(g[k])]
LockedIn(o, g) == Total(LotsOf(o, g), 0, Targets - 1)
Quantified(o, g) == \A k \in Stages : o[k].qty \in 0..Base /\ g[k].qty \in 0..Base

LEMMA LockedIs ==
  ASSUME NEW o, NEW g, Quantified(o, g)
  PROVE  LockedIn(o, g) \in Nat /\ Summands(LotsOf(o, g), 0, Targets - 1)
<1>1. \A k \in 0..(Targets - 1) : LotsOf(o, g)[k] \in Nat
  BY ConstantsAre DEF LotsOf, LotsIn, Quantified
<1>2. 0 \in Int /\ Targets - 1 \in Int /\ 0 - 1 <= Targets - 1
  BY ConstantsAre
<1>3. Summands(LotsOf(o, g), 0, Targets - 1)
  BY <1>1 DEF Summands
<1> QED BY <1>1, <1>2, <1>3, TotalNotNegative DEF LockedIn

(* The orders of one stage change.                                          *)
LEMMA LockedChanges ==
  ASSUME NEW o, NEW g, NEW u, NEW h, Quantified(o, g), Quantified(u, h), NEW k \in Stages,
         \A j \in Stages : j # k => u[j] = o[j] /\ h[j] = g[j]
  PROVE  LockedIn(u, h) = LockedIn(o, g) + (LotsIn(u[k]) + LotsIn(h[k])) - (LotsIn(o[k]) + LotsIn(g[k]))
<1> DEFINE q == LotsOf(o, g)
           r == LotsOf(u, h)
           n == Targets - 1
<1>1. Summands(q, 0, n) /\ Summands(r, 0, n)
  BY LockedIs
<1>2. \A i \in 0..n : i # k => r[i] = q[i]
  BY ConstantsAre DEF LotsOf
<1>3. 0 \in Int /\ n \in Int /\ 0 - 1 <= n /\ k \in 0..n
  BY ConstantsAre
<1>4. q[k] = LotsIn(o[k]) + LotsIn(g[k]) /\ r[k] = LotsIn(u[k]) + LotsIn(h[k])
  BY DEF LotsOf
<1> HIDE DEF q, r, n
<1>5. Total(r, 0, n) = Total(q, 0, n) + r[k] - q[k]
  BY <1>1, <1>2, <1>3, TotalUpdate
<1> QED BY <1>4, <1>5 DEF LockedIn, q, r, n

LEMMA FreeIs ==
  ASSUME ExchangeInv
  PROVE  Free \in 0..Base /\ sold \in 0..Base /\ Locked = LockedIn(oco, guard) /\ Locked \in Nat
<1>1. Quantified(oco, guard)
  BY DEF ExchangeInv, OrderOK, GuardOK, Quantified
<1>2. LockedIn(oco, guard) \in Nat
  BY <1>1, LockedIs
<1>3. Locked = LockedIn(oco, guard)
  BY DEF Locked, LockedIn, LotsOf, LotsAtStage
<1> QED BY <1>2, <1>3, ConstantsAre DEF ExchangeInv, Free

-----------------------------------------------------------------------------
(* The tasks stay in range.                                                 *)
BooksKept == pos'.remaining = pos.remaining /\ pos'.status = pos.status
StageKept == pos'.stage = pos.stage

LEMMA DeskStep ==
  ASSUME PlacedInv, DeskInv, NEW t \in Tasks, PositionOK(pos'),
         \A i \in DOMAIN rows' : RowOK(rows'[i]), NEW label \in Labels, NEW locals,
         LocalOK(locals), Carries(label, locals),
         pc' = [pc EXCEPT ![t] = label], loc' = [loc EXCEPT ![t] = locals]
  PROVE  DeskInv'
<1>1. /\ \A u \in Tasks : u # t => pc'[u] = pc[u] /\ loc'[u] = loc[u]
      /\ pc'[t] = label /\ loc'[t] = locals
  BY DEF PlacedInv, ShapeInv
<1>2. \A u \in Tasks : pc'[u] \in Labels /\ LocalOK(loc'[u]) /\ Carries(pc'[u], loc'[u])
  BY <1>1 DEF DeskInv
<1> QED BY <1>2 DEF DeskInv, LocalOK, PositionOK, RowOK, RowStatus, Carries, Labels, Tasks, Stages

LEMMA DeskRests ==
  ASSUME DeskInv, pos' = pos, rows' = rows, pc' = pc, loc' = loc
  PROVE  DeskInv' /\ BooksKept /\ StageKept
BY DEF DeskInv, LocalOK, PositionOK, RowOK, RowStatus, Carries, Labels, Tasks, Stages,
       BooksKept, StageKept

LEMMA BecomesTyped ==
  ASSUME PlacedInv, DeskInv, NEW t \in Tasks, NEW outcomes, \A o \in outcomes : TypedOutcome(o),
         Becomes(t, outcomes)
  PROVE  DeskInv' /\ \E o \in outcomes : pos' = o.db.pos
<1>1. PICK o \in outcomes :
        LET returns == o.pc = "idle" /\ loc[t].all
            kept == [o.loc EXCEPT !.all = loc[t].all, !.owned = loc[t].owned]
        IN  /\ pos' = o.db.pos /\ rows' = o.db.rows
            /\ pc' = [pc EXCEPT ![t] = IF returns THEN "orders" ELSE o.pc]
            /\ loc' = [loc EXCEPT ![t] =
                         IF returns THEN [kept EXCEPT !.seen = o.db.pos, !.row = Len(o.db.rows)]
                         ELSE kept]
  BY DEF Becomes
<1> DEFINE returns == o.pc = "idle" /\ loc[t].all
           kept == [o.loc EXCEPT !.all = loc[t].all, !.owned = loc[t].owned]
           back == [kept EXCEPT !.seen = o.db.pos, !.row = Len(o.db.rows)]
<1>2. TypedOutcome(o) /\ Local(o.loc) /\ LocalOK(loc[t])
  BY <1>1 DEF TypedOutcome, Outcome, DeskInv
<1>3. Local(kept) /\ LocalOK(kept) /\ kept.guard = o.loc.guard /\ kept.stage = o.loc.stage
  BY <1>2 DEF TypedOutcome, Local, LocFields, LocalOK
<1>4. LocalOK(back)
  <2> HIDE DEF kept
  <2> QED BY <1>2, <1>3 DEF TypedOutcome, TypedDB, Local, LocFields, LocalOK
<1>5. /\ pos' = o.db.pos /\ rows' = o.db.rows
      /\ pc' = [pc EXCEPT ![t] = IF returns THEN "orders" ELSE o.pc]
      /\ loc' = [loc EXCEPT ![t] = IF returns THEN back ELSE kept]
  BY <1>1
<1>6. Carries("orders", back) /\ (Carries(o.pc, o.loc) => Carries(o.pc, kept))
  BY <1>3 DEF Carries
<1> HIDE DEF returns, kept, back
<1>7. PositionOK(pos') /\ \A i \in DOMAIN rows' : RowOK(rows'[i])
  BY <1>2, <1>5 DEF TypedOutcome, TypedDB
<1>8. CASE returns
  <2>1. "orders" \in Labels
    BY DEF Labels
  <2> QED BY <1>4, <1>5, <1>6, <1>7, <1>8, <2>1, DeskStep
<1>9. CASE ~returns
  BY <1>2, <1>3, <1>5, <1>6, <1>7, <1>9, DeskStep DEF TypedOutcome
<1> QED BY <1>1, <1>8, <1>9

LEMMA EndsTyped ==
  ASSUME PlacedInv, DeskInv, NEW t \in Tasks, NEW db, Sound(db), TypedDB(db), Ends(t, db)
  PROVE  DeskInv' /\ pos' = db.pos
<1> DEFINE o == [db |-> db, pc |-> "idle", loc |-> NoLocals]
<1>1. TypedOutcome(o)
  <2>1. Local(NoLocals) /\ LocalOK(NoLocals)
    <3>1. "initial" \in Stops /\ 0 \in 0..Base
      BY ConstantsAre DEF Stops
    <3> QED BY <3>1, NewLocals, LocalsTyped
  <2> QED BY <2>1 DEF TypedOutcome, Outcome, Labels, Carries
<1>2. Becomes(t, {o}) /\ o.db = db
  BY DEF Ends
<1> HIDE DEF o
<1> QED BY <1>1, <1>2, BecomesTyped

LEMMA GoesOnTyped ==
  ASSUME PlacedInv, DeskInv, NEW t \in Tasks, NEW db, Sound(db), TypedDB(db),
         NEW label \in Labels, label # "place", NEW locals, Local(locals), LocalOK(locals),
         Carries(label, locals), label \in Staged => locals.stage \in Stages,
         GoesOn(t, db, label, locals)
  PROVE  DeskInv' /\ pos' = db.pos
<1> DEFINE o == [db |-> db, pc |-> label, loc |-> locals]
<1>1. TypedOutcome(o)
  BY DEF TypedOutcome, Outcome
<1>2. Becomes(t, {o}) /\ o.db = db
  BY DEF GoesOn
<1> HIDE DEF o
<1> QED BY <1>1, <1>2, BecomesTyped

LEMMA AnswerTyped ==
  ASSUME PlacedInv, DeskInv, NEW t \in Tasks, pos' = pos, rows' = rows, NEW label \in Labels,
         NEW answer, Answer(t, label, answer), Carries(label, loc[t])
  PROVE  DeskInv' /\ BooksKept /\ StageKept
<1> DEFINE locals == [loc[t] EXCEPT !.answer = answer]
<1>1. /\ LocalOK(locals) /\ locals.guard = loc[t].guard /\ locals.stage = loc[t].stage
  BY DEF PlacedInv, ShapeInv, Local, LocFields, DeskInv, LocalOK
<1>2. pc' = [pc EXCEPT ![t] = label] /\ loc' = [loc EXCEPT ![t] = locals]
  BY DEF Answer
<1>3. Carries(label, locals)
  BY <1>1 DEF Carries
<1>4. PositionOK(pos') /\ \A i \in DOMAIN rows' : RowOK(rows'[i])
  BY DEF DeskInv
<1> HIDE DEF locals
<1> QED BY <1>1, <1>2, <1>3, <1>4, DeskStep DEF BooksKept, StageKept

LEMMA TypedNow ==
  ASSUME PlacedInv, DeskInv
  PROVE  Sound(DB) /\ TypedDB(DB) /\ DB.rows = rows /\ DB.pos = pos
BY SoundDB DEF PlacedInv, DeskInv, TypedDB, DB

(* The bracket row is inserted for a part of what the task counted.         *)
LEMMA SubmitTyped ==
  ASSUME PlacedInv, DeskInv, NEW t \in Tasks, EstablishSubmits(t)
  PROVE  DeskInv' /\ BooksKept /\ StageKept
<1>1. PICK qty \in BracketSizes(t) :
        GoesOn(t, [DB EXCEPT !.rows = Append(@, [role |-> "bracket", stage |-> loc[t].stage,
                                                status |-> "submitting", listed |-> FALSE,
                                                qty |-> qty])],
               "place", [loc[t] EXCEPT !.row = Len(rows) + 1, !.guard = loc[t].lots - qty])
  BY DEF EstablishSubmits
<1> DEFINE row == [role |-> "bracket", stage |-> loc[t].stage, status |-> "submitting",
                   listed |-> FALSE, qty |-> qty]
           left == loc[t].lots - qty
           next == Len(rows) + 1
           locals == [loc[t] EXCEPT !.row = next, !.guard = left]
           kept == [locals EXCEPT !.all = loc[t].all, !.owned = loc[t].owned]
<1>2. Local(loc[t]) /\ LocalOK(loc[t])
  BY DEF PlacedInv, ShapeInv, DeskInv
<1>3. qty \in 1..Base /\ left \in 0..Base
  BY <1>2, ConstantsAre DEF BracketSizes, LocalOK
<1>4. /\ pos' = pos /\ rows' = Append(rows, row)
      /\ pc' = [pc EXCEPT ![t] = "place"] /\ loc' = [loc EXCEPT ![t] = kept]
  <2> DEFINE db == [DB EXCEPT !.rows = Append(@, row)]
             o == [db |-> db, pc |-> "place", loc |-> locals]
  <2>1. Becomes(t, {o})
    BY <1>1 DEF GoesOn
  <2>2. db.pos = pos /\ db.rows = Append(rows, row)
    BY DEF DB
  <2>3. o.db = db /\ o.pc = "place" /\ o.loc = locals
    OBVIOUS
  <2> HIDE DEF o, db, locals
  <2> QED BY <2>1, <2>2, <2>3 DEF Becomes
<1>5. LocalOK(locals) /\ Local(locals)
  <2> HIDE DEF left
  <2> QED BY <1>2, <1>3 DEF Local, LocFields, LocalOK
<1>6. LocalOK(kept) /\ Carries("place", kept)
  <2> HIDE DEF locals
  <2> QED BY <1>2, <1>5 DEF Local, LocFields, LocalOK, Carries
<1>7. RowOK(row)
  BY <1>3 DEF RowOK, RowStatus
<1>8. PICK n \in Nat : rows = [i \in 1..n |-> rows[i]]
  BY DEF PlacedInv, ShapeInv, Table
<1>9. Len(rows) = n /\ DOMAIN rows = 1..n /\ rows \in Seq({rows[i] : i \in 1..n})
  BY <1>8
<1>10. Append(rows, row) = [i \in 1..(n + 1) |-> IF i = n + 1 THEN row ELSE rows[i]]
  BY <1>9
<1> HIDE DEF row, kept
<1>11. \A i \in DOMAIN rows' : RowOK(rows'[i])
  <2>1. \A i \in 1..(n + 1) : RowOK(IF i = n + 1 THEN row ELSE rows[i])
    BY <1>7, <1>9 DEF DeskInv
  <2> QED BY <1>4, <1>10, <2>1
<1>12. PositionOK(pos') /\ "place" \in Labels
  BY <1>4 DEF DeskInv, Labels
<1> QED BY <1>4, <1>6, <1>11, <1>12, DeskStep DEF BooksKept, StageKept

(* The guard's row is inserted for what the task has left.                  *)
LEMMA GuardAcksTyped ==
  ASSUME PlacedInv, DeskInv, NEW t \in Tasks, GuardAcks(t)
  PROVE  DeskInv' /\ BooksKept /\ StageKept
<1> DEFINE row == [role |-> "guard_stop", stage |-> loc[t].stage, status |-> "protected",
                   listed |-> FALSE, qty |-> loc[t].guard]
           new == Append(rows, row)
           db == [DB EXCEPT !.rows = Append(@, row)]
<1>1. Sound(DB) /\ TypedDB(DB) /\ DB.rows = rows /\ DB.pos = pos
  BY TypedNow
<1>2. /\ pc[t] = "guarded" /\ Local(loc[t]) /\ LocalOK(loc[t]) /\ loc[t].guard \in 1..Base
      /\ loc[t].stage \in Stages
  BY ConstantsAre DEF GuardAcks, PlacedInv, ShapeInv, DeskInv, Carries, LocalOK
<1>3. Ends(t, db) \/ GoesOn(t, DB, "unwind", loc[t])
  BY DEF GuardAcks
<1>4. CASE GoesOn(t, DB, "unwind", loc[t])
  <2>1. "unwind" \in Labels /\ Carries("unwind", loc[t])
    BY <1>2 DEF Labels, Carries
  <2> QED BY <1>1, <1>2, <1>4, <2>1, GoesOnTyped DEF BooksKept, StageKept
<1>5. CASE Ends(t, db)
  <2>1. Row(row) /\ row.role = "guard_stop" /\ RowOK(row)
    BY <1>2 DEF Row, RowFields, RowOK, RowStatus
  <2>2. PICK n \in Nat : rows = [i \in 1..n |-> rows[i]]
    BY DEF PlacedInv, ShapeInv, Table
  <2>3. Len(rows) = n /\ DOMAIN rows = 1..n /\ rows \in Seq({rows[i] : i \in 1..n})
    BY <2>2
  <2>4. new = [i \in 1..(n + 1) |-> IF i = n + 1 THEN row ELSE rows[i]]
    BY <2>3
  <2> HIDE DEF row
  <2>5. /\ new = [i \in 1..(n + 1) |-> new[i]] /\ DOMAIN new = 1..(n + 1)
        /\ new[n + 1] = row /\ \A i \in 1..n : new[i] = rows[i]
    BY <2>4
  <2>6. db = [pos |-> pos, rows |-> new]
    BY DEF DB
  <2> HIDE DEF new
  <2>7. ASSUME NEW i \in DOMAIN new
        PROVE  Row(new[i]) /\ RowOK(new[i]) /\ (i \notin DOMAIN rows => new[i].role = "guard_stop")
    <3>1. i \in 1..n \/ i = n + 1
      BY <2>2, <2>5
    <3>2. CASE i = n + 1
      BY <2>1, <2>5, <3>2
    <3>3. CASE i \in 1..n
      BY <2>3, <2>5, <3>3 DEF PlacedInv, ShapeInv, DeskInv
    <3> QED BY <3>1, <3>2, <3>3
  <2>8. Table(new)
    BY <2>5 DEF Table
  <2>9. DOMAIN rows \subseteq DOMAIN new /\ \A i \in DOMAIN rows : new[i] = rows[i]
    <3>1. 1..n \subseteq 1..(n + 1)
      OBVIOUS
    <3> QED BY <2>3, <2>5, <3>1
  <2>10. Grown(new)
    BY <2>7, <2>8, <2>9 DEF Grown
  <2>11. Sound(db) /\ TypedDB(db) /\ db.pos = pos
    BY <1>1, <2>6, <2>7, <2>10 DEF Sound, TypedDB
  <2> HIDE DEF db
  <2> QED BY <1>5, <2>11, EndsTyped DEF BooksKept, StageKept
<1> QED BY <1>3, <1>4, <1>5

(* The list is acknowledged.                                                *)
LEMMA AcksTyped ==
  ASSUME PlacedInv, DeskInv, NEW t \in Tasks, EstablishAcks(t)
  PROVE  DeskInv' /\ BooksKept /\ StageKept
<1> DEFINE listed == [DB EXCEPT !.rows[loc[t].row].listed = TRUE]
           base == SetRow(SetProt(listed, "protected"), loc[t].row, "protected")
           acked == [base EXCEPT !.pos.stop = loc[t].stop]
           broken == SetRow(SetProt(listed, "unprotected"), loc[t].row, "protection_failed")
<1>1. Sound(DB) /\ TypedDB(DB) /\ DB.rows = rows /\ DB.pos = pos
  BY TypedNow
<1>2. Local(loc[t]) /\ LocalOK(loc[t]) /\ loc[t].stage \in Stages
  BY DEF EstablishAcks, PlacedInv, ShapeInv, DeskInv
<1>3. Kept(listed, DB)
  <2> DEFINE new == [rows EXCEPT ![loc[t].row].listed = TRUE]
  <2>1. listed = [pos |-> pos, rows |-> new]
    BY DEF DB
  <2>2. Table(new) /\ DOMAIN new = DOMAIN rows
    BY DEF PlacedInv, ShapeInv, Table
  <2>3. ASSUME NEW j \in DOMAIN rows
        PROVE  /\ Row(new[j]) /\ new[j].role = rows[j].role /\ new[j].stage = rows[j].stage
               /\ RowOK(new[j])
    <3> DEFINE marked == [rows[j] EXCEPT !.listed = TRUE]
    <3>1. Row(rows[j]) /\ RowOK(rows[j])
      BY DEF PlacedInv, ShapeInv, DeskInv
    <3>2. /\ Row(marked) /\ marked.role = rows[j].role /\ marked.stage = rows[j].stage
          /\ RowOK(marked)
      BY <3>1 DEF Row, RowFields, RowOK
    <3>3. new[j] = marked \/ new[j] = rows[j]
      OBVIOUS
    <3> HIDE DEF new, marked
    <3> QED BY <3>1, <3>2, <3>3
  <2>4. Grown(new)
    BY <2>2, <2>3 DEF Grown
  <2> HIDE DEF new
  <2> QED BY <1>1, <2>1, <2>2, <2>3, <2>4 DEF Kept, Sound, TypedDB, SameBooks, SameStage
<1> HIDE DEF listed
<1>4. /\ "protected" \in RowStatus /\ "protection_failed" \in RowStatus
      /\ "protected" \in Protections /\ "unprotected" \in Protections
      /\ "guard" \in Labels
  BY DEF RowStatus, Protections, Labels
<1>5. Kept(SetProt(listed, "protected"), listed) /\ Kept(SetProt(listed, "unprotected"), listed)
  BY <1>3, <1>4, WritesTyped DEF Kept
<1>6. Kept(base, SetProt(listed, "protected")) /\ Kept(broken, SetProt(listed, "unprotected"))
  BY <1>4, <1>5, WritesTyped DEF Kept
<1>7. Kept(base, DB) /\ Kept(broken, DB)
  BY <1>3, <1>5, <1>6 DEF Kept, SameBooks, SameStage
<1>8. GoesOn(t, acked, "guard", loc[t]) \/ Ends(t, acked) \/ Ends(t, broken) \/ Ends(t, Failed(DB))
  BY DEF EstablishAcks, listed
<1>9. GoesOn(t, acked, "guard", loc[t]) => loc[t].guard > 0 \/ Ends(t, acked) \/ Ends(t, broken)
                                             \/ Ends(t, Failed(DB))
  BY DEF EstablishAcks, listed
<1> HIDE DEF base, broken
<1>10. Kept(acked, DB)
  <2>1. Sound(base) /\ TypedDB(base) /\ loc[t].stop \in Stops
    BY <1>2, <1>7 DEF Kept, LocalOK
  <2>2. /\ acked = [base EXCEPT !.pos = [base.pos EXCEPT !.stop = loc[t].stop]]
        /\ acked = [pos |-> acked.pos, rows |-> base.rows]
    BY <2>1 DEF Sound
  <2>3. /\ Position(acked.pos) /\ PositionOK(acked.pos)
        /\ acked.pos.remaining = base.pos.remaining /\ acked.pos.status = base.pos.status
        /\ acked.pos.stage = base.pos.stage
    BY <2>1 DEF Sound, Position, PosFields, TypedDB, PositionOK
  <2> HIDE DEF acked
  <2> QED BY <1>7, <2>1, <2>2, <2>3 DEF Kept, Sound, TypedDB, SameBooks, SameStage
<1> HIDE DEF acked
<1>11. Kept(Failed(DB), DB)
  BY <1>1, WritesTyped
<1>12. ASSUME NEW db, Kept(db, DB), Ends(t, db) PROVE DeskInv' /\ BooksKept /\ StageKept
  BY <1>1, <1>12, EndsTyped DEF Kept, SameBooks, SameStage, BooksKept, StageKept
<1>13. CASE GoesOn(t, acked, "guard", loc[t]) /\ loc[t].guard > 0
  <2>1. Carries("guard", loc[t])
    BY <1>13 DEF Carries
  <2> QED BY <1>1, <1>2, <1>4, <1>10, <1>13, <2>1, GoesOnTyped
          DEF Kept, SameBooks, SameStage, BooksKept, StageKept
<1> QED BY <1>7, <1>8, <1>9, <1>10, <1>11, <1>12, <1>13

(* establish().                                                             *)
LEMMA EstablishDesk ==
  ASSUME QuantityInv, NEW t \in Tasks,
         \/ ReadBalance(t) \/ EstablishFails(t) \/ EstablishSubmits(t) \/ PlaceOco(t)
         \/ EstablishAcks(t) \/ PlaceGuard(t) \/ GuardAcks(t) \/ CancelList(t)
         \/ EstablishUnwinds(t)
  PROVE  DeskInv' /\ BooksKept /\ StageKept
<1>1. /\ Sound(DB) /\ TypedDB(DB) /\ DB.rows = rows /\ DB.pos = pos /\ PlacedInv /\ DeskInv
      /\ Local(loc[t]) /\ LocalOK(loc[t]) /\ Carries(pc[t], loc[t])
      /\ pc[t] \in Staged => loc[t].stage \in Stages
  BY TypedNow DEF QuantityInv, PlacedInv, ShapeInv, DeskInv
<1>2. ASSUME NEW db, Kept(db, DB), Ends(t, db) PROVE DeskInv' /\ BooksKept /\ StageKept
  BY <1>1, <1>2, EndsTyped DEF Kept, SameBooks, SameStage, BooksKept, StageKept
<1>3. CASE ReadBalance(t)
  <2> DEFINE lots == IF Free < loc[t].lots THEN Free ELSE loc[t].lots
             locals == [loc[t] EXCEPT !.lots = lots]
  <2>1. GoesOn(t, DB, "account", locals) /\ loc[t].stage \in Stages
    BY <1>1, <1>3 DEF ReadBalance
  <2>2. lots \in 0..Base
    BY <1>1, FreeIs, ConstantsAre DEF QuantityInv, LocalOK
  <2> HIDE DEF lots
  <2>3. Local(locals) /\ LocalOK(locals) /\ locals.stage = loc[t].stage
    BY <1>1, <2>2 DEF Local, LocFields, LocalOK
  <2>4. "account" \in Labels /\ Carries("account", locals)
    BY DEF Labels, Carries
  <2> HIDE DEF locals
  <2> QED BY <1>1, <2>1, <2>3, <2>4, GoesOnTyped DEF BooksKept, StageKept
<1>4. CASE EstablishFails(t)
  BY <1>1, <1>2, <1>4, WritesTyped DEF EstablishFails
<1>5. CASE EstablishSubmits(t)
  BY <1>1, <1>5, SubmitTyped
<1>6. CASE PlaceOco(t)
  <2>1. PICK answer : Answer(t, "placed", answer)
    BY <1>6 DEF PlaceOco
  <2>2. pos' = pos /\ rows' = rows /\ "placed" \in Labels /\ Carries("placed", loc[t])
    BY <1>6 DEF PlaceOco, Labels, Carries
  <2> QED BY <1>1, <2>1, <2>2, AnswerTyped
<1>7. CASE EstablishAcks(t)
  BY <1>1, <1>7, AcksTyped
<1>8. CASE PlaceGuard(t)
  <2>1. PICK answer : Answer(t, "guarded", answer)
    BY <1>8 DEF PlaceGuard
  <2>2. pos' = pos /\ rows' = rows /\ "guarded" \in Labels /\ Carries("guarded", loc[t])
    BY <1>1, <1>8 DEF PlaceGuard, Labels, Carries
  <2> QED BY <1>1, <2>1, <2>2, AnswerTyped
<1>9. CASE GuardAcks(t)
  BY <1>1, <1>9, GuardAcksTyped
<1>10. CASE CancelList(t)
  <2>1. /\ Answer(t, "unwound", "none") /\ pos' = pos /\ rows' = rows
        /\ "unwound" \in Labels /\ Carries("unwound", loc[t])
    BY <1>10 DEF CancelList, Labels, Carries
  <2> QED BY <1>1, <2>1, AnswerTyped
<1>11. CASE EstablishUnwinds(t)
  <2> DEFINE flagged == SetProt(DB, "unprotected")
             db == SetRow(flagged, loc[t].row, "protection_failed")
  <2>1. Kept(flagged, DB)
    BY <1>1, WritesTyped DEF Protections
  <2> HIDE DEF flagged
  <2>2. Kept(db, flagged)
    <3>1. "protection_failed" \in RowStatus
      BY DEF RowStatus
    <3> QED BY <2>1, <3>1, WritesTyped DEF Kept
  <2>3. Ends(t, db)
    BY <1>11 DEF EstablishUnwinds, flagged
  <2> HIDE DEF db
  <2>4. Kept(db, DB)
    BY <2>1, <2>2 DEF Kept, SameBooks, SameStage
  <2> QED BY <1>2, <2>3, <2>4
<1> QED BY <1>3, <1>4, <1>5, <1>6, <1>7, <1>8, <1>9, <1>10, <1>11

(* reconcile() looks at a bracket and writes nothing.                       *)
LEMMA ReconcilingTyped ==
  ASSUME PlacedInv, DeskInv
  PROVE  \A o \in Reconciling(DB) : TypedOutcome(o) /\ o.db = DB
<1> DEFINE i == Max(Brackets)
           k == rows[i].stage
           locals == [NoLocals EXCEPT !.row = i, !.stage = k]
           o == [db |-> DB, pc |-> "list", loc |-> locals]
<1>1. \A x \in Reconciling(DB) : x = o
  BY DEF Reconciling
<1>2. \A x \in Reconciling(DB) : Outcome(x)
  BY ReconcilingKeeps
<1>3. LocalOK(locals)
  <2>1. "initial" \in Stops /\ 0 \in 0..Base
    BY ConstantsAre DEF Stops
  <2> HIDE DEF i, k
  <2> QED BY <2>1, LocalsTyped
<1> HIDE DEF locals
<1>4. o.db = DB /\ TypedDB(o.db) /\ LocalOK(o.loc) /\ o.pc \in Labels /\ Carries(o.pc, o.loc)
  BY <1>3, TypedNow DEF Labels, Carries
<1> HIDE DEF o
<1> QED BY <1>1, <1>2, <1>4 DEF TypedOutcome

(* advance_stage() and reconcile() after their first await.                 *)
LEMMA AdvanceDesk ==
  ASSUME QuantityInv, NEW t \in Tasks,
         \/ CancelGuard(t) \/ AdvanceGoesOn(t) \/ ListAnswers(t) \/ ReconcileCloses(t)
         \/ ReconcileFails(t)
  PROVE  DeskInv' /\ BooksKept /\ (StageKept \/ ReconcileCloses(t))
<1>1. /\ Sound(DB) /\ TypedDB(DB) /\ DB.rows = rows /\ DB.pos = pos /\ PlacedInv /\ DeskInv
      /\ Local(loc[t]) /\ LocalOK(loc[t]) /\ Carries(pc[t], loc[t])
      /\ Kept(DB, DB)
  BY TypedNow DEF QuantityInv, PlacedInv, ShapeInv, DeskInv, Kept, SameBooks, SameStage
<1>2. ASSUME NEW db, Kept(db, DB), Ends(t, db) PROVE DeskInv' /\ BooksKept /\ StageKept
  BY <1>1, <1>2, EndsTyped DEF Kept, SameBooks, SameStage, BooksKept, StageKept
<1>3. "closed" \in RowStatus
  BY DEF RowStatus
<1>4. CASE CancelGuard(t)
  <2>1. PICK answer : Answer(t, "canceled", answer)
    BY <1>4 DEF CancelGuard
  <2>2. pos' = pos /\ rows' = rows /\ "canceled" \in Labels /\ Carries("canceled", loc[t])
    BY <1>4 DEF CancelGuard, Labels, Carries
  <2> QED BY <1>1, <2>1, <2>2, AnswerTyped
<1>5. CASE AdvanceGoesOn(t)
  <2> DEFINE db == IF loc[t].answer = "ok" THEN SetRow(DB, loc[t].row, "closed") ELSE DB
  <2>1. Kept(db, DB)
    BY <1>1, <1>3, WritesTyped
  <2>2. Becomes(t, Establishing(t, db)) \/ Ends(t, db)
    BY <1>5 DEF AdvanceGoesOn
  <2> HIDE DEF db
  <2>3. CASE Becomes(t, Establishing(t, db))
    <3>1. \A o \in Establishing(t, db) :
            TypedOutcome(o) /\ SameBooks(o.db, db) /\ SameStage(o.db, db)
      BY <2>1, EstablishingTyped DEF Kept
    <3>2. PICK o \in Establishing(t, db) : DeskInv' /\ pos' = o.db.pos
      BY <1>1, <2>3, <3>1, BecomesTyped
    <3> QED BY <1>1, <2>1, <3>1, <3>2 DEF Kept, SameBooks, SameStage, BooksKept, StageKept
  <2> QED BY <1>2, <2>1, <2>2, <2>3
<1>6. CASE ListAnswers(t)
  <2> DEFINE locals == [loc[t] EXCEPT !.answer = oco[loc[t].stage].filled]
  <2>1. GoesOn(t, DB, "details", locals) \/ Ends(t, DB)
    BY <1>6 DEF ListAnswers
  <2>2. Local(locals) /\ LocalOK(locals) /\ "details" \in Labels /\ Carries("details", locals)
    BY <1>1 DEF Local, LocFields, LocalOK, Labels, Carries
  <2> HIDE DEF locals
  <2>3. CASE GoesOn(t, DB, "details", locals)
    BY <1>1, <2>2, <2>3, GoesOnTyped DEF BooksKept, StageKept
  <2> QED BY <1>1, <1>2, <2>1, <2>3
<1>7. CASE ReconcileCloses(t)
  <2> DEFINE db == SetRow(DB, loc[t].row, "closed")
  <2>1. Kept(db, DB)
    BY <1>1, <1>3, WritesTyped
  <2>2. Becomes(t, Advancing(t, db)) \/ Ends(t, db)
    BY <1>7 DEF ReconcileCloses
  <2> HIDE DEF db
  <2>3. CASE Becomes(t, Advancing(t, db))
    <3>1. \A o \in Advancing(t, db) : TypedOutcome(o) /\ SameBooks(o.db, db)
      BY <2>1, AdvancingTyped DEF Kept
    <3>2. PICK o \in Advancing(t, db) : DeskInv' /\ pos' = o.db.pos
      BY <1>1, <2>3, <3>1, BecomesTyped
    <3> QED BY <1>1, <1>7, <2>1, <3>1, <3>2 DEF Kept, SameBooks, BooksKept
  <2> QED BY <1>2, <2>1, <2>2, <2>3
<1>8. CASE ReconcileFails(t)
  BY <1>1, <1>2, <1>8 DEF ReconcileFails
<1> QED BY <1>4, <1>5, <1>6, <1>7, <1>8

(* reconcile_all(): only its last step writes the position.                 *)
LEMMA CompareDesk ==
  ASSUME QuantityInv, NEW t \in Tasks,
         \/ BalancesRead(t) \/ ReconcilesActive(t) \/ CorrectPosition(t) \/ ReconcileAllEnds(t)
  PROVE  DeskInv' /\ StageKept /\ (BooksKept \/ CorrectPosition(t))
<1>1. /\ Sound(DB) /\ TypedDB(DB) /\ DB.rows = rows /\ DB.pos = pos /\ PlacedInv /\ DeskInv
      /\ Local(loc[t]) /\ LocalOK(loc[t]) /\ Carries(pc[t], loc[t]) /\ Kept(DB, DB)
  BY TypedNow DEF QuantityInv, PlacedInv, ShapeInv, DeskInv, Kept, SameBooks, SameStage
<1>2. PositionOK(pos) /\ \A i \in DOMAIN rows : RowOK(rows[i])
  BY <1>1 DEF DeskInv
<1>3. LocalOK(NoLocals) /\ Local(NoLocals)
  <2>1. "initial" \in Stops /\ 0 \in 0..Base
    BY ConstantsAre DEF Stops
  <2> QED BY <2>1, LocalsTyped, NewLocals
<1>4. CASE BalancesRead(t)
  <2> DEFINE locals == [loc[t] EXCEPT !.owned = Base - sold]
  <2>1. Base - sold \in 0..Base
    BY FreeIs, ConstantsAre DEF QuantityInv
  <2>2. LocalOK(locals) /\ "balanced" \in Labels /\ Carries("balanced", locals)
    BY <1>1, <2>1 DEF Local, LocFields, LocalOK, Labels, Carries
  <2>3. /\ pc' = [pc EXCEPT ![t] = "balanced"] /\ loc' = [loc EXCEPT ![t] = locals]
        /\ pos' = pos /\ rows' = rows
    BY <1>4 DEF BalancesRead
  <2> HIDE DEF locals
  <2> QED BY <1>1, <1>2, <2>2, <2>3, DeskStep DEF BooksKept, StageKept
<1>5. CASE ReconcilesActive(t)
  <2>1. CASE Becomes(t, Reconciling(DB))
    <3>1. PICK o \in Reconciling(DB) : DeskInv' /\ pos' = o.db.pos
      BY <1>1, <2>1, ReconcilingTyped, BecomesTyped
    <3> QED BY <1>1, <3>1, ReconcilingTyped DEF BooksKept, StageKept
  <2>2. CASE Ends(t, DB)
    BY <1>1, <2>2, EndsTyped DEF BooksKept, StageKept
  <2> QED BY <1>5, <2>1, <2>2 DEF ReconcilesActive
<1>6. CASE CorrectPosition(t)
  <2> DEFINE seen == loc[t].seen
             remaining == Min({seen.remaining, loc[t].owned})
             status == IF remaining = 0 THEN "closed"
                       ELSE IF remaining < Base THEN "partially_closed" ELSE "open"
             prot == IF remaining = 0 THEN "closed"
                     ELSE IF loc[t].row = 0 THEN "unprotected" ELSE seen.prot
             x == Written(remaining, seen.remaining, pos.remaining)
             y == Written(status, seen.status, pos.status)
             z == Written(prot, seen.prot, pos.prot)
  <2>1. pos' = [pos EXCEPT !.remaining = x, !.status = y, !.prot = z]
    BY <1>6 DEF CorrectPosition
  <2>2. remaining \in 0..Base
    <3>1. seen.remaining \in 0..Base /\ loc[t].owned \in 0..Base
      BY <1>1 DEF LocalOK, PositionOK
    <3>2. \A m, n \in 0..Base : Min({m, n}) \in {m, n}
      <4> SUFFICES ASSUME NEW m \in 0..Base, NEW n \in 0..Base PROVE Min({m, n}) \in {m, n}
        OBVIOUS
      <4>1. \E u \in {m, n} : \A v \in {m, n} : u <= v
        BY ConstantsAre
      <4> QED BY <4>1 DEF Min
    <3> HIDE DEF seen
    <3> QED BY <3>1, <3>2
  <2>3. PositionOK(seen)
    BY <1>1 DEF LocalOK
  <2> HIDE DEF remaining, seen
  <2>4. x \in 0..Base /\ y \in PosStatuses /\ z \in Protections
    BY <1>2, <2>2, <2>3 DEF Written, PositionOK, PosStatuses, Protections
  <2> HIDE DEF x, y, z
  <2>5. PositionOK(pos') /\ pos'.stage = pos.stage
    BY <1>1, <1>2, <2>1, <2>4 DEF PlacedInv, ShapeInv, Position, PosFields, PositionOK
  <2>6. /\ pc' = [pc EXCEPT ![t] = "idle"] /\ loc' = [loc EXCEPT ![t] = NoLocals] /\ rows' = rows
    BY <1>6 DEF CorrectPosition
  <2>7. "idle" \in Labels /\ Carries("idle", NoLocals)
    BY DEF Labels, Carries
  <2> QED BY <1>1, <1>2, <1>3, <1>6, <2>5, <2>6, <2>7, DeskStep DEF StageKept
<1>7. CASE ReconcileAllEnds(t)
  <2>1. /\ pc' = [pc EXCEPT ![t] = "idle"] /\ loc' = [loc EXCEPT ![t] = NoLocals]
        /\ pos' = pos /\ rows' = rows
    BY <1>7 DEF ReconcileAllEnds
  <2>2. "idle" \in Labels /\ Carries("idle", NoLocals)
    BY DEF Labels, Carries
  <2> QED BY <1>1, <1>2, <1>3, <2>1, <2>2, DeskStep DEF BooksKept, StageKept
<1> QED BY <1>4, <1>5, <1>6, <1>7

(* A fill is booked: the position is sold by it, and moves on by a stage    *)
(* only if the fill is a target's.                                          *)
FillsBooked(e) ==
  /\ pos'.remaining = Sells(pos, e.qty).remaining /\ pos'.status = Sells(pos, e.qty).status
  /\ pos'.stage = pos.stage \/ (pos'.stage = pos.stage + 1 /\ e.kind = "tp")

LEMMA SellsTyped ==
  ASSUME Position(pos), PositionOK(pos), NEW qty \in 0..Base
  PROVE  /\ Position(Sells(pos, qty)) /\ PositionOK(Sells(pos, qty))
         /\ Sells(pos, qty).stage = pos.stage
         /\ Sells(pos, qty).remaining = IF qty >= pos.remaining THEN 0 ELSE pos.remaining - qty
         /\ Sells(pos, qty).status = IF qty >= pos.remaining THEN "closed" ELSE "partially_closed"
<1> DEFINE With(x, y, z) == [pos EXCEPT !.remaining = x, !.status = y, !.prot = z]
<1>1. ASSUME NEW x \in 0..Base, NEW y \in PosStatuses, NEW z \in Protections
      PROVE  /\ Position(With(x, y, z)) /\ PositionOK(With(x, y, z))
             /\ With(x, y, z).stage = pos.stage
             /\ With(x, y, z).remaining = x /\ With(x, y, z).status = y
  BY DEF Position, PosFields, PositionOK
<1>2. 0 \in 0..Base /\ (~(qty >= pos.remaining) => pos.remaining - qty \in 0..Base)
  BY ConstantsAre DEF PositionOK
<1>3. /\ "closed" \in PosStatuses /\ "partially_closed" \in PosStatuses
      /\ "closed" \in Protections /\ "partially_protected" \in Protections
  BY DEF PosStatuses, Protections
<1>4. Sells(pos, qty) = IF qty >= pos.remaining THEN With(0, "closed", "closed")
                        ELSE With(pos.remaining - qty, "partially_closed", "partially_protected")
  BY DEF Sells
<1> HIDE DEF With
<1>5. CASE qty >= pos.remaining
  <2>1. Sells(pos, qty) = With(0, "closed", "closed")
    BY <1>4, <1>5
  <2> QED BY <1>1, <1>2, <1>3, <1>5, <2>1
<1>6. CASE ~(qty >= pos.remaining)
  <2>1. Sells(pos, qty) = With(pos.remaining - qty, "partially_closed", "partially_protected")
    BY <1>4, <1>6
  <2> QED BY <1>1, <1>2, <1>3, <1>6, <2>1
<1> QED BY <1>5, <1>6

(* An event that has a row here is of a protective order.                   *)
LEMMA HeadIsProtective ==
  ASSUME ExchangeInv, wire # <<>>, NEW i \in RowsOf(Head(wire))
  PROVE  Head(wire) \in Protective
<1>1. Head(wire) \in Events
  BY HeadTailProperties DEF ExchangeInv
<1>2. Head(wire).kind # "close"
  BY DEF RowsOf
<1> QED BY <1>1, <1>2 DEF Events, Foreign

LEMMA StreamFillsDesk ==
  ASSUME QuantityInv, StreamFills
  PROVE  DeskInv' /\ FillsBooked(Head(wire))
<1> DEFINE e == Head(wire)
           Booked(i) == [SetRow(DB, i, "closed") EXCEPT !.pos = Sells(pos, e.qty)]
<1>1. /\ Sound(DB) /\ TypedDB(DB) /\ DB.rows = rows /\ DB.pos = pos /\ PlacedInv /\ DeskInv
      /\ Stream \in Tasks /\ Position(pos) /\ PositionOK(pos)
  BY TypedNow DEF QuantityInv, PlacedInv, ShapeInv, DeskInv, Tasks
<1>2. e \in Protective /\ e.qty \in 0..Base
  BY HeadIsProtective DEF QuantityInv, StreamFills, StreamReady, Protective
<1> DEFINE sells == Sells(pos, e.qty)
<1>3. Position(sells) /\ PositionOK(sells) /\ sells.stage = pos.stage
  BY <1>1, <1>2, SellsTyped
<1>4. ASSUME NEW i PROVE Sound(Booked(i)) /\ TypedDB(Booked(i)) /\ Booked(i).pos = sells
  <2> DEFINE base == SetRow(DB, i, "closed")
  <2>1. Sound(base) /\ TypedDB(base)
    <3>1. "closed" \in RowStatus
      BY DEF RowStatus
    <3> QED BY <1>1, <3>1, WritesTyped DEF Kept
  <2> HIDE DEF base, sells
  <2>2. LET d == [base EXCEPT !.pos = sells] IN Sound(d) /\ TypedDB(d) /\ d.pos = sells
    BY <1>3, <2>1 DEF Sound, TypedDB
  <2> QED BY <2>2 DEF base, sells
<1>5. PICK i : \/ Becomes(Stream, Advancing(Stream, Booked(i))) /\ e.kind = "tp"
               \/ Ends(Stream, Booked(i))
  BY DEF StreamFills
<1> DEFINE db == Booked(i)
<1>6. Sound(db) /\ TypedDB(db) /\ db.pos = sells
  BY <1>4
<1>7. (Becomes(Stream, Advancing(Stream, db)) /\ e.kind = "tp") \/ Ends(Stream, db)
  BY <1>5
<1> HIDE DEF db, sells, Booked
<1>8. CASE Becomes(Stream, Advancing(Stream, db)) /\ e.kind = "tp"
  <2>1. \A o \in Advancing(Stream, db) :
          TypedOutcome(o) /\ SameBooks(o.db, db) /\ o.db.pos.stage = db.pos.stage + 1
    BY <1>6, AdvancingTyped
  <2>2. PICK o \in Advancing(Stream, db) : DeskInv' /\ pos' = o.db.pos
    BY <1>1, <1>8, <2>1, BecomesTyped
  <2>3. pos'.remaining = sells.remaining /\ pos'.status = sells.status /\ pos'.stage = pos.stage + 1
    BY <1>3, <1>6, <2>1, <2>2 DEF SameBooks
  <2> QED BY <1>8, <2>2, <2>3 DEF FillsBooked, sells
<1>9. CASE Ends(Stream, db)
  <2>1. DeskInv' /\ pos' = sells
    BY <1>1, <1>6, <1>9, EndsTyped
  <2> QED BY <1>3, <2>1 DEF FillsBooked, sells
<1> QED BY <1>7, <1>8, <1>9

(* The other events of the stream flag or close rows.                       *)
LEMMA StreamDesk ==
  ASSUME QuantityInv, StreamEstablishes \/ StreamIgnores \/ StreamFlags \/ StreamListDone
  PROVE  DeskInv' /\ BooksKept /\ StageKept
<1>1. /\ Sound(DB) /\ TypedDB(DB) /\ DB.rows = rows /\ DB.pos = pos /\ PlacedInv /\ DeskInv
      /\ Stream \in Tasks /\ Kept(DB, DB)
  BY TypedNow DEF QuantityInv, Tasks, Kept, SameBooks, SameStage
<1>2. ASSUME NEW db, Kept(db, DB), Ends(Stream, db) PROVE DeskInv' /\ BooksKept /\ StageKept
  BY <1>1, <1>2, EndsTyped DEF Kept, SameBooks, SameStage, BooksKept, StageKept
<1>3. ASSUME NEW i PROVE Kept(SetRow(SetProt(DB, "unprotected"), i, "protection_failed"), DB)
  <2> DEFINE flagged == SetProt(DB, "unprotected")
  <2>1. "unprotected" \in Protections /\ "protection_failed" \in RowStatus
    BY DEF Protections, RowStatus
  <2>2. Kept(flagged, DB)
    BY <1>1, <2>1, WritesTyped
  <2> HIDE DEF flagged
  <2>3. Kept(SetRow(flagged, i, "protection_failed"), flagged)
    BY <2>1, <2>2, WritesTyped DEF Kept
  <2>4. Kept(SetRow(flagged, i, "protection_failed"), DB)
    BY <2>2, <2>3 DEF Kept, SameBooks, SameStage
  <2> QED BY <2>4 DEF flagged
<1>4. CASE StreamEstablishes
  <2>1. Becomes(Stream, Establishing(Stream, DB))
    BY <1>4 DEF StreamEstablishes
  <2>2. \A o \in Establishing(Stream, DB) :
          TypedOutcome(o) /\ SameBooks(o.db, DB) /\ SameStage(o.db, DB)
    BY <1>1, EstablishingTyped
  <2>3. PICK o \in Establishing(Stream, DB) : DeskInv' /\ pos' = o.db.pos
    BY <1>1, <2>1, <2>2, BecomesTyped
  <2> QED BY <1>1, <2>2, <2>3 DEF SameBooks, SameStage, BooksKept, StageKept
<1>5. CASE StreamIgnores
  BY <1>1, <1>5, DeskRests DEF StreamIgnores, taskVars
<1>6. CASE StreamFlags
  <2>1. PICK i : \/ Ends(Stream, SetRow(SetProt(DB, "unprotected"), i, "protection_failed"))
                 \/ Ends(Stream, DB)
    BY <1>6 DEF StreamFlags
  <2> QED BY <1>1, <1>2, <1>3, <2>1
<1>7. CASE StreamListDone
  <2>1. PICK i : \/ Ends(Stream, SetRow(SetProt(DB, "unprotected"), i, "protection_failed"))
                 \/ Ends(Stream, SetRow(DB, i, "closed"))
    BY <1>7 DEF StreamListDone
  <2>2. Kept(SetRow(DB, i, "closed"), DB)
    <3>1. "closed" \in RowStatus
      BY DEF RowStatus
    <3> QED BY <1>1, <3>1, WritesTyped
  <2> QED BY <1>2, <1>3, <2>1, <2>2
<1> QED BY <1>4, <1>5, <1>6, <1>7

(* A new request; orders fill, the connection breaks or comes back; the     *)
(* process crashes.                                                         *)
LEMMA RequestDesk ==
  ASSUME QuantityInv, NEW t \in Tasks,
         EstablishRequest(t) \/ ReconcileRequest(t) \/ BalancesRequest(t)
  PROVE  DeskInv' /\ BooksKept /\ StageKept
<1>1. /\ Sound(DB) /\ TypedDB(DB) /\ DB.rows = rows /\ DB.pos = pos /\ PlacedInv /\ DeskInv
      /\ Local(loc[t]) /\ LocalOK(loc[t])
  BY TypedNow DEF QuantityInv, PlacedInv, ShapeInv, DeskInv
<1>2. CASE EstablishRequest(t)
  <2>1. Becomes(t, Establishing(t, DB))
    BY <1>2 DEF EstablishRequest
  <2>2. \A o \in Establishing(t, DB) :
          TypedOutcome(o) /\ SameBooks(o.db, DB) /\ SameStage(o.db, DB)
    BY <1>1, EstablishingTyped
  <2>3. PICK o \in Establishing(t, DB) : DeskInv' /\ pos' = o.db.pos
    BY <1>1, <2>1, <2>2, BecomesTyped
  <2> QED BY <1>1, <2>2, <2>3 DEF SameBooks, SameStage, BooksKept, StageKept
<1>3. CASE ReconcileRequest(t)
  <2>1. PICK o \in Reconciling(DB) : DeskInv' /\ pos' = o.db.pos
    BY <1>1, <1>3, ReconcilingTyped, BecomesTyped DEF ReconcileRequest
  <2> QED BY <1>1, <2>1, ReconcilingTyped DEF BooksKept, StageKept
<1>4. CASE BalancesRequest(t)
  <2> DEFINE locals == [loc[t] EXCEPT !.all = TRUE]
  <2>1. LocalOK(locals) /\ "balances" \in Labels /\ Carries("balances", locals)
    BY <1>1 DEF Local, LocFields, LocalOK, Labels, Carries
  <2>2. /\ pc' = [pc EXCEPT ![t] = "balances"] /\ loc' = [loc EXCEPT ![t] = locals]
        /\ pos' = pos /\ rows' = rows
    BY <1>4 DEF BalancesRequest
  <2>3. PositionOK(pos') /\ \A i \in DOMAIN rows' : RowOK(rows'[i])
    BY <1>1, <2>2 DEF DeskInv
  <2> HIDE DEF locals
  <2> QED BY <1>1, <2>1, <2>2, <2>3, DeskStep DEF BooksKept, StageKept
<1> QED BY <1>2, <1>3, <1>4

LEMMA OutsideDesk ==
  ASSUME QuantityInv,
         \/ \E k \in Stages : TargetFills(k) \/ StopFills(k) \/ GuardFills(k)
         \/ Disconnect \/ Reconnect \/ CrashRestart
  PROVE  DeskInv' /\ BooksKept /\ StageKept
<1>1. pos' = pos /\ rows' = rows
  BY DEF TargetFills, StopFills, LegFills, GuardFills, Disconnect, Reconnect, CrashRestart
<1>2. \/ pc' = pc /\ loc' = loc
      \/ pc' = [t \in Tasks |-> "idle"] /\ loc' = [t \in Tasks |-> NoLocals]
  BY DEF TargetFills, StopFills, LegFills, GuardFills, Disconnect, Reconnect, CrashRestart, taskVars
<1>3. CASE pc' = pc /\ loc' = loc
  BY <1>1, <1>3, DeskRests DEF QuantityInv
<1>4. CASE pc' = [t \in Tasks |-> "idle"] /\ loc' = [t \in Tasks |-> NoLocals]
  <2>1. LocalOK(NoLocals)
    <3>1. "initial" \in Stops /\ 0 \in 0..Base
      BY ConstantsAre DEF Stops
    <3> QED BY <3>1, LocalsTyped
  <2>2. \A t \in Tasks : pc'[t] \in Labels /\ LocalOK(loc'[t]) /\ Carries(pc'[t], loc'[t])
    BY <1>4, <2>1 DEF Labels, Carries
  <2>3. PositionOK(pos') /\ \A i \in DOMAIN rows' : RowOK(rows'[i])
    BY <1>1 DEF QuantityInv, DeskInv
  <2> QED BY <1>1, <2>2, <2>3
          DEF DeskInv, LocalOK, PositionOK, RowOK, RowStatus, Carries, Labels, Tasks, Stages,
              BooksKept, StageKept
<1> QED BY <1>2, <1>3, <1>4

-----------------------------------------------------------------------------
(***************************************************************************)
(* The exchange.  No lot is sold or locked twice; and each step that is    *)
(* not a consumption puts at most as many lots in filled events on the     *)
(* wire as it sells, and a target's fill only for a target that fills.     *)
(***************************************************************************)
FillLots == [e \in Events |-> IF e.kind # "close" /\ e.status = "FILLED" THEN e.qty ELSE 0]
TargetHits == [e \in Events |-> IF e.kind = "tp" /\ e.status = "FILLED" THEN 1 ELSE 0]
HitsIn(o) == {k \in Stages : o[k].filled = "tp"}

SalesCovered == Along(FillLots, wire') + sold <= Along(FillLots, wire) + sold'
HitsCovered ==
  Along(TargetHits, wire') + Cardinality(HitsIn(oco))
    <= Along(TargetHits, wire) + Cardinality(HitsIn(oco'))

LEMMA WeightsAre == FillLots \in [Events -> Nat] /\ TargetHits \in [Events -> Nat]
BY ConstantsAre DEF FillLots, TargetHits, Events, Protective, Foreign

LEMMA HitsAre == ASSUME NEW o PROVE IsFiniteSet(HitsIn(o)) /\ Cardinality(HitsIn(o)) \in Nat
<1>1. IsFiniteSet(0..(Targets - 1)) /\ HitsIn(o) \subseteq 0..(Targets - 1)
  BY FS_Interval, ConstantsAre DEF HitsIn
<1> QED BY <1>1, FS_Subset, FS_CardinalityType

(* The events of a step reach the stream or are lost with the connection.   *)
LEMMA SendsOne ==
  ASSUME wire \in Seq(Events), NEW e \in Events, Send(<<e>>), NEW f \in [Events -> Nat]
  PROVE  wire' \in Seq(Events) /\ Along(f, wire') <= Along(f, wire) + f[e]
<1>1. Along(f, wire) \in Nat /\ f[e] \in Nat
  BY AlongType
<1>2. CASE connected
  <2>1. wire' = Append(wire, e)
    BY <1>2, AppendIsConcat DEF Send
  <2>2. /\ Append(wire, e) \in Seq(Events)
        /\ Along(f, Append(wire, e)) = Along(f, wire) + f[e]
    BY AlongAppend
  <2> QED BY <1>1, <2>1, <2>2
<1>3. CASE ~connected
  BY <1>1, <1>3 DEF Send
<1> QED BY <1>2, <1>3

LEMMA SendsThree ==
  ASSUME wire \in Seq(Events), NEW a \in Events, NEW b \in Events, NEW c \in Events,
         Send(<<a, b, c>>), NEW f \in [Events -> Nat]
  PROVE  wire' \in Seq(Events) /\ Along(f, wire') <= Along(f, wire) + f[a] + f[b] + f[c]
<1>1. Along(f, wire) \in Nat /\ f[a] \in Nat /\ f[b] \in Nat /\ f[c] \in Nat
  BY AlongType
<1>2. CASE connected
  <2> DEFINE x == Append(wire, a)
             y == Append(x, b)
             z == Append(y, c)
  <2>1. wire' = z
    BY <1>2 DEF Send
  <2>2. x \in Seq(Events) /\ Along(f, x) = Along(f, wire) + f[a]
    BY AlongAppend
  <2> HIDE DEF x
  <2>3. y \in Seq(Events) /\ Along(f, y) = Along(f, x) + f[b]
    BY <2>2, AlongAppend
  <2> HIDE DEF y
  <2>4. z \in Seq(Events) /\ Along(f, z) = Along(f, y) + f[c]
    BY <2>3, AlongAppend
  <2> HIDE DEF z
  <2> QED BY <1>1, <2>1, <2>2, <2>3, <2>4
<1>3. CASE ~connected
  BY <1>1, <1>3 DEF Send
<1> QED BY <1>2, <1>3

(* The orders of one stage change, within what is free.                     *)
LEMMA StageMoves ==
  ASSUME ExchangeInv, NEW k \in Stages,
         \A j \in Stages : j # k => oco'[j] = oco[j] /\ guard'[j] = guard[j],
         OrderOK(oco'[k]), guard' = [j \in Stages |-> guard'[j]], GuardOK(guard'[k]),
         sold' \in Nat,
         sold' + (LotsIn(oco'[k]) + LotsIn(guard'[k]))
           <= sold + (LotsIn(oco[k]) + LotsIn(guard[k])) + Free,
         wire' \in Seq(Events)
  PROVE  ExchangeInv'
<1>1. \A j \in Stages : OrderOK(oco'[j]) /\ GuardOK(guard'[j])
  BY DEF ExchangeInv
<1>2. Quantified(oco, guard) /\ Quantified(oco', guard')
  BY <1>1 DEF ExchangeInv, OrderOK, GuardOK, Quantified
<1>3. LockedIn(oco', guard') = LockedIn(oco, guard) + (LotsIn(oco'[k]) + LotsIn(guard'[k]))
                                                    - (LotsIn(oco[k]) + LotsIn(guard[k]))
  BY <1>2, LockedChanges
<1>4. /\ LockedIn(oco, guard) = Locked /\ LockedIn(oco', guard') = Locked'
      /\ Locked \in Nat /\ Free = Base - sold - Locked
  <2>1. LockedIn(oco', guard') = Locked'
    BY DEF Locked, LockedIn, LotsOf, LotsAtStage, LotsIn, Stages
  <2> QED BY <2>1, FreeIs DEF Free
<1>5. LotsIn(oco'[k]) \in Nat /\ LotsIn(guard'[k]) \in Nat /\ LotsIn(oco[k]) \in Nat /\ LotsIn(guard[k]) \in Nat
  BY <1>2, ConstantsAre DEF Quantified, LotsIn
<1>6. sold' + Locked' <= Base
  <2> DEFINE a == LotsIn(oco'[k])
             b == LotsIn(guard'[k])
             c == LotsIn(oco[k])
             d == LotsIn(guard[k])
  <2>1. /\ Locked' = Locked + (a + b) - (c + d) /\ sold' + (a + b) <= sold + (c + d) + (Base - sold - Locked)
        /\ a \in Nat /\ b \in Nat /\ c \in Nat /\ d \in Nat /\ Locked \in Nat /\ sold \in Nat
        /\ sold' \in Nat /\ Base \in Nat
    BY <1>3, <1>4, <1>5, ConstantsAre DEF ExchangeInv
  <2> HIDE DEF a, b, c, d
  <2> QED BY <2>1
<1>7. (\A j \in Stages : OrderOK(oco[j]) /\ GuardOK(guard[j]))'
  BY <1>1 DEF OrderOK, GuardOK, GuardFields, Stages
<1>8. (wire \in Seq(Events))'
  BY DEF Events, Protective, Foreign, Trading, Sides, EventStatuses, Stages
<1> QED BY <1>6, <1>7, <1>8 DEF ExchangeInv, Stages

(* Nothing happens at the exchange.                                         *)
LEMMA ExchangeRests ==
  ASSUME ExchangeInv, UNCHANGED exchangeVars, wire' = wire \/ wire' = <<>>
  PROVE  ExchangeInv' /\ SalesCovered /\ HitsCovered
<1>1. oco' = oco /\ guard' = guard /\ sold' = sold
  BY DEF exchangeVars
<1>2. Locked' = Locked
  BY <1>1 DEF Locked, LotsAtStage, LotsIn, Stages
<1>3. wire' \in Seq(Events)
  <2>1. wire \in Seq(Events) /\ <<>> \in Seq(Events)
    BY EmptySeq DEF ExchangeInv
  <2> QED BY <2>1
<1>4. ExchangeInv'
  BY <1>1, <1>2, <1>3 DEF ExchangeInv, OrderOK, GuardOK, GuardFields, Stages, Events, Protective, Foreign, Trading, Sides, EventStatuses
<1>5. ASSUME NEW f \in [Events -> Nat] PROVE Along(f, wire') <= Along(f, wire)
  <2>1. Along(f, wire) \in Nat /\ (wire' = <<>> => Along(f, wire') = 0)
    BY <1>3, AlongType DEF ExchangeInv
  <2> QED BY <2>1
<1>6. /\ Along(FillLots, wire') <= Along(FillLots, wire) /\ Along(TargetHits, wire') <= Along(TargetHits, wire)
      /\ Along(FillLots, wire') \in Nat /\ Along(FillLots, wire) \in Nat
      /\ Along(TargetHits, wire') \in Nat /\ Along(TargetHits, wire) \in Nat
      /\ Cardinality(HitsIn(oco)) \in Nat /\ sold \in Nat
  BY <1>3, <1>5, WeightsAre, AlongType, HitsAre DEF ExchangeInv
<1> QED BY <1>1, <1>4, <1>6 DEF SalesCovered, HitsCovered

(* An event is consumed.                                                    *)
LEMMA ConsumeKeeps ==
  ASSUME ExchangeInv, wire # <<>>, Consume
  PROVE  /\ ExchangeInv' /\ sold' = sold /\ oco' = oco /\ Head(wire) \in Events
         /\ Along(FillLots, wire) = FillLots[Head(wire)] + Along(FillLots, wire')
         /\ Along(TargetHits, wire) = TargetHits[Head(wire)] + Along(TargetHits, wire')
<1>1. oco' = oco /\ guard' = guard /\ sold' = sold /\ wire' = Tail(wire)
  BY DEF Consume, exchangeVars
<1>2. Locked' = Locked
  BY <1>1 DEF Locked, LotsAtStage, LotsIn, Stages
<1>3. wire' \in Seq(Events) /\ Head(wire) \in Events
  BY <1>1, HeadTailProperties DEF ExchangeInv
<1>4. ExchangeInv'
  BY <1>1, <1>2, <1>3 DEF ExchangeInv, OrderOK, GuardOK, GuardFields, Stages, Events, Protective, Foreign, Trading, Sides, EventStatuses
<1> QED BY <1>1, <1>3, <1>4, WeightsAre, AlongTail DEF ExchangeInv

LEMMA Weighing ==
  /\ \A side \in Sides, k \in Stages, qty \in 0..Base, status \in EventStatuses :
       LET e == Report(side, k, status, qty) IN
       /\ e \in Events
       /\ FillLots[e] = IF status = "FILLED" THEN qty ELSE 0
       /\ TargetHits[e] = IF side = "tp" /\ status = "FILLED" THEN 1 ELSE 0
<1> SUFFICES ASSUME NEW side \in Sides, NEW k \in Stages, NEW qty \in 0..Base,
                    NEW status \in EventStatuses, NEW e, e = Report(side, k, status, qty)
             PROVE  /\ e \in Events
                    /\ FillLots[e] = IF status = "FILLED" THEN qty ELSE 0
                    /\ TargetHits[e] = IF side = "tp" /\ status = "FILLED" THEN 1 ELSE 0
  OBVIOUS
<1>1. e \in Events /\ e.status = status /\ e.qty = qty /\ e.kind = side
  BY DEF Report, Events, Protective
<1>2. side # "close"
  BY DEF Sides
<1> QED BY <1>1, <1>2 DEF FillLots, TargetHits

(* A leg of the order list of a stage fills.                                *)
LEMMA LegFillsKeeps ==
  ASSUME PlacedInv, ExchangeInv, NEW k \in Stages, TargetFills(k) \/ StopFills(k)
  PROVE  ExchangeInv' /\ SalesCovered /\ HitsCovered
<1>1. PICK leg \in {"tp", "stop"}, other \in {"tp", "stop"} :
        LegFills(k, leg, other) /\ (leg = "tp" => other = "stop") /\ (leg = "stop" => other = "tp")
  BY DEF TargetFills, StopFills
<1> DEFINE filled == Report(leg, k, "FILLED", oco[k].qty)
           expired == Report(other, k, "EXPIRED", 0)
           done == Report("list", k, "ALL_DONE", 0)
<1>2. /\ oco[k].state = "live" /\ oco' = [oco EXCEPT ![k].state = "done", ![k].filled = leg]
      /\ sold' = sold + oco[k].qty /\ guard' = guard
      /\ Send(<<expired, filled, done>>) \/ Send(<<filled, expired, done>>)
  BY <1>1 DEF LegFills
<1>3. OrderOK(oco[k]) /\ Order(oco[k]) /\ oco[k].qty \in 0..Base /\ oco[k].filled = "none"
  BY <1>2 DEF ExchangeInv, OrderOK, PlacedInv, ShapeInv
<1>4. /\ oco'[k].state = "done" /\ oco'[k].filled = leg /\ oco'[k].qty = oco[k].qty
      /\ oco'[k].placed = oco[k].placed
      /\ \A j \in Stages : j # k => oco'[j] = oco[j]
  <2>1. oco = [j \in Stages |-> oco[j]]
    BY DEF PlacedInv, ShapeInv
  <2> QED BY <1>2, <1>3, <2>1 DEF Order, OrderFields
<1>5. /\ filled \in Events /\ expired \in Events /\ done \in Events
      /\ FillLots[filled] = oco[k].qty /\ FillLots[expired] = 0 /\ FillLots[done] = 0
      /\ TargetHits[filled] = (IF leg = "tp" THEN 1 ELSE 0) /\ TargetHits[expired] = 0
      /\ TargetHits[done] = 0
  <2>1. /\ leg \in Sides /\ other \in Sides /\ "list" \in Sides /\ 0 \in 0..Base
        /\ "FILLED" \in EventStatuses /\ "EXPIRED" \in EventStatuses /\ "ALL_DONE" \in EventStatuses
    BY ConstantsAre DEF Sides, EventStatuses
  <2> QED BY <1>3, <2>1, Weighing
<1> HIDE DEF filled, expired, done
<1>6. ASSUME NEW f \in [Events -> Nat]
      PROVE  /\ wire' \in Seq(Events)
             /\ Along(f, wire') <= Along(f, wire) + f[filled] + f[expired] + f[done]
  <2>1. wire \in Seq(Events)
    BY DEF ExchangeInv
  <2>2. CASE Send(<<filled, expired, done>>)
    BY <1>5, <2>1, <2>2, SendsThree
  <2>3. CASE Send(<<expired, filled, done>>)
    <3>1. /\ wire' \in Seq(Events)
          /\ Along(f, wire') <= Along(f, wire) + f[expired] + f[filled] + f[done]
      BY <1>5, <2>1, <2>3, SendsThree
    <3>2. Along(f, wire) \in Nat /\ f[expired] \in Nat /\ f[filled] \in Nat
      BY <1>5, <2>1, AlongType
    <3> QED BY <3>1, <3>2
  <2> QED BY <1>2, <2>2, <2>3
<1>7. /\ wire' \in Seq(Events)
      /\ Along(FillLots, wire') <= Along(FillLots, wire) + oco[k].qty + 0 + 0
      /\ Along(TargetHits, wire') <= Along(TargetHits, wire) + (IF leg = "tp" THEN 1 ELSE 0) + 0 + 0
      /\ Along(FillLots, wire) \in Nat /\ Along(FillLots, wire') \in Nat
      /\ Along(TargetHits, wire) \in Nat /\ Along(TargetHits, wire') \in Nat
  <2>1. wire' \in Seq(Events) /\ wire \in Seq(Events)
    BY <1>6, WeightsAre DEF ExchangeInv
  <2> QED BY <1>5, <1>6, <2>1, WeightsAre, AlongType
<1>8. ExchangeInv'
  <2>1. OrderOK(oco'[k])
    <3>1. oco[k].placed # 0
      <4>1. PlacedInv /\ oco[k].state = "live"
        BY <1>2
      <4> QED BY <1>3, <4>1 DEF Order, OrderOK
    <3> QED BY <1>3, <1>4, <3>1 DEF OrderOK
  <2>2. guard' = [j \in Stages |-> guard'[j]] /\ GuardOK(guard'[k]) /\ guard'[k] = guard[k]
    BY <1>2 DEF ExchangeInv
  <2>3. sold' \in Nat
    BY <1>2, <1>3, ConstantsAre DEF ExchangeInv
  <2>4. /\ LotsIn(oco[k]) = oco[k].qty /\ LotsIn(oco'[k]) = 0 /\ LotsIn(guard[k]) \in Nat
    BY <1>2, <1>4, ConstantsAre DEF LotsIn, ExchangeInv, GuardOK
  <2>5. sold' + (LotsIn(oco'[k]) + LotsIn(guard'[k]))
           <= sold + (LotsIn(oco[k]) + LotsIn(guard[k])) + Free
    BY <1>2, <1>3, <2>2, <2>4, FreeIs, ConstantsAre
  <2>6. \A j \in Stages : j # k => oco'[j] = oco[j] /\ guard'[j] = guard[j]
    BY <1>2, <1>4
  <2> QED BY <1>7, <2>1, <2>2, <2>3, <2>5, <2>6, StageMoves
<1>9. HitsIn(oco') = IF leg = "tp" THEN HitsIn(oco) \cup {k} ELSE HitsIn(oco)
  BY <1>1, <1>3, <1>4 DEF HitsIn
<1>10. Cardinality(HitsIn(oco')) = Cardinality(HitsIn(oco)) + (IF leg = "tp" THEN 1 ELSE 0)
  <2>1. k \notin HitsIn(oco)
    BY <1>3 DEF HitsIn
  <2>2. Cardinality(HitsIn(oco) \cup {k}) = Cardinality(HitsIn(oco)) + 1
    BY <2>1, HitsAre, FS_AddElement
  <2>3. Cardinality(HitsIn(oco)) \in Nat
    BY HitsAre
  <2> QED BY <1>9, <2>2, <2>3
<1>11. Cardinality(HitsIn(oco)) \in Nat /\ sold \in Nat
  BY HitsAre DEF ExchangeInv
<1>12. SalesCovered
  <2>1. sold' = sold + oco[k].qty /\ oco[k].qty \in Nat
    BY <1>2, <1>3, ConstantsAre
  <2> QED BY <1>7, <1>11, <2>1 DEF SalesCovered
<1>13. HitsCovered
  BY <1>7, <1>10, <1>11 DEF HitsCovered
<1> QED BY <1>8, <1>12, <1>13

(* The guard of a stage fills.                                              *)
LEMMA GuardFillsKeeps ==
  ASSUME PlacedInv, ExchangeInv, NEW k \in Stages, GuardFills(k)
  PROVE  ExchangeInv' /\ SalesCovered /\ HitsCovered
<1> DEFINE filled == Report("guard", k, "FILLED", guard[k].qty)
<1>1. /\ guard[k].state = "live" /\ guard' = [guard EXCEPT ![k].state = "filled"]
      /\ sold' = sold + guard[k].qty /\ oco' = oco /\ Send(<<filled>>)
  BY DEF GuardFills
<1>2. GuardOK(guard[k]) /\ guard[k].qty \in 0..Base /\ guard = [j \in Stages |-> guard[j]]
  BY DEF ExchangeInv, GuardOK
<1>3. /\ guard' = [j \in Stages |-> guard'[j]] /\ GuardOK(guard'[k]) /\ guard'[k].state = "filled"
      /\ \A j \in Stages : j # k => guard'[j] = guard[j]
  BY <1>1, <1>2 DEF GuardOK, GuardFields
<1>4. filled \in Events /\ FillLots[filled] = guard[k].qty /\ TargetHits[filled] = 0
  <2>1. "guard" \in Sides /\ "FILLED" \in EventStatuses
    BY DEF Sides, EventStatuses
  <2> QED BY <1>2, <2>1, Weighing
<1> HIDE DEF filled
<1>5. /\ wire' \in Seq(Events)
      /\ Along(FillLots, wire') <= Along(FillLots, wire) + guard[k].qty
      /\ Along(TargetHits, wire') <= Along(TargetHits, wire) + 0
      /\ Along(FillLots, wire) \in Nat /\ Along(FillLots, wire') \in Nat
      /\ Along(TargetHits, wire) \in Nat /\ Along(TargetHits, wire') \in Nat
  <2>1. wire \in Seq(Events)
    BY DEF ExchangeInv
  <2>2. /\ wire' \in Seq(Events)
        /\ Along(FillLots, wire') <= Along(FillLots, wire) + guard[k].qty
        /\ Along(TargetHits, wire') <= Along(TargetHits, wire) + 0
    BY <1>1, <1>4, <2>1, WeightsAre, SendsOne
  <2> QED BY <2>1, <2>2, WeightsAre, AlongType
<1>6. ExchangeInv'
  <2>1. OrderOK(oco'[k]) /\ oco'[k] = oco[k]
    BY <1>1 DEF ExchangeInv
  <2>2. sold' \in Nat
    BY <1>1, <1>2, ConstantsAre DEF ExchangeInv
  <2>3. LotsIn(guard[k]) = guard[k].qty /\ LotsIn(guard'[k]) = 0 /\ LotsIn(oco[k]) \in Nat
    BY <1>1, <1>3, ConstantsAre DEF LotsIn, ExchangeInv, OrderOK
  <2>4. sold' + (LotsIn(oco'[k]) + LotsIn(guard'[k]))
           <= sold + (LotsIn(oco[k]) + LotsIn(guard[k])) + Free
    BY <1>1, <1>2, <2>1, <2>3, FreeIs, ConstantsAre
  <2>5. \A j \in Stages : j # k => oco'[j] = oco[j] /\ guard'[j] = guard[j]
    BY <1>1, <1>3
  <2> QED BY <1>3, <1>5, <2>1, <2>2, <2>4, <2>5, StageMoves
<1>7. Cardinality(HitsIn(oco)) \in Nat /\ sold \in Nat
  BY HitsAre DEF ExchangeInv
<1> QED BY <1>1, <1>2, <1>5, <1>6, <1>7, ConstantsAre DEF SalesCovered, HitsCovered

(* place_oco_order takes what is free, once for a stage.                    *)
LEMMA PlaceOcoKeeps ==
  ASSUME PlacedInv, DeskInv, ExchangeInv, NEW t \in Tasks, PlaceOco(t)
  PROVE  ExchangeInv' /\ SalesCovered /\ HitsCovered
<1> DEFINE k == loc[t].stage
           qty == rows[loc[t].row].qty
           order == [state |-> "live", qty |-> qty, stop |-> loc[t].stop, filled |-> "none",
                     placed |-> oco[k].placed + 1]
<1>1. /\ IsBracket(loc[t].row) /\ rows[loc[t].row].stage = k /\ oco[k].placed = 0
      /\ k \in Stages
  BY DEF PlaceOco, PlacedInv, PlacersOwn, ShapeInv, IsBracket, Row
<1>2. qty \in 0..Base
  BY <1>1 DEF IsBracket, DeskInv, RowOK
<1>3. guard' = guard /\ sold' = sold /\ wire' = wire
  BY DEF PlaceOco, streamVars
<1>4. CASE oco' = oco
  BY <1>3, <1>4, ExchangeRests DEF exchangeVars
<1>5. CASE oco' # oco
  <2>1. /\ oco[k].state # "live" /\ qty <= Free /\ oco' = [oco EXCEPT ![k] = order]
    BY <1>5 DEF PlaceOco
  <2>2. OrderOK(oco[k]) /\ oco[k].filled = "none"
    BY <1>1 DEF ExchangeInv, OrderOK
  <2>3. OrderOK(order) /\ order.filled = "none" /\ order.state = "live" /\ order.qty = qty
    BY <1>1, <1>2 DEF OrderOK
  <2> HIDE DEF order, qty, k
  <2>4. oco'[k] = order /\ \A j \in Stages : j # k => oco'[j] = oco[j]
    BY <1>1, <2>1 DEF PlacedInv, ShapeInv
  <2>5. HitsIn(oco') = HitsIn(oco)
    BY <2>2, <2>3, <2>4 DEF HitsIn
  <2>6. ExchangeInv'
    <3>1. guard' = [j \in Stages |-> guard'[j]] /\ GuardOK(guard'[k]) /\ guard'[k] = guard[k]
      BY <1>1, <1>3 DEF ExchangeInv
    <3>2. sold' \in Nat /\ wire' \in Seq(Events)
      BY <1>3 DEF ExchangeInv
    <3>3. LotsIn(oco[k]) = 0 /\ LotsIn(oco'[k]) = qty /\ LotsIn(guard[k]) \in Nat
      BY <1>1, <2>1, <2>3, <2>4, ConstantsAre DEF LotsIn, ExchangeInv, GuardOK
    <3>4. sold' + (LotsIn(oco'[k]) + LotsIn(guard'[k]))
             <= sold + (LotsIn(oco[k]) + LotsIn(guard[k])) + Free
      BY <1>2, <1>3, <2>1, <3>1, <3>3, FreeIs, ConstantsAre
    <3>5. OrderOK(oco'[k]) /\ \A j \in Stages : j # k => oco'[j] = oco[j] /\ guard'[j] = guard[j]
      BY <1>3, <2>3, <2>4
    <3> QED BY <1>1, <3>1, <3>2, <3>4, <3>5, StageMoves
  <2>7. /\ Along(FillLots, wire) \in Nat /\ Along(TargetHits, wire) \in Nat /\ sold \in Nat
        /\ Cardinality(HitsIn(oco)) \in Nat
    BY WeightsAre, AlongType, HitsAre DEF ExchangeInv
  <2> QED BY <1>3, <2>5, <2>6, <2>7 DEF SalesCovered, HitsCovered
<1> QED BY <1>4, <1>5

(* The guard takes what is free.                                            *)
LEMMA PlaceGuardKeeps ==
  ASSUME PlacedInv, DeskInv, ExchangeInv, NEW t \in Tasks, PlaceGuard(t)
  PROVE  ExchangeInv' /\ SalesCovered /\ HitsCovered
<1> DEFINE k == loc[t].stage
           order == [state |-> "live", qty |-> loc[t].guard]
<1>1. k \in Stages /\ loc[t].guard \in 0..Base
  BY DEF PlaceGuard, PlacedInv, ShapeInv, DeskInv, LocalOK
<1>2. oco' = oco /\ sold' = sold /\ wire' = wire
  BY DEF PlaceGuard, streamVars
<1>3. CASE guard' = guard
  BY <1>2, <1>3, ExchangeRests DEF exchangeVars
<1>4. CASE guard' # guard
  <2>1. loc[t].guard <= Free /\ guard' = [guard EXCEPT ![k] = order]
    BY <1>4 DEF PlaceGuard
  <2>2. GuardOK(order) /\ order.state = "live" /\ order.qty = loc[t].guard
    BY <1>1 DEF GuardOK, GuardFields
  <2> HIDE DEF order, k
  <2>3. /\ guard' = [j \in Stages |-> guard'[j]] /\ guard'[k] = order
        /\ \A j \in Stages : j # k => guard'[j] = guard[j]
    BY <1>1, <2>1 DEF ExchangeInv
  <2>4. ExchangeInv'
    <3>1. OrderOK(oco'[k]) /\ sold' \in Nat /\ wire' \in Seq(Events) /\ oco'[k] = oco[k]
      BY <1>1, <1>2 DEF ExchangeInv
    <3>2. LotsIn(guard'[k]) = loc[t].guard /\ LotsIn(guard[k]) \in Nat /\ LotsIn(oco[k]) \in Nat
      BY <1>1, <2>2, <2>3, ConstantsAre DEF LotsIn, ExchangeInv, GuardOK, OrderOK
    <3>3. sold' + (LotsIn(oco'[k]) + LotsIn(guard'[k]))
             <= sold + (LotsIn(oco[k]) + LotsIn(guard[k])) + Free
      BY <1>1, <1>2, <2>1, <3>1, <3>2, FreeIs, ConstantsAre
    <3>4. GuardOK(guard'[k]) /\ \A j \in Stages : j # k => oco'[j] = oco[j] /\ guard'[j] = guard[j]
      BY <1>2, <2>2, <2>3
    <3> QED BY <1>1, <2>3, <3>1, <3>3, <3>4, StageMoves
  <2>5. /\ Along(FillLots, wire) \in Nat /\ Along(TargetHits, wire) \in Nat /\ sold \in Nat
        /\ Cardinality(HitsIn(oco)) \in Nat
    BY WeightsAre, AlongType, HitsAre DEF ExchangeInv
  <2> QED BY <1>2, <2>4, <2>5 DEF SalesCovered, HitsCovered
<1> QED BY <1>3, <1>4

(* A canceled order frees its lots.                                         *)
LEMMA ListCanceled ==
  ASSUME PlacedInv, ExchangeInv, NEW k \in Stages, guard' = guard, sold' = sold,
         \/ oco' = oco /\ wire' = wire
         \/ /\ oco[k].state = "live" /\ oco' = [oco EXCEPT ![k].state = "done"]
            /\ Send(<<Report("tp", k, "CANCELED", 0), Report("stop", k, "CANCELED", 0),
                      Report("list", k, "ALL_DONE", 0)>>)
  PROVE  ExchangeInv' /\ SalesCovered /\ HitsCovered
<1> DEFINE a == Report("tp", k, "CANCELED", 0)
           b == Report("stop", k, "CANCELED", 0)
           c == Report("list", k, "ALL_DONE", 0)
<1>1. k \in Stages
  OBVIOUS
<1>2. guard' = guard /\ sold' = sold
  OBVIOUS
<1>3. \/ oco' = oco /\ wire' = wire
      \/ /\ oco[k].state = "live" /\ oco' = [oco EXCEPT ![k].state = "done"]
         /\ Send(<<a, b, c>>)
  OBVIOUS
<1>4. CASE oco' = oco /\ wire' = wire
  BY <1>2, <1>4, ExchangeRests DEF exchangeVars
<1>5. CASE /\ oco[k].state = "live" /\ oco' = [oco EXCEPT ![k].state = "done"]
           /\ Send(<<a, b, c>>)
  <2>1. /\ a \in Events /\ b \in Events /\ c \in Events
        /\ FillLots[a] = 0 /\ FillLots[b] = 0 /\ FillLots[c] = 0
        /\ TargetHits[a] = 0 /\ TargetHits[b] = 0 /\ TargetHits[c] = 0
    <3>1. /\ "tp" \in Sides /\ "stop" \in Sides /\ "list" \in Sides /\ 0 \in 0..Base
          /\ "CANCELED" \in EventStatuses /\ "ALL_DONE" \in EventStatuses
      BY ConstantsAre DEF Sides, EventStatuses
    <3> QED BY <1>1, <3>1, Weighing
  <2> HIDE DEF a, b, c
  <2>2. OrderOK(oco[k]) /\ Order(oco[k])
    BY <1>1 DEF ExchangeInv, PlacedInv, ShapeInv
  <2>3. /\ oco'[k].state = "done" /\ oco'[k].filled = oco[k].filled /\ oco'[k].qty = oco[k].qty
        /\ oco'[k].placed = oco[k].placed
        /\ \A j \in Stages : j # k => oco'[j] = oco[j]
    <3>1. oco = [j \in Stages |-> oco[j]]
      BY DEF PlacedInv, ShapeInv
    <3> QED BY <1>1, <1>5, <2>2, <3>1 DEF Order, OrderFields
  <2>4. HitsIn(oco') = HitsIn(oco)
    BY <2>3 DEF HitsIn
  <2>5. wire \in Seq(Events)
    BY DEF ExchangeInv
  <2>6. /\ wire' \in Seq(Events)
        /\ Along(FillLots, wire') <= Along(FillLots, wire) + 0 + 0 + 0
        /\ Along(TargetHits, wire') <= Along(TargetHits, wire) + 0 + 0 + 0
    BY <1>5, <2>1, <2>5, WeightsAre, SendsThree
  <2>7. ExchangeInv'
    <3>1. guard' = [j \in Stages |-> guard'[j]] /\ GuardOK(guard'[k]) /\ guard'[k] = guard[k]
      BY <1>1, <1>2 DEF ExchangeInv
    <3>2. sold' \in Nat
      BY <1>2 DEF ExchangeInv
    <3>3. LotsIn(oco[k]) \in Nat /\ LotsIn(oco'[k]) = 0 /\ LotsIn(guard[k]) \in Nat
      BY <1>1, <2>2, <2>3, ConstantsAre DEF LotsIn, ExchangeInv, GuardOK, OrderOK
    <3>4. sold' + (LotsIn(oco'[k]) + LotsIn(guard'[k]))
             <= sold + (LotsIn(oco[k]) + LotsIn(guard[k])) + Free
      BY <1>2, <3>1, <3>3, FreeIs, ConstantsAre DEF ExchangeInv
    <3>5. OrderOK(oco'[k])
      BY <1>5, <2>2, <2>3 DEF OrderOK
    <3>6. \A j \in Stages : j # k => oco'[j] = oco[j] /\ guard'[j] = guard[j]
      BY <1>2, <2>3
    <3> QED BY <1>1, <2>6, <3>1, <3>2, <3>4, <3>5, <3>6, StageMoves
  <2>8. /\ Along(FillLots, wire) \in Nat /\ Along(TargetHits, wire) \in Nat /\ sold \in Nat
        /\ Along(FillLots, wire') \in Nat /\ Along(TargetHits, wire') \in Nat
        /\ Cardinality(HitsIn(oco)) \in Nat
    BY <2>5, <2>6, WeightsAre, AlongType, HitsAre DEF ExchangeInv
  <2> QED BY <1>2, <2>4, <2>6, <2>7, <2>8 DEF SalesCovered, HitsCovered
<1> QED BY <1>3, <1>4, <1>5

LEMMA CancelListKeeps ==
  ASSUME PlacedInv, DeskInv, ExchangeInv, NEW t \in Tasks, CancelList(t)
  PROVE  ExchangeInv' /\ SalesCovered /\ HitsCovered
<1> DEFINE k == loc[t].stage
<1>1. k \in Stages
  BY DEF CancelList, DeskInv, Carries
<1>2. /\ guard' = guard /\ sold' = sold
      /\ \/ oco' = oco /\ wire' = wire
         \/ /\ oco[k].state = "live" /\ oco' = [oco EXCEPT ![k].state = "done"]
            /\ Send(<<Report("tp", k, "CANCELED", 0), Report("stop", k, "CANCELED", 0),
                      Report("list", k, "ALL_DONE", 0)>>)
  BY DEF CancelList
<1> HIDE DEF k
<1> QED BY <1>1, <1>2, ListCanceled

LEMMA CancelGuardKeeps ==
  ASSUME PlacedInv, DeskInv, ExchangeInv, NEW t \in Tasks, CancelGuard(t)
  PROVE  ExchangeInv' /\ SalesCovered /\ HitsCovered
<1> DEFINE k == loc[t].stage
           a == Report("guard", k, "CANCELED", 0)
<1>1. k \in Stages
  BY DEF CancelGuard, DeskInv, Carries
<1>2. oco' = oco /\ sold' = sold
  BY DEF CancelGuard
<1>3. \/ guard' = guard /\ wire' = wire
      \/ /\ guard[k].state = "live" /\ guard' = [guard EXCEPT ![k].state = "canceled"]
         /\ Send(<<a>>)
  BY DEF CancelGuard
<1>4. CASE guard' = guard /\ wire' = wire
  BY <1>2, <1>4, ExchangeRests DEF exchangeVars
<1>5. CASE /\ guard[k].state = "live" /\ guard' = [guard EXCEPT ![k].state = "canceled"]
           /\ Send(<<a>>)
  <2>1. a \in Events /\ FillLots[a] = 0 /\ TargetHits[a] = 0
    <3>1. "guard" \in Sides /\ 0 \in 0..Base /\ "CANCELED" \in EventStatuses
      BY ConstantsAre DEF Sides, EventStatuses
    <3> HIDE DEF k
    <3> QED BY <1>1, <3>1, Weighing
  <2> HIDE DEF a, k
  <2>2. GuardOK(guard[k]) /\ guard = [j \in Stages |-> guard[j]]
    BY <1>1 DEF ExchangeInv
  <2>3. /\ guard' = [j \in Stages |-> guard'[j]] /\ GuardOK(guard'[k])
        /\ guard'[k].state = "canceled"
        /\ \A j \in Stages : j # k => guard'[j] = guard[j]
    BY <1>1, <1>5, <2>2 DEF GuardOK, GuardFields
  <2>4. wire \in Seq(Events)
    BY DEF ExchangeInv
  <2>5. /\ wire' \in Seq(Events)
        /\ Along(FillLots, wire') <= Along(FillLots, wire) + 0
        /\ Along(TargetHits, wire') <= Along(TargetHits, wire) + 0
    BY <1>5, <2>1, <2>4, WeightsAre, SendsOne
  <2>6. ExchangeInv'
    <3>1. OrderOK(oco'[k]) /\ sold' \in Nat /\ oco'[k] = oco[k]
      BY <1>1, <1>2 DEF ExchangeInv
    <3>2. LotsIn(guard'[k]) = 0 /\ LotsIn(guard[k]) \in Nat /\ LotsIn(oco[k]) \in Nat
      BY <1>1, <2>2, <2>3, ConstantsAre DEF LotsIn, ExchangeInv, GuardOK, OrderOK
    <3>3. sold' + (LotsIn(oco'[k]) + LotsIn(guard'[k]))
             <= sold + (LotsIn(oco[k]) + LotsIn(guard[k])) + Free
      BY <1>2, <3>1, <3>2, FreeIs, ConstantsAre DEF ExchangeInv
    <3>4. \A j \in Stages : j # k => oco'[j] = oco[j] /\ guard'[j] = guard[j]
      BY <1>2, <2>3
    <3> QED BY <1>1, <2>3, <2>5, <3>1, <3>3, <3>4, StageMoves
  <2>7. /\ Along(FillLots, wire) \in Nat /\ Along(TargetHits, wire) \in Nat /\ sold \in Nat
        /\ Along(FillLots, wire') \in Nat /\ Along(TargetHits, wire') \in Nat
        /\ Cardinality(HitsIn(oco)) \in Nat
    BY <2>4, <2>5, WeightsAre, AlongType, HitsAre DEF ExchangeInv
  <2> QED BY <1>2, <2>5, <2>6, <2>7 DEF SalesCovered, HitsCovered
<1> QED BY <1>3, <1>4, <1>5

(* Every step of a task, of a request and from outside.                     *)
LEMMA TaskExchange ==
  ASSUME PlacedInv, DeskInv, ExchangeInv, NEW t \in Tasks, TaskStep(t)
  PROVE  ExchangeInv' /\ SalesCovered /\ HitsCovered
<1>1. CASE PlaceOco(t) \/ PlaceGuard(t) \/ CancelList(t) \/ CancelGuard(t)
  BY <1>1, PlaceOcoKeeps, PlaceGuardKeeps, CancelListKeeps, CancelGuardKeeps
<1>2. CASE ~(PlaceOco(t) \/ PlaceGuard(t) \/ CancelList(t) \/ CancelGuard(t))
  <2>1. UNCHANGED exchangeVars /\ wire' = wire
    <3>1. CASE \/ ReadBalance(t) \/ EstablishFails(t) \/ EstablishSubmits(t) \/ EstablishAcks(t)
               \/ GuardAcks(t) \/ EstablishUnwinds(t)
      BY <3>1 DEF ReadBalance, EstablishFails, EstablishSubmits, EstablishAcks, GuardAcks,
                  EstablishUnwinds, streamVars
    <3>2. CASE \/ AdvanceGoesOn(t) \/ ListAnswers(t) \/ ReconcileCloses(t) \/ ReconcileFails(t)
      BY <3>2 DEF AdvanceGoesOn, ListAnswers, ReconcileCloses, ReconcileFails, streamVars
    <3>3. CASE \/ BalancesRead(t) \/ ReconcilesActive(t) \/ CorrectPosition(t) \/ ReconcileAllEnds(t)
      BY <3>3 DEF BalancesRead, ReconcilesActive, CorrectPosition, ReconcileAllEnds, streamVars
    <3> QED BY <1>2, <3>1, <3>2, <3>3 DEF TaskStep
  <2> QED BY <2>1, ExchangeRests
<1> QED BY <1>1, <1>2

LEMMA OutsideExchange ==
  ASSUME PlacedInv, ExchangeInv,
         \/ \E t \in Admins : EstablishRequest(t) \/ ReconcileRequest(t) \/ BalancesRequest(t)
         \/ StreamEstablishes
         \/ \E k \in Stages : TargetFills(k) \/ StopFills(k) \/ GuardFills(k)
         \/ Disconnect \/ Reconnect \/ CrashRestart \/ UNCHANGED vars
  PROVE  ExchangeInv' /\ SalesCovered /\ HitsCovered
<1>1. CASE \E k \in Stages : TargetFills(k) \/ StopFills(k) \/ GuardFills(k)
  BY <1>1, LegFillsKeeps, GuardFillsKeeps
<1>2. CASE \/ \E t \in Admins : EstablishRequest(t) \/ ReconcileRequest(t) \/ BalancesRequest(t)
           \/ StreamEstablishes \/ Disconnect \/ Reconnect \/ CrashRestart \/ UNCHANGED vars
  <2>1. UNCHANGED exchangeVars /\ (wire' = wire \/ wire' = <<>>)
    BY <1>2 DEF EstablishRequest, ReconcileRequest, BalancesRequest, StreamEstablishes, Disconnect,
                Reconnect, CrashRestart, vars, streamVars
  <2> QED BY <2>1, ExchangeRests
<1> QED BY <1>1, <1>2

LEMMA InitQuantities == Init => QuantityInv /\ Along(FillLots, wire) = 0 /\ Along(TargetHits, wire) = 0
<1> SUFFICES ASSUME Init
             PROVE  QuantityInv /\ Along(FillLots, wire) = 0 /\ Along(TargetHits, wire) = 0
  OBVIOUS
<1>1. DeskInv
  <2>1. LocalOK(NoLocals) /\ PositionOK(Entered)
    <3>1. "initial" \in Stops /\ 0 \in 0..Base
      BY ConstantsAre DEF Stops
    <3> QED BY <3>1, LocalsTyped DEF LocalOK, NoLocals
  <2>2. \A t \in Tasks : pc[t] \in {"idle", "start"} /\ loc[t] = NoLocals
    BY DEF Init
  <2>3. pos = Entered /\ rows = <<>>
    BY DEF Init
  <2> QED BY <2>1, <2>2, <2>3 DEF DeskInv, Labels, Carries
<1>2. wire = <<>> /\ wire \in Seq(Events) /\ sold = 0
  BY EmptySeq DEF Init
<1>3. /\ \A k \in Stages : OrderOK(oco[k]) /\ LotsIn(oco[k]) = 0
      /\ guard = [k \in Stages |-> guard[k]]
      /\ \A k \in Stages : GuardOK(guard[k]) /\ LotsIn(guard[k]) = 0
  BY ConstantsAre DEF Init, OrderOK, GuardOK, GuardFields, LotsIn
<1>4. Locked = 0
  <2> DEFINE none == [k \in Stages |-> 0]
             n == Targets - 1
             S == {j \in -1..n : Total(none, 0, j) = 0}
  <2>1. LotsAtStage = none
    BY <1>3 DEF LotsAtStage
  <2>2. \A i \in 0..n : none[i] = 0
    BY ConstantsAre
  <2>3. n \in Int /\ -1 <= n
    BY ConstantsAre
  <2> HIDE DEF none, n
  <2>4. \A j \in Int : j <= n => Summands(none, 0, j)
    BY <2>2, <2>3 DEF Summands
  <2>5. -1 \in S
    <3>1. Summands(none, 0, -1) /\ -1 \in Int /\ 0 \in Int /\ 0 - 1 <= -1 /\ -1 = 0 - 1
      BY <2>3, <2>4
    <3>2. Total(none, 0, -1) = 0
      BY <3>1, TotalType
    <3> QED BY <2>3, <3>2
  <2>6. ASSUME NEW j \in Int, -1 < j, j <= n, j - 1 \in S PROVE j \in S
    <3>1. Summands(none, 0, j) /\ 0 \in Int /\ 0 <= j /\ none[j] = 0
      BY <2>2, <2>4, <2>6
    <3>2. Total(none, 0, j) = Total(none, 0, j - 1) + none[j]
      BY <3>1, TotalStep
    <3> QED BY <2>3, <2>6, <3>1, <3>2
  <2>7. -1..n \subseteq S
    <3> HIDE DEF S
    <3>1. Hereditary(S, -1, n) /\ -1 \in Int
      BY <2>6 DEF Hereditary
    <3> QED BY <2>3, <2>5, <3>1, IntervalInduction
  <2>8. Total(none, 0, n) = 0
    BY <2>3, <2>7
  <2> QED BY <2>1, <2>8 DEF Locked, n
<1>5. ExchangeInv
  BY <1>2, <1>3, <1>4, ConstantsAre DEF ExchangeInv
<1> QED BY <1>1, <1>2, <1>5, InitPlaced, WeightsAre, AlongType DEF QuantityInv

LEMMA QuantityStep == QuantityInv /\ [Next]_vars => QuantityInv'
<1> SUFFICES ASSUME QuantityInv, [Next]_vars PROVE QuantityInv'
  OBVIOUS
<1>1. PlacedInv /\ DeskInv /\ ExchangeInv /\ PlacedInv'
  BY PlacedStep DEF QuantityInv
<1>2. ASSUME NEW t \in Tasks, TaskStep(t) PROVE DeskInv' /\ ExchangeInv'
  <2>1. ExchangeInv'
    BY <1>1, <1>2, TaskExchange
  <2>2. DeskInv'
    BY <1>2, EstablishDesk, AdvanceDesk, CompareDesk DEF TaskStep
  <2> QED BY <2>1, <2>2
<1>3. ASSUME NEW t \in Admins, EstablishRequest(t) \/ ReconcileRequest(t) \/ BalancesRequest(t)
      PROVE  DeskInv' /\ ExchangeInv'
  <2>1. t \in Tasks
    BY DEF Tasks
  <2> QED BY <1>1, <1>3, <2>1, RequestDesk, OutsideExchange
<1>4. ASSUME StreamEstablishes PROVE DeskInv' /\ ExchangeInv'
  <2>1. DeskInv'
    BY <1>4, StreamDesk
  <2>2. ExchangeInv'
    BY <1>1, <1>4, OutsideExchange
  <2> QED BY <2>1, <2>2
<1>5. ASSUME StreamIgnores \/ StreamFills \/ StreamFlags \/ StreamListDone
      PROVE  DeskInv' /\ ExchangeInv'
  <2>1. wire # <<>> /\ Consume
    BY <1>5 DEF StreamIgnores, StreamFills, StreamFlags, StreamListDone, StreamReady
  <2>2. ExchangeInv'
    BY <1>1, <2>1, ConsumeKeeps
  <2>3. DeskInv'
    BY <1>5, StreamDesk, StreamFillsDesk
  <2> QED BY <2>2, <2>3
<1>6. ASSUME \/ \E k \in Stages : TargetFills(k) \/ StopFills(k) \/ GuardFills(k)
             \/ Disconnect \/ Reconnect \/ CrashRestart
      PROVE  DeskInv' /\ ExchangeInv'
  <2>1. DeskInv'
    BY <1>6, OutsideDesk
  <2>2. ExchangeInv'
    BY <1>1, <1>6, OutsideExchange
  <2> QED BY <2>1, <2>2
<1>7. ASSUME UNCHANGED vars PROVE DeskInv' /\ ExchangeInv'
  <2>1. DeskInv'
    BY <1>1, <1>7, DeskRests DEF vars, taskVars
  <2>2. ExchangeInv'
    BY <1>1, <1>7, OutsideExchange
  <2> QED BY <2>1, <2>2
<1> QED BY <1>1, <1>2, <1>3, <1>4, <1>5, <1>6, <1>7 DEF Next, QuantityInv

THEOREM QuantityInvariant == Spec => []QuantityInv
BY InitQuantities, QuantityStep, PTL DEF Spec

LEMMA QuantityTypes ==
  ASSUME QuantityInv
  PROVE  ProtectionTypeOK
<1>1. PositionOK(pos) /\ pos.stage \in Nat
  BY DEF QuantityInv, DeskInv, PlacedInv, ShapeInv, Position
<1>2. \A i \in DOMAIN rows : RowOK(rows[i]) /\ rows[i].stage \in Stages
  BY DEF QuantityInv, DeskInv, PlacedInv, ShapeInv, Row
<1>3. pc \in [Tasks -> Labels]
  <2>1. pc = [t \in Tasks |-> pc[t]] /\ \A t \in Tasks : pc[t] \in Labels
    BY DEF QuantityInv, DeskInv, PlacedInv, ShapeInv
  <2> QED BY <2>1
<1>4. Free \in 0..Base /\ sold \in 0..Base
  BY FreeIs DEF QuantityInv
<1> QED BY <1>1, <1>2, <1>3, <1>4
        DEF ProtectionTypeOK, PositionOK, PosStatuses, Protections, Stops, RowOK

(* Rows, tasks and the exchange's books stay well formed under every        *)
(* interleaving: a row is never for nothing, and what is locked and sold is *)
(* never more than was bought (protection.py:238-309,                       *)
(* binance_user_stream.py:550-590).                                         *)
THEOREM ProtectionTypes == Spec => []ProtectionTypeOK
BY QuantityTypes, QuantityInvariant, PTL
-----------------------------------------------------------------------------
(***************************************************************************)
(* The books.  What the position counts as sold, with the fills the stream *)
(* has yet to consume, was sold; the stages it has passed, with the hits   *)
(* the stream has yet to consume, were hit.  reconcile_all() breaks the    *)
(* first, for it cuts the position to the balance while a fill is still on *)
(* the wire, and reconcile() the second, for it moves the position on for  *)
(* a target whose event is too.                                            *)
(***************************************************************************)
Books ==
  /\ Base - pos.remaining + Along(FillLots, wire) <= sold
  /\ pos.status = "closed" => pos.remaining = 0
StageBooks == pos.stage + Along(TargetHits, wire) <= Cardinality(HitsIn(oco))

NoCorrection == \A t \in Tasks : ~CorrectPosition(t)
NoReconcileCloses == \A t \in Tasks : ~ReconcileCloses(t)

(* A step leaves the books alone and sells no less than it reports, books   *)
(* the fill it consumes, or compares the position with the balance.         *)
LEMMA StepIs ==
  ASSUME QuantityInv, [Next]_vars
  PROVE  \/ /\ BooksKept /\ SalesCovered /\ HitsCovered
            /\ StageKept \/ \E t \in Tasks : ReconcileCloses(t)
         \/ StreamFills /\ FillsBooked(Head(wire)) /\ wire # <<>> /\ Consume
         \/ /\ \E t \in Tasks : CorrectPosition(t)
            /\ StageKept /\ HitsCovered
<1>1. PlacedInv /\ DeskInv /\ ExchangeInv
  BY DEF QuantityInv
<1>2. ASSUME NEW t \in Tasks, TaskStep(t)
      PROVE  /\ SalesCovered /\ HitsCovered
             /\ BooksKept \/ (CorrectPosition(t) /\ StageKept)
             /\ StageKept \/ ReconcileCloses(t)
  <2>1. SalesCovered /\ HitsCovered
    BY <1>1, <1>2, TaskExchange
  <2>2. CASE \/ ReadBalance(t) \/ EstablishFails(t) \/ EstablishSubmits(t) \/ PlaceOco(t)
             \/ EstablishAcks(t) \/ PlaceGuard(t) \/ GuardAcks(t) \/ CancelList(t)
             \/ EstablishUnwinds(t)
    BY <2>1, <2>2, EstablishDesk
  <2>3. CASE \/ CancelGuard(t) \/ AdvanceGoesOn(t) \/ ListAnswers(t) \/ ReconcileCloses(t)
             \/ ReconcileFails(t)
    BY <2>1, <2>3, AdvanceDesk
  <2>4. CASE \/ BalancesRead(t) \/ ReconcilesActive(t) \/ CorrectPosition(t) \/ ReconcileAllEnds(t)
    BY <2>1, <2>4, CompareDesk
  <2> QED BY <1>2, <2>2, <2>3, <2>4 DEF TaskStep
<1>3. ASSUME NEW t \in Admins, EstablishRequest(t) \/ ReconcileRequest(t) \/ BalancesRequest(t)
      PROVE  BooksKept /\ StageKept /\ SalesCovered /\ HitsCovered
  <2>1. t \in Tasks
    BY DEF Tasks
  <2>2. BooksKept /\ StageKept
    BY <1>3, <2>1, RequestDesk
  <2> QED BY <1>1, <1>3, <2>2, OutsideExchange
<1>4. ASSUME StreamEstablishes PROVE BooksKept /\ StageKept /\ SalesCovered /\ HitsCovered
  <2>1. BooksKept /\ StageKept
    BY <1>4, StreamDesk
  <2> QED BY <1>1, <1>4, <2>1, OutsideExchange
<1>5. ASSUME StreamIgnores \/ StreamFlags \/ StreamListDone
      PROVE  BooksKept /\ StageKept /\ SalesCovered /\ HitsCovered
  <2>1. BooksKept /\ StageKept
    BY <1>5, StreamDesk
  <2>2. wire # <<>> /\ Consume
    BY <1>5 DEF StreamIgnores, StreamFlags, StreamListDone, StreamReady
  <2>3. /\ ExchangeInv' /\ sold' = sold /\ oco' = oco /\ Head(wire) \in Events
        /\ Along(FillLots, wire) = FillLots[Head(wire)] + Along(FillLots, wire')
        /\ Along(TargetHits, wire) = TargetHits[Head(wire)] + Along(TargetHits, wire')
    BY <1>1, <2>2, ConsumeKeeps
  <2>4. /\ FillLots[Head(wire)] \in Nat /\ TargetHits[Head(wire)] \in Nat
        /\ Along(FillLots, wire') \in Nat /\ Along(TargetHits, wire') \in Nat
        /\ Cardinality(HitsIn(oco)) \in Nat /\ sold \in Nat
    BY <1>1, <2>3, WeightsAre, HitsAre, AlongType DEF ExchangeInv
  <2> QED BY <2>1, <2>3, <2>4 DEF SalesCovered, HitsCovered
<1>6. ASSUME StreamFills
      PROVE  FillsBooked(Head(wire)) /\ wire # <<>> /\ Consume
  <2>1. FillsBooked(Head(wire))
    BY <1>6, StreamFillsDesk
  <2> QED BY <1>6, <2>1 DEF StreamFills, StreamReady
<1>7. ASSUME \/ \E k \in Stages : TargetFills(k) \/ StopFills(k) \/ GuardFills(k)
             \/ Disconnect \/ Reconnect \/ CrashRestart
      PROVE  BooksKept /\ StageKept /\ SalesCovered /\ HitsCovered
  <2>1. BooksKept /\ StageKept
    BY <1>7, OutsideDesk
  <2> QED BY <1>1, <1>7, <2>1, OutsideExchange
<1>8. ASSUME UNCHANGED vars PROVE BooksKept /\ StageKept /\ SalesCovered /\ HitsCovered
  <2>1. BooksKept /\ StageKept
    BY <1>8 DEF vars, BooksKept, StageKept
  <2> QED BY <1>1, <1>8, <2>1, OutsideExchange
<1> QED BY <1>2, <1>3, <1>4, <1>5, <1>6, <1>7, <1>8 DEF Next

LEMMA WiresAre ==
  ASSUME QuantityInv
  PROVE  /\ Along(FillLots, wire) \in Nat /\ Along(TargetHits, wire) \in Nat
         /\ Cardinality(HitsIn(oco)) \in Nat /\ sold \in 0..Base
         /\ pos.remaining \in 0..Base /\ pos.stage \in Nat
<1>1. /\ wire \in Seq(Events) /\ sold \in 0..Base
      /\ pos.remaining \in 0..Base /\ pos.stage \in Nat
  BY FreeIs DEF QuantityInv, ExchangeInv, DeskInv, PositionOK, PlacedInv, ShapeInv, Position
<1> QED BY <1>1, WeightsAre, HitsAre, AlongType

LEMMA WiresNext ==
  ASSUME QuantityInv'
  PROVE  /\ Along(FillLots, wire') \in Nat /\ Along(TargetHits, wire') \in Nat
         /\ Cardinality(HitsIn(oco')) \in Nat /\ sold' \in Nat
         /\ pos'.remaining \in 0..Base /\ pos'.stage \in Nat
<1>1. wire' \in Seq(Events) /\ sold' \in Nat
  BY DEF QuantityInv, ExchangeInv, Events, Protective, Foreign, Trading, Stages, Sides, EventStatuses
<1>2. pos'.remaining \in 0..Base /\ pos'.stage \in Nat
  BY DEF QuantityInv, DeskInv, PositionOK, PlacedInv, ShapeInv, Position
<1> QED BY <1>1, <1>2, WeightsAre, HitsAre, AlongType

LEMMA FillConsumed ==
  ASSUME QuantityInv, StreamFills, wire # <<>>, Consume
  PROVE  LET e == Head(wire) IN
         /\ sold' = sold /\ oco' = oco /\ e.qty \in 0..Base
         /\ Along(FillLots, wire) = e.qty + Along(FillLots, wire')
         /\ Along(TargetHits, wire) = (IF e.kind = "tp" THEN 1 ELSE 0) + Along(TargetHits, wire')
<1>1. /\ sold' = sold /\ oco' = oco /\ Head(wire) \in Events
      /\ Along(FillLots, wire) = FillLots[Head(wire)] + Along(FillLots, wire')
      /\ Along(TargetHits, wire) = TargetHits[Head(wire)] + Along(TargetHits, wire')
  BY ConsumeKeeps DEF QuantityInv
<1>2. /\ Head(wire).status = "FILLED" /\ Head(wire).qty \in 0..Base
      /\ Head(wire).kind # "close"
  <2>1. Head(wire) \in Protective
    BY HeadIsProtective DEF QuantityInv, StreamFills
  <2> QED BY <2>1 DEF StreamFills, Protective, Sides
<1>3. /\ FillLots[Head(wire)] = Head(wire).qty
      /\ TargetHits[Head(wire)] = IF Head(wire).kind = "tp" THEN 1 ELSE 0
  BY <1>1, <1>2 DEF FillLots, TargetHits
<1> QED BY <1>1, <1>2, <1>3

(* Every step but the comparison with the balance moves the position and    *)
(* the fills on the wire by no more than is sold.                           *)
LEMMA BooksMove ==
  ASSUME QuantityInv, QuantityInv', [Next]_vars, NoCorrection
  PROVE  /\ Along(FillLots, wire') + pos.remaining + sold
              <= Along(FillLots, wire) + pos'.remaining + sold'
         /\ pos'.remaining <= pos.remaining
         /\ pos'.status = "closed" => pos'.remaining = 0 \/ pos.status = "closed"
<1>1. /\ Along(FillLots, wire) \in Nat /\ sold \in Nat /\ pos.remaining \in 0..Base
      /\ Along(FillLots, wire') \in Nat /\ sold' \in Nat /\ pos'.remaining \in 0..Base
  BY WiresAre, WiresNext
<1>2. CASE BooksKept /\ SalesCovered
  BY <1>1, <1>2, ConstantsAre DEF BooksKept, SalesCovered
<1>3. CASE StreamFills /\ FillsBooked(Head(wire)) /\ wire # <<>> /\ Consume
  <2> DEFINE e == Head(wire)
  <2>1. /\ sold' = sold /\ e.qty \in 0..Base
        /\ Along(FillLots, wire) = e.qty + Along(FillLots, wire')
    BY <1>3, FillConsumed
  <2>2. Position(pos) /\ PositionOK(pos)
    BY DEF QuantityInv, DeskInv, PlacedInv, ShapeInv
  <2>3. /\ Sells(pos, e.qty).remaining = IF e.qty >= pos.remaining THEN 0 ELSE pos.remaining - e.qty
        /\ Sells(pos, e.qty).status = IF e.qty >= pos.remaining THEN "closed" ELSE "partially_closed"
    BY <2>1, <2>2, SellsTyped
  <2>4. pos'.remaining = Sells(pos, e.qty).remaining /\ pos'.status = Sells(pos, e.qty).status
    BY <1>3 DEF FillsBooked
  <2> HIDE DEF e
  <2>5. /\ pos'.remaining = IF e.qty >= pos.remaining THEN 0 ELSE pos.remaining - e.qty
        /\ pos'.status = IF e.qty >= pos.remaining THEN "closed" ELSE "partially_closed"
    BY <2>3, <2>4
  <2>6. Along(FillLots, wire') + pos.remaining <= Along(FillLots, wire) + pos'.remaining
    BY <1>1, <2>1, <2>5, ConstantsAre
  <2>7. pos'.remaining <= pos.remaining /\ (pos'.status = "closed" => pos'.remaining = 0)
    BY <1>1, <2>1, <2>5
  <2> QED BY <1>1, <2>1, <2>6, <2>7, ConstantsAre
<1> QED BY <1>2, <1>3, StepIs DEF NoCorrection

(* So it keeps the books.                                                   *)
LEMMA BooksStep ==
  ASSUME QuantityInv, QuantityInv', Books, [Next]_vars, NoCorrection
  PROVE  Books' /\ pos'.remaining <= pos.remaining
<1>1. /\ Along(FillLots, wire) \in Nat /\ sold \in Nat /\ pos.remaining \in 0..Base
      /\ Along(FillLots, wire') \in Nat /\ sold' \in Nat /\ pos'.remaining \in 0..Base
  BY WiresAre, WiresNext
<1>2. /\ Along(FillLots, wire') + pos.remaining + sold
           <= Along(FillLots, wire) + pos'.remaining + sold'
      /\ pos'.remaining <= pos.remaining
      /\ pos'.status = "closed" => pos'.remaining = 0 \/ pos.status = "closed"
  BY BooksMove
<1>3. Base - pos'.remaining + Along(FillLots, wire') <= sold'
  BY <1>1, <1>2, ConstantsAre DEF Books
<1>4. pos'.status = "closed" => pos'.remaining = 0
  BY <1>1, <1>2, ConstantsAre DEF Books
<1> QED BY <1>2, <1>3, <1>4 DEF Books

LEMMA StageBooksStep ==
  ASSUME QuantityInv, QuantityInv', StageBooks, [Next]_vars, NoReconcileCloses
  PROVE  StageBooks'
<1>1. /\ Along(TargetHits, wire) \in Nat /\ pos.stage \in Nat /\ Cardinality(HitsIn(oco)) \in Nat
      /\ Along(TargetHits, wire') \in Nat /\ pos'.stage \in Nat /\ Cardinality(HitsIn(oco')) \in Nat
  BY WiresAre, WiresNext
<1>2. (Cardinality(HitsIn(oco)))' = Cardinality(HitsIn(oco'))
  BY DEF HitsIn, Stages
<1>3. CASE StageKept /\ HitsCovered
  BY <1>1, <1>2, <1>3 DEF StageBooks, StageKept, HitsCovered
<1>4. CASE StreamFills /\ FillsBooked(Head(wire)) /\ wire # <<>> /\ Consume
  <2> DEFINE e == Head(wire)
  <2>1. /\ oco' = oco
        /\ Along(TargetHits, wire) = (IF e.kind = "tp" THEN 1 ELSE 0) + Along(TargetHits, wire')
    BY <1>4, FillConsumed
  <2>2. pos'.stage = pos.stage \/ (pos'.stage = pos.stage + 1 /\ e.kind = "tp")
    BY <1>4 DEF FillsBooked
  <2> QED BY <1>1, <1>2, <2>1, <2>2 DEF StageBooks
<1> QED BY <1>3, <1>4, StepIs DEF NoReconcileCloses
(***************************************************************************)
(* Without reconcile() and reconcile_all() no task compares anything;      *)
(* without reconcile_all() none is on the way to a correction.             *)
(***************************************************************************)
Correcting == {"balances", "balanced", "orders"}
Comparing == {"list", "details"} \cup Correcting
Away(L) == \A t \in Tasks : ~loc[t].all /\ pc[t] \notin L
NoCompare == Away(Comparing)
Calm(o, L) == Local(o.loc) /\ o.pc \notin L

LEMMA CalmStep ==
  ASSUME PlacedInv, NEW L \in {Comparing, Correcting}, Away(L),
         NEW t \in Tasks, NEW label, label \notin L, NEW locals,
         ~locals.all, pc' = [pc EXCEPT ![t] = label], loc' = [loc EXCEPT ![t] = locals]
  PROVE  Away(L)'
<1>1. /\ \A u \in Tasks : u # t => pc'[u] = pc[u] /\ loc'[u] = loc[u]
      /\ pc'[t] = label /\ loc'[t] = locals
  BY DEF PlacedInv, ShapeInv
<1>2. \A u \in Tasks : ~loc'[u].all /\ pc'[u] \notin L
  BY <1>1 DEF Away
<1> QED BY <1>2 DEF Away, Tasks

LEMMA CalmBecomes ==
  ASSUME PlacedInv, NEW L \in {Comparing, Correcting}, Away(L),
         NEW t \in Tasks, NEW outcomes, \A o \in outcomes : Calm(o, L),
         Becomes(t, outcomes)
  PROVE  Away(L)'
<1>1. ~loc[t].all
  BY DEF Away
<1>2. PICK o \in outcomes :
        /\ pc' = [pc EXCEPT ![t] = o.pc]
        /\ loc' = [loc EXCEPT ![t] = [o.loc EXCEPT !.all = loc[t].all, !.owned = loc[t].owned]]
  BY <1>1 DEF Becomes
<1> DEFINE kept == [o.loc EXCEPT !.all = loc[t].all, !.owned = loc[t].owned]
<1>3. Local(o.loc) /\ o.pc \notin L
  BY <1>2 DEF Calm
<1>4. kept.all = loc[t].all
  BY <1>3 DEF Local, LocFields
<1>5. loc' = [loc EXCEPT ![t] = kept]
  BY <1>2
<1> HIDE DEF kept
<1> QED BY <1>1, <1>2, <1>3, <1>4, <1>5, CalmStep

LEMMA CalmCalls ==
  ASSUME PlacedInv, NEW L \in {Comparing, Correcting}, Away(L), NEW t \in Tasks, NEW db
  PROVE  /\ Ends(t, db) => Away(L)'
         /\ \A label, locals : label \notin L /\ Local(locals) /\ GoesOn(t, db, label, locals)
              => Away(L)'
         /\ Sound(db) /\ Becomes(t, Establishing(t, db)) => Away(L)'
         /\ Sound(db) /\ Becomes(t, Advancing(t, db)) => Away(L)'
<1>1. "idle" \notin L /\ "market" \notin L /\ "cancel" \notin L
  BY DEF Comparing, Correcting
<1>2. ASSUME NEW label, NEW locals, label \notin L, Local(locals)
      PROVE  GoesOn(t, db, label, locals) => Away(L)'
  <2> DEFINE o == [db |-> db, pc |-> label, loc |-> locals]
  <2>1. \A x \in {o} : Calm(x, L)
    BY <1>2 DEF Calm
  <2>2. GoesOn(t, db, label, locals) => Becomes(t, {o})
    BY DEF GoesOn
  <2> HIDE DEF o
  <2> QED BY <2>1, <2>2, CalmBecomes
<1>3. Ends(t, db) => Away(L)'
  <2>1. Local(NoLocals)
    BY NewLocals
  <2>2. Ends(t, db) => GoesOn(t, db, "idle", NoLocals)
    BY DEF Ends, GoesOn
  <2> QED BY <1>1, <1>2, <2>1, <2>2
<1>4. ASSUME NEW d, Sound(d) PROVE \A o \in Establishing(t, d) : Calm(o, L)
  <2>1. \A o \in Establishing(t, d) : o.pc \in {"idle", "market"}
    BY DEF Establishing
  <2>2. \A o \in Establishing(t, d) : Local(o.loc)
    BY <1>4, EstablishingKeeps DEF Outcome
  <2> QED BY <1>1, <2>1, <2>2 DEF Calm
<1>5. ASSUME Sound(db) PROVE \A o \in Advancing(t, db) : Calm(o, L)
  <2>1. \A o \in Advancing(t, db) : o.pc \in {"idle", "cancel"} \/ o \in Establishing(t, Advanced(db))
    BY DEF Advancing
  <2>2. \A o \in Establishing(t, Advanced(db)) : o.pc \in {"idle", "market"}
    BY DEF Establishing
  <2>3. \A o \in Advancing(t, db) : Local(o.loc)
    BY <1>5, AdvancingKeeps DEF Outcome
  <2> QED BY <1>1, <2>1, <2>2, <2>3 DEF Calm
<1>6. Sound(db) /\ Becomes(t, Establishing(t, db)) => Away(L)'
  BY <1>4, CalmBecomes
<1>7. Sound(db) /\ Becomes(t, Advancing(t, db)) => Away(L)'
  BY <1>5, CalmBecomes
<1> QED BY <1>2, <1>3, <1>6, <1>7

LEMMA CalmTask ==
  ASSUME PlacedInv, NEW L \in {Comparing, Correcting}, Away(L), NEW t \in Tasks, TaskStep(t)
  PROVE  Away(L)'
<1>1. Sound(DB) /\ Local(loc[t]) /\ ~loc[t].all /\ pc[t] \notin L
  BY SoundDB DEF PlacedInv, ShapeInv, Away
<1>2. ASSUME NEW label, label \notin L, NEW answer, Answer(t, label, answer)
      PROVE  Away(L)'
  <2> DEFINE locals == [loc[t] EXCEPT !.answer = answer]
  <2>1. ~locals.all
    BY <1>1 DEF Local, LocFields
  <2>2. pc' = [pc EXCEPT ![t] = label] /\ loc' = [loc EXCEPT ![t] = locals]
    BY <1>2 DEF Answer
  <2> HIDE DEF locals
  <2> QED BY <1>2, <2>1, <2>2, CalmStep
<1>3. /\ "account" \notin L /\ "place" \notin L /\ "guard" \notin L
      /\ "unwind" \notin L /\ "placed" \notin L /\ "guarded" \notin L
      /\ "unwound" \notin L /\ "canceled" \notin L
  BY DEF Comparing, Correcting
<1>4. CASE ReadBalance(t)
  <2>1. Local([loc[t] EXCEPT !.lots = IF Free < @ THEN Free ELSE @])
    BY <1>1, LocalsKeep
  <2> QED BY <1>3, <1>4, <2>1, CalmCalls DEF ReadBalance
<1>5. CASE EstablishFails(t) \/ EstablishUnwinds(t)
  BY <1>5, CalmCalls DEF EstablishFails, EstablishUnwinds
<1>6. CASE EstablishSubmits(t)
  <2>1. \A x, y : Local([loc[t] EXCEPT !.row = x, !.guard = y])
    BY <1>1, LocalsKeep
  <2>2. \E db, x, y : GoesOn(t, db, "place", [loc[t] EXCEPT !.row = x, !.guard = y])
    BY <1>6 DEF EstablishSubmits
  <2> QED BY <1>3, <2>1, <2>2, CalmCalls
<1>7. CASE EstablishAcks(t)
  <2>1. \E db : GoesOn(t, db, "guard", loc[t]) \/ Ends(t, db)
    BY <1>7 DEF EstablishAcks
  <2> QED BY <1>1, <1>3, <2>1, CalmCalls
<1>8. CASE GuardAcks(t)
  <2>1. \E db : GoesOn(t, db, "unwind", loc[t]) \/ Ends(t, db)
    BY <1>8 DEF GuardAcks
  <2> QED BY <1>1, <1>3, <2>1, CalmCalls
<1>9. CASE PlaceOco(t) \/ PlaceGuard(t) \/ CancelList(t) \/ CancelGuard(t)
  <2>1. \E label \in {"placed", "guarded", "unwound", "canceled"} : \E answer : Answer(t, label, answer)
    BY <1>9 DEF PlaceOco, PlaceGuard, CancelList, CancelGuard
  <2> QED BY <1>2, <1>3, <2>1
<1>10. CASE AdvanceGoesOn(t)
  <2> DEFINE closed == SetRow(DB, loc[t].row, "closed")
  <2>1. Sound(closed)
    BY <1>1, WritesKeep
  <2>2. PICK db \in {DB, closed} : Becomes(t, Establishing(t, db)) \/ Ends(t, db)
    BY <1>10 DEF AdvanceGoesOn
  <2> HIDE DEF closed
  <2>3. Sound(db)
    BY <1>1, <2>1, <2>2
  <2> QED BY <2>2, <2>3, CalmCalls
<1>11. CASE ListAnswers(t)
  <2>1. pc[t] = "list" /\ "details" \notin L
    BY <1>1, <1>11 DEF ListAnswers, Comparing, Correcting
  <2>2. \A answer : Local([loc[t] EXCEPT !.answer = answer])
    BY <1>1, LocalsKeep
  <2>3. \/ \E answer : GoesOn(t, DB, "details", [loc[t] EXCEPT !.answer = answer])
        \/ Ends(t, DB)
    BY <1>11 DEF ListAnswers
  <2> QED BY <2>1, <2>2, <2>3, CalmCalls
<1>12. CASE ReconcileCloses(t) \/ ReconcileFails(t)
  <2> DEFINE closed == SetRow(DB, loc[t].row, "closed")
  <2>1. Sound(closed)
    BY <1>1, WritesKeep
  <2>2. Becomes(t, Advancing(t, closed)) \/ Ends(t, closed) \/ Ends(t, DB)
    BY <1>12 DEF ReconcileCloses, ReconcileFails
  <2> HIDE DEF closed
  <2> QED BY <2>1, <2>2, CalmCalls
<1>13. ~(BalancesRead(t) \/ ReconcilesActive(t) \/ CorrectPosition(t) \/ ReconcileAllEnds(t))
  BY <1>1 DEF Comparing, Correcting, BalancesRead, ReconcilesActive, CorrectPosition, ReconcileAllEnds
<1> QED BY <1>4, <1>5, <1>6, <1>7, <1>8, <1>9, <1>10, <1>11, <1>12, <1>13 DEF TaskStep

LEMMA CalmStream ==
  ASSUME PlacedInv, NEW L \in {Comparing, Correcting}, Away(L),
         StreamEstablishes \/ StreamIgnores \/ StreamFills \/ StreamFlags \/ StreamListDone
  PROVE  Away(L)'
<1>1. Sound(DB) /\ Stream \in Tasks
  BY SoundDB DEF PlacedInv, Tasks
<1>2. CASE StreamEstablishes
  BY <1>1, <1>2, CalmCalls DEF StreamEstablishes
<1>3. CASE StreamIgnores
  BY <1>3 DEF StreamIgnores, taskVars, Away, Tasks
<1>4. CASE StreamFlags \/ StreamListDone
  <2>1. \E db : Ends(Stream, db)
    BY <1>4 DEF StreamFlags, StreamListDone
  <2> QED BY <1>1, <2>1, CalmCalls
<1>5. CASE StreamFills
  <2> DEFINE e == Head(wire)
             Booked(i) == [SetRow(DB, i, "closed") EXCEPT !.pos = Sells(pos, e.qty)]
  <2>1. PICK i : \/ Becomes(Stream, Advancing(Stream, Booked(i)))
                 \/ Ends(Stream, Booked(i))
    BY <1>5 DEF StreamFills
  <2>2. Sound(Booked(i))
    <3>1. Sound(SetRow(DB, i, "closed")) /\ Position(pos)
      BY <1>1, WritesKeep DEF PlacedInv, ShapeInv
    <3>2. Position(Sells(pos, e.qty))
      BY <3>1 DEF Sells, Position, PosFields
    <3> HIDE DEF e
    <3>3. Booked(i) = [pos |-> Sells(pos, e.qty), rows |-> SetRow(DB, i, "closed").rows]
      BY <3>1 DEF Sound
    <3> QED BY <3>1, <3>2, <3>3 DEF Sound
  <2> HIDE DEF Booked
  <2> QED BY <1>1, <2>1, <2>2, CalmCalls
<1> QED BY <1>2, <1>3, <1>4, <1>5

LEMMA AwayElsewhere ==
  ASSUME NEW L \in {Comparing, Correcting}, Away(L),
         \/ \E k \in Stages : TargetFills(k) \/ StopFills(k) \/ GuardFills(k)
         \/ Disconnect \/ Reconnect \/ CrashRestart \/ UNCHANGED vars
  PROVE  Away(L)'
<1>1. CASE pc' = pc /\ loc' = loc
  BY <1>1 DEF Away, Tasks
<1>2. CASE CrashRestart
  <2>1. pc' = [t \in Tasks |-> "idle"] /\ loc' = [t \in Tasks |-> NoLocals]
    BY <1>2 DEF CrashRestart
  <2>2. \A t \in Tasks : ~loc'[t].all /\ pc'[t] \notin L
    BY <2>1 DEF NoLocals, Comparing, Correcting
  <2> QED BY <2>2 DEF Away, Tasks
<1> QED BY <1>1, <1>2
        DEF TargetFills, StopFills, LegFills, GuardFills, Disconnect, Reconnect, vars, taskVars

LEMMA NoCompareStep ==
  ASSUME Reconcilers = {}, PlacedInv, NoCompare, [Next]_vars
  PROVE  NoCompare'
<1>1. Comparing \in {Comparing, Correcting} /\ Away(Comparing)
  BY DEF NoCompare
<1>2. ASSUME NEW t \in Admins, EstablishRequest(t) \/ ReconcileRequest(t) \/ BalancesRequest(t)
      PROVE  Away(Comparing)'
  <2>1. t \in Tasks /\ Sound(DB)
    BY SoundDB DEF Tasks, PlacedInv
  <2>2. EstablishRequest(t)
    BY <1>2 DEF ReconcileRequest, BalancesRequest
  <2> QED BY <1>1, <2>1, <2>2, CalmCalls DEF EstablishRequest
<1>3. Away(Comparing)'
  BY <1>1, <1>2, CalmTask, CalmStream, AwayElsewhere DEF Next
<1> QED BY <1>3 DEF NoCompare, Away, Comparing, Correcting

LEMMA InitBooks == Init => Books /\ StageBooks /\ NoCompare
<1> SUFFICES ASSUME Init PROVE Books /\ StageBooks /\ NoCompare
  OBVIOUS
<1>1. /\ Along(FillLots, wire) = 0 /\ Along(TargetHits, wire) = 0
      /\ pos = Entered /\ sold = 0
  BY InitQuantities DEF Init
<1>2. Cardinality(HitsIn(oco)) \in Nat
  BY HitsAre
<1>3. Books /\ StageBooks
  BY <1>1, <1>2, ConstantsAre DEF Books, StageBooks, Entered
<1>4. \A t \in Tasks : loc[t] = NoLocals /\ pc[t] \in {"idle", "start"}
  BY DEF Init
<1> QED BY <1>3, <1>4 DEF NoCompare, Away, Comparing, Correcting, NoLocals

(* The books in every behaviour that does not compare the position with the *)
(* balance, whatever else interleaves, is lost or crashes.                  *)
THEOREM TheBooks == Spec /\ [][NoCorrection]_vars => []Books
<1>1. Books /\ QuantityInv /\ QuantityInv' /\ [Next]_vars /\ [NoCorrection]_vars => Books'
  <2>1. CASE UNCHANGED vars
    BY <2>1 DEF vars, streamVars, exchangeVars, Books, FillLots, Events, Protective, Foreign, Trading, Stages, Sides, EventStatuses
  <2> QED BY <2>1, BooksStep
<1> QED BY <1>1, InitBooks, QuantityInvariant, PTL DEF Spec

(* The books never run ahead of the exchange, unless the position is cut to *)
(* the balance (binance_user_stream.py:550-590).                            *)
THEOREM SoldWasSold == Spec /\ [][NoCorrection]_vars => []SoldIsSold
<1>1. QuantityInv /\ Books => SoldIsSold
  BY WiresAre, ConstantsAre DEF Books, SoldIsSold
<1> QED BY <1>1, TheBooks, QuantityInvariant, PTL

(* Nor does the position grow, but by that comparison: reconciliation.py:113*)
(* holds of everything else.                                                *)
THEOREM OnlyCorrectionIncreases == Spec /\ [][NoCorrection]_vars => NeverIncreased
<1>1. Books /\ QuantityInv /\ QuantityInv' /\ [Next]_vars /\ [NoCorrection]_vars
        => [pos'.remaining <= pos.remaining]_vars
  BY BooksStep
<1> QED BY <1>1, TheBooks, QuantityInvariant, PTL DEF Spec, NeverIncreased

(* A stage for each target that filled, unless reconcile() has answered for *)
(* an event that was still to come (protection.py:584-664, 681-729).        *)
THEOREM AdvancedOnce == Spec /\ [][NoReconcileCloses]_vars => []AdvanceOncePerTarget
<1>1. StageBooks /\ QuantityInv /\ QuantityInv' /\ [Next]_vars /\ [NoReconcileCloses]_vars
        => StageBooks'
  <2>1. CASE UNCHANGED vars
    BY <2>1 DEF vars, streamVars, exchangeVars, StageBooks, TargetHits, HitsIn, Events, Protective, Foreign, Trading, Stages, Sides, EventStatuses
  <2> QED BY <2>1, StageBooksStep
<1>2. QuantityInv /\ StageBooks => AdvanceOncePerTarget
  BY WiresAre DEF StageBooks, AdvanceOncePerTarget, TargetsFilled, HitsIn
<1> QED BY <1>1, <1>2, InitBooks, QuantityInvariant, PTL DEF Spec

(* All three where there is no reconciliation, as in the run of the stream. *)
THEOREM StreamAlone ==
  ASSUME Reconcilers = {}
  PROVE  Spec => []SoldIsSold /\ []AdvanceOncePerTarget /\ NeverIncreased
<1>1. Init => NoCompare
  BY InitBooks
<1>2. PlacedInv /\ NoCompare /\ [Next]_vars => NoCompare'
  BY NoCompareStep
<1>3. NoCompare => NoCorrection /\ NoReconcileCloses
  BY DEF NoCompare, Away, NoCorrection, NoReconcileCloses, Comparing, Correcting, CorrectPosition, ReconcileCloses
<1>4. Spec => []NoCompare
  BY <1>1, <1>2, PlacedInvariant, PTL DEF Spec
<1> QED BY <1>3, <1>4, SoldWasSold, AdvancedOnce, OnlyCorrectionIncreases, PTL

-----------------------------------------------------------------------------
(***************************************************************************)
(* Coverage.  Loose[k] is what neither was sold nor is locked by an order  *)
(* of a stage up to k: what the task that protects stage k still has to    *)
(* place covers it.                                                        *)
(***************************************************************************)
Held == {"place", "placed", "guard", "guarded", "unwind", "unwound"}
AtWork == {"market", "account"} \cup Held
Unguarded == {"place", "placed", "guard"}

LooseIn(o, g, s) == [k \in Stages |-> Base - s - Total(LotsOf(o, g), 0, k)]
FreeIn(o, g, s) == Base - s - LockedIn(o, g)
Loose == LooseIn(oco, guard, sold)

HasRow(rs, role, k) == \E i \in DOMAIN rs : rs[i].role = role /\ rs[i].stage = k

(* What a task that awaits something has to rely on, once it is resumed.    *)
Fits(label, l, p, rs, f) ==
  /\ label \in AtWork => l.stage \in Stages /\ l.stage <= p.stage
  /\ label = "market" => p.remaining <= l.lots
  /\ label = "account" /\ l.lots > 0 => HasRow(rs, "bracket", l.stage) \/ f[l.stage] <= l.lots
  /\ label \in Held => /\ l.row \in DOMAIN rs /\ rs[l.row].role = "bracket"
                       /\ rs[l.row].stage = l.stage /\ ~HasRow(rs, "guard_stop", l.stage)
  /\ label = "place" => f[l.stage] <= rs[l.row].qty + l.guard
  /\ label = "guard" \/ (label = "placed" /\ l.answer = "executing") => f[l.stage] <= l.guard
  /\ label = "guarded" /\ l.answer = "ok" => f[l.stage] <= 0
  /\ label = "cancel" => l.stage + 1 = p.stage /\ HasRow(rs, "guard_stop", l.stage)

(* A stage has one task that places its orders, and places its guard once.  *)
Sole(pcs, locs, g) ==
  /\ \A t, u \in Tasks : pcs[t] \in Held /\ pcs[u] \in Held /\ t # u => locs[t].stage # locs[u].stage
  /\ \A t \in Tasks : pcs[t] \in Unguarded => g[locs[t].stage].state = "none"
  /\ \A t \in Tasks : pcs[t] = "cancel" => t = Stream

(* No stage is opened before the target of the one before it has filled.    *)
StagesKnown(p, rs, o, g) ==
  /\ \A i \in DOMAIN rs : /\ rs[i].stage <= p.stage
                          /\ rs[i].role = "guard_stop" => HasRow(rs, "bracket", rs[i].stage)
  /\ \A k \in Stages : /\ o[k].state # "none" \/ g[k].state # "none" => k <= p.stage
                       /\ k < p.stage => o[k].filled = "tp"

(* A stage with a guard has a bracket; a guard whose row was written took   *)
(* all there was.                                                          *)
GuardsKnown(rs, g, f) ==
  \A k \in Stages :
    /\ g[k].state # "none" => HasRow(rs, "bracket", k)
    /\ g[k].state = "live" => g[k].qty > 0 /\ (HasRow(rs, "guard_stop", k) => f[k] <= 0)

(* While the stream is about to cancel a guard that is at work, nothing is  *)
(* placed for the next stage.                                               *)
Canceling(pcs, locs, g) == pcs[Stream] = "cancel" /\ g[locs[Stream].stage].state = "live"
Untouched(rs, pcs, locs, g) ==
  Canceling(pcs, locs, g) =>
    /\ \A i \in DOMAIN rs : rs[i].stage <= locs[Stream].stage
    /\ \A t \in Tasks : pcs[t] = "account" /\ locs[t].lots > 0 => locs[t].stage <= locs[Stream].stage

(* A task that is still to place its guard, or will flag the position.      *)
Flagging(label, l) ==
  label \in {"guard", "unwind", "unwound"} \/ (label = "guarded" /\ l.answer = "error")
Doubt(pcs, locs) == \E t \in Tasks : Flagging(pcs[t], locs[t])

Covers(p, pcs, locs, g, free, fs) ==
  fs = 0 /\ p.prot = "protected" =>
    Doubt(pcs, locs) \/ (free = 0 /\ ~Canceling(pcs, locs, g))

Covering(p, rs, o, g, s, pcs, locs, fs) ==
  /\ StagesKnown(p, rs, o, g)
  /\ GuardsKnown(rs, g, LooseIn(o, g, s))
  /\ \A t \in Tasks : Fits(pcs[t], locs[t], p, rs, LooseIn(o, g, s))
  /\ Sole(pcs, locs, g)
  /\ Untouched(rs, pcs, locs, g)
  /\ fs \in Nat /\ Covers(p, pcs, locs, g, FreeIn(o, g, s), fs)

CoverInv == Covering(pos, rows, oco, guard, sold, pc, loc, faults)

LEMMA CoverNext ==
  ASSUME Covering(pos', rows', oco', guard', sold', pc', loc', faults')
  PROVE  CoverInv'
BY DEF CoverInv, Covering, StagesKnown, GuardsKnown, Fits, Sole, Untouched, Covers, Canceling,
       Doubt, Flagging, HasRow, LooseIn, FreeIn, LotsOf, LotsIn, LockedIn, Held, AtWork, Unguarded, Stages, Tasks

(* What is loose, stage by stage.                                           *)
LEMMA LooseIs ==
  ASSUME NEW o, NEW g, NEW s \in Int, Quantified(o, g)
  PROVE  /\ FreeIn(o, g, s) \in Int
         /\ \A k \in Stages :
              /\ LooseIn(o, g, s)[k] \in Int
              /\ FreeIn(o, g, s) <= LooseIn(o, g, s)[k]
              /\ (\A j \in Stages : j > k => LotsIn(o[j]) + LotsIn(g[j]) = 0)
                   => LooseIn(o, g, s)[k] = FreeIn(o, g, s)
              /\ \A j \in Stages : j > k => FreeIn(o, g, s) + LotsIn(g[j]) <= LooseIn(o, g, s)[k]
<1> DEFINE q == LotsOf(o, g)
           f == LooseIn(o, g, s)
           free == FreeIn(o, g, s)
<1>1. Summands(q, 0, Targets - 1) /\ \A k \in Stages : q[k] \in Nat /\ q[k] >= LotsIn(g[k])
  <2>1. \A k \in Stages : LotsIn(o[k]) \in Nat /\ LotsIn(g[k]) \in Nat
    BY ConstantsAre DEF Quantified, LotsIn
  <2>2. \A k \in Stages : q[k] = LotsIn(o[k]) + LotsIn(g[k])
    BY DEF LotsOf
  <2> HIDE DEF q
  <2> QED BY <2>1, <2>2, LockedIs DEF q
<1>2. \A k \in Stages : q[k] = LotsIn(o[k]) + LotsIn(g[k])
  BY DEF LotsOf
<1>3. \A k \in Stages : f[k] = Base - s - Total(q, 0, k)
  BY DEF LooseIn
<1>4. free = Base - s - Total(q, 0, Targets - 1)
  BY DEF FreeIn, LockedIn
<1> HIDE DEF q, f, free
<1>5. ASSUME NEW k \in Stages
      PROVE  Total(q, 0, k) \in Int /\ (k >= 1 => Total(q, 0, k) = Total(q, 0, k - 1) + q[k])
  <2>1. Summands(q, 0, k)
    BY <1>1, ConstantsAre DEF Summands
  <2>2. k \in Int /\ 0 \in Int /\ 0 - 1 <= k /\ 0 <= k
    BY ConstantsAre
  <2> QED BY <2>1, <2>2, TotalType, TotalStep
<1>6. \A k \in Stages : k >= 1 => f[k - 1] = f[k] + q[k]
  BY <1>1, <1>3, <1>5, ConstantsAre
<1>7. /\ free = f[Targets - 1] /\ \A k \in Stages : f[k] \in Int
  BY <1>3, <1>4, <1>5, ConstantsAre
<1>8. \A k \in Stages :
        /\ free <= f[k]
        /\ (\A j \in Stages : j > k => q[j] = 0) => f[k] = free
        /\ \A j \in Stages : j > k => free + q[j] <= f[k]
  <2>1. CASE Targets = 1
    <3>1. Stages = {0} /\ free = f[0]
      BY <1>7, <2>1, ConstantsAre
    <3> QED BY <1>7, <3>1
  <2>2. CASE Targets = 2
    <3>1. Stages = {0, 1} /\ f[0] = f[1] + q[1] /\ free = f[1]
      BY <1>6, <1>7, <2>2, ConstantsAre
    <3>2. q[1] \in Nat /\ f[1] \in Int
      BY <1>1, <1>7, <3>1
    <3> QED BY <3>1, <3>2
  <2>3. CASE Targets = 3
    <3>1. Stages = {0, 1, 2} /\ f[0] = f[1] + q[1] /\ f[1] = f[2] + q[2] /\ free = f[2]
      BY <1>6, <1>7, <2>3, ConstantsAre
    <3>2. q[1] \in Nat /\ q[2] \in Nat /\ f[2] \in Int
      BY <1>1, <1>7, <3>1
    <3> QED BY <3>1, <3>2
  <2> QED BY <2>1, <2>2, <2>3, ConstantsAre
<1>9. /\ free \in Int /\ \A k \in Stages : f[k] \in Int /\ LotsIn(g[k]) \in Nat
      /\ \A k \in Stages : q[k] \in Nat /\ q[k] >= LotsIn(g[k])
  <2>1. free \in Int
    BY <1>7, ConstantsAre
  <2> QED BY <1>1, <1>7, <2>1, ConstantsAre DEF Quantified, LotsIn
<1>10. \A k, j \in Stages : j > k => free + LotsIn(g[j]) <= f[k]
  BY <1>8, <1>9
<1> QED BY <1>2, <1>8, <1>9, <1>10 DEF f, free

(* The orders of one stage change, or some of them are sold.                *)
LEMMA LooseChanges ==
  ASSUME NEW o, NEW g, NEW s \in Int, NEW u, NEW h, NEW v \in Int,
         Quantified(o, g), Quantified(u, h), NEW j \in Stages,
         \A k \in Stages : k # j => u[k] = o[k] /\ h[k] = g[k],
         NEW more, more = (LotsIn(u[j]) + LotsIn(h[j])) - (LotsIn(o[j]) + LotsIn(g[j]))
  PROVE  /\ FreeIn(u, h, v) = FreeIn(o, g, s) - (v - s) - more
         /\ \A k \in Stages :
              LooseIn(u, h, v)[k] = LooseIn(o, g, s)[k] - (v - s) - (IF j <= k THEN more ELSE 0)
<1> DEFINE q == LotsOf(o, g)
           r == LotsOf(u, h)
           old == LotsIn(o[j]) + LotsIn(g[j])
           new == LotsIn(u[j]) + LotsIn(h[j])
<1>1. Summands(q, 0, Targets - 1) /\ Summands(r, 0, Targets - 1)
  BY LockedIs
<1>2. \A k \in Stages : k # j => r[k] = q[k]
  BY DEF LotsOf
<1>3. more = new - old /\ q[j] = old /\ r[j] = new /\ old \in Int /\ new \in Int
  <2>1. old \in Int /\ new \in Int
    <3>1. LotsIn(o[j]) \in Int /\ LotsIn(g[j]) \in Int /\ LotsIn(u[j]) \in Int /\ LotsIn(h[j]) \in Int
      BY ConstantsAre DEF LotsIn, Quantified
    <3> QED BY <3>1
  <2>2. q[j] = old /\ r[j] = new
    BY DEF LotsOf
  <2> HIDE DEF q, r
  <2> QED BY <2>1, <2>2
<1>4. LockedIn(u, h) = LockedIn(o, g) + new - old /\ LockedIn(o, g) \in Int
  <2>1. LockedIn(o, g) \in Nat
    BY LockedIs
  <2> QED BY <2>1, LockedChanges
<1> HIDE DEF q, r, old, new
<1>5. ASSUME NEW k \in Stages
      PROVE  /\ Total(q, 0, k) \in Int
             /\ Total(r, 0, k) = Total(q, 0, k) + (IF j <= k THEN new - old ELSE 0)
  <2>1. Summands(q, 0, k) /\ Summands(r, 0, k)
    BY <1>1, ConstantsAre DEF Summands
  <2>2. k \in Int /\ 0 \in Int /\ 0 - 1 <= k /\ j \in Int /\ 0..k \subseteq Stages
    BY ConstantsAre
  <2>3. Total(q, 0, k) \in Int
    BY <2>1, <2>2, TotalType
  <2>4. CASE j <= k
    <3>1. j \in 0..k /\ \A i \in 0..k : i # j => r[i] = q[i]
      BY <1>2, <2>2, <2>4, ConstantsAre
    <3>2. Total(r, 0, k) = Total(q, 0, k) + r[j] - q[j]
      BY <2>1, <2>2, <3>1, TotalUpdate
    <3> QED BY <1>3, <2>3, <2>4, <3>2
  <2>5. CASE ~(j <= k)
    <3>1. \A i \in 0..k : q[i] = r[i]
      BY <1>2, <2>2, <2>5
    <3>2. Total(q, 0, k) = Total(r, 0, k)
      BY <2>1, <2>2, <3>1, TotalAgrees
    <3> QED BY <2>3, <2>5, <3>2
  <2> QED BY <2>4, <2>5
<1>6. \A k \in Stages : /\ LooseIn(u, h, v)[k] = Base - v - Total(r, 0, k)
                        /\ LooseIn(o, g, s)[k] = Base - s - Total(q, 0, k)
  BY DEF LooseIn, q, r
<1>7. \A k \in Stages :
        LooseIn(u, h, v)[k] = LooseIn(o, g, s)[k] - (v - s) - (IF j <= k THEN new - old ELSE 0)
  <2> SUFFICES ASSUME NEW k \in Stages
               PROVE  LooseIn(u, h, v)[k]
                        = LooseIn(o, g, s)[k] - (v - s) - (IF j <= k THEN new - old ELSE 0)
    OBVIOUS
  <2>1. /\ LooseIn(u, h, v)[k] = Base - v - Total(r, 0, k)
        /\ LooseIn(o, g, s)[k] = Base - s - Total(q, 0, k)
        /\ Total(q, 0, k) \in Int /\ Base \in Int
        /\ Total(r, 0, k) = Total(q, 0, k) + (IF j <= k THEN new - old ELSE 0)
    BY <1>5, <1>6, ConstantsAre
  <2> QED BY <1>3, <2>1
<1>8. FreeIn(u, h, v) = FreeIn(o, g, s) - (v - s) - (new - old)
  BY <1>3, <1>4, ConstantsAre DEF FreeIn
<1> QED BY <1>3, <1>7, <1>8

(* Rows that keep what they stand for. *)
RowsAlike(new, rs) ==
  /\ DOMAIN new = DOMAIN rs
  /\ \A i \in DOMAIN rs : new[i].role = rs[i].role /\ new[i].stage = rs[i].stage /\ new[i].qty = rs[i].qty

LEMMA AlikeRows ==
  ASSUME NEW rs, NEW new, RowsAlike(new, rs)
  PROVE  \A role, k : HasRow(new, role, k) <=> HasRow(rs, role, k)
BY DEF RowsAlike, HasRow

(* What a task relies on does not get less when other tasks, or the         *)
(* exchange, lock or sell more.                                             *)
LEMMA FitsKept ==
  ASSUME NEW label, NEW l, NEW p, NEW rs, NEW f, Fits(label, l, p, rs, f), LocalOK(l),
         NEW q, NEW new, NEW h, RowsAlike(new, rs),
         p.stage \in Nat, q.stage \in Nat, p.stage <= q.stage, label = "cancel" => q.stage = p.stage,
         q.remaining \in 0..Base, p.remaining \in 0..Base, q.remaining <= p.remaining,
         \A i \in DOMAIN rs : rs[i].qty \in 1..Base,
         \A k \in Stages : f[k] \in Int /\ h[k] \in Int,
         \/ label \notin Held \cup {"account"}
         \/ label = "account" /\ HasRow(rs, "bracket", l.stage)
         \/ h[l.stage] <= f[l.stage]
  PROVE  Fits(label, l, q, new, h)
<1>1. \A role, k : HasRow(new, role, k) <=> HasRow(rs, role, k)
  BY AlikeRows
<1>2. l.lots \in Int /\ l.guard \in Int /\ p.remaining \in Int /\ q.remaining \in Int
  BY ConstantsAre DEF LocalOK
<1>3. label \in AtWork => l.stage \in Stages /\ l.stage <= q.stage /\ f[l.stage] \in Int /\ h[l.stage] \in Int
  BY ConstantsAre DEF Fits
<1>4. /\ label = "market" => q.remaining <= l.lots
      /\ label = "cancel" => l.stage + 1 = q.stage /\ HasRow(new, "guard_stop", l.stage)
  BY <1>1, <1>2 DEF Fits
<1>5. label \in Held => /\ l.row \in DOMAIN new /\ new[l.row].role = "bracket"
                        /\ new[l.row].stage = l.stage /\ ~HasRow(new, "guard_stop", l.stage)
                        /\ new[l.row].qty = rs[l.row].qty /\ rs[l.row].qty \in Int
  BY <1>1, ConstantsAre DEF Fits, RowsAlike
<1>6. label = "account" /\ l.lots > 0 => HasRow(new, "bracket", l.stage) \/ h[l.stage] <= l.lots
  BY <1>1, <1>2, <1>3 DEF Fits, AtWork, Held
<1>7. /\ label = "place" => h[l.stage] <= new[l.row].qty + l.guard
      /\ label = "guard" \/ (label = "placed" /\ l.answer = "executing") => h[l.stage] <= l.guard
      /\ label = "guarded" /\ l.answer = "ok" => h[l.stage] <= 0
  <2>1. CASE label \in Held
    <3>1. h[l.stage] <= f[l.stage] /\ f[l.stage] \in Int /\ h[l.stage] \in Int
      BY <1>3, <2>1 DEF Held, AtWork
    <3> QED BY <1>2, <1>5, <2>1, <3>1 DEF Fits
  <2>2. CASE label \notin Held
    BY <2>2 DEF Held
  <2> QED BY <2>1, <2>2
<1> QED BY <1>3, <1>4, <1>5, <1>6, <1>7 DEF Fits

(* The exchange and the types, as the coverage needs them.                  *)
LEMMA CoverTypes ==
  ASSUME QuantityInv
  PROVE  /\ Quantified(oco, guard) /\ sold \in Int /\ pos.remaining \in 0..Base /\ pos.stage \in Nat
         /\ Free = FreeIn(oco, guard, sold) /\ Free \in 0..Base
         /\ \A k \in Stages : Loose[k] \in Int /\ Free <= Loose[k]
         /\ \A i \in DOMAIN rows : rows[i].qty \in 1..Base /\ rows[i].stage \in Stages
         /\ \A t \in Tasks : LocalOK(loc[t]) /\ Local(loc[t])
         /\ DOMAIN rows \subseteq Int
<1>1. Quantified(oco, guard) /\ sold \in Int
  BY DEF QuantityInv, ExchangeInv, OrderOK, GuardOK, Quantified
<1>2. Free = FreeIn(oco, guard, sold) /\ Free \in 0..Base
  BY FreeIs DEF QuantityInv, Free, FreeIn
<1>3. \A k \in Stages : Loose[k] \in Int /\ Free <= Loose[k]
  BY <1>1, <1>2, LooseIs DEF Loose
<1>4. /\ pos.remaining \in 0..Base /\ pos.stage \in Nat
      /\ \A i \in DOMAIN rows : rows[i].qty \in 1..Base /\ rows[i].stage \in Stages
      /\ \A t \in Tasks : LocalOK(loc[t]) /\ Local(loc[t])
      /\ DOMAIN rows \subseteq Int
  BY DEF QuantityInv, DeskInv, PositionOK, RowOK, PlacedInv, ShapeInv, Position, Row, Table
<1> QED BY <1>1, <1>2, <1>3, <1>4

LEMMA CoverTypesNext ==
  ASSUME QuantityInv'
  PROVE  /\ Quantified(oco', guard') /\ sold' \in Int /\ pos'.remaining \in 0..Base /\ pos'.stage \in Nat
         /\ Free' = FreeIn(oco', guard', sold') /\ Free' \in 0..Base
         /\ \A k \in Stages : LooseIn(oco', guard', sold')[k] \in Int
         /\ \A i \in DOMAIN rows' : rows'[i].qty \in 1..Base /\ rows'[i].stage \in Stages
         /\ \A t \in Tasks : LocalOK(loc'[t]) /\ Local(loc'[t])
<1>1. Quantified(oco', guard') /\ sold' \in Int
  BY DEF QuantityInv, ExchangeInv, OrderOK, GuardOK, Quantified, Stages
<1>2. Free' \in 0..Base
  <2>1. (ExchangeInv => Free \in 0..Base)'
    BY FreeIs, PTL
  <2> QED BY <2>1 DEF QuantityInv
<1>3. Free' = FreeIn(oco', guard', sold')
  BY DEF Free, FreeIn, Locked, LotsAtStage, LockedIn, LotsOf, LotsIn, Stages
<1>4. \A k \in Stages : LooseIn(oco', guard', sold')[k] \in Int
  BY <1>1, LooseIs
<1>5. /\ pos'.remaining \in 0..Base /\ pos'.stage \in Nat
      /\ \A i \in DOMAIN rows' : rows'[i].qty \in 1..Base /\ rows'[i].stage \in Stages
  BY DEF QuantityInv, DeskInv, PositionOK, RowOK, PlacedInv, ShapeInv, Position, Row, Stages
<1>6. \A t \in Tasks : LocalOK(loc'[t]) /\ Local(loc'[t])
  BY DEF QuantityInv, DeskInv, LocalOK, PositionOK, PlacedInv, ShapeInv, Local, Tasks
<1> QED BY <1>1, <1>2, <1>3, <1>4, <1>5, <1>6

-----------------------------------------------------------------------------
(* A step of one task that keeps the rows and the stage, and moves no order *)
(* at the exchange.                                                         *)
DeskKept ==
  RowsAlike(rows', rows) /\ pos'.stage = pos.stage /\ pos'.remaining <= pos.remaining
DeskAlike == DeskKept /\ (pos'.prot = "protected" => pos.prot = "protected")

LEMMA OneMoves ==
  ASSUME PlacedInv, NEW t \in Tasks, NEW label, NEW locals,
         pc' = [pc EXCEPT ![t] = label], loc' = [loc EXCEPT ![t] = locals]
  PROVE  /\ pc'[t] = label /\ loc'[t] = locals
         /\ \A u \in Tasks : u # t => pc'[u] = pc[u] /\ loc'[u] = loc[u]
BY DEF PlacedInv, ShapeInv

LEMMA DeskShifts ==
  ASSUME CoverInv, QuantityInv, QuantityInv', UNCHANGED exchangeVars, faults' = faults, DeskKept,
         NEW t \in Tasks, NEW label, NEW locals,
         pc' = [pc EXCEPT ![t] = label], loc' = [loc EXCEPT ![t] = locals],
         pc[t] # "cancel", label # "cancel", Fits(label, locals, pos', rows', Loose),
         label \in Held => pc[t] \in Held /\ locals.stage = loc[t].stage,
         label \in Unguarded => pc[t] \in Unguarded,
         Covers(pos', pc', loc', guard, FreeIn(oco, guard, sold), faults),
         Canceling(pc, loc, guard) => ~(label = "account" /\ locals.lots > 0)
  PROVE  CoverInv'
<1> USE DEF Loose
<1>1. /\ oco' = oco /\ guard' = guard /\ sold' = sold
      /\ pc'[t] = label /\ loc'[t] = locals
      /\ \A u \in Tasks : u # t => pc'[u] = pc[u] /\ loc'[u] = loc[u]
  BY OneMoves DEF exchangeVars, QuantityInv
<1>2. \A role, k : HasRow(rows', role, k) <=> HasRow(rows, role, k)
  BY AlikeRows DEF DeskKept
<1>3. Covering(pos, rows, oco, guard, sold, pc, loc, faults)
  BY DEF CoverInv
<1>4. StagesKnown(pos', rows', oco, guard)
  <2>1. StagesKnown(pos, rows, oco, guard)
    BY <1>3 DEF Covering
  <2> QED BY <1>2, <2>1 DEF StagesKnown, DeskKept, RowsAlike
<1>5. GuardsKnown(rows', guard, Loose)
  <2>1. GuardsKnown(rows, guard, Loose)
    BY <1>3 DEF Covering
  <2> QED BY <1>2, <2>1 DEF GuardsKnown
<1>6. \A u \in Tasks : Fits(pc'[u], loc'[u], pos', rows', Loose)
  <2> SUFFICES ASSUME NEW u \in Tasks, u # t PROVE Fits(pc'[u], loc'[u], pos', rows', Loose)
    BY <1>1
  <2>1. Fits(pc[u], loc[u], pos, rows, Loose)
    BY <1>3 DEF Covering
  <2>2. /\ pos.remaining \in 0..Base /\ pos'.remaining \in 0..Base /\ LocalOK(loc[u])
        /\ \A i \in DOMAIN rows : rows[i].qty \in 1..Base
        /\ \A k \in Stages : Loose[k] \in Int
        /\ pos.stage \in Nat /\ pos'.stage \in Nat /\ pos.stage <= pos'.stage
    BY CoverTypes, CoverTypesNext DEF DeskKept
  <2>3. pc[u] \in Held \cup {"account"} => Loose[loc[u].stage] <= Loose[loc[u].stage]
    <3>1. pc[u] \in Held \cup {"account"} => loc[u].stage \in Stages
      BY <2>1 DEF Fits, AtWork
    <3> QED BY <2>2, <3>1
  <2> HIDE DEF Loose
  <2>4. Fits(pc[u], loc[u], pos', rows', Loose)
    BY <2>1, <2>2, <2>3, FitsKept DEF DeskKept
  <2> QED BY <1>1, <2>4
<1>7. Sole(pc', loc', guard')
  <2>1. Sole(pc, loc, guard)
    BY <1>3 DEF Covering
  <2>2. label \in Unguarded => guard[locals.stage].state = "none"
    <3>1. label \in Unguarded => label \in Held
      BY DEF Unguarded, Held
    <3> QED BY <2>1, <3>1 DEF Sole
  <2>3. \A u \in Tasks : pc'[u] \in Unguarded => guard'[loc'[u].stage].state = "none"
    BY <1>1, <2>1, <2>2 DEF Sole
  <2> QED BY <1>1, <2>1, <2>3 DEF Sole
<1>8. Canceling(pc', loc', guard) <=> Canceling(pc, loc, guard) /\ loc'[Stream] = loc[Stream] /\ Stream # t
  <2>1. Stream \in Tasks
    BY DEF Tasks
  <2>2. CASE Stream = t
    BY <1>1, <2>2 DEF Canceling
  <2>3. CASE Stream # t
    BY <1>1, <2>1, <2>3 DEF Canceling
  <2> QED BY <2>2, <2>3
<1>9. Untouched(rows', pc', loc', guard)
  <2> SUFFICES ASSUME Canceling(pc', loc', guard)
               PROVE  /\ \A i \in DOMAIN rows' : rows'[i].stage <= loc'[Stream].stage
                      /\ \A u \in Tasks : pc'[u] = "account" /\ loc'[u].lots > 0
                                            => loc'[u].stage <= loc'[Stream].stage
    BY DEF Untouched
  <2>1. Canceling(pc, loc, guard) /\ loc'[Stream] = loc[Stream]
    BY <1>8
  <2>2. /\ \A i \in DOMAIN rows : rows[i].stage <= loc[Stream].stage
        /\ \A u \in Tasks : pc[u] = "account" /\ loc[u].lots > 0 => loc[u].stage <= loc[Stream].stage
    BY <1>3, <2>1 DEF Covering, Untouched
  <2> QED BY <1>1, <2>1, <2>2 DEF DeskKept, RowsAlike
<1> HIDE DEF Loose
<1>10. Covering(pos', rows', oco', guard', sold', pc', loc', faults')
  BY <1>1, <1>3, <1>4, <1>5, <1>6, <1>7, <1>9 DEF Covering, Loose
<1> QED BY <1>10, CoverNext

LEMMA DeskMoves ==
  ASSUME CoverInv, QuantityInv, QuantityInv', UNCHANGED exchangeVars, faults' = faults, DeskAlike,
         NEW t \in Tasks, NEW label, NEW locals,
         pc' = [pc EXCEPT ![t] = label], loc' = [loc EXCEPT ![t] = locals],
         pc[t] # "cancel", label # "cancel", Fits(label, locals, pos', rows', Loose),
         label \in Held => pc[t] \in Held /\ locals.stage = loc[t].stage,
         label \in Unguarded => pc[t] \in Unguarded,
         Flagging(pc[t], loc[t]) => Flagging(label, locals) \/ pos'.prot # "protected",
         Canceling(pc, loc, guard) => ~(label = "account" /\ locals.lots > 0)
  PROVE  CoverInv'
<1>1. /\ oco' = oco /\ guard' = guard /\ sold' = sold
      /\ pc'[t] = label /\ loc'[t] = locals
      /\ \A u \in Tasks : u # t => pc'[u] = pc[u] /\ loc'[u] = loc[u]
  BY OneMoves DEF exchangeVars, QuantityInv
<1>2. Canceling(pc', loc', guard) <=> Canceling(pc, loc, guard) /\ loc'[Stream] = loc[Stream] /\ Stream # t
  <2>1. Stream \in Tasks
    BY DEF Tasks
  <2>2. CASE Stream = t
    BY <1>1, <2>2 DEF Canceling
  <2>3. CASE Stream # t
    BY <1>1, <2>1, <2>3 DEF Canceling
  <2> QED BY <2>2, <2>3
<1>3. Covers(pos', pc', loc', guard, FreeIn(oco, guard, sold), faults)
  <2> SUFFICES ASSUME faults = 0, pos'.prot = "protected"
               PROVE  Doubt(pc', loc')
                        \/ (FreeIn(oco, guard, sold) = 0 /\ ~Canceling(pc', loc', guard))
    BY DEF Covers
  <2>1. Doubt(pc, loc) \/ (FreeIn(oco, guard, sold) = 0 /\ ~Canceling(pc, loc, guard))
    BY DEF CoverInv, Covering, Covers, DeskAlike
  <2>2. CASE Doubt(pc, loc)
    <3>1. PICK u \in Tasks : Flagging(pc[u], loc[u])
      BY <2>2 DEF Doubt
    <3>2. Flagging(pc'[u], loc'[u])
      BY <1>1, <3>1
    <3> QED BY <3>2 DEF Doubt
  <2> QED BY <1>2, <2>1, <2>2
<1> QED BY <1>3, DeskShifts DEF DeskAlike

(* The task comes to a point where it relies on nothing of this.            *)
LEMMA NeutralMoves ==
  ASSUME CoverInv, QuantityInv, QuantityInv', UNCHANGED exchangeVars, faults' = faults, DeskAlike,
         NEW t \in Tasks, NEW label, label \notin AtWork \cup {"cancel"}, NEW locals,
         pc' = [pc EXCEPT ![t] = label], loc' = [loc EXCEPT ![t] = locals],
         pc[t] # "cancel", Flagging(pc[t], loc[t]) => pos'.prot # "protected"
  PROVE  CoverInv'
<1>1. Fits(label, locals, pos', rows', Loose)
  BY DEF Fits, AtWork, Held
<1>2. label \notin Held /\ label # "account" /\ label # "cancel" /\ label \notin Unguarded
  BY DEF AtWork, Held, Unguarded
<1> QED BY <1>1, <1>2, DeskMoves

(* The writes of a transaction, as far as the coverage is concerned.        *)
Alike(db) ==
  /\ Sound(db) /\ RowsAlike(db.rows, rows) /\ \A i \in DOMAIN db.rows : RowOK(db.rows[i])
  /\ db.pos.stage = pos.stage /\ db.pos.remaining \in 0..Base /\ db.pos.remaining <= pos.remaining
  /\ db.pos.prot = "protected" => pos.prot = "protected"
Flagged(db) == Alike(db) /\ db.pos.prot = "unprotected"

LEMMA StatusWritten ==
  ASSUME NEW r, Row(r), RowOK(r), NEW v
  PROVE  /\ [r EXCEPT !.status = v].role = r.role /\ [r EXCEPT !.status = v].stage = r.stage
         /\ [r EXCEPT !.status = v].qty = r.qty
         /\ v \in RowStatus => RowOK([r EXCEPT !.status = v])
BY DEF Row, RowFields, RowOK

LEMMA WritesAlike ==
  ASSUME NEW db, Alike(db)
  PROVE  /\ \A value \in RowStatus : /\ \A i : Alike(SetRow(db, i, value)) /\ SetRow(db, i, value).pos = db.pos
                                     /\ \A ids : /\ Alike(SetRows(db, ids, value))
                                                 /\ SetRows(db, ids, value).pos = db.pos
         /\ \A p : p # "protected" => Alike(SetProt(db, p)) /\ SetProt(db, p).pos.prot = p
         /\ Flagged(Failed(db))
<1>1. ASSUME NEW d, Alike(d), NEW p, p # "protected"
      PROVE  Alike(SetProt(d, p)) /\ SetProt(d, p).pos.prot = p
  <2>1. Sound(SetProt(d, p))
    BY <1>1, WritesKeep DEF Alike
  <2>2. /\ SetProt(d, p).rows = d.rows /\ SetProt(d, p).pos.prot = p
        /\ SetProt(d, p).pos.stage = d.pos.stage /\ SetProt(d, p).pos.remaining = d.pos.remaining
    BY <1>1 DEF SetProt, Alike, Sound, Position, PosFields
  <2> QED BY <1>1, <2>1, <2>2 DEF Alike
<1>2. ASSUME NEW d, Alike(d), NEW S, NEW v \in RowStatus
      PROVE  Alike(SetRows(d, S, v)) /\ SetRows(d, S, v).pos = d.pos
  <2> DEFINE new == [j \in DOMAIN d.rows |-> IF j \in S THEN [d.rows[j] EXCEPT !.status = v]
                                             ELSE d.rows[j]]
  <2>1. Sound(SetRows(d, S, v))
    BY <1>2, WritesKeep DEF Alike
  <2>2. SetRows(d, S, v).rows = new /\ SetRows(d, S, v).pos = d.pos
    BY <1>2 DEF SetRows, Alike, Sound
  <2>3. DOMAIN new = DOMAIN d.rows
    OBVIOUS
  <2>4. ASSUME NEW j \in DOMAIN d.rows
        PROVE  /\ new[j].role = d.rows[j].role /\ new[j].stage = d.rows[j].stage
               /\ new[j].qty = d.rows[j].qty /\ RowOK(new[j])
    <3> DEFINE written == [d.rows[j] EXCEPT !.status = v]
    <3>1. new[j] = written \/ new[j] = d.rows[j]
      OBVIOUS
    <3>2. Row(d.rows[j]) /\ RowOK(d.rows[j])
      BY <1>2 DEF Alike, Sound, Grown
    <3>3. /\ written.role = d.rows[j].role /\ written.stage = d.rows[j].stage
          /\ written.qty = d.rows[j].qty /\ RowOK(written)
      BY <3>2, StatusWritten, <1>2
    <3> HIDE DEF new, written
    <3> QED BY <3>1, <3>2, <3>3
  <2> HIDE DEF new
  <2>5. RowsAlike(new, rows)
    BY <1>2, <2>3, <2>4 DEF Alike, RowsAlike
  <2> QED BY <1>2, <2>1, <2>2, <2>3, <2>4, <2>5 DEF Alike
<1>3. ASSUME NEW i, NEW v \in RowStatus
      PROVE  Alike(SetRow(db, i, v)) /\ SetRow(db, i, v).pos = db.pos
  <2> DEFINE new == [db.rows EXCEPT ![i].status = v]
  <2>1. Sound(SetRow(db, i, v))
    BY WritesKeep DEF Alike
  <2>2. SetRow(db, i, v).rows = new /\ SetRow(db, i, v).pos = db.pos
    BY DEF SetRow, Alike, Sound
  <2>3. DOMAIN new = DOMAIN db.rows
    OBVIOUS
  <2>4. ASSUME NEW j \in DOMAIN db.rows
        PROVE  /\ new[j].role = db.rows[j].role /\ new[j].stage = db.rows[j].stage
               /\ new[j].qty = db.rows[j].qty /\ RowOK(new[j])
    <3> DEFINE written == [db.rows[j] EXCEPT !.status = v]
    <3>1. new[j] = written \/ new[j] = db.rows[j]
      OBVIOUS
    <3>2. Row(db.rows[j]) /\ RowOK(db.rows[j])
      BY DEF Alike, Sound, Grown
    <3>3. /\ written.role = db.rows[j].role /\ written.stage = db.rows[j].stage
          /\ written.qty = db.rows[j].qty /\ RowOK(written)
      BY <3>2, StatusWritten
    <3> HIDE DEF new, written
    <3> QED BY <3>1, <3>2, <3>3
  <2> HIDE DEF new
  <2>5. RowsAlike(new, rows)
    BY <2>3, <2>4 DEF Alike, RowsAlike
  <2> QED BY <2>1, <2>2, <2>3, <2>4, <2>5 DEF Alike
<1>4. Flagged(Failed(db))
  <2> DEFINE base == SetProt(db, "unprotected")
             S == {Len(db.rows)} \cap DOMAIN db.rows
  <2>1. Alike(base) /\ base.pos.prot = "unprotected"
    BY <1>1
  <2>2. "protection_failed" \in RowStatus
    BY DEF RowStatus
  <2>3. Failed(db) = SetRows(base, S, "protection_failed")
    BY DEF Failed
  <2> HIDE DEF base, S
  <2> QED BY <1>2, <2>1, <2>2, <2>3 DEF Flagged
<1> QED BY <1>1, <1>2, <1>3, <1>4

LEMMA AlikeNow ==
  ASSUME QuantityInv
  PROVE  Alike(DB) /\ DB.pos = pos /\ DB.rows = rows
<1>1. Sound(DB) /\ TypedDB(DB) /\ DB.rows = rows /\ DB.pos = pos
  BY TypedNow DEF QuantityInv
<1>2. pos.remaining \in 0..Base /\ pos.remaining <= pos.remaining
  BY CoverTypes, ConstantsAre
<1> QED BY <1>1, <1>2 DEF Alike, RowsAlike, TypedDB

(* The outcome of a call that ends, reads on or starts to protect.          *)
Docile(o) ==
  /\ Alike(o.db) /\ Local(o.loc)
  /\ \/ o.pc \notin AtWork \cup {"cancel"}
     \/ /\ o.pc = "market" /\ o.loc.stage \in Stages /\ o.loc.stage = pos.stage
        /\ o.db.pos.remaining <= o.loc.lots

LEMMA DocileBecomes ==
  ASSUME CoverInv, QuantityInv, QuantityInv', UNCHANGED exchangeVars, faults' = faults,
         NEW t \in Tasks, NEW outcomes, Becomes(t, outcomes), pc[t] # "cancel",
         \A o \in outcomes : /\ Docile(o)
                             /\ Flagging(pc[t], loc[t]) => o.db.pos.prot # "protected"
  PROVE  CoverInv'
<1>1. PICK o \in outcomes :
        LET returns == o.pc = "idle" /\ loc[t].all
            kept == [o.loc EXCEPT !.all = loc[t].all, !.owned = loc[t].owned]
        IN  /\ pos' = o.db.pos /\ rows' = o.db.rows
            /\ pc' = [pc EXCEPT ![t] = IF returns THEN "orders" ELSE o.pc]
            /\ loc' = [loc EXCEPT ![t] =
                         IF returns THEN [kept EXCEPT !.seen = o.db.pos, !.row = Len(o.db.rows)]
                         ELSE kept]
  BY DEF Becomes
<1> DEFINE returns == o.pc = "idle" /\ loc[t].all
           kept == [o.loc EXCEPT !.all = loc[t].all, !.owned = loc[t].owned]
           label == IF returns THEN "orders" ELSE o.pc
           locals == IF returns THEN [kept EXCEPT !.seen = o.db.pos, !.row = Len(o.db.rows)] ELSE kept
<1>2. /\ pos' = o.db.pos /\ rows' = o.db.rows
      /\ pc' = [pc EXCEPT ![t] = label] /\ loc' = [loc EXCEPT ![t] = locals]
  BY <1>1
<1>3. Docile(o) /\ (Flagging(pc[t], loc[t]) => pos'.prot # "protected")
  BY <1>2
<1>4. DeskAlike
  BY <1>2, <1>3 DEF Docile, Alike, DeskAlike, DeskKept
<1>5. CASE label \notin AtWork \cup {"cancel"}
  <2> HIDE DEF label, locals
  <2> QED BY <1>2, <1>3, <1>4, <1>5, NeutralMoves
<1>6. CASE label \in AtWork \cup {"cancel"}
  <2>1. ~returns /\ label = o.pc /\ o.pc = "market"
    BY <1>3, <1>6 DEF AtWork, Held, Docile
  <2>2. /\ kept.stage = o.loc.stage /\ kept.lots = o.loc.lots /\ locals = kept
    BY <1>3, <2>1 DEF Docile, Local, LocFields
  <2>3. Fits("market", locals, pos', rows', Loose)
    <3>1. pos'.stage = pos.stage /\ pos.stage \in Nat
      BY <1>4, CoverTypes DEF DeskAlike, DeskKept
    <3> HIDE DEF kept, locals
    <3> QED BY <1>2, <1>3, <2>1, <2>2, <3>1 DEF Fits, Docile, AtWork, Held
  <2>4. pc' = [pc EXCEPT ![t] = "market"]
    BY <1>2, <2>1
  <2>5. loc' = [loc EXCEPT ![t] = locals]
    BY <1>2
  <2>6. /\ "market" \notin Held /\ "market" # "cancel" /\ "market" # "account"
        /\ "market" \notin Unguarded
    BY DEF Held, Unguarded
  <2> HIDE DEF label, locals
  <2> QED BY <1>3, <1>4, <2>3, <2>4, <2>5, <2>6, DeskMoves
<1> QED BY <1>5, <1>6

LEMMA EndsAlike ==
  ASSUME CoverInv, QuantityInv, QuantityInv', UNCHANGED exchangeVars, faults' = faults,
         NEW t \in Tasks, NEW db, Ends(t, db), Alike(db), pc[t] # "cancel",
         Flagging(pc[t], loc[t]) => db.pos.prot # "protected"
  PROVE  CoverInv'
<1> DEFINE o == [db |-> db, pc |-> "idle", loc |-> NoLocals]
<1>1. Docile(o) /\ o.db = db
  BY NewLocals DEF Docile, AtWork, Held
<1>2. Becomes(t, {o})
  BY DEF Ends
<1> HIDE DEF o
<1> QED BY <1>1, <1>2, DocileBecomes

(* establish() up to its first await.                                       *)
LEMMA EstablishingDocile ==
  ASSUME NEW db, Alike(db), QuantityInv, NEW t
  PROVE  \A o \in Establishing(t, db) :
           Docile(o) /\ (o.db = db \/ o.db.pos.prot \in {"unprotected", "protection_pending"})
<1> DEFINE refused == [db |-> db, pc |-> "idle", loc |-> NoLocals]
           invalid == [db |-> SetProt(db, "unprotected"), pc |-> "idle", loc |-> NoLocals]
           locals == [NoLocals EXCEPT !.stage = db.pos.stage, !.stop = db.pos.stop,
                                      !.lots = db.pos.remaining]
           pending == SetProt(db, "protection_pending")
           goesOn == [db |-> pending, pc |-> "market", loc |-> locals]
<1>1. \A o \in Establishing(t, db) : o = refused \/ o = invalid \/ (o = goesOn /\ Protectable(db))
  BY DEF Establishing
<1>2. /\ Alike(pending) /\ pending.pos.prot = "protection_pending"
      /\ Alike(SetProt(db, "unprotected")) /\ SetProt(db, "unprotected").pos.prot = "unprotected"
  BY WritesAlike
<1>3. pending.pos.remaining = db.pos.remaining
  BY DEF SetProt, Alike, Sound, Position, PosFields
<1>4. Local(NoLocals) /\ Local(locals) /\ locals.stage = db.pos.stage /\ locals.lots = db.pos.remaining
  BY NewLocals DEF NoLocals
<1>5. Protectable(db) => locals.stage \in Stages
  <2>1. db.pos.stage \in Nat
    BY DEF Alike, Sound, Position
  <2> HIDE DEF locals
  <2> QED BY <1>4, <2>1, ConstantsAre DEF Protectable
<1>6. Docile(refused) /\ Docile(invalid)
  BY <1>2, <1>4 DEF Docile, AtWork, Held
<1>7. Protectable(db) => Docile(goesOn)
  <2>1. db.pos.stage = pos.stage /\ db.pos.remaining \in Int
    BY ConstantsAre DEF Alike
  <2> HIDE DEF pending, locals
  <2> QED BY <1>2, <1>3, <1>4, <1>5, <2>1 DEF Docile
<1> HIDE DEF pending, locals
<1> QED BY <1>1, <1>2, <1>6, <1>7

-----------------------------------------------------------------------------
(* Whoever goes on with the locals it has.                                  *)
LEMMA GoesOnIs ==
  ASSUME PlacedInv, NEW t \in Tasks, NEW label, label # "idle", NEW locals, Local(locals),
         locals.all = loc[t].all, locals.owned = loc[t].owned, GoesOn(t, DB, label, locals)
  PROVE  /\ pos' = pos /\ rows' = rows
         /\ pc' = [pc EXCEPT ![t] = label] /\ loc' = [loc EXCEPT ![t] = locals]
<1> DEFINE o == [db |-> DB, pc |-> label, loc |-> locals]
           kept == [locals EXCEPT !.all = loc[t].all, !.owned = loc[t].owned]
<1>1. kept = locals
  BY DEF Local, LocFields
<1>2. Becomes(t, {o}) /\ o.db = DB /\ o.pc = label /\ o.loc = locals
  BY DEF GoesOn
<1> HIDE DEF o
<1>3. /\ pos' = DB.pos /\ rows' = DB.rows
      /\ pc' = [pc EXCEPT ![t] = label] /\ loc' = [loc EXCEPT ![t] = kept]
  BY <1>2 DEF Becomes
<1> QED BY <1>1, <1>3 DEF DB

(* What the invariant says of one task, and of a guard that is about to be  *)
(* canceled: it took all there was.                                         *)
LEMMA FitsNow ==
  ASSUME CoverInv, NEW t \in Tasks
  PROVE  Fits(pc[t], loc[t], pos, rows, Loose)
BY DEF CoverInv, Covering, Loose

LEMMA CancelingStops ==
  ASSUME CoverInv, QuantityInv, Canceling(pc, loc, guard)
  PROVE  LET k == loc[Stream].stage
         IN  /\ k \in Stages /\ k + 1 = pos.stage /\ HasRow(rows, "guard_stop", k)
             /\ guard[k].qty > 0 /\ Loose[k] <= 0 /\ Free = 0
<1> DEFINE k == loc[Stream].stage
<1>1. Stream \in Tasks /\ pc[Stream] = "cancel" /\ guard[k].state = "live"
  BY DEF Canceling, Tasks
<1>2. k \in Stages
  BY <1>1 DEF QuantityInv, DeskInv, Carries
<1>3. k + 1 = pos.stage /\ HasRow(rows, "guard_stop", k)
  BY <1>1, FitsNow DEF Fits
<1>4. GuardsKnown(rows, guard, Loose)
  BY DEF CoverInv, Covering, Loose
<1>5. guard[k].qty > 0 /\ Loose[k] <= 0
  BY <1>1, <1>2, <1>3, <1>4 DEF GuardsKnown
<1>6. Free \in 0..Base /\ Loose[k] \in Int /\ Free <= Loose[k]
  BY <1>2, CoverTypes
<1>7. Free = 0
  BY <1>5, <1>6, ConstantsAre
<1> QED BY <1>2, <1>3, <1>5, <1>7

(* A stage behind the position has its bracket; one ahead has no orders.    *)
LEMMA StagesBehind ==
  ASSUME CoverInv, QuantityInv, NEW k \in Stages
  PROVE  /\ k < pos.stage => HasRow(rows, "bracket", k) /\ oco[k].filled = "tp"
         /\ oco[k].state = "live" => k = pos.stage
         /\ k >= pos.stage => Loose[k] = Free
<1>1. /\ StagesKnown(pos, rows, oco, guard) /\ k \in Int /\ pos.stage \in Int
      /\ Quantified(oco, guard) /\ sold \in Int /\ Free = FreeIn(oco, guard, sold)
  BY CoverTypes, ConstantsAre DEF CoverInv, Covering
<1>2. k < pos.stage => HasRow(rows, "bracket", k) /\ oco[k].filled = "tp"
  <2> SUFFICES ASSUME k < pos.stage PROVE HasRow(rows, "bracket", k) /\ oco[k].filled = "tp"
    OBVIOUS
  <2>1. oco[k].filled = "tp"
    BY <1>1 DEF StagesKnown
  <2>2. oco[k].placed = 1
    BY <2>1 DEF QuantityInv, ExchangeInv, OrderOK, PlacedInv, ShapeInv, Order
  <2> QED BY <2>1, <2>2 DEF QuantityInv, PlacedInv, PlacedHasRow, IsBracket, HasRow
<1>3. oco[k].state = "live" => k = pos.stage
  <2> SUFFICES ASSUME oco[k].state = "live" PROVE k = pos.stage
    OBVIOUS
  <2>1. k <= pos.stage
    BY <1>1 DEF StagesKnown
  <2>2. oco[k].filled # "tp"
    BY DEF QuantityInv, ExchangeInv, OrderOK
  <2> QED BY <1>1, <1>2, <2>1, <2>2
<1>4. k >= pos.stage => Loose[k] = Free
  <2> SUFFICES ASSUME k >= pos.stage PROVE Loose[k] = Free
    OBVIOUS
  <2>1. ASSUME NEW j \in Stages, j > k PROVE LotsIn(oco[j]) + LotsIn(guard[j]) = 0
    <3>1. j \in Int /\ ~(j <= pos.stage)
      BY <1>1, <2>1, ConstantsAre
    <3>2. oco[j].state = "none" /\ guard[j].state = "none"
      BY <1>1, <3>1 DEF StagesKnown
    <3> QED BY <3>2 DEF LotsIn
  <2> QED BY <1>1, <2>1, LooseIs DEF Loose
<1> QED BY <1>2, <1>3, <1>4

(* The balance that is read is what is loose at the stage of the position;  *)
(* a task of an earlier stage finds its key taken.                          *)
LEMMA ReadCovers ==
  ASSUME CoverInv, QuantityInv, QuantityInv', Books, NEW t \in Tasks, ReadBalance(t)
  PROVE  CoverInv'
<1> DEFINE locals == [loc[t] EXCEPT !.lots = IF Free < @ THEN Free ELSE @]
           k == loc[t].stage
<1>1. Local(loc[t]) /\ LocalOK(loc[t]) /\ pc[t] = "market"
  BY CoverTypes DEF ReadBalance
<1>2. /\ Local(locals) /\ locals.stage = k /\ locals.all = loc[t].all /\ locals.owned = loc[t].owned
      /\ locals.lots = IF Free < loc[t].lots THEN Free ELSE loc[t].lots
  BY <1>1 DEF Local, LocFields
<1>3. GoesOn(t, DB, "account", locals) /\ UNCHANGED exchangeVars /\ faults' = faults
  BY DEF ReadBalance, countVars
<1>4. /\ pos' = pos /\ rows' = rows
      /\ pc' = [pc EXCEPT ![t] = "account"] /\ loc' = [loc EXCEPT ![t] = locals]
  <2> HIDE DEF locals
  <2> QED BY <1>2, <1>3, GoesOnIs DEF QuantityInv
<1>5. Fits("market", loc[t], pos, rows, Loose)
  BY <1>1, FitsNow
<1>6. k \in Stages /\ k <= pos.stage /\ pos.remaining <= loc[t].lots
  BY <1>5 DEF Fits, AtWork
<1>7. locals.lots = Free
  <2>1. /\ pos.remaining \in 0..Base /\ Free \in 0..Base /\ loc[t].lots \in 0..Base /\ sold \in Int
        /\ Free = Base - sold - Locked /\ Locked \in Nat
    BY <1>1, CoverTypes, FreeIs DEF LocalOK, QuantityInv, Free
  <2>2. Base - pos.remaining + Along(FillLots, wire) <= sold /\ Along(FillLots, wire) \in Nat
    BY WiresAre DEF Books
  <2>3. Free <= pos.remaining
    BY <2>1, <2>2, ConstantsAre
  <2>4. Free \in Int /\ pos.remaining \in Int /\ loc[t].lots \in Int
    BY <2>1, ConstantsAre
  <2>5. ~(Free < loc[t].lots) => loc[t].lots = Free
    <3> HIDE DEF k
    <3>1. pos.remaining <= loc[t].lots
      BY <1>6
    <3> QED BY <2>3, <2>4, <3>1
  <2> HIDE DEF locals
  <2> QED BY <1>2, <2>5
<1>8. HasRow(rows, "bracket", k) \/ Loose[k] <= locals.lots
  <2>1. pos.stage \in Int /\ k \in Int /\ Free \in Int
    BY <1>6, CoverTypes, ConstantsAre
  <2>2. k < pos.stage \/ k >= pos.stage
    BY <2>1
  <2> HIDE DEF k, locals
  <2> QED BY <1>6, <1>7, <2>1, <2>2, StagesBehind
<1>9. Fits("account", locals, pos', rows', Loose)
  <2> HIDE DEF locals
  <2> QED BY <1>2, <1>4, <1>6, <1>8 DEF Fits, AtWork, Held
<1>10. Canceling(pc, loc, guard) => ~(locals.lots > 0)
  <2> HIDE DEF locals
  <2> QED BY <1>7, CancelingStops
<1>11. DeskAlike
  BY <1>4, CoverTypes, ConstantsAre DEF DeskAlike, DeskKept, RowsAlike
<1>12. /\ "account" \notin Held /\ "account" # "cancel" /\ pc[t] # "cancel"
       /\ "account" \notin Unguarded /\ ~Flagging(pc[t], loc[t])
  BY <1>1 DEF Held, Unguarded, Flagging
<1> HIDE DEF locals, k
<1> QED BY <1>3, <1>4, <1>9, <1>10, <1>11, <1>12, DeskMoves

(* Nothing of it changes.                                                   *)
LEMMA RestCovers ==
  ASSUME CoverInv, UNCHANGED <<pos, rows, pc, loc, oco, guard, sold, faults>>
  PROVE  CoverInv'
<1>1. Covering(pos', rows', oco', guard', sold', pc', loc', faults')
  BY DEF CoverInv
<1> QED BY <1>1, CoverNext

(* The row of an order list that was taken is given its list id.            *)
LEMMA ListedAlike ==
  ASSUME QuantityInv, NEW t \in Tasks
  PROVE  Alike([DB EXCEPT !.rows[loc[t].row].listed = TRUE])
<1> DEFINE new == [rows EXCEPT ![loc[t].row].listed = TRUE]
           db == [DB EXCEPT !.rows[loc[t].row].listed = TRUE]
<1>1. Alike(DB) /\ DB.pos = pos /\ DB.rows = rows
  BY AlikeNow
<1>2. db = [pos |-> pos, rows |-> new]
  BY DEF DB
<1>3. Table(new) /\ DOMAIN new = DOMAIN rows
  BY DEF QuantityInv, PlacedInv, ShapeInv, Table
<1>4. ASSUME NEW j \in DOMAIN rows
      PROVE  /\ Row(new[j]) /\ RowOK(new[j]) /\ new[j].role = rows[j].role
             /\ new[j].stage = rows[j].stage /\ new[j].qty = rows[j].qty
  <2> DEFINE marked == [rows[j] EXCEPT !.listed = TRUE]
  <2>1. Row(rows[j]) /\ RowOK(rows[j])
    BY DEF QuantityInv, PlacedInv, ShapeInv, DeskInv
  <2>2. /\ Row(marked) /\ RowOK(marked) /\ marked.role = rows[j].role
        /\ marked.stage = rows[j].stage /\ marked.qty = rows[j].qty
    BY <2>1 DEF Row, RowFields, RowOK
  <2>3. new[j] = marked \/ new[j] = rows[j]
    OBVIOUS
  <2> HIDE DEF new, marked
  <2> QED BY <2>2, <2>3, <2>1
<1> HIDE DEF new
<1>5. Grown(new) /\ RowsAlike(new, rows)
  BY <1>3, <1>4 DEF Grown, RowsAlike
<1> HIDE DEF db
<1>6. db.pos = pos /\ db.rows = new /\ Sound(db)
  BY <1>1, <1>2, <1>5 DEF Alike, Sound
<1>7. Alike(db)
  BY <1>1, <1>3, <1>4, <1>5, <1>6 DEF Alike
<1> QED BY <1>7 DEF db

LEMMA FlaggedWrites ==
  ASSUME NEW db, Alike(db), NEW i
  PROVE  Flagged(SetRow(SetProt(db, "unprotected"), i, "protection_failed"))
<1> DEFINE flagged == SetProt(db, "unprotected")
<1>1. Alike(flagged) /\ flagged.pos.prot = "unprotected"
  BY WritesAlike
<1>2. "protection_failed" \in RowStatus
  BY DEF RowStatus
<1> HIDE DEF flagged
<1>3. /\ Alike(SetRow(flagged, i, "protection_failed"))
      /\ SetRow(flagged, i, "protection_failed").pos = flagged.pos
  BY <1>1, <1>2, WritesAlike
<1> QED BY <1>1, <1>3 DEF flagged, Flagged

(* establish() that fails, is not acknowledged or is unwound.               *)
LEMMA FailuresCover ==
  ASSUME CoverInv, QuantityInv, QuantityInv', NEW t \in Tasks,
         \/ EstablishFails(t) \/ EstablishUnwinds(t)
         \/ EstablishAcks(t) /\ loc[t].answer # "executing"
  PROVE  CoverInv'
<1>1. \A db : Ends(t, db) /\ Flagged(db) /\ UNCHANGED <<exchangeVars, faults>> /\ pc[t] # "cancel"
                => CoverInv'
  BY EndsAlike DEF Flagged
<1>2. UNCHANGED <<exchangeVars, faults>> /\ pc[t] # "cancel"
  BY DEF EstablishFails, EstablishUnwinds, EstablishAcks, countVars
<1>3. Alike(DB) /\ Flagged(Failed(DB))
  BY AlikeNow, WritesAlike
<1>4. CASE EstablishFails(t)
  BY <1>1, <1>2, <1>3, <1>4 DEF EstablishFails
<1>5. CASE EstablishUnwinds(t)
  <2>1. Ends(t, SetRow(SetProt(DB, "unprotected"), loc[t].row, "protection_failed"))
    BY <1>5 DEF EstablishUnwinds
  <2> QED BY <1>1, <1>2, <1>3, <2>1, FlaggedWrites
<1>6. CASE EstablishAcks(t) /\ loc[t].answer # "executing"
  <2> DEFINE listed == [DB EXCEPT !.rows[loc[t].row].listed = TRUE]
  <2>1. \/ Ends(t, SetRow(SetProt(listed, "unprotected"), loc[t].row, "protection_failed"))
        \/ Ends(t, Failed(DB))
    BY <1>6 DEF EstablishAcks
  <2>2. Alike(listed)
    BY ListedAlike
  <2> HIDE DEF listed
  <2> QED BY <1>1, <1>2, <1>3, <2>1, <2>2, FlaggedWrites
<1> QED BY <1>4, <1>5, <1>6

(* A guard that fails leads to the bracket being canceled.                  *)
LEMMA GuardFailsCovers ==
  ASSUME CoverInv, QuantityInv, QuantityInv', NEW t \in Tasks,
         GuardAcks(t), loc[t].answer = "error"
  PROVE  CoverInv'
<1>1. pc[t] = "guarded" /\ UNCHANGED exchangeVars /\ faults' = faults
  BY DEF GuardAcks, countVars
<1>2. GoesOn(t, DB, "unwind", loc[t])
  BY DEF GuardAcks
<1>3. /\ pos' = pos /\ rows' = rows
      /\ pc' = [pc EXCEPT ![t] = "unwind"] /\ loc' = [loc EXCEPT ![t] = loc[t]]
  BY <1>2, GoesOnIs, CoverTypes DEF QuantityInv
<1>4. Fits("unwind", loc[t], pos', rows', Loose)
  <2>1. Fits("guarded", loc[t], pos, rows, Loose)
    BY <1>1, FitsNow
  <2> QED BY <1>3, <2>1 DEF Fits, AtWork, Held
<1>5. DeskAlike
  BY <1>3, CoverTypes, ConstantsAre DEF DeskAlike, DeskKept, RowsAlike
<1>6. /\ Flagging("unwind", loc[t]) /\ "unwind" # "cancel" /\ "unwind" # "account"
      /\ "unwind" \notin Unguarded /\ pc[t] \in Held
  BY <1>1 DEF Flagging, Held, Unguarded
<1> QED BY <1>1, <1>3, <1>4, <1>5, <1>6, DeskMoves

(* A call to establish(), and the answers reconcile() and reconcile_all()   *)
(* wait for, write nothing that reports a protected position.               *)
LEMMA ReconcilingDocile ==
  ASSUME QuantityInv
  PROVE  \A o \in Reconciling(DB) : Docile(o) /\ o.db = DB
<1>1. \A o \in Reconciling(DB) : TypedOutcome(o) /\ o.db = DB /\ o.pc = "list"
  BY ReconcilingTyped DEF QuantityInv, Reconciling
<1>2. "list" \notin AtWork \cup {"cancel"} /\ Alike(DB)
  BY AlikeNow DEF AtWork, Held
<1> QED BY <1>1, <1>2 DEF Docile, TypedOutcome, Outcome

LEMMA CallsCover ==
  ASSUME CoverInv, QuantityInv, QuantityInv', UNCHANGED exchangeVars, faults' = faults,
         NEW t \in Tasks, pc[t] # "cancel", ~Flagging(pc[t], loc[t]), NEW db, Alike(db),
         Ends(t, db) \/ Becomes(t, Establishing(t, db)) \/ Becomes(t, Reconciling(DB))
  PROVE  CoverInv'
<1>1. CASE Ends(t, db)
  BY <1>1, EndsAlike
<1>2. CASE Becomes(t, Establishing(t, db))
  BY <1>2, EstablishingDocile, DocileBecomes
<1>3. CASE Becomes(t, Reconciling(DB))
  BY <1>3, ReconcilingDocile, DocileBecomes
<1> QED BY <1>1, <1>2, <1>3

LEMMA AnswersCover ==
  ASSUME CoverInv, QuantityInv, QuantityInv', NEW t \in Tasks,
         \/ AdvanceGoesOn(t) \/ ListAnswers(t) \/ ReconcileFails(t)
         \/ BalancesRead(t) \/ ReconcilesActive(t) \/ ReconcileAllEnds(t)
         \/ EstablishRequest(t) \/ ReconcileRequest(t) \/ BalancesRequest(t)
         \/ t = Stream /\ StreamEstablishes
  PROVE  CoverInv'
<1>1. UNCHANGED exchangeVars /\ faults' = faults
  BY DEF AdvanceGoesOn, ListAnswers, ReconcileFails, BalancesRead, ReconcilesActive,
         ReconcileAllEnds, EstablishRequest, ReconcileRequest, BalancesRequest, StreamEstablishes, countVars
<1>2. pc[t] \in {"idle", "start", "canceled", "list", "details", "balances", "balanced", "orders"}
  BY DEF AdvanceGoesOn, ListAnswers, ReconcileFails, BalancesRead, ReconcilesActive,
         ReconcileAllEnds, EstablishRequest, ReconcileRequest, BalancesRequest, StreamEstablishes
<1>3. pc[t] # "cancel" /\ ~Flagging(pc[t], loc[t])
  BY <1>2 DEF Flagging
<1>4. ASSUME NEW db, Alike(db),
             Ends(t, db) \/ Becomes(t, Establishing(t, db)) \/ Becomes(t, Reconciling(DB))
      PROVE  CoverInv'
  BY <1>1, <1>3, <1>4, CallsCover
<1>5. Alike(DB)
  BY AlikeNow
<1>6. ASSUME pos' = pos, rows' = rows, NEW label, label \notin AtWork \cup {"cancel"}, NEW locals,
             pc' = [pc EXCEPT ![t] = label], loc' = [loc EXCEPT ![t] = locals]
      PROVE  CoverInv'
  <2>1. DeskAlike
    BY <1>6, CoverTypes, ConstantsAre DEF DeskAlike, DeskKept, RowsAlike
  <2> QED BY <1>1, <1>3, <1>6, <2>1, NeutralMoves
<1>7. \A label \in {"idle", "balances", "balanced", "details"} : label \notin AtWork \cup {"cancel"}
  BY DEF AtWork, Held
<1>8. CASE AdvanceGoesOn(t)
  <2> DEFINE db == IF loc[t].answer = "ok" THEN SetRow(DB, loc[t].row, "closed") ELSE DB
  <2>1. Alike(db)
    <3>1. "closed" \in RowStatus
      BY DEF RowStatus
    <3> QED BY <1>5, <3>1, WritesAlike
  <2>2. Becomes(t, Establishing(t, db)) \/ Ends(t, db)
    BY <1>8 DEF AdvanceGoesOn
  <2> HIDE DEF db
  <2> QED BY <1>4, <2>1, <2>2
<1>9. CASE ListAnswers(t)
  <2> DEFINE locals == [loc[t] EXCEPT !.answer = oco[loc[t].stage].filled]
  <2>1. GoesOn(t, DB, "details", locals) \/ Ends(t, DB)
    BY <1>9 DEF ListAnswers
  <2>2. Local(loc[t]) /\ Local(locals) /\ locals.all = loc[t].all /\ locals.owned = loc[t].owned
    <3>1. Local(loc[t])
      BY CoverTypes
    <3> QED BY <3>1 DEF Local, LocFields
  <2> HIDE DEF locals
  <2>3. CASE GoesOn(t, DB, "details", locals)
    <3>1. /\ pos' = pos /\ rows' = rows
          /\ pc' = [pc EXCEPT ![t] = "details"] /\ loc' = [loc EXCEPT ![t] = locals]
      BY <2>2, <2>3, GoesOnIs DEF QuantityInv
    <3> QED BY <1>6, <1>7, <3>1
  <2> QED BY <1>4, <1>5, <2>1, <2>3
<1>10. CASE ReconcileFails(t)
  BY <1>4, <1>5, <1>10 DEF ReconcileFails
<1>11. CASE BalancesRead(t)
  <2>1. loc' = [loc EXCEPT ![t] = [loc[t] EXCEPT !.owned = Base - sold]]
    BY <1>11 DEF BalancesRead
  <2> QED BY <1>6, <1>7, <1>11, <2>1 DEF BalancesRead
<1>12. CASE ReconcilesActive(t)
  BY <1>4, <1>5, <1>12 DEF ReconcilesActive
<1>13. CASE ReconcileAllEnds(t)
  BY <1>6, <1>7, <1>13 DEF ReconcileAllEnds
<1>14. CASE EstablishRequest(t)
  BY <1>4, <1>5, <1>14 DEF EstablishRequest
<1>15. CASE ReconcileRequest(t)
  BY <1>4, <1>5, <1>15 DEF ReconcileRequest
<1>16. CASE BalancesRequest(t)
  <2>1. loc' = [loc EXCEPT ![t] = [loc[t] EXCEPT !.all = TRUE]]
    BY <1>16 DEF BalancesRequest
  <2> QED BY <1>6, <1>7, <1>16, <2>1 DEF BalancesRequest
<1>17. CASE t = Stream /\ StreamEstablishes
  BY <1>4, <1>5, <1>17 DEF StreamEstablishes
<1> QED BY <1>8, <1>9, <1>10, <1>11, <1>12, <1>13, <1>14, <1>15, <1>16, <1>17

(* The stream flags the position, or passes over the event.                 *)
LEMMA StreamCovers ==
  ASSUME CoverInv, QuantityInv, QuantityInv', StreamIgnores \/ StreamFlags \/ StreamListDone
  PROVE  CoverInv'
<1>1. /\ UNCHANGED exchangeVars /\ faults' = faults /\ Stream \in Tasks
      /\ pc[Stream] = "idle"
  BY DEF StreamIgnores, StreamFlags, StreamListDone, Consume, StreamReady, countVars, Tasks
<1>2. pc[Stream] # "cancel" /\ ~Flagging(pc[Stream], loc[Stream])
  BY <1>1 DEF Flagging
<1>3. ASSUME NEW db, Alike(db), Ends(Stream, db) PROVE CoverInv'
  BY <1>1, <1>2, <1>3, CallsCover
<1>4. Alike(DB) /\ "closed" \in RowStatus
  BY AlikeNow DEF RowStatus
<1>5. \A i : Alike(SetRow(SetProt(DB, "unprotected"), i, "protection_failed"))
  BY <1>4, FlaggedWrites DEF Flagged
<1>6. CASE StreamIgnores
  BY <1>1, <1>6, RestCovers DEF StreamIgnores, taskVars, exchangeVars
<1>7. CASE StreamFlags
  <2>1. PICK i : \/ Ends(Stream, SetRow(SetProt(DB, "unprotected"), i, "protection_failed"))
                 \/ Ends(Stream, DB)
    BY <1>7 DEF StreamFlags
  <2> QED BY <1>3, <1>4, <1>5, <2>1
<1>8. CASE StreamListDone
  <2>1. PICK i : \/ Ends(Stream, SetRow(SetProt(DB, "unprotected"), i, "protection_failed"))
                 \/ Ends(Stream, SetRow(DB, i, "closed"))
    BY <1>8 DEF StreamListDone
  <2>2. Alike(SetRow(DB, i, "closed"))
    BY <1>4, WritesAlike
  <2> QED BY <1>3, <1>5, <2>1, <2>2
<1> QED BY <1>6, <1>7, <1>8

-----------------------------------------------------------------------------
(* A target has filled and the position moves on.                           *)
LEMMA EstablishingWrites ==
  ASSUME NEW db, Sound(db), NEW t
  PROVE  \A o \in Establishing(t, db) :
           /\ o.db.rows = db.rows /\ o.db.pos.stage = db.pos.stage
           /\ o.db.pos.remaining = db.pos.remaining /\ Local(o.loc)
           /\ o.db.pos.prot = "protected" => db.pos.prot = "protected"
           /\ \/ o.pc = "idle"
              \/ /\ o.pc = "market" /\ db.pos.stage \in Stages
                 /\ o.loc.stage = db.pos.stage /\ o.loc.lots = db.pos.remaining
<1> DEFINE refused == [db |-> db, pc |-> "idle", loc |-> NoLocals]
           invalid == [db |-> SetProt(db, "unprotected"), pc |-> "idle", loc |-> NoLocals]
           locals == [NoLocals EXCEPT !.stage = db.pos.stage, !.stop = db.pos.stop,
                                      !.lots = db.pos.remaining]
           goesOn == [db |-> SetProt(db, "protection_pending"), pc |-> "market", loc |-> locals]
<1>1. \A o \in Establishing(t, db) : o = refused \/ o = invalid \/ (o = goesOn /\ Protectable(db))
  BY DEF Establishing
<1>2. \A p : /\ SetProt(db, p).rows = db.rows /\ SetProt(db, p).pos.prot = p
             /\ SetProt(db, p).pos.stage = db.pos.stage
             /\ SetProt(db, p).pos.remaining = db.pos.remaining
  BY DEF SetProt, Sound, Position, PosFields
<1>3. Local(NoLocals) /\ Local(locals) /\ locals.stage = db.pos.stage /\ locals.lots = db.pos.remaining
  BY NewLocals DEF NoLocals
<1>4. Protectable(db) => db.pos.stage \in Stages
  <2>1. db.pos.stage \in Nat
    BY DEF Sound, Position
  <2> QED BY <2>1, ConstantsAre DEF Protectable
<1> HIDE DEF locals
<1> QED BY <1>1, <1>2, <1>3, <1>4

LEMMA AdvancedWrites ==
  ASSUME NEW db, Alike(db)
  PROVE  /\ Sound(Advanced(db)) /\ RowsAlike(Advanced(db).rows, rows)
         /\ Advanced(db).pos.stage = pos.stage + 1
         /\ Advanced(db).pos.remaining = db.pos.remaining
         /\ Advanced(db).pos.prot = db.pos.prot
<1> DEFINE next == Advanced(db)
           closed == SetRows(db, RowOf(db, "bracket", db.pos.stage), "closed")
           moved == [db.pos EXCEPT !.stage = db.pos.stage + 1,
                                   !.stop = IF db.pos.stage = 0 THEN "breakeven" ELSE @]
<1>1. Alike(closed) /\ closed.pos = db.pos
  <2>1. "closed" \in RowStatus
    BY DEF RowStatus
  <2> QED BY <2>1, WritesAlike
<1>2. next = [closed EXCEPT !.pos.stage = db.pos.stage + 1,
                            !.pos.stop = IF db.pos.stage = 0 THEN "breakeven" ELSE @]
  BY DEF Advanced
<1> HIDE DEF closed, next
<1>3. next = [pos |-> moved, rows |-> closed.rows]
  BY <1>1, <1>2 DEF Sound, Alike
<1>4. /\ Position(moved) /\ moved.remaining = db.pos.remaining /\ moved.prot = db.pos.prot
      /\ moved.stage = pos.stage + 1
  <2>1. Position(db.pos) /\ db.pos.stage = pos.stage /\ db.pos.stage + 1 \in Nat
    BY DEF Alike, Sound, Position
  <2> QED BY <2>1 DEF Position, PosFields
<1> HIDE DEF moved
<1>5. next.pos = moved /\ next.rows = closed.rows
  BY <1>3
<1>6. Sound(next) /\ RowsAlike(next.rows, rows)
  BY <1>1, <1>3, <1>4, <1>5 DEF Alike, Sound
<1> QED BY <1>4, <1>5, <1>6 DEF next

LEMMA AdvancingWrites ==
  ASSUME NEW db, Alike(db), NEW t, QuantityInv
  PROVE  \A o \in Advancing(t, db) :
           /\ RowsAlike(o.db.rows, rows) /\ o.db.pos.stage = pos.stage + 1
           /\ o.db.pos.remaining = db.pos.remaining /\ Local(o.loc)
           /\ o.db.pos.prot = "protected" => db.pos.prot = "protected"
           /\ \/ o.pc = "idle"
              \/ /\ o.pc = "market" /\ o.loc.stage \in Stages
                 /\ o.loc.stage = pos.stage + 1 /\ o.loc.lots = db.pos.remaining
              \/ /\ o.pc = "cancel" /\ o.loc.stage = pos.stage
                 /\ HasRow(rows, "guard_stop", pos.stage)
<1> DEFINE next == Advanced(db)
           guards == LiveGuard(db, db.pos.stage)
           lots == IF db.pos.status = "closed" THEN 0 ELSE db.pos.remaining
           row == CHOOSE i \in guards : TRUE
           locals == [NoLocals EXCEPT !.stage = db.pos.stage, !.row = row, !.lots = lots]
           cancels == [db |-> next, pc |-> "cancel", loc |-> locals]
           done == [db |-> next, pc |-> "idle", loc |-> NoLocals]
<1>1. \A o \in Advancing(t, db) :
        (o = cancels /\ guards # {}) \/ o = done \/ o \in Establishing(t, next)
  BY DEF Advancing
<1>2. /\ Sound(next) /\ RowsAlike(next.rows, rows) /\ next.pos.stage = pos.stage + 1
      /\ next.pos.remaining = db.pos.remaining /\ next.pos.prot = db.pos.prot
      /\ db.pos.stage = pos.stage
  BY AdvancedWrites DEF Alike
<1>3. guards # {} => HasRow(rows, "guard_stop", pos.stage)
  BY <1>2 DEF LiveGuard, RowOf, HasRow, Alike, RowsAlike
<1>4. Local(NoLocals) /\ Local(locals) /\ locals.stage = pos.stage
  <2>1. NoLocals.stage = 0
    BY DEF NoLocals
  <2> HIDE DEF row, lots
  <2> QED BY <1>2, NewLocals DEF NoLocals
<1> HIDE DEF next, guards, locals
<1>5. \A o \in Establishing(t, next) :
           /\ o.db.rows = next.rows /\ o.db.pos.stage = next.pos.stage
           /\ o.db.pos.remaining = next.pos.remaining /\ Local(o.loc)
           /\ o.db.pos.prot = "protected" => next.pos.prot = "protected"
           /\ \/ o.pc = "idle"
              \/ /\ o.pc = "market" /\ next.pos.stage \in Stages
                 /\ o.loc.stage = next.pos.stage /\ o.loc.lots = next.pos.remaining
  BY <1>2, EstablishingWrites
<1> QED BY <1>1, <1>2, <1>3, <1>4, <1>5

(* The hits there were are those of the stages up to the one that fills.    *)
LEMMA StagesHit ==
  ASSUME CoverInv, QuantityInv, StageBooks, Along(TargetHits, wire) >= 1
  PROVE  \A k \in Stages : k <= pos.stage => oco[k].filled = "tp"
<1> DEFINE hits == HitsIn(oco)
           passed == 0..pos.stage
<1>1. /\ pos.stage \in Nat /\ Along(TargetHits, wire) \in Nat
      /\ IsFiniteSet(hits) /\ Cardinality(hits) \in Nat
  BY WiresAre, HitsAre
<1>2. hits \subseteq passed
  <2> SUFFICES ASSUME NEW k \in Stages, oco[k].filled = "tp" PROVE k \in passed
    BY DEF HitsIn
  <2>1. oco[k].placed = 1
    BY DEF QuantityInv, ExchangeInv, OrderOK, PlacedInv, ShapeInv, Order
  <2>2. PICK i \in DOMAIN rows : rows[i].stage = k
    BY <2>1 DEF QuantityInv, PlacedInv, PlacedHasRow, IsBracket
  <2>3. k <= pos.stage
    BY <2>2 DEF CoverInv, Covering, StagesKnown
  <2> QED BY <1>1, <2>3, ConstantsAre
<1>3. IsFiniteSet(passed) /\ Cardinality(passed) = pos.stage + 1
  <2>1. /\ 0 \in Int /\ pos.stage \in Int
        /\ (IF 0 > pos.stage THEN 0 ELSE pos.stage - 0 + 1) = pos.stage + 1
    BY <1>1
  <2>2. IsFiniteSet(0..pos.stage)
    BY <2>1, FS_Interval
  <2>3. Cardinality(0..pos.stage) = IF 0 > pos.stage THEN 0 ELSE pos.stage - 0 + 1
    BY <2>1, FS_Interval
  <2> QED BY <2>1, <2>2, <2>3
<1>4. Cardinality(hits) >= Cardinality(passed)
  BY <1>1, <1>3 DEF StageBooks
<1>5. hits = passed
  <2> HIDE DEF hits, passed
  <2>1. Cardinality(hits) <= Cardinality(passed) /\ (Cardinality(hits) = Cardinality(passed) => hits = passed)
    BY <1>2, <1>3, FS_Subset
  <2>2. Cardinality(passed) \in Nat
    BY <1>3, FS_CardinalityType
  <2> QED BY <1>1, <1>4, <2>1, <2>2
<1>6. \A k \in Stages : k <= pos.stage => k \in passed
  BY <1>1, ConstantsAre
<1> QED BY <1>5, <1>6 DEF HitsIn

(* The next stage is begun: the stream cancels the guard of the stage that  *)
(* was hit, or starts to protect the position again.                        *)
LEMMA NextStageCovers ==
  ASSUME CoverInv, QuantityInv, QuantityInv', UNCHANGED exchangeVars, faults' = faults,
         RowsAlike(rows', rows), pos'.stage = pos.stage + 1, pos'.remaining <= pos.remaining,
         pos'.prot # "protected", pc[Stream] = "idle",
         \A k \in Stages : k <= pos.stage => oco[k].filled = "tp",
         NEW label, NEW locals,
         pc' = [pc EXCEPT ![Stream] = label], loc' = [loc EXCEPT ![Stream] = locals],
         \/ label \notin AtWork \cup {"cancel"}
         \/ /\ label = "market" /\ locals.stage \in Stages /\ locals.stage = pos.stage + 1
            /\ pos'.remaining <= locals.lots
         \/ /\ label = "cancel" /\ locals.stage = pos.stage
            /\ HasRow(rows, "guard_stop", pos.stage)
  PROVE  CoverInv'
<1> USE DEF Loose
<1>1. /\ oco' = oco /\ guard' = guard /\ sold' = sold /\ Stream \in Tasks
      /\ pc'[Stream] = label /\ loc'[Stream] = locals
      /\ \A u \in Tasks : u # Stream => pc'[u] = pc[u] /\ loc'[u] = loc[u]
  <2>1. Stream \in Tasks
    BY DEF Tasks
  <2> QED BY <2>1, OneMoves DEF exchangeVars, QuantityInv
<1>2. \A role, k : HasRow(rows', role, k) <=> HasRow(rows, role, k)
  BY AlikeRows
<1>3. /\ Covering(pos, rows, oco, guard, sold, pc, loc, faults)
      /\ StagesKnown(pos, rows, oco, guard) /\ Sole(pc, loc, guard)
  BY DEF CoverInv, Covering
<1>4. /\ pos.stage \in Nat /\ pos'.stage \in Nat /\ pos.stage <= pos'.stage
      /\ pos.remaining \in 0..Base /\ pos'.remaining \in 0..Base
      /\ \A i \in DOMAIN rows : rows[i].qty \in 1..Base /\ rows[i].stage \in Stages
      /\ \A u \in Tasks : LocalOK(loc[u])
      /\ \A k \in Stages : Loose[k] \in Int
  BY CoverTypes, CoverTypesNext
<1>5. StagesKnown(pos', rows', oco, guard)
  <2>1. \A i \in DOMAIN rows' : rows'[i].stage <= pos'.stage
    BY <1>3, <1>4, ConstantsAre DEF StagesKnown, RowsAlike
  <2>2. \A k \in Stages : oco[k].state # "none" \/ guard[k].state # "none" => k <= pos'.stage
    BY <1>3, <1>4, ConstantsAre DEF StagesKnown
  <2>3. \A k \in Stages : k < pos'.stage => oco[k].filled = "tp"
    BY <1>4, ConstantsAre
  <2>4. \A i \in DOMAIN rows' : rows'[i].role = "guard_stop" => HasRow(rows', "bracket", rows'[i].stage)
    BY <1>2, <1>3 DEF StagesKnown, RowsAlike
  <2> QED BY <2>1, <2>2, <2>3, <2>4 DEF StagesKnown
<1>6. GuardsKnown(rows', guard, Loose)
  <2>1. GuardsKnown(rows, guard, Loose)
    BY <1>3 DEF Covering
  <2> QED BY <1>2, <2>1 DEF GuardsKnown
<1>7. Fits(label, locals, pos', rows', Loose)
  <2>1. CASE label \notin AtWork \cup {"cancel"}
    BY <2>1 DEF Fits, AtWork, Held
  <2>2. CASE label = "market" /\ locals.stage \in Stages /\ locals.stage = pos.stage + 1
             /\ pos'.remaining <= locals.lots
    <3>1. locals.stage <= pos'.stage
      BY <1>4, <2>2
    <3> QED BY <2>2, <3>1 DEF Fits, AtWork, Held
  <2>3. CASE label = "cancel" /\ locals.stage = pos.stage /\ HasRow(rows, "guard_stop", pos.stage)
    <3>1. label \notin AtWork
      BY <2>3 DEF AtWork, Held
    <3>2. locals.stage + 1 = pos'.stage /\ HasRow(rows', "guard_stop", locals.stage)
      BY <1>2, <2>3
    <3> QED BY <2>3, <3>1, <3>2 DEF Fits, AtWork, Held
  <2> QED BY <2>1, <2>2, <2>3
<1>8. \A u \in Tasks : Fits(pc'[u], loc'[u], pos', rows', Loose)
  <2> SUFFICES ASSUME NEW u \in Tasks, u # Stream PROVE Fits(pc'[u], loc'[u], pos', rows', Loose)
    BY <1>1, <1>7
  <2>1. Fits(pc[u], loc[u], pos, rows, Loose)
    BY <1>3 DEF Covering
  <2>2. pc[u] # "cancel"
    BY <1>3 DEF Sole
  <2>3. pc[u] \in Held \cup {"account"} => Loose[loc[u].stage] <= Loose[loc[u].stage]
    <3>1. pc[u] \in Held \cup {"account"} => loc[u].stage \in Stages
      BY <2>1 DEF Fits, AtWork
    <3> QED BY <1>4, <3>1
  <2> HIDE DEF Loose
  <2>4. Fits(pc[u], loc[u], pos', rows', Loose)
    BY <1>4, <2>1, <2>2, <2>3, FitsKept
  <2> QED BY <1>1, <2>4
<1>9. Sole(pc', loc', guard')
  <2>1. label \notin Held /\ label \notin Unguarded
    BY DEF AtWork, Held, Unguarded
  <2> QED BY <1>1, <1>3, <2>1 DEF Sole
<1>10. Untouched(rows', pc', loc', guard)
  <2> SUFFICES ASSUME Canceling(pc', loc', guard)
               PROVE  /\ \A i \in DOMAIN rows' : rows'[i].stage <= loc'[Stream].stage
                      /\ \A u \in Tasks : pc'[u] = "account" /\ loc'[u].lots > 0
                                            => loc'[u].stage <= loc'[Stream].stage
    BY DEF Untouched
  <2>1. label = "cancel" /\ loc'[Stream].stage = pos.stage
    BY <1>1 DEF Canceling, AtWork, Held
  <2>2. \A u \in Tasks : u # Stream /\ pc[u] = "account" => loc[u].stage <= pos.stage
    BY <1>3 DEF Covering, Fits, AtWork
  <2>3. \A i \in DOMAIN rows' : rows'[i].stage <= pos.stage
    BY <1>3 DEF StagesKnown, RowsAlike
  <2> QED BY <1>1, <2>1, <2>2, <2>3
<1>11. Covers(pos', pc', loc', guard, FreeIn(oco, guard, sold), faults)
  BY DEF Covers
<1> HIDE DEF Loose
<1>12. Covering(pos', rows', oco', guard', sold', pc', loc', faults')
  BY <1>1, <1>3, <1>5, <1>6, <1>8, <1>9, <1>10, <1>11 DEF Covering, Loose
<1> QED BY <1>12, CoverNext

LEMMA BookedAlike ==
  ASSUME QuantityInv, NEW qty \in 0..Base, NEW i
  PROVE  LET db == [SetRow(DB, i, "closed") EXCEPT !.pos = Sells(pos, qty)]
         IN  Alike(db) /\ db.pos.prot # "protected"
<1> DEFINE base == SetRow(DB, i, "closed")
           sells == Sells(pos, qty)
<1>1. /\ Alike(DB) /\ DB.pos = pos /\ Position(pos) /\ PositionOK(pos)
      /\ pos.remaining \in 0..Base
  BY AlikeNow, CoverTypes DEF QuantityInv, PlacedInv, ShapeInv, DeskInv
<1>2. Alike(base)
  <2>1. "closed" \in RowStatus
    BY DEF RowStatus
  <2> QED BY <1>1, <2>1, WritesAlike
<1>3. /\ Position(sells) /\ PositionOK(sells) /\ sells.stage = pos.stage
      /\ sells.remaining = IF qty >= pos.remaining THEN 0 ELSE pos.remaining - qty
  BY <1>1, SellsTyped
<1>4. sells.prot \in {"closed", "partially_protected"}
  BY <1>1 DEF Sells, Position, PosFields
<1> HIDE DEF base, sells
<1>5. sells.remaining \in 0..Base /\ sells.remaining <= pos.remaining
  BY <1>1, <1>3, ConstantsAre DEF PositionOK
<1>6. LET db == [base EXCEPT !.pos = sells]
      IN  db.pos = sells /\ db.rows = base.rows /\ Sound(db)
  BY <1>2, <1>3 DEF Alike, Sound
<1>7. LET db == [base EXCEPT !.pos = sells]
      IN  Alike(db) /\ db.pos.prot # "protected"
  <2> DEFINE db == [base EXCEPT !.pos = sells]
  <2>1. db.pos = sells /\ db.rows = base.rows /\ Sound(db)
    BY <1>6
  <2> HIDE DEF db
  <2>2. Alike(db) /\ db.pos.prot # "protected"
    BY <1>2, <1>3, <1>4, <1>5, <2>1 DEF Alike
  <2> QED BY <2>2 DEF db
<1> QED BY <1>7 DEF base, sells

LEMMA StreamFillsCover ==
  ASSUME CoverInv, QuantityInv, QuantityInv', StageBooks, StreamFills
  PROVE  CoverInv'
<1> DEFINE e == Head(wire)
           Booked(i) == [SetRow(DB, i, "closed") EXCEPT !.pos = Sells(pos, e.qty)]
<1>1. /\ UNCHANGED exchangeVars /\ faults' = faults /\ Stream \in Tasks /\ pc[Stream] = "idle"
      /\ wire # <<>> /\ Consume
  BY DEF StreamFills, Consume, StreamReady, countVars, Tasks
<1>2. pc[Stream] # "cancel" /\ ~Flagging(pc[Stream], loc[Stream])
  BY <1>1 DEF Flagging
<1>3. /\ e.qty \in 0..Base
      /\ Along(TargetHits, wire) = (IF e.kind = "tp" THEN 1 ELSE 0) + Along(TargetHits, wire')
      /\ Along(TargetHits, wire') \in Nat
  BY <1>1, FillConsumed, WiresNext
<1>4. PICK i : \/ Becomes(Stream, Advancing(Stream, Booked(i))) /\ e.kind = "tp"
               \/ Ends(Stream, Booked(i))
  BY DEF StreamFills
<1> DEFINE db == Booked(i)
<1>5. Alike(db) /\ db.pos.prot # "protected"
  BY <1>3, BookedAlike
<1>6. \/ Becomes(Stream, Advancing(Stream, db)) /\ e.kind = "tp"
      \/ Ends(Stream, db)
  BY <1>4
<1> HIDE DEF db
<1>7. CASE Ends(Stream, db)
  BY <1>1, <1>2, <1>5, <1>7, CallsCover
<1>8. CASE Becomes(Stream, Advancing(Stream, db)) /\ e.kind = "tp"
  <2> DEFINE Returns(o) == o.pc = "idle" /\ loc[Stream].all
             Kept2(o) == [o.loc EXCEPT !.all = loc[Stream].all, !.owned = loc[Stream].owned]
             Label(o) == IF Returns(o) THEN "orders" ELSE o.pc
             Locals(o) == IF Returns(o) THEN [Kept2(o) EXCEPT !.seen = o.db.pos, !.row = Len(o.db.rows)]
                          ELSE Kept2(o)
  <2>1. PICK o \in Advancing(Stream, db) :
          /\ pos' = o.db.pos /\ rows' = o.db.rows
          /\ pc' = [pc EXCEPT ![Stream] = Label(o)] /\ loc' = [loc EXCEPT ![Stream] = Locals(o)]
    BY <1>8 DEF Becomes
  <2> DEFINE label == Label(o)
             locals == Locals(o)
  <2>2. pc' = [pc EXCEPT ![Stream] = label] /\ loc' = [loc EXCEPT ![Stream] = locals]
    BY <2>1
  <2>3. /\ RowsAlike(rows', rows) /\ pos'.stage = pos.stage + 1
        /\ pos'.remaining = db.pos.remaining /\ pos'.prot # "protected" /\ Local(o.loc)
        /\ \/ o.pc = "idle"
           \/ /\ o.pc = "market" /\ o.loc.stage \in Stages
              /\ o.loc.stage = pos.stage + 1 /\ o.loc.lots = db.pos.remaining
           \/ /\ o.pc = "cancel" /\ o.loc.stage = pos.stage
              /\ HasRow(rows, "guard_stop", pos.stage)
    BY <1>5, <2>1, AdvancingWrites
  <2>4. pos'.remaining <= pos.remaining /\ pos'.remaining \in 0..Base /\ pos'.remaining <= db.pos.remaining
    BY <1>5, <2>3, ConstantsAre DEF Alike
  <2>5. ~Returns(o) => locals.stage = o.loc.stage /\ locals.lots = o.loc.lots
    BY <2>3 DEF Local, LocFields
  <2>6. o.pc = "idle" => label \notin AtWork \cup {"cancel"}
    BY DEF AtWork, Held
  <2>7. o.pc # "idle" => label = o.pc /\ ~Returns(o)
    OBVIOUS
  <2> HIDE DEF label, locals, Returns
  <2>8. \/ label \notin AtWork \cup {"cancel"}
        \/ /\ label = "market" /\ locals.stage \in Stages /\ locals.stage = pos.stage + 1
           /\ pos'.remaining <= locals.lots
        \/ /\ label = "cancel" /\ locals.stage = pos.stage
           /\ HasRow(rows, "guard_stop", pos.stage)
    BY <2>3, <2>4, <2>5, <2>6, <2>7
  <2>9. \A k \in Stages : k <= pos.stage => oco[k].filled = "tp"
    <3>1. Along(TargetHits, wire) >= 1
      BY <1>3, <1>8
    <3> QED BY <3>1, StagesHit
  <2> QED BY <1>1, <2>2, <2>3, <2>4, <2>8, <2>9, NextStageCovers
<1> QED BY <1>6, <1>7, <1>8

-----------------------------------------------------------------------------
(* Steps of the exchange: the position and its rows stay as they are.       *)
LEMMA ExchangeMoves ==
  ASSUME CoverInv, QuantityInv, QuantityInv', pos' = pos, rows' = rows, faults' = faults,
         NEW h, h = LooseIn(oco', guard', sold'),
         StagesKnown(pos, rows, oco', guard'), GuardsKnown(rows, guard', h),
         \A u \in Tasks :
           \/ Fits(pc'[u], loc'[u], pos, rows, h)
           \/ /\ pc'[u] = pc[u] /\ loc'[u] = loc[u]
              /\ \/ pc[u] \notin Held \cup {"account"}
                 \/ pc[u] = "account" /\ HasRow(rows, "bracket", loc[u].stage)
                 \/ h[loc[u].stage] <= Loose[loc[u].stage],
         Sole(pc', loc', guard'), Untouched(rows, pc', loc', guard'),
         Covers(pos, pc', loc', guard', FreeIn(oco', guard', sold'), faults)
  PROVE  CoverInv'
<1>1. /\ pos.stage \in Nat /\ pos.remaining \in 0..Base /\ pos.stage <= pos.stage
      /\ pos.remaining <= pos.remaining
      /\ \A i \in DOMAIN rows : rows[i].qty \in 1..Base
      /\ \A u \in Tasks : LocalOK(loc[u])
      /\ \A k \in Stages : Loose[k] \in Int /\ h[k] \in Int
  BY CoverTypes, CoverTypesNext, ConstantsAre
<1>2. \A u \in Tasks : Fits(pc'[u], loc'[u], pos, rows, h)
  <2> SUFFICES ASSUME NEW u \in Tasks, pc'[u] = pc[u], loc'[u] = loc[u],
                      \/ pc[u] \notin Held \cup {"account"}
                      \/ pc[u] = "account" /\ HasRow(rows, "bracket", loc[u].stage)
                      \/ h[loc[u].stage] <= Loose[loc[u].stage]
               PROVE  Fits(pc[u], loc[u], pos, rows, h)
    OBVIOUS
  <2>1. Fits(pc[u], loc[u], pos, rows, Loose)
    BY FitsNow
  <2>2. RowsAlike(rows, rows)
    BY DEF RowsAlike
  <2> QED BY <1>1, <2>1, <2>2, FitsKept
<1>3. Covering(pos', rows', oco', guard', sold', pc', loc', faults')
  BY <1>2 DEF CoverInv, Covering
<1> QED BY <1>3, CoverNext

(* An order fills: what it held is sold.                                    *)
LEMMA OrderFills ==
  ASSUME CoverInv, QuantityInv, QuantityInv', UNCHANGED <<pos, rows, pc, loc, faults>>,
         NEW k \in Stages,
         \A j \in Stages : j # k => oco'[j] = oco[j] /\ guard'[j] = guard[j],
         \A j \in Stages : /\ guard'[j].state = "live" => guard'[j] = guard[j]
                           /\ guard'[j].state # "none" => guard[j].state # "none"
                           /\ oco'[j].state # "none" => oco[j].state # "none",
         k < pos.stage => oco'[k].filled = "tp",
         sold' >= sold,
         sold' + (LotsIn(oco'[k]) + LotsIn(guard'[k])) = sold + (LotsIn(oco[k]) + LotsIn(guard[k]))
  PROVE  CoverInv'
<1> DEFINE h == LooseIn(oco', guard', sold')
           more == (LotsIn(oco'[k]) + LotsIn(guard'[k])) - (LotsIn(oco[k]) + LotsIn(guard[k]))
<1>1. Quantified(oco, guard) /\ Quantified(oco', guard') /\ sold \in Int /\ sold' \in Int
  BY CoverTypes, CoverTypesNext
<1>2. /\ LotsIn(oco'[k]) \in Int /\ LotsIn(guard'[k]) \in Int
      /\ LotsIn(oco[k]) \in Int /\ LotsIn(guard[k]) \in Int
  BY <1>1, ConstantsAre DEF LotsIn, Quantified
<1>3. more = -(sold' - sold) /\ more \in Int
  BY <1>1, <1>2
<1>4. /\ FreeIn(oco', guard', sold') = FreeIn(oco, guard, sold) - (sold' - sold) - more
      /\ \A j \in Stages : h[j] = Loose[j] - (sold' - sold) - (IF k <= j THEN more ELSE 0)
  <2> HIDE DEF more
  <2>1. more = (LotsIn(oco'[k]) + LotsIn(guard'[k])) - (LotsIn(oco[k]) + LotsIn(guard[k]))
    BY DEF more
  <2> QED BY <1>1, <2>1, LooseChanges DEF Loose
<1> HIDE DEF more
<1>5. /\ FreeIn(oco', guard', sold') = FreeIn(oco, guard, sold)
      /\ \A j \in Stages : h[j] <= Loose[j] /\ h[j] \in Int /\ Loose[j] \in Int
  <2>1. FreeIn(oco, guard, sold) \in Int /\ \A j \in Stages : Loose[j] \in Int
    BY <1>1, LooseIs DEF Loose
  <2> HIDE DEF h
  <2> QED BY <1>1, <1>3, <1>4, <2>1
<1> HIDE DEF h
<1>6. Covering(pos, rows, oco, guard, sold, pc, loc, faults)
  BY DEF CoverInv
<1>7. StagesKnown(pos, rows, oco', guard')
  <2>1. StagesKnown(pos, rows, oco, guard)
    BY <1>6 DEF Covering
  <2> QED BY <2>1 DEF StagesKnown
<1>8. GuardsKnown(rows, guard', h)
  <2>1. GuardsKnown(rows, guard, Loose)
    BY <1>6 DEF Covering, Loose
  <2> SUFFICES ASSUME NEW j \in Stages, guard'[j].state = "live"
               PROVE  guard'[j].qty > 0 /\ (HasRow(rows, "guard_stop", j) => h[j] <= 0)
    BY <2>1 DEF GuardsKnown
  <2>2. guard'[j] = guard[j]
    OBVIOUS
  <2>3. guard[j].qty > 0 /\ (HasRow(rows, "guard_stop", j) => Loose[j] <= 0)
    BY <2>1, <2>2 DEF GuardsKnown
  <2> QED BY <1>5, <2>2, <2>3
<1>9. ASSUME NEW u \in Tasks
      PROVE  pc[u] \notin Held \cup {"account"} \/ h[loc[u].stage] <= Loose[loc[u].stage]
  <2>1. Fits(pc[u], loc[u], pos, rows, Loose)
    BY FitsNow
  <2> QED BY <1>5, <2>1 DEF Fits, AtWork
<1>10. Canceling(pc', loc', guard') => Canceling(pc, loc, guard)
  <2> SUFFICES ASSUME pc[Stream] = "cancel", guard'[loc[Stream].stage].state = "live"
               PROVE  guard[loc[Stream].stage].state = "live"
    BY DEF Canceling
  <2>1. loc[Stream].stage \in Stages
    BY DEF QuantityInv, DeskInv, Carries, Tasks
  <2> QED BY <2>1
<1>11. Sole(pc', loc', guard') /\ Untouched(rows, pc', loc', guard')
  <2>1. Sole(pc, loc, guard) /\ Untouched(rows, pc, loc, guard)
    BY <1>6 DEF Covering
  <2>2. ASSUME NEW u \in Tasks, pc[u] \in Unguarded PROVE guard'[loc[u].stage].state = "none"
    <3>1. Fits(pc[u], loc[u], pos, rows, Loose)
      BY FitsNow
    <3>2. loc[u].stage \in Stages
      BY <2>2, <3>1 DEF Fits, AtWork, Held, Unguarded
    <3> QED BY <2>1, <2>2, <3>2 DEF Sole
  <2> QED BY <1>10, <2>1, <2>2 DEF Sole, Untouched
<1>12. Covers(pos, pc', loc', guard', FreeIn(oco', guard', sold'), faults)
  BY <1>5, <1>6, <1>10 DEF Covering, Covers, Doubt
<1>13. h = LooseIn(oco', guard', sold')
  BY DEF h
<1> QED BY <1>7, <1>8, <1>9, <1>11, <1>12, <1>13, ExchangeMoves

LEMMA FillsCover ==
  ASSUME CoverInv, QuantityInv, QuantityInv', NEW k \in Stages,
         TargetFills(k) \/ StopFills(k) \/ GuardFills(k)
  PROVE  CoverInv'
<1>1. UNCHANGED <<pos, rows, pc, loc, faults>>
  BY DEF TargetFills, StopFills, LegFills, GuardFills, taskVars, countVars
<1>2. /\ oco = [j \in Stages |-> oco[j]] /\ guard = [j \in Stages |-> guard[j]]
      /\ Order(oco[k]) /\ GuardOK(guard[k]) /\ sold \in Nat
      /\ oco[k].qty \in 0..Base /\ guard[k].qty \in 0..Base
  BY DEF QuantityInv, PlacedInv, ShapeInv, ExchangeInv, OrderOK, GuardOK
<1>3. CASE TargetFills(k) \/ StopFills(k)
  <2>1. PICK leg \in {"tp", "stop"} :
          /\ oco[k].state = "live" /\ guard' = guard /\ sold' = sold + oco[k].qty
          /\ oco' = [oco EXCEPT ![k].state = "done", ![k].filled = leg]
    BY <1>3 DEF TargetFills, StopFills, LegFills
  <2>2. /\ \A j \in Stages : j # k => oco'[j] = oco[j]
        /\ oco'[k].state = "done"
    BY <1>2, <2>1 DEF Order, OrderFields
  <2>3. k = pos.stage /\ ~(k < pos.stage)
    BY <2>1, StagesBehind, ConstantsAre
  <2>4. /\ LotsIn(oco'[k]) = 0 /\ LotsIn(oco[k]) = oco[k].qty /\ LotsIn(guard'[k]) = LotsIn(guard[k])
        /\ LotsIn(guard[k]) \in Nat
    BY <1>2, <2>1, <2>2, ConstantsAre DEF LotsIn
  <2>5. /\ sold' >= sold
        /\ sold' + (LotsIn(oco'[k]) + LotsIn(guard'[k])) = sold + (LotsIn(oco[k]) + LotsIn(guard[k]))
    BY <1>2, <2>1, <2>4, ConstantsAre
  <2> QED BY <1>1, <2>1, <2>2, <2>3, <2>5, OrderFills
<1>4. CASE GuardFills(k)
  <2>1. /\ guard[k].state = "live" /\ guard' = [guard EXCEPT ![k].state = "filled"]
        /\ sold' = sold + guard[k].qty /\ oco' = oco
    BY <1>4 DEF GuardFills
  <2>2. /\ \A j \in Stages : j # k => guard'[j] = guard[j]
        /\ guard'[k].state = "filled"
    BY <1>2, <2>1 DEF GuardOK, GuardFields
  <2>3. k < pos.stage => oco'[k].filled = "tp"
    BY <2>1, StagesBehind
  <2>4. /\ LotsIn(guard'[k]) = 0 /\ LotsIn(guard[k]) = guard[k].qty /\ LotsIn(oco'[k]) = LotsIn(oco[k])
        /\ LotsIn(oco[k]) \in Nat
    BY <1>2, <2>1, <2>2, ConstantsAre DEF LotsIn
  <2>5. /\ sold' >= sold
        /\ sold' + (LotsIn(oco'[k]) + LotsIn(guard'[k])) = sold + (LotsIn(oco[k]) + LotsIn(guard[k]))
    BY <1>2, <2>1, <2>4, ConstantsAre
  <2> QED BY <1>1, <2>1, <2>2, <2>3, <2>5, OrderFills
<1> QED BY <1>3, <1>4

(* The connection breaks or the process dies: nothing is promised any more. *)
LEMMA FaultsCover ==
  ASSUME CoverInv, QuantityInv, QuantityInv', Disconnect \/ Reconnect \/ CrashRestart
  PROVE  CoverInv'
<1>1. Covering(pos, rows, oco, guard, sold, pc, loc, faults)
  BY DEF CoverInv
<1>2. CASE Reconnect
  BY <1>2, RestCovers DEF Reconnect, taskVars, exchangeVars, countVars
<1>3. CASE Disconnect \/ CrashRestart
  <2>1. faults' = faults + 1 /\ UNCHANGED <<pos, rows, oco, guard, sold>>
    BY <1>3 DEF Disconnect, CrashRestart, Fault, exchangeVars
  <2>2. faults' \in Nat /\ faults' # 0
    BY <1>1, <2>1 DEF Covering
  <2>3. Covers(pos', pc', loc', guard', FreeIn(oco', guard', sold'), faults')
    BY <2>2 DEF Covers
  <2>4. CASE Disconnect
    <3>1. pc' = pc /\ loc' = loc
      BY <2>4 DEF Disconnect, taskVars
    <3>2. Covering(pos', rows', oco', guard', sold', pc', loc', faults')
      BY <1>1, <2>1, <2>2, <2>3, <3>1 DEF Covering
    <3> QED BY <3>2, CoverNext
  <2>5. CASE CrashRestart
    <3>1. pc' = [t \in Tasks |-> "idle"] /\ loc' = [t \in Tasks |-> NoLocals] /\ Stream \in Tasks
      BY <2>5 DEF CrashRestart, Tasks
    <3>2. \A t \in Tasks : Fits(pc'[t], loc'[t], pos', rows', LooseIn(oco', guard', sold'))
      BY <3>1 DEF Fits, AtWork, Held
    <3>3. Sole(pc', loc', guard') /\ Untouched(rows', pc', loc', guard')
      BY <3>1 DEF Sole, Held, Unguarded, Untouched, Canceling
    <3>4. Covering(pos', rows', oco', guard', sold', pc', loc', faults')
      BY <1>1, <2>1, <2>2, <2>3, <3>2, <3>3 DEF Covering
    <3> QED BY <3>4, CoverNext
  <2> QED BY <1>3, <2>4, <2>5
<1> QED BY <1>2, <1>3

-----------------------------------------------------------------------------
(* A row is inserted.                                                       *)
LEMMA RowsAppended ==
  ASSUME QuantityInv, NEW row
  PROVE  LET new == Append(rows, row)
             n == Len(rows) + 1
         IN  /\ DOMAIN new = DOMAIN rows \cup {n} /\ n \notin DOMAIN rows
             /\ new[n] = row /\ \A i \in DOMAIN rows : new[i] = rows[i]
<1>1. PICK m \in Nat : rows = [i \in 1..m |-> rows[i]]
  BY DEF QuantityInv, PlacedInv, ShapeInv, Table
<1> DEFINE S == {rows[i] : i \in 1..m} \cup {row}
           new == Append(rows, row)
<1>2. Len(rows) = m /\ DOMAIN rows = 1..m /\ rows \in Seq(S) /\ row \in S
  BY <1>1
<1> HIDE DEF S
<1>3. /\ new \in Seq(S) /\ Len(new) = m + 1 /\ new[m + 1] = row
      /\ \A i \in 1..m : new[i] = rows[i]
  BY <1>2, AppendProperties
<1>4. 1..(m + 1) = 1..m \cup {m + 1} /\ m + 1 \notin 1..m
  OBVIOUS
<1>5. DOMAIN new = 1..(m + 1)
  <2> HIDE DEF new
  <2> QED BY <1>3
<1> QED BY <1>2, <1>3, <1>4, <1>5

LEMMA RowMoves ==
  ASSUME CoverInv, QuantityInv, QuantityInv', UNCHANGED exchangeVars, faults' = faults, pos' = pos,
         NEW row, NEW n, DOMAIN rows' = DOMAIN rows \cup {n}, n \notin DOMAIN rows,
         rows'[n] = row, \A i \in DOMAIN rows : rows'[i] = rows[i], row.role \in {"bracket", "guard_stop"},
         row.stage \in Stages, row.stage <= pos.stage,
         row.role = "guard_stop" => HasRow(rows, "bracket", row.stage) /\ Loose[row.stage] <= 0,
         NEW t \in Tasks, NEW label, NEW locals,
         pc' = [pc EXCEPT ![t] = label], loc' = [loc EXCEPT ![t] = locals],
         pc[t] # "cancel", ~Flagging(pc[t], loc[t]), label # "cancel", label # "account",
         Fits(label, locals, pos, rows', Loose),
         \A u \in Tasks : u # t /\ pc[u] \in Held => loc[u].stage # row.stage,
         label \in Held => locals.stage = row.stage,
         label \in Unguarded => guard[row.stage].state = "none",
         Canceling(pc, loc, guard) => row.stage <= loc[Stream].stage
  PROVE  CoverInv'
<1> USE DEF Loose
<1>1. /\ oco' = oco /\ guard' = guard /\ sold' = sold
      /\ pc'[t] = label /\ loc'[t] = locals
      /\ \A u \in Tasks : u # t => pc'[u] = pc[u] /\ loc'[u] = loc[u]
  <2>1. PlacedInv /\ UNCHANGED <<oco, guard, sold>>
    BY DEF exchangeVars, QuantityInv
  <2> QED BY <2>1, OneMoves
<1>2. /\ DOMAIN rows' = DOMAIN rows \cup {n} /\ rows'[n] = row
      /\ \A i \in DOMAIN rows : rows'[i] = rows[i]
  OBVIOUS
<1>3. /\ Covering(pos, rows, oco, guard, sold, pc, loc, faults)
      /\ StagesKnown(pos, rows, oco, guard) /\ GuardsKnown(rows, guard, Loose)
      /\ Sole(pc, loc, guard) /\ Untouched(rows, pc, loc, guard)
      /\ Covers(pos, pc, loc, guard, FreeIn(oco, guard, sold), faults)
      /\ \A u \in Tasks : Fits(pc[u], loc[u], pos, rows, Loose)
  BY DEF CoverInv, Covering
<1> HIDE DEF Loose
<1>4. \A role, k : HasRow(rows', role, k)
                     <=> HasRow(rows, role, k) \/ (role = row.role /\ k = row.stage)
  BY <1>2 DEF HasRow
<1>5. StagesKnown(pos', rows', oco, guard)
  <2>1. \A i \in DOMAIN rows' : rows'[i].stage <= pos.stage
    BY <1>2, <1>3 DEF StagesKnown
  <2>2. \A i \in DOMAIN rows' : rows'[i].role = "guard_stop" => HasRow(rows', "bracket", rows'[i].stage)
    BY <1>2, <1>3, <1>4 DEF StagesKnown
  <2> QED BY <1>3, <2>1, <2>2 DEF StagesKnown
<1>6. GuardsKnown(rows', guard, Loose)
  BY <1>3, <1>4 DEF GuardsKnown
<1>7. \A u \in Tasks : Fits(pc'[u], loc'[u], pos', rows', Loose)
  <2> SUFFICES ASSUME NEW u \in Tasks, u # t PROVE Fits(pc[u], loc[u], pos, rows', Loose)
    BY <1>1
  <2>1. Fits(pc[u], loc[u], pos, rows, Loose)
    BY <1>3
  <2>2. pc[u] \in Held => /\ loc[u].row \in DOMAIN rows /\ rows'[loc[u].row] = rows[loc[u].row]
                          /\ loc[u].row \in DOMAIN rows'
                          /\ ~HasRow(rows', "guard_stop", loc[u].stage)
    BY <1>2, <1>4, <2>1 DEF Fits
  <2>3. pc[u] = "account" /\ loc[u].lots > 0
          => HasRow(rows', "bracket", loc[u].stage) \/ Loose[loc[u].stage] <= loc[u].lots
    BY <1>4, <2>1 DEF Fits
  <2>4. pc[u] = "cancel" => HasRow(rows', "guard_stop", loc[u].stage)
    BY <1>4, <2>1 DEF Fits
  <2>5. pc[u] = "place" => Loose[loc[u].stage] <= rows'[loc[u].row].qty + loc[u].guard
    BY <2>1, <2>2 DEF Fits, Held
  <2> QED BY <2>1, <2>2, <2>3, <2>4, <2>5 DEF Fits
<1>8. Sole(pc', loc', guard')
  <2>1. label \in Unguarded => label \in Held
    BY DEF Unguarded, Held
  <2>2. \A u, v \in Tasks : pc'[u] \in Held /\ pc'[v] \in Held /\ u # v => loc'[u].stage # loc'[v].stage
    BY <1>1, <1>3 DEF Sole
  <2>3. \A u \in Tasks : pc'[u] \in Unguarded => guard'[loc'[u].stage].state = "none"
    BY <1>1, <1>3, <2>1 DEF Sole
  <2>4. \A u \in Tasks : pc'[u] = "cancel" => u = Stream
    BY <1>1, <1>3 DEF Sole
  <2> QED BY <2>2, <2>3, <2>4 DEF Sole
<1>9. Canceling(pc', loc', guard) => Canceling(pc, loc, guard) /\ loc'[Stream] = loc[Stream]
  <2>1. Stream \in Tasks
    BY DEF Tasks
  <2>2. CASE Stream = t
    BY <1>1, <2>2 DEF Canceling
  <2>3. CASE Stream # t
    BY <1>1, <2>1, <2>3 DEF Canceling
  <2> QED BY <2>2, <2>3
<1>10. Untouched(rows', pc', loc', guard)
  <2> SUFFICES ASSUME Canceling(pc', loc', guard)
               PROVE  /\ \A i \in DOMAIN rows' : rows'[i].stage <= loc'[Stream].stage
                      /\ \A u \in Tasks : pc'[u] = "account" /\ loc'[u].lots > 0
                                            => loc'[u].stage <= loc'[Stream].stage
    BY DEF Untouched
  <2>1. Canceling(pc, loc, guard) /\ loc'[Stream] = loc[Stream]
    BY <1>9
  <2>2. /\ \A i \in DOMAIN rows : rows[i].stage <= loc[Stream].stage
        /\ \A u \in Tasks : pc[u] = "account" /\ loc[u].lots > 0 => loc[u].stage <= loc[Stream].stage
    BY <1>3, <2>1 DEF Untouched
  <2> QED BY <1>1, <1>2, <2>1, <2>2
<1>11. Covers(pos', pc', loc', guard, FreeIn(oco, guard, sold), faults)
  <2> SUFFICES ASSUME faults = 0, pos.prot = "protected"
               PROVE  Doubt(pc', loc')
                        \/ (FreeIn(oco, guard, sold) = 0 /\ ~Canceling(pc', loc', guard))
    BY DEF Covers
  <2>1. Doubt(pc, loc) \/ (FreeIn(oco, guard, sold) = 0 /\ ~Canceling(pc, loc, guard))
    BY <1>3 DEF Covers
  <2>2. Doubt(pc, loc) => Doubt(pc', loc')
    BY <1>1 DEF Doubt
  <2> QED BY <1>9, <2>1, <2>2
<1>12. Covering(pos', rows', oco', guard', sold', pc', loc', faults')
  BY <1>1, <1>3, <1>5, <1>6, <1>7, <1>8, <1>10, <1>11 DEF Covering, Loose
<1> QED BY <1>12, CoverNext

(* The bracket row of a stage nobody protects: what the task has counted    *)
(* covers all that is loose.                                                *)
LEMMA SubmitCovers ==
  ASSUME CoverInv, QuantityInv, QuantityInv', NEW t \in Tasks, EstablishSubmits(t)
  PROVE  CoverInv'
<1> DEFINE k == loc[t].stage
           Row1(qty) == [role |-> "bracket", stage |-> k, status |-> "submitting", listed |-> FALSE,
                         qty |-> qty]
<1>1. PICK qty \in BracketSizes(t) :
        GoesOn(t, [DB EXCEPT !.rows = Append(@, Row1(qty))],
               "place", [loc[t] EXCEPT !.row = Len(rows) + 1, !.guard = loc[t].lots - qty])
  BY DEF EstablishSubmits
<1> DEFINE row == Row1(qty)
           left == loc[t].lots - qty
           n == Len(rows) + 1
           locals == [loc[t] EXCEPT !.row = n, !.guard = left]
           kept == [locals EXCEPT !.all = loc[t].all, !.owned = loc[t].owned]
<1>2. /\ Local(loc[t]) /\ LocalOK(loc[t]) /\ pc[t] = "account" /\ KeyIsNew(t)
      /\ UNCHANGED exchangeVars /\ faults' = faults
  BY CoverTypes DEF EstablishSubmits, countVars
<1>3. /\ qty \in Int /\ loc[t].lots \in Int /\ loc[t].lots > 0 /\ loc[t].lots <= qty + left
  <2>1. loc[t].lots \in Int /\ qty \in {1, loc[t].lots} /\ 0 < qty /\ qty <= loc[t].lots
    BY <1>2, ConstantsAre DEF BracketSizes, LocalOK
  <2>2. qty \in Int
    BY <2>1
  <2> QED BY <2>1, <2>2
<1>4. /\ pos' = pos /\ rows' = Append(rows, row)
      /\ pc' = [pc EXCEPT ![t] = "place"] /\ loc' = [loc EXCEPT ![t] = kept]
  <2> DEFINE db == [DB EXCEPT !.rows = Append(@, row)]
             o == [db |-> db, pc |-> "place", loc |-> locals]
  <2>1. Becomes(t, {o})
    BY <1>1 DEF GoesOn
  <2>2. db.pos = pos /\ db.rows = Append(rows, row)
    BY DEF DB
  <2>3. o.db = db /\ o.pc = "place" /\ o.loc = locals
    OBVIOUS
  <2> HIDE DEF o, db, locals, row, Row1
  <2> QED BY <2>1, <2>2, <2>3 DEF Becomes
<1>5. kept.row = n /\ kept.guard = left /\ kept.stage = k
  <2> HIDE DEF left, n, k
  <2>1. locals.row = n /\ locals.guard = left /\ locals.stage = loc[t].stage /\ Local(locals)
    BY <1>2 DEF Local, LocFields
  <2> HIDE DEF locals
  <2> QED BY <2>1 DEF Local, LocFields, k
<1>6. row.role = "bracket" /\ row.stage = k /\ row.qty = qty
  OBVIOUS
<1>7. /\ DOMAIN rows' = DOMAIN rows \cup {n} /\ n \notin DOMAIN rows /\ rows'[n] = row
      /\ \A i \in DOMAIN rows : rows'[i] = rows[i]
  <2> HIDE DEF row, Row1
  <2> QED BY <1>4, RowsAppended
<1>8. Fits("account", loc[t], pos, rows, Loose) /\ \A u \in Tasks : Fits(pc[u], loc[u], pos, rows, Loose)
  BY <1>2, FitsNow
<1>9. k \in Stages /\ k <= pos.stage /\ ~HasRow(rows, "bracket", k)
  BY <1>2, <1>8 DEF Fits, AtWork, KeyIsNew, RowOf, HasRow, DB
<1>10. ~HasRow(rows, "guard_stop", k) /\ guard[k].state = "none"
  <2>1. StagesKnown(pos, rows, oco, guard) /\ GuardsKnown(rows, guard, Loose)
    BY DEF CoverInv, Covering, Loose
  <2> HIDE DEF k
  <2> QED BY <1>9, <2>1 DEF StagesKnown, GuardsKnown, HasRow
<1>11. Loose[k] <= qty + left
  <2>1. Loose[k] \in Int /\ Loose[k] <= loc[t].lots
    BY <1>3, <1>8, <1>9, CoverTypes DEF Fits
  <2> HIDE DEF k
  <2> QED BY <1>3, <2>1
<1> HIDE DEF row, Row1, left, n, kept, locals, k
<1>12. Fits("place", kept, pos, rows', Loose)
  <2>1. kept.row \in DOMAIN rows' /\ rows'[kept.row] = row
    BY <1>5, <1>7
  <2>2. ~HasRow(rows', "guard_stop", k)
    BY <1>6, <1>7, <1>10 DEF HasRow
  <2> QED BY <1>5, <1>6, <1>9, <1>11, <2>1, <2>2 DEF Fits
<1>13. \A u \in Tasks : u # t /\ pc[u] \in Held => loc[u].stage # row.stage
  BY <1>6, <1>8, <1>9 DEF Fits, HasRow
<1>14. Canceling(pc, loc, guard) => row.stage <= loc[Stream].stage
  <2>1. Untouched(rows, pc, loc, guard)
    BY DEF CoverInv, Covering
  <2> QED BY <1>2, <1>3, <1>6, <2>1 DEF Untouched, k
<1>15. pc[t] # "cancel" /\ ~Flagging(pc[t], loc[t]) /\ row.role \in {"bracket", "guard_stop"}
       /\ row.role # "guard_stop"
  BY <1>2, <1>6 DEF Flagging
<1>16. "place" # "cancel" /\ "place" # "account"
  OBVIOUS
<1> QED BY <1>2, <1>4, <1>5, <1>6, <1>7, <1>9, <1>10, <1>12, <1>13, <1>14, <1>15, <1>16, RowMoves

(* A call that ends returns to whoever called it.                           *)
LEMMA EndsIs ==
  ASSUME NEW t, NEW db, Ends(t, db)
  PROVE  \E label, locals :
           /\ label \in {"orders", "idle"} /\ pos' = db.pos /\ rows' = db.rows
           /\ pc' = [pc EXCEPT ![t] = label] /\ loc' = [loc EXCEPT ![t] = locals]
<1> DEFINE o == [db |-> db, pc |-> "idle", loc |-> NoLocals]
           kept == [NoLocals EXCEPT !.all = loc[t].all, !.owned = loc[t].owned]
           Label(returns) == IF returns THEN "orders" ELSE "idle"
           Locals(returns) == IF returns THEN [kept EXCEPT !.seen = db.pos, !.row = Len(db.rows)] ELSE kept
<1>1. Becomes(t, {o}) /\ o.db = db /\ o.pc = "idle" /\ o.loc = NoLocals
  BY DEF Ends
<1> HIDE DEF o
<1>2. /\ pos' = db.pos /\ rows' = db.rows
      /\ pc' = [pc EXCEPT ![t] = Label(loc[t].all)] /\ loc' = [loc EXCEPT ![t] = Locals(loc[t].all)]
  BY <1>1 DEF Becomes
<1>3. Label(loc[t].all) \in {"orders", "idle"}
  OBVIOUS
<1> HIDE DEF Label, Locals
<1> QED BY <1>2, <1>3

(* The guard's row is inserted: what is loose was all placed.               *)
LEMMA GuardAcksCover ==
  ASSUME CoverInv, QuantityInv, QuantityInv', NEW t \in Tasks, GuardAcks(t)
  PROVE  CoverInv'
<1> DEFINE k == loc[t].stage
           row == [role |-> "guard_stop", stage |-> k, status |-> "protected",
                   listed |-> FALSE, qty |-> loc[t].guard]
           db == [DB EXCEPT !.rows = Append(@, row)]
           n == Len(rows) + 1
<1>1. /\ pc[t] = "guarded" /\ UNCHANGED exchangeVars /\ faults' = faults
  BY DEF GuardAcks, countVars
<1>2. CASE loc[t].answer = "error"
  BY <1>2, GuardFailsCovers
<1>3. CASE loc[t].answer = "ok" /\ Ends(t, db)
  <2>1. db.pos = pos /\ db.rows = Append(rows, row)
    BY DEF DB
  <2>2. row.role = "guard_stop" /\ row.stage = k
    OBVIOUS
  <2> HIDE DEF db, row
  <2>3. PICK label, locals :
          /\ label \in {"orders", "idle"} /\ pos' = pos /\ rows' = Append(rows, row)
          /\ pc' = [pc EXCEPT ![t] = label] /\ loc' = [loc EXCEPT ![t] = locals]
    BY <1>3, <2>1, EndsIs
  <2>5. /\ DOMAIN rows' = DOMAIN rows \cup {n} /\ n \notin DOMAIN rows /\ rows'[n] = row
        /\ \A i \in DOMAIN rows : rows'[i] = rows[i]
    BY <2>3, RowsAppended
  <2>6. Fits("guarded", loc[t], pos, rows, Loose)
    BY <1>1, FitsNow
  <2>7. /\ k \in Stages /\ k <= pos.stage /\ loc[t].row \in DOMAIN rows
        /\ rows[loc[t].row].role = "bracket" /\ rows[loc[t].row].stage = k
        /\ ~HasRow(rows, "guard_stop", k) /\ Loose[k] <= 0
    BY <1>3, <2>6 DEF Fits, AtWork, Held
  <2>8. /\ Sole(pc, loc, guard) /\ Untouched(rows, pc, loc, guard)
    BY DEF CoverInv, Covering
  <2>9. \A u \in Tasks : u # t /\ pc[u] \in Held => loc[u].stage # row.stage
    BY <1>1, <2>2, <2>8 DEF Sole, Held
  <2>10. Canceling(pc, loc, guard) => row.stage <= loc[Stream].stage
    BY <2>2, <2>7, <2>8 DEF Untouched
  <2>11. /\ pc[t] # "cancel" /\ ~Flagging(pc[t], loc[t]) /\ label # "cancel" /\ label # "account"
         /\ label \notin Held /\ label \notin Unguarded
         /\ Fits(label, locals, pos, rows', Loose)
    BY <1>1, <1>3, <2>3 DEF Flagging, Held, Unguarded, Fits, AtWork
  <2>12. HasRow(rows, "bracket", k) /\ row.role \in {"bracket", "guard_stop"}
    BY <2>2, <2>7 DEF HasRow
  <2> HIDE DEF k, n
  <2> QED BY <1>1, <2>2, <2>3, <2>5, <2>7, <2>9, <2>10, <2>11, <2>12, RowMoves
<1> QED BY <1>2, <1>3 DEF GuardAcks

(* The list is at work: a position without a guard is covered, one with a   *)
(* guard is in doubt.                                                       *)
LEMMA AckedWrites ==
  ASSUME QuantityInv, NEW t \in Tasks
  PROVE  LET listed == [DB EXCEPT !.rows[loc[t].row].listed = TRUE]
             db == [SetRow(SetProt(listed, "protected"), loc[t].row, "protected")
                      EXCEPT !.pos.stop = loc[t].stop]
         IN  /\ RowsAlike(db.rows, rows) /\ db.pos.stage = pos.stage
             /\ db.pos.remaining = pos.remaining
<1> DEFINE listed == [DB EXCEPT !.rows[loc[t].row].listed = TRUE]
           marked == SetRow(listed, loc[t].row, "protected")
           base == SetRow(SetProt(listed, "protected"), loc[t].row, "protected")
           acked == [base EXCEPT !.pos.stop = loc[t].stop]
<1>1. Alike(listed) /\ listed.pos = pos /\ Position(pos)
  <2>1. listed.pos = pos
    BY DEF DB
  <2> HIDE DEF listed
  <2> QED BY <2>1, ListedAlike DEF listed, QuantityInv, PlacedInv, ShapeInv
<1>2. Alike(marked)
  <2>1. "protected" \in RowStatus
    BY DEF RowStatus
  <2> HIDE DEF listed
  <2> QED BY <1>1, <2>1, WritesAlike
<1>3. /\ base = [pos |-> base.pos, rows |-> base.rows] /\ base.rows = marked.rows
      /\ base.pos = [pos EXCEPT !.prot = "protected"]
  <2> DEFINE covered == SetProt(listed, "protected")
  <2>1. listed = [pos |-> listed.pos, rows |-> listed.rows]
    BY <1>1 DEF Alike, Sound
  <2> HIDE DEF listed
  <2>2. /\ covered = [pos |-> covered.pos, rows |-> covered.rows] /\ covered.rows = listed.rows
        /\ covered.pos = [listed.pos EXCEPT !.prot = "protected"]
    BY <2>1 DEF SetProt
  <2>3. marked.rows = [listed.rows EXCEPT ![loc[t].row].status = "protected"]
    BY <2>1 DEF SetRow
  <2>4. base = SetRow(covered, loc[t].row, "protected")
    OBVIOUS
  <2> HIDE DEF covered, marked, base
  <2>5. /\ base = [pos |-> base.pos, rows |-> base.rows] /\ base.pos = covered.pos
        /\ base.rows = [covered.rows EXCEPT ![loc[t].row].status = "protected"]
    BY <2>2, <2>4 DEF SetRow
  <2> QED BY <1>1, <2>2, <2>3, <2>5
<1> HIDE DEF base, marked
<1>4. acked.rows = marked.rows /\ acked.pos = [base.pos EXCEPT !.stop = loc[t].stop]
  BY <1>3
<1>5. acked.pos.stage = pos.stage /\ acked.pos.remaining = pos.remaining
  <2>1. Position(base.pos) /\ base.pos.stage = pos.stage /\ base.pos.remaining = pos.remaining
    BY <1>1, <1>3 DEF Position, PosFields
  <2> HIDE DEF acked
  <2> QED BY <1>4, <2>1 DEF Position, PosFields
<1>6. RowsAlike(acked.rows, rows)
  BY <1>2, <1>4 DEF Alike
<1> QED BY <1>5, <1>6 DEF base

LEMMA AcksCover ==
  ASSUME CoverInv, QuantityInv, QuantityInv', NEW t \in Tasks, EstablishAcks(t)
  PROVE  CoverInv'
<1> DEFINE k == loc[t].stage
           listed == [DB EXCEPT !.rows[loc[t].row].listed = TRUE]
           db == [SetRow(SetProt(listed, "protected"), loc[t].row, "protected")
                    EXCEPT !.pos.stop = loc[t].stop]
<1>1. /\ pc[t] = "placed" /\ UNCHANGED exchangeVars /\ faults' = faults
      /\ Local(loc[t]) /\ LocalOK(loc[t])
  BY CoverTypes DEF EstablishAcks, countVars
<1>2. CASE loc[t].answer # "executing"
  BY <1>2, FailuresCover
<1>3. CASE loc[t].answer = "executing"
  <2>1. IF loc[t].guard > 0 THEN GoesOn(t, db, "guard", loc[t]) ELSE Ends(t, db)
    BY <1>3 DEF EstablishAcks
  <2>2. RowsAlike(db.rows, rows) /\ db.pos.stage = pos.stage /\ db.pos.remaining = pos.remaining
    BY AckedWrites
  <2> HIDE DEF db
  <2>3. Fits("placed", loc[t], pos, rows, Loose)
    BY <1>1, FitsNow
  <2>4. /\ k \in Stages /\ k <= pos.stage /\ loc[t].row \in DOMAIN rows
        /\ rows[loc[t].row].role = "bracket" /\ rows[loc[t].row].stage = k
        /\ ~HasRow(rows, "guard_stop", k) /\ Loose[k] <= loc[t].guard
    BY <1>3, <2>3 DEF Fits, AtWork, Held
  <2>5. /\ pos.stage \in Nat /\ pos.remaining \in 0..Base /\ pos.remaining <= pos.remaining
        /\ Loose[k] \in Int /\ Free \in 0..Base /\ Free <= Loose[k] /\ Free = FreeIn(oco, guard, sold)
        /\ Quantified(oco, guard) /\ sold \in Int
    BY <2>4, CoverTypes, ConstantsAre
  <2>6. Sole(pc, loc, guard) /\ Untouched(rows, pc, loc, guard)
    BY DEF CoverInv, Covering
  <2>7. CASE loc[t].guard > 0
    <3> DEFINE o == [db |-> db, pc |-> "guard", loc |-> loc[t]]
               kept == [loc[t] EXCEPT !.all = loc[t].all, !.owned = loc[t].owned]
    <3>1. Becomes(t, {o}) /\ o.db = db /\ o.pc = "guard" /\ o.loc = loc[t]
      BY <2>1, <2>7 DEF GoesOn
    <3>2. kept = loc[t]
      BY <1>1 DEF Local, LocFields
    <3> HIDE DEF o
    <3>3. /\ pos' = db.pos /\ rows' = db.rows
          /\ pc' = [pc EXCEPT ![t] = "guard"] /\ loc' = [loc EXCEPT ![t] = kept]
      BY <3>1 DEF Becomes
    <3> HIDE DEF kept
    <3>4. loc' = [loc EXCEPT ![t] = loc[t]] /\ DeskKept
      BY <2>2, <2>5, <3>2, <3>3 DEF DeskKept
    <3>5. \A role, j : HasRow(rows', role, j) <=> HasRow(rows, role, j)
      BY <3>4, AlikeRows DEF DeskKept
    <3>6. Fits("guard", loc[t], pos', rows', Loose)
      BY <2>4, <3>4, <3>5 DEF Fits, AtWork, Held, DeskKept, RowsAlike
    <3>7. Doubt(pc', loc')
      <4>1. pc = [u \in Tasks |-> pc[u]] /\ pc' = [pc EXCEPT ![t] = "guard"]
        BY <3>3 DEF QuantityInv, PlacedInv, ShapeInv
      <4>2. pc'[t] = "guard"
        BY <4>1
      <4> QED BY <4>2 DEF Doubt, Flagging
    <3>8. Covers(pos', pc', loc', guard, FreeIn(oco, guard, sold), faults)
      BY <3>7 DEF Covers
    <3>9. pc[t] # "cancel" /\ pc[t] \in Held /\ pc[t] \in Unguarded
      BY <1>1 DEF Held, Unguarded
    <3> HIDE DEF k
    <3> QED BY <1>1, <3>3, <3>4, <3>6, <3>8, <3>9, DeskShifts
  <2>8. CASE ~(loc[t].guard > 0)
    <3>1. PICK label, locals :
            /\ label \in {"orders", "idle"} /\ pos' = db.pos /\ rows' = db.rows
            /\ pc' = [pc EXCEPT ![t] = label] /\ loc' = [loc EXCEPT ![t] = locals]
      BY <2>1, <2>8, EndsIs
    <3>2. Loose[k] <= 0 /\ Free = 0
      <4>1. loc[t].guard \in 0..Base
        BY <1>1 DEF LocalOK
      <4> HIDE DEF k
      <4> QED BY <2>4, <2>5, <2>8, <4>1, ConstantsAre
    <3>3. ~Canceling(pc, loc, guard)
      <4> SUFFICES ASSUME Canceling(pc, loc, guard) PROVE FALSE
        OBVIOUS
      <4> DEFINE j == loc[Stream].stage
      <4>1. j \in Stages /\ HasRow(rows, "guard_stop", j) /\ guard[j].qty > 0 /\ guard[j].state = "live"
        BY CancelingStops DEF Canceling
      <4>2. k <= j /\ k # j
        BY <2>4, <2>6, <4>1 DEF Untouched
      <4>3. j > k /\ LotsIn(guard[j]) = guard[j].qty /\ guard[j].qty \in Int
        BY <2>4, <2>5, <4>1, <4>2, ConstantsAre DEF LotsIn, Quantified
      <4> HIDE DEF k, j
      <4>4. FreeIn(oco, guard, sold) + LotsIn(guard[j]) <= Loose[k]
        BY <2>4, <2>5, <4>1, <4>3, LooseIs DEF Loose
      <4> QED BY <2>5, <3>2, <4>1, <4>3, <4>4
    <3>4. DeskKept
      BY <2>2, <2>5, <3>1 DEF DeskKept
    <3>5. /\ label \notin Held /\ label \notin Unguarded /\ label # "cancel" /\ label # "account"
          /\ pc[t] # "cancel" /\ Fits(label, locals, pos', rows', Loose)
      BY <1>1, <3>1 DEF Held, Unguarded, Fits, AtWork
    <3>6. ~Canceling(pc', loc', guard)
      <4>1. \A u \in Tasks : pc'[u] = "cancel" => u # t /\ pc[u] = "cancel" /\ loc'[u] = loc[u]
        BY <3>1, <3>5, OneMoves DEF QuantityInv
      <4> QED BY <3>3, <4>1 DEF Canceling, Tasks
    <3>7. Covers(pos', pc', loc', guard, FreeIn(oco, guard, sold), faults)
      BY <2>5, <3>2, <3>6 DEF Covers
    <3> HIDE DEF k
    <3> QED BY <1>1, <3>1, <3>4, <3>5, <3>7, DeskShifts
  <2> QED BY <2>7, <2>8
<1> QED BY <1>2, <1>3

-----------------------------------------------------------------------------
(* A task has its answer; nothing else of its locals changes.               *)
LEMMA Answered ==
  ASSUME PlacedInv, NEW t \in Tasks, NEW label, NEW answer, Answer(t, label, answer)
  PROVE  /\ pc'[t] = label /\ loc'[t].answer = answer
         /\ loc'[t].stage = loc[t].stage /\ loc'[t].lots = loc[t].lots
         /\ loc'[t].row = loc[t].row /\ loc'[t].guard = loc[t].guard
         /\ \A u \in Tasks : u # t => pc'[u] = pc[u] /\ loc'[u] = loc[u]
         /\ pc' = [pc EXCEPT ![t] = label] /\ loc' = [loc EXCEPT ![t] = loc'[t]]
<1> DEFINE locals == [loc[t] EXCEPT !.answer = answer]
<1>1. pc' = [pc EXCEPT ![t] = label] /\ loc' = [loc EXCEPT ![t] = locals]
  BY DEF Answer
<1>2. Local(loc[t])
  BY DEF PlacedInv, ShapeInv
<1>3. /\ locals.answer = answer /\ locals.stage = loc[t].stage /\ locals.lots = loc[t].lots
      /\ locals.row = loc[t].row /\ locals.guard = loc[t].guard
  BY <1>2 DEF Local, LocFields
<1> HIDE DEF locals
<1> QED BY <1>1, <1>3, OneMoves

(* A request that was refused, or was for nothing.                          *)
LEMMA RefusalCovers ==
  ASSUME CoverInv, QuantityInv, QuantityInv', UNCHANGED <<pos, rows, oco, guard, sold, faults>>,
         NEW t \in Tasks, NEW label, NEW answer, Answer(t, label, answer),
         \/ pc[t] = "place" /\ label = "placed" /\ answer = "error"
         \/ pc[t] = "guard" /\ label = "guarded" /\ answer = "error"
         \/ pc[t] = "unwind" /\ label = "unwound"
  PROVE  CoverInv'
<1> DEFINE locals == loc'[t]
<1>1. PlacedInv
  BY DEF QuantityInv
<1>2. /\ locals.answer = answer /\ locals.stage = loc[t].stage /\ locals.row = loc[t].row
      /\ pc' = [pc EXCEPT ![t] = label] /\ loc' = [loc EXCEPT ![t] = locals]
  BY <1>1, Answered
<1> HIDE DEF locals
<1>3. Fits(pc[t], loc[t], pos, rows, Loose)
  BY FitsNow
<1>4. Fits(label, locals, pos', rows', Loose)
  BY <1>2, <1>3 DEF Fits, AtWork, Held
<1>5. /\ pc[t] # "cancel" /\ label # "cancel" /\ label # "account"
      /\ label \in Held => pc[t] \in Held /\ locals.stage = loc[t].stage
      /\ label \in Unguarded => pc[t] \in Unguarded
      /\ Flagging(pc[t], loc[t]) => Flagging(label, locals)
  BY <1>2 DEF Held, Unguarded, Flagging
<1>6. DeskAlike /\ UNCHANGED exchangeVars
  <2>1. pos.remaining <= pos.remaining
    BY CoverTypes, ConstantsAre
  <2> QED BY <2>1 DEF DeskAlike, DeskKept, RowsAlike, exchangeVars
<1> QED BY <1>2, <1>4, <1>5, <1>6, DeskMoves

(* The orders of one stage change: what is loose then.                      *)
LEMMA StageChanges ==
  ASSUME QuantityInv, QuantityInv', sold' = sold, NEW k \in Stages,
         \A j \in Stages : j # k => oco'[j] = oco[j] /\ guard'[j] = guard[j],
         NEW more, more = (LotsIn(oco'[k]) + LotsIn(guard'[k])) - (LotsIn(oco[k]) + LotsIn(guard[k]))
  PROVE  LET h == LooseIn(oco', guard', sold')
         IN  /\ FreeIn(oco', guard', sold') = Free - more
             /\ h[k] = Loose[k] - more
             /\ \A j \in Stages : /\ j < k => h[j] = Loose[j]
                                  /\ h[j] \in Int /\ Loose[j] \in Int
                                  /\ more \in Nat => h[j] <= Loose[j]
<1> DEFINE h == LooseIn(oco', guard', sold')
<1>1. /\ Quantified(oco, guard) /\ Quantified(oco', guard') /\ sold \in Int /\ sold' \in Int
      /\ Free = FreeIn(oco, guard, sold) /\ Free \in 0..Base
  BY CoverTypes, CoverTypesNext
<1>2. more \in Int
  <2>1. /\ LotsIn(oco'[k]) \in Int /\ LotsIn(guard'[k]) \in Int
        /\ LotsIn(oco[k]) \in Int /\ LotsIn(guard[k]) \in Int
    BY <1>1, ConstantsAre DEF LotsIn, Quantified
  <2> QED BY <2>1
<1>3. /\ FreeIn(oco', guard', sold') = FreeIn(oco, guard, sold) - (sold' - sold) - more
      /\ \A j \in Stages : h[j] = Loose[j] - (sold' - sold) - (IF k <= j THEN more ELSE 0)
  BY <1>1, LooseChanges DEF Loose
<1>4. \A j \in Stages : h[j] \in Int /\ Loose[j] \in Int /\ j \in Int
  BY CoverTypes, CoverTypesNext, ConstantsAre
<1> HIDE DEF h
<1>5. sold' - sold = 0 /\ Free \in Int
  BY <1>1, ConstantsAre
<1>6. FreeIn(oco', guard', sold') = Free - more
  BY <1>1, <1>2, <1>3, <1>5
<1>7. \A j \in Stages : h[j] = Loose[j] - (IF k <= j THEN more ELSE 0)
  BY <1>2, <1>3, <1>4, <1>5
<1>8. h[k] = Loose[k] - more
  BY <1>4, <1>7
<1>9. \A j \in Stages : (j < k => h[j] = Loose[j]) /\ (more \in Nat => h[j] <= Loose[j])
  BY <1>2, <1>4, <1>7
<1> QED BY <1>4, <1>6, <1>8, <1>9 DEF h

(* The order list takes what it takes of what is free.                      *)
LEMMA PlaceOcoCovers ==
  ASSUME CoverInv, QuantityInv, QuantityInv', NEW t \in Tasks, PlaceOco(t)
  PROVE  CoverInv'
<1> DEFINE k == loc[t].stage
           size == rows[loc[t].row].qty
           order == [state |-> "live", qty |-> size, stop |-> loc[t].stop, filled |-> "none",
                     placed |-> oco[k].placed + 1]
           h == LooseIn(oco', guard', sold')
<1>1. /\ pc[t] = "place" /\ pos' = pos /\ rows' = rows /\ guard' = guard /\ sold' = sold
      /\ faults' = faults /\ PlacedInv
  BY DEF PlaceOco, countVars, QuantityInv
<1>2. CASE UNCHANGED oco /\ Answer(t, "placed", "error")
  BY <1>1, <1>2, RefusalCovers
<1>3. CASE /\ oco[k].state # "live" /\ size <= Free /\ oco' = [oco EXCEPT ![k] = order]
           /\ \E answer \in {"executing", "incomplete", "error"} : Answer(t, "placed", answer)
  <2>1. PICK answer : Answer(t, "placed", answer)
    BY <1>3
  <2>2. /\ pc'[t] = "placed" /\ loc'[t].stage = k /\ loc'[t].row = loc[t].row
        /\ loc'[t].guard = loc[t].guard
        /\ \A u \in Tasks : u # t => pc'[u] = pc[u] /\ loc'[u] = loc[u]
    BY <1>1, <2>1, Answered
  <2>3. Fits("place", loc[t], pos, rows, Loose)
    BY <1>1, FitsNow
  <2>4. /\ k \in Stages /\ k <= pos.stage /\ loc[t].row \in DOMAIN rows
        /\ rows[loc[t].row].role = "bracket" /\ rows[loc[t].row].stage = k
        /\ ~HasRow(rows, "guard_stop", k) /\ Loose[k] <= size + loc[t].guard
    BY <2>3 DEF Fits, AtWork, Held
  <2>5. oco[k].state = "none" /\ oco[k].filled = "none"
    <3>1. oco[k].placed = 0
      BY <1>1 DEF PlacedInv, PlacersOwn
    <3> QED BY <2>4, <3>1 DEF QuantityInv, ExchangeInv, OrderOK
  <2>6. size \in Int /\ size > 0 /\ size \in Nat /\ loc[t].guard \in Int /\ Free \in Int /\ pos.stage \in Int
    BY <2>4, CoverTypes, ConstantsAre DEF LocalOK
  <2>7. order.state = "live" /\ order.qty = size
    OBVIOUS
  <2> HIDE DEF order
  <2>8. /\ oco'[k] = order /\ \A j \in Stages : j # k => oco'[j] = oco[j]
    BY <1>1, <1>3, <2>4 DEF PlacedInv, ShapeInv
  <2>9. LotsIn(guard'[k]) = LotsIn(guard[k]) /\ LotsIn(guard[k]) \in Int
    BY <1>1, <2>4, CoverTypes, ConstantsAre DEF LotsIn, Quantified
  <2>10. LotsIn(oco'[k]) = size /\ LotsIn(oco[k]) = 0
    BY <2>5, <2>7, <2>8 DEF LotsIn
  <2> HIDE DEF size, k
  <2>11. size = (LotsIn(oco'[k]) + LotsIn(guard'[k])) - (LotsIn(oco[k]) + LotsIn(guard[k]))
    BY <2>6, <2>9, <2>10
  <2>12. /\ FreeIn(oco', guard', sold') = Free - size /\ h[k] = Loose[k] - size
         /\ \A j \in Stages : h[j] \in Int /\ Loose[j] \in Int /\ h[j] <= Loose[j]
    BY <1>1, <2>4, <2>6, <2>8, <2>11, StageChanges
  <2> HIDE DEF h
  <2>13. /\ StagesKnown(pos, rows, oco, guard) /\ GuardsKnown(rows, guard, Loose)
         /\ Sole(pc, loc, guard) /\ Untouched(rows, pc, loc, guard)
         /\ Covers(pos, pc, loc, guard, Free, faults)
    BY CoverTypes DEF CoverInv, Covering, Loose
  <2>14. StagesKnown(pos, rows, oco', guard')
    <3>1. ~(k < pos.stage)
      BY <2>4, <2>5, <2>13 DEF StagesKnown
    <3> QED BY <1>1, <2>4, <2>8, <2>13, <3>1 DEF StagesKnown
  <2>15. GuardsKnown(rows, guard', h)
    <3> SUFFICES ASSUME NEW j \in Stages, guard[j].state = "live", HasRow(rows, "guard_stop", j)
                 PROVE  h[j] <= 0
      BY <1>1, <2>13 DEF GuardsKnown
    <3>1. Loose[j] <= 0 /\ h[j] <= Loose[j] /\ h[j] \in Int /\ Loose[j] \in Int
      BY <2>12, <2>13 DEF GuardsKnown
    <3> QED BY <3>1
  <2>16. Fits("placed", loc'[t], pos, rows, h)
    <3>1. h[k] <= loc[t].guard
      BY <2>4, <2>6, <2>12
    <3> QED BY <2>2, <2>4, <3>1 DEF Fits, AtWork, Held
  <2>17. \A u \in Tasks : u # t => pc[u] \notin Held \cup {"account"} \/ h[loc[u].stage] <= Loose[loc[u].stage]
    BY <2>12, FitsNow DEF Fits, AtWork
  <2>18. Sole(pc', loc', guard')
    BY <1>1, <2>2, <2>13 DEF Sole, Held, Unguarded, k
  <2>19. Canceling(pc', loc', guard') => Canceling(pc, loc, guard) /\ loc'[Stream] = loc[Stream]
    BY <1>1, <2>2 DEF Canceling, Tasks
  <2>20. Untouched(rows, pc', loc', guard')
    BY <2>2, <2>13, <2>19 DEF Untouched
  <2>21. Covers(pos, pc', loc', guard', FreeIn(oco', guard', sold'), faults)
    <3> SUFFICES ASSUME faults = 0, pos.prot = "protected" PROVE Doubt(pc', loc')
      BY DEF Covers
    <3>1. ~(Free = 0)
      BY <1>3, <2>6 DEF size
    <3>2. PICK u \in Tasks : Flagging(pc[u], loc[u])
      BY <2>13, <3>1 DEF Covers, Doubt
    <3>3. u # t
      BY <1>1, <3>2 DEF Flagging
    <3> QED BY <2>2, <3>2, <3>3 DEF Doubt
  <2>22. h = LooseIn(oco', guard', sold')
    BY DEF h
  <2> QED BY <1>1, <2>2, <2>14, <2>15, <2>16, <2>17, <2>18, <2>20, <2>21, <2>22, ExchangeMoves
<1> QED BY <1>2, <1>3 DEF PlaceOco

(* The guard takes all there is left.                                       *)
LEMMA PlaceGuardCovers ==
  ASSUME CoverInv, QuantityInv, QuantityInv', NEW t \in Tasks, PlaceGuard(t)
  PROVE  CoverInv'
<1> DEFINE k == loc[t].stage
           size == loc[t].guard
           order == [state |-> "live", qty |-> size]
           h == LooseIn(oco', guard', sold')
<1>1. /\ pc[t] = "guard" /\ pos' = pos /\ rows' = rows /\ oco' = oco /\ sold' = sold
      /\ faults' = faults /\ PlacedInv
  BY DEF PlaceGuard, countVars, QuantityInv
<1>2. CASE UNCHANGED guard /\ Answer(t, "guarded", "error")
  BY <1>1, <1>2, RefusalCovers
<1>3. CASE /\ size <= Free /\ guard' = [guard EXCEPT ![k] = order]
           /\ \E answer \in {"ok", "error"} : Answer(t, "guarded", answer)
  <2>1. PICK answer : Answer(t, "guarded", answer)
    BY <1>3
  <2>2. /\ pc'[t] = "guarded" /\ loc'[t].stage = k /\ loc'[t].row = loc[t].row
        /\ \A u \in Tasks : u # t => pc'[u] = pc[u] /\ loc'[u] = loc[u]
    BY <1>1, <2>1, Answered
  <2>3. Fits("guard", loc[t], pos, rows, Loose)
    BY <1>1, FitsNow
  <2>4. /\ k \in Stages /\ k <= pos.stage /\ loc[t].row \in DOMAIN rows
        /\ rows[loc[t].row].role = "bracket" /\ rows[loc[t].row].stage = k
        /\ ~HasRow(rows, "guard_stop", k) /\ HasRow(rows, "bracket", k) /\ Loose[k] <= size
    BY <2>3 DEF Fits, AtWork, Held, HasRow
  <2>5. /\ StagesKnown(pos, rows, oco, guard) /\ GuardsKnown(rows, guard, Loose)
        /\ Sole(pc, loc, guard) /\ Untouched(rows, pc, loc, guard)
        /\ \A u \in Tasks : Fits(pc[u], loc[u], pos, rows, Loose)
    BY DEF CoverInv, Covering, Loose
  <2>6. guard[k].state = "none"
    BY <1>1, <2>5 DEF Sole, Unguarded
  <2>7. size \in Nat /\ size > 0 /\ Free \in Int /\ Loose[k] \in Int /\ Free <= Loose[k]
    <3>1. size > 0
      BY <1>1 DEF QuantityInv, DeskInv, Carries
    <3> QED BY <2>4, <3>1, CoverTypes, ConstantsAre DEF LocalOK
  <2>8. order.state = "live" /\ order.qty = size
    OBVIOUS
  <2> HIDE DEF order
  <2>9. /\ guard'[k] = order /\ \A j \in Stages : j # k => guard'[j] = guard[j]
    BY <1>3, <2>4 DEF QuantityInv, ExchangeInv
  <2>10. LotsIn(oco'[k]) = LotsIn(oco[k]) /\ LotsIn(oco[k]) \in Int
    BY <1>1, <2>4, CoverTypes, ConstantsAre DEF LotsIn, Quantified
  <2>11. LotsIn(guard'[k]) = size /\ LotsIn(guard[k]) = 0
    BY <2>6, <2>8, <2>9 DEF LotsIn
  <2> HIDE DEF size, k
  <2>12. size = (LotsIn(oco'[k]) + LotsIn(guard'[k])) - (LotsIn(oco[k]) + LotsIn(guard[k]))
    BY <2>7, <2>10, <2>11
  <2>13. /\ FreeIn(oco', guard', sold') = Free - size /\ h[k] = Loose[k] - size
         /\ \A j \in Stages : h[j] \in Int /\ Loose[j] \in Int /\ h[j] <= Loose[j]
    BY <1>1, <2>4, <2>7, <2>9, <2>12, StageChanges
  <2> HIDE DEF h
  <2>14. FreeIn(oco', guard', sold') = 0 /\ h[k] <= 0
    <3>1. size <= Free
      BY <1>3 DEF size
    <3> QED BY <2>4, <2>7, <2>13, <3>1
  <2>15. StagesKnown(pos, rows, oco', guard')
    BY <1>1, <2>4, <2>5, <2>9 DEF StagesKnown
  <2>16. GuardsKnown(rows, guard', h)
    <3> SUFFICES ASSUME NEW j \in Stages
                 PROVE  /\ guard'[j].state # "none" => HasRow(rows, "bracket", j)
                        /\ guard'[j].state = "live"
                             => guard'[j].qty > 0 /\ (HasRow(rows, "guard_stop", j) => h[j] <= 0)
      BY DEF GuardsKnown
    <3>1. CASE j = k
      BY <2>4, <2>7, <2>8, <2>9, <3>1
    <3>2. CASE j # k
      <4>1. guard'[j] = guard[j] /\ h[j] <= Loose[j] /\ h[j] \in Int /\ Loose[j] \in Int
        BY <2>9, <2>13, <3>2
      <4> QED BY <2>5, <4>1 DEF GuardsKnown
    <3> QED BY <3>1, <3>2
  <2>17. Fits("guarded", loc'[t], pos, rows, h)
    BY <2>2, <2>4, <2>14 DEF Fits, AtWork, Held
  <2>18. \A u \in Tasks : u # t => pc[u] \notin Held \cup {"account"} \/ h[loc[u].stage] <= Loose[loc[u].stage]
    BY <2>13, FitsNow DEF Fits, AtWork
  <2>19. Sole(pc', loc', guard')
    <3>1. \A u, v \in Tasks : pc'[u] \in Held /\ pc'[v] \in Held /\ u # v => loc'[u].stage # loc'[v].stage
      BY <1>1, <2>2, <2>5 DEF Sole, Held, k
    <3>2. ASSUME NEW u \in Tasks, pc'[u] \in Unguarded PROVE guard'[loc'[u].stage].state = "none"
      <4>1. u # t /\ pc'[u] = pc[u] /\ loc'[u] = loc[u] /\ pc[u] \in Held
        BY <2>2, <3>2 DEF Unguarded, Held
      <4>2. loc[u].stage # k /\ loc[u].stage \in Stages
        BY <1>1, <2>5, <4>1 DEF Sole, Fits, AtWork, Held, k
      <4> QED BY <2>5, <2>9, <3>2, <4>1, <4>2 DEF Sole
    <3>3. \A u \in Tasks : pc'[u] = "cancel" => u = Stream
      BY <2>2, <2>5 DEF Sole
    <3> QED BY <3>1, <3>2, <3>3 DEF Sole
  <2>20. Canceling(pc', loc', guard') => Canceling(pc, loc, guard) /\ loc'[Stream] = loc[Stream]
    <3> SUFFICES ASSUME pc'[Stream] = "cancel", guard'[loc'[Stream].stage].state = "live"
                 PROVE  Canceling(pc, loc, guard) /\ loc'[Stream] = loc[Stream]
      BY DEF Canceling
    <3>1. Stream \in Tasks /\ Stream # t /\ pc[Stream] = "cancel" /\ loc'[Stream] = loc[Stream]
      BY <2>2 DEF Tasks
    <3>2. loc[Stream].stage \in Stages /\ HasRow(rows, "guard_stop", loc[Stream].stage)
      BY <2>5, <3>1 DEF Fits, QuantityInv, DeskInv, Carries
    <3>3. guard'[loc[Stream].stage] = guard[loc[Stream].stage]
      BY <2>4, <2>9, <3>2
    <3> QED BY <3>1, <3>3 DEF Canceling
  <2>21. Untouched(rows, pc', loc', guard')
    BY <2>2, <2>5, <2>20 DEF Untouched
  <2>22. ~Canceling(pc', loc', guard')
    <3> SUFFICES ASSUME Canceling(pc, loc, guard) PROVE FALSE
      BY <2>20
    <3>1. Free = 0
      BY CancelingStops
    <3> QED BY <1>3, <2>7, <3>1 DEF size
  <2>23. Covers(pos, pc', loc', guard', FreeIn(oco', guard', sold'), faults)
    BY <2>14, <2>22 DEF Covers
  <2>24. h = LooseIn(oco', guard', sold')
    BY DEF h
  <2> QED BY <1>1, <2>2, <2>15, <2>16, <2>17, <2>18, <2>19, <2>21, <2>23, <2>24, ExchangeMoves
<1> QED BY <1>2, <1>3 DEF PlaceGuard

(* The bracket is canceled: its task will flag the position.                *)
LEMMA CancelListCovers ==
  ASSUME CoverInv, QuantityInv, QuantityInv', NEW t \in Tasks, CancelList(t)
  PROVE  CoverInv'
<1> DEFINE k == loc[t].stage
           h == LooseIn(oco', guard', sold')
           more == 0 - oco[k].qty
<1>1. /\ pc[t] = "unwind" /\ pos' = pos /\ rows' = rows /\ guard' = guard /\ sold' = sold
      /\ faults' = faults /\ PlacedInv /\ Answer(t, "unwound", "none")
  BY DEF CancelList, countVars, QuantityInv
<1>2. CASE oco' = oco
  BY <1>1, <1>2, RefusalCovers
<1>3. CASE oco[k].state = "live" /\ oco' = [oco EXCEPT ![k].state = "done"]
  <2>2. /\ pc'[t] = "unwound" /\ loc'[t].stage = k /\ loc'[t].row = loc[t].row
        /\ \A u \in Tasks : u # t => pc'[u] = pc[u] /\ loc'[u] = loc[u]
    BY <1>1, Answered
  <2>3. Fits("unwind", loc[t], pos, rows, Loose)
    BY <1>1, FitsNow
  <2>4. /\ k \in Stages /\ loc[t].row \in DOMAIN rows
        /\ rows[loc[t].row].role = "bracket" /\ rows[loc[t].row].stage = k
        /\ ~HasRow(rows, "guard_stop", k) /\ HasRow(rows, "bracket", k)
    BY <2>3 DEF Fits, AtWork, Held, HasRow
  <2>5. /\ StagesKnown(pos, rows, oco, guard) /\ GuardsKnown(rows, guard, Loose)
        /\ Sole(pc, loc, guard) /\ Untouched(rows, pc, loc, guard)
        /\ \A u \in Tasks : Fits(pc[u], loc[u], pos, rows, Loose)
    BY DEF CoverInv, Covering, Loose
  <2>6. k = pos.stage /\ pos.stage \in Nat
    BY <1>3, <2>4, StagesBehind, CoverTypes
  <2>7. /\ oco'[k].state = "done" /\ oco'[k].qty = oco[k].qty
        /\ \A j \in Stages : j # k => oco'[j] = oco[j]
    BY <1>1, <1>3, <2>4 DEF PlacedInv, ShapeInv, Order, OrderFields
  <2>8. /\ LotsIn(guard'[k]) = LotsIn(guard[k]) /\ LotsIn(guard[k]) \in Int /\ oco[k].qty \in Int
    BY <1>1, <2>4, CoverTypes, ConstantsAre DEF LotsIn, Quantified
  <2>9. LotsIn(oco'[k]) = 0 /\ LotsIn(oco[k]) = oco[k].qty
    BY <1>3, <2>7 DEF LotsIn
  <2> HIDE DEF k
  <2>10. more = (LotsIn(oco'[k]) + LotsIn(guard'[k])) - (LotsIn(oco[k]) + LotsIn(guard[k]))
    BY <2>8, <2>9
  <2> HIDE DEF more
  <2>11. \A j \in Stages : j < k => h[j] <= Loose[j]
    <3>1. \A j \in Stages : (j < k => h[j] = Loose[j]) /\ h[j] \in Int /\ Loose[j] \in Int
      BY <1>1, <2>4, <2>7, <2>10, StageChanges
    <3> HIDE DEF h
    <3> QED BY <3>1
  <2>12. \A j \in Stages : j \in Int /\ k \in Int
    BY <2>4, ConstantsAre
  <2> HIDE DEF h
  <2>13. StagesKnown(pos, rows, oco', guard')
    BY <1>1, <2>4, <2>5, <2>6, <2>7, <2>12 DEF StagesKnown
  <2>14. GuardsKnown(rows, guard', h)
    <3> SUFFICES ASSUME NEW j \in Stages, guard[j].state = "live", HasRow(rows, "guard_stop", j)
                 PROVE  h[j] <= 0
      BY <1>1, <2>5 DEF GuardsKnown
    <3>1. j <= pos.stage /\ Loose[j] <= 0
      BY <2>5 DEF StagesKnown, GuardsKnown
    <3>2. j # k
      BY <2>4
    <3>3. h[j] <= Loose[j] /\ j < k
      BY <2>6, <2>11, <2>12, <3>1, <3>2
    <3>4. h[j] \in Int /\ Loose[j] \in Int
      BY CoverTypes, CoverTypesNext DEF h
    <3> QED BY <3>1, <3>3, <3>4
  <2>15. Fits("unwound", loc'[t], pos, rows, h)
    BY <2>2, <2>3, <2>4 DEF Fits, AtWork, Held
  <2>16. ASSUME NEW u \in Tasks, u # t
         PROVE  \/ pc[u] \notin Held \cup {"account"}
                \/ pc[u] = "account" /\ HasRow(rows, "bracket", loc[u].stage)
                \/ h[loc[u].stage] <= Loose[loc[u].stage]
    <3> SUFFICES ASSUME pc[u] \in Held \cup {"account"}, ~HasRow(rows, "bracket", loc[u].stage) \/ pc[u] \in Held
                 PROVE  h[loc[u].stage] <= Loose[loc[u].stage]
      OBVIOUS
    <3>1. loc[u].stage \in Stages /\ loc[u].stage <= pos.stage
      BY <2>5 DEF Fits, AtWork
    <3>2. loc[u].stage # k
      BY <1>1, <2>4, <2>5, <2>16 DEF Sole, Held, k
    <3>3. loc[u].stage < k
      BY <2>6, <2>12, <3>1, <3>2
    <3> QED BY <2>11, <3>1, <3>3
  <2>17. Sole(pc', loc', guard')
    BY <1>1, <2>2, <2>5 DEF Sole, Held, Unguarded, k
  <2>18. Canceling(pc', loc', guard') => Canceling(pc, loc, guard) /\ loc'[Stream] = loc[Stream]
    BY <1>1, <2>2 DEF Canceling, Tasks
  <2>19. Untouched(rows, pc', loc', guard')
    BY <2>2, <2>5, <2>18 DEF Untouched
  <2>20. Covers(pos, pc', loc', guard', FreeIn(oco', guard', sold'), faults)
    <3>1. Flagging(pc'[t], loc'[t])
      BY <2>2 DEF Flagging
    <3> QED BY <3>1 DEF Covers, Doubt
  <2>21. h = LooseIn(oco', guard', sold')
    BY DEF h
  <2> QED BY <1>1, <2>2, <2>13, <2>14, <2>15, <2>16, <2>17, <2>19, <2>20, <2>21, ExchangeMoves
<1> QED BY <1>2, <1>3 DEF CancelList

(* The stream cancels the guard of the stage it has left.                   *)
LEMMA CancelGuardCovers ==
  ASSUME CoverInv, QuantityInv, QuantityInv', NEW t \in Tasks, CancelGuard(t)
  PROVE  CoverInv'
<1> DEFINE k == loc[t].stage
           h == LooseIn(oco', guard', sold')
           more == 0 - guard[k].qty
<1>1. /\ pc[t] = "cancel" /\ pos' = pos /\ rows' = rows /\ oco' = oco /\ sold' = sold
      /\ faults' = faults /\ PlacedInv
  BY DEF CancelGuard, countVars, QuantityInv
<1>2. /\ StagesKnown(pos, rows, oco, guard) /\ GuardsKnown(rows, guard, Loose)
      /\ Sole(pc, loc, guard) /\ Untouched(rows, pc, loc, guard)
      /\ Covers(pos, pc, loc, guard, Free, faults)
      /\ \A u \in Tasks : Fits(pc[u], loc[u], pos, rows, Loose)
  BY CoverTypes DEF CoverInv, Covering, Loose
<1>3. PICK answer : Answer(t, "canceled", answer)
  BY DEF CancelGuard
<1>4. /\ pc'[t] = "canceled" /\ \A u \in Tasks : u # t => pc'[u] = pc[u] /\ loc'[u] = loc[u]
  BY <1>1, <1>3, Answered
<1>5. t = Stream /\ k \in Stages /\ k + 1 = pos.stage /\ HasRow(rows, "guard_stop", k)
  BY <1>1, <1>2 DEF Sole, Fits, QuantityInv, DeskInv, Carries
<1>6. ~Canceling(pc', loc', guard')
  BY <1>4, <1>5 DEF Canceling
<1>7. \A f : Fits("canceled", loc'[t], pos, rows, f)
  BY DEF Fits, AtWork, Held
<1>8. \A u \in Tasks : Flagging(pc[u], loc[u]) => Flagging(pc'[u], loc'[u])
  BY <1>1, <1>4 DEF Flagging
<1>9. "canceled" \notin Held /\ "canceled" \notin Unguarded /\ "canceled" # "cancel"
  BY DEF Held, Unguarded
<1> HIDE DEF k
<1>10. CASE guard' = guard
  <2>1. LooseIn(oco', guard', sold') = Loose /\ FreeIn(oco', guard', sold') = Free
    BY <1>1, <1>10, CoverTypes DEF Loose
  <2> HIDE DEF h
  <2>2. Sole(pc', loc', guard')
    BY <1>2, <1>4, <1>9, <1>10 DEF Sole
  <2>3. Covers(pos, pc', loc', guard', Free, faults)
    BY <1>2, <1>6, <1>8 DEF Covers, Doubt
  <2>4. Untouched(rows, pc', loc', guard')
    BY <1>6 DEF Untouched
  <2>5. \A u \in Tasks : Fits(pc'[u], loc'[u], pos, rows, Loose)
    BY <1>2, <1>4, <1>7
  <2> QED BY <1>1, <1>2, <1>10, <2>1, <2>2, <2>3, <2>4, <2>5, ExchangeMoves
<1>11. CASE guard[k].state = "live" /\ guard' = [guard EXCEPT ![k].state = "canceled"]
  <2>1. Canceling(pc, loc, guard)
    BY <1>1, <1>5, <1>11 DEF Canceling, k
  <2>2. Free = 0 /\ \A i \in DOMAIN rows : rows[i].stage <= k
    BY <1>2, <1>5, <2>1, CancelingStops DEF Untouched, k
  <2>3. \A u \in Tasks : pc[u] = "account" /\ loc[u].lots > 0 => loc[u].stage <= k
    BY <1>2, <1>5, <2>1 DEF Untouched, k
  <2>4. HasRow(rows, "bracket", k)
    BY <1>2, <1>5 DEF StagesKnown, HasRow
  <2>5. /\ guard'[k].state = "canceled" /\ guard'[k].qty = guard[k].qty
        /\ \A j \in Stages : j # k => guard'[j] = guard[j]
    BY <1>5, <1>11 DEF QuantityInv, ExchangeInv, GuardOK, GuardFields
  <2>6. /\ LotsIn(oco'[k]) = LotsIn(oco[k]) /\ LotsIn(oco[k]) \in Int /\ guard[k].qty \in Int
    BY <1>1, <1>5, CoverTypes, ConstantsAre DEF LotsIn, Quantified
  <2>7. LotsIn(guard'[k]) = 0 /\ LotsIn(guard[k]) = guard[k].qty
    BY <1>11, <2>5 DEF LotsIn
  <2>8. more = (LotsIn(oco'[k]) + LotsIn(guard'[k])) - (LotsIn(oco[k]) + LotsIn(guard[k]))
    BY <2>6, <2>7
  <2> HIDE DEF more
  <2>9. \A j \in Stages : (j < k => h[j] = Loose[j]) /\ h[j] \in Int /\ Loose[j] \in Int
    BY <1>1, <1>5, <2>5, <2>8, StageChanges
  <2> HIDE DEF h
  <2>10. \A j \in Stages : j \in Int /\ k \in Int /\ (j < k => h[j] <= Loose[j])
    <3>1. \A j \in Stages : j \in Int /\ k \in Int
      BY <1>5, ConstantsAre
    <3> QED BY <2>9, <3>1
  <2>11. StagesKnown(pos, rows, oco', guard')
    <3>1. \A j \in Stages : guard'[j].state # "none" => guard[j].state # "none"
      BY <1>11, <2>5
    <3> QED BY <1>1, <1>2, <3>1 DEF StagesKnown
  <2>12. GuardsKnown(rows, guard', h)
    <3> SUFFICES ASSUME NEW j \in Stages
                 PROVE  /\ guard'[j].state # "none" => HasRow(rows, "bracket", j)
                        /\ guard'[j].state = "live"
                             => guard'[j].qty > 0 /\ (HasRow(rows, "guard_stop", j) => h[j] <= 0)
      BY DEF GuardsKnown
    <3>1. CASE j = k
      BY <2>4, <2>5, <3>1
    <3>2. CASE j # k
      <4>1. guard'[j] = guard[j] /\ j \in Int /\ k \in Int /\ h[j] \in Int /\ Loose[j] \in Int
        BY <2>5, <2>9, <2>10, <3>2
      <4>2. HasRow(rows, "guard_stop", j) => j <= k
        BY <2>2 DEF HasRow
      <4>3. HasRow(rows, "guard_stop", j) => h[j] <= Loose[j]
        BY <2>10, <3>2, <4>1, <4>2
      <4> QED BY <1>2, <4>1, <4>3 DEF GuardsKnown
    <3> QED BY <3>1, <3>2
  <2>13. ASSUME NEW u \in Tasks, pc[u] \in Held PROVE loc[u].stage \in Stages /\ loc[u].stage < k
    <3>1. /\ loc[u].stage \in Stages /\ loc[u].row \in DOMAIN rows /\ rows[loc[u].row].stage = loc[u].stage
          /\ ~HasRow(rows, "guard_stop", loc[u].stage)
      BY <1>2, <2>13 DEF Fits, AtWork, Held
    <3>2. loc[u].stage <= k /\ loc[u].stage # k
      BY <1>5, <2>2, <3>1
    <3> QED BY <2>10, <3>1, <3>2
  <2>14. ASSUME NEW u \in Tasks, u # t
         PROVE  \/ Fits(pc[u], loc[u], pos, rows, h)
                \/ pc[u] \notin Held \cup {"account"}
                \/ pc[u] = "account" /\ HasRow(rows, "bracket", loc[u].stage)
                \/ h[loc[u].stage] <= Loose[loc[u].stage]
    <3>1. CASE pc[u] \in Held
      BY <2>10, <2>13, <3>1
    <3>2. CASE pc[u] = "account"
      <4>1. loc[u].stage \in Stages /\ loc[u].stage <= pos.stage
        BY <1>2, <3>2 DEF Fits, AtWork
      <4>2. CASE loc[u].lots > 0
        <5>1. loc[u].stage <= k
          BY <2>3, <3>2, <4>2
        <5> QED BY <2>4, <2>10, <3>2, <4>1, <5>1
      <4>3. CASE ~(loc[u].lots > 0)
        BY <3>2, <4>1, <4>3 DEF Fits, Held
      <4> QED BY <4>2, <4>3
    <3> QED BY <3>1, <3>2
  <2>15. Sole(pc', loc', guard')
    <3>1. ASSUME NEW u \in Tasks, pc'[u] \in Unguarded PROVE guard'[loc'[u].stage].state = "none"
      <4>1. u # t /\ pc[u] \in Unguarded /\ loc'[u] = loc[u] /\ pc[u] \in Held
        BY <1>4, <1>9, <3>1 DEF Unguarded, Held
      <4>2. loc[u].stage \in Stages /\ loc[u].stage # k
        BY <2>10, <2>13, <4>1
      <4> QED BY <1>2, <2>5, <4>1, <4>2 DEF Sole
    <3> QED BY <1>2, <1>4, <1>9, <3>1 DEF Sole
  <2>16. Untouched(rows, pc', loc', guard')
    BY <1>6 DEF Untouched
  <2>17. Covers(pos, pc', loc', guard', FreeIn(oco', guard', sold'), faults)
    BY <1>2, <1>8, <2>1 DEF Covers, Doubt
  <2>18. h = LooseIn(oco', guard', sold')
    BY DEF h
  <2>19. \A u \in Tasks :
           \/ Fits(pc'[u], loc'[u], pos, rows, h)
           \/ /\ pc'[u] = pc[u] /\ loc'[u] = loc[u]
              /\ \/ pc[u] \notin Held \cup {"account"}
                 \/ pc[u] = "account" /\ HasRow(rows, "bracket", loc[u].stage)
                 \/ h[loc[u].stage] <= Loose[loc[u].stage]
    BY <1>4, <1>7, <2>14
  <2> QED BY <1>1, <2>11, <2>12, <2>15, <2>16, <2>17, <2>18, <2>19, ExchangeMoves
<1> QED BY <1>10, <1>11 DEF CancelGuard, k

-----------------------------------------------------------------------------
LEMMA InitCovers == Init => CoverInv
<1> SUFFICES ASSUME Init PROVE CoverInv
  OBVIOUS
<1>1. /\ pos = Entered /\ rows = <<>> /\ faults = 0 /\ sold = 0
      /\ \A t \in Tasks : pc[t] \in {"idle", "start"} /\ loc[t] = NoLocals
      /\ \A k \in Stages : oco[k].state = "none" /\ guard[k].state = "none"
  BY DEF Init
<1>2. pos.stage = 0 /\ pos.prot = "protection_pending" /\ DOMAIN rows = {}
  BY <1>1 DEF Entered
<1>3. \A k \in Stages : ~(k < 0)
  BY ConstantsAre
<1>4. StagesKnown(pos, rows, oco, guard) /\ GuardsKnown(rows, guard, Loose)
  BY <1>1, <1>2, <1>3 DEF StagesKnown, GuardsKnown
<1>5. \A t \in Tasks : Fits(pc[t], loc[t], pos, rows, Loose)
  BY <1>1 DEF Fits, AtWork, Held
<1>6. Sole(pc, loc, guard) /\ Untouched(rows, pc, loc, guard)
  <2>1. Stream \in Tasks
    BY DEF Tasks
  <2> QED BY <1>1, <2>1 DEF Sole, Untouched, Canceling, Held, Unguarded
<1>7. faults \in Nat /\ Covers(pos, pc, loc, guard, FreeIn(oco, guard, sold), faults)
  BY <1>1, <1>2 DEF Covers
<1> QED BY <1>4, <1>5, <1>6, <1>7 DEF CoverInv, Covering, Loose

LEMMA CoverStep ==
  ASSUME CoverInv, QuantityInv, QuantityInv', Books, StageBooks, [Next]_vars,
         [NoCorrection /\ NoReconcileCloses]_vars
  PROVE  CoverInv'
<1>1. CASE UNCHANGED vars
  BY <1>1, RestCovers DEF vars, taskVars, exchangeVars, countVars
<1>2. ASSUME NEW t \in Tasks, TaskStep(t), NoCorrection, NoReconcileCloses PROVE CoverInv'
  <2>1. CASE ReadBalance(t) \/ EstablishFails(t) \/ EstablishSubmits(t) \/ EstablishUnwinds(t)
    BY <2>1, ReadCovers, FailuresCover, SubmitCovers
  <2>2. CASE PlaceOco(t) \/ EstablishAcks(t) \/ PlaceGuard(t) \/ GuardAcks(t)
    BY <2>2, PlaceOcoCovers, AcksCover, PlaceGuardCovers, GuardAcksCover
  <2>3. CASE CancelList(t) \/ CancelGuard(t)
    BY <2>3, CancelListCovers, CancelGuardCovers
  <2>4. CASE \/ AdvanceGoesOn(t) \/ ListAnswers(t) \/ ReconcileFails(t)
             \/ BalancesRead(t) \/ ReconcilesActive(t) \/ ReconcileAllEnds(t)
    BY <2>4, AnswersCover
  <2>5. ~ReconcileCloses(t) /\ ~CorrectPosition(t)
    BY <1>2 DEF NoCorrection, NoReconcileCloses
  <2> QED BY <1>2, <2>1, <2>2, <2>3, <2>4, <2>5 DEF TaskStep
<1>3. ASSUME NEW t \in Admins, EstablishRequest(t) \/ ReconcileRequest(t) \/ BalancesRequest(t)
      PROVE  CoverInv'
  <2>1. t \in Tasks
    BY DEF Tasks
  <2> QED BY <1>3, <2>1, AnswersCover
<1>4. ASSUME StreamEstablishes PROVE CoverInv'
  <2>1. Stream \in Tasks
    BY DEF Tasks
  <2> QED BY <1>4, <2>1, AnswersCover
<1>5. CASE StreamIgnores \/ StreamFlags \/ StreamListDone
  BY <1>5, StreamCovers
<1>6. CASE StreamFills
  BY <1>6, StreamFillsCover
<1>7. ASSUME NEW k \in Stages, TargetFills(k) \/ StopFills(k) \/ GuardFills(k) PROVE CoverInv'
  BY <1>7, FillsCover
<1>8. CASE Disconnect \/ Reconnect \/ CrashRestart
  BY <1>8, FaultsCover
<1> QED BY <1>1, <1>2, <1>3, <1>4, <1>5, <1>6, <1>7, <1>8 DEF Next

(* A position that is reported as protected is covered in full by live exit *)
(* orders, once every event is consumed and no task is at work, unless it   *)
(* is cut to the balance or moved on by reconcile() in between              *)
(* (protection.py:430-516, 584-664).                                        *)
THEOREM CoveredWhenProtected ==
  Spec /\ [][NoCorrection /\ NoReconcileCloses]_vars => []ProtectedIsCovered
<1>1. StageBooks /\ QuantityInv /\ QuantityInv' /\ [Next]_vars
        /\ [NoCorrection /\ NoReconcileCloses]_vars => StageBooks'
  <2>1. CASE UNCHANGED vars
    BY <2>1 DEF vars, streamVars, exchangeVars, StageBooks, TargetHits, HitsIn, Events, Protective, Foreign, Trading, Stages, Sides, EventStatuses
  <2> QED BY <2>1, StageBooksStep
<1>2. Books /\ QuantityInv /\ QuantityInv' /\ [Next]_vars
        /\ [NoCorrection /\ NoReconcileCloses]_vars => Books'
  <2>1. CASE UNCHANGED vars
    BY <2>1 DEF vars, streamVars, exchangeVars, Books, FillLots, Events, Protective, Foreign, Trading, Stages, Sides, EventStatuses
  <2> QED BY <2>1, BooksStep
<1>3. CoverInv /\ QuantityInv /\ QuantityInv' /\ Books /\ StageBooks /\ [Next]_vars
        /\ [NoCorrection /\ NoReconcileCloses]_vars => CoverInv'
  BY CoverStep
<1>4. QuantityInv /\ CoverInv => ProtectedIsCovered
  <2> SUFFICES ASSUME QuantityInv, CoverInv, Quiet, faults = 0, pos.prot = "protected"
               PROVE  Free = 0
    BY DEF ProtectedIsCovered
  <2>1. ~Doubt(pc, loc)
    BY DEF Doubt, Flagging, Quiet
  <2>2. Covers(pos, pc, loc, guard, Free, faults)
    BY CoverTypes DEF CoverInv, Covering
  <2> QED BY <2>1, <2>2 DEF Covers
<1> QED BY <1>1, <1>2, <1>3, <1>4, InitBooks, InitCovers, QuantityInvariant, PTL DEF Spec

(* Hence wherever nothing compares the position with the exchange: the      *)
(* stream and any number of concurrent establish() requests, as in the run  *)
(* of the stream.                                                           *)
THEOREM StreamCoversPosition ==
  ASSUME Reconcilers = {}
  PROVE  Spec => []ProtectedIsCovered
<1>1. Init => NoCompare
  BY InitBooks
<1>2. PlacedInv /\ NoCompare /\ [Next]_vars => NoCompare'
  BY NoCompareStep
<1>3. NoCompare => NoCorrection /\ NoReconcileCloses
  BY DEF NoCompare, Away, NoCorrection, NoReconcileCloses, Comparing, Correcting, CorrectPosition, ReconcileCloses
<1>4. Spec => []NoCompare
  BY <1>1, <1>2, PlacedInvariant, PTL DEF Spec
<1> QED BY <1>3, <1>4, CoveredWhenProtected, PTL
=============================================================================
