------------------------ MODULE CandleHistory_proofs ------------------------
(***************************************************************************)
(* Theorems about CandleHistory, for any number of candles, any page size  *)
(* and any bounds, with the clock of the host ahead by any number: no      *)
(* row says more than that clock allows, a closed candle stays closed, and *)
(* a backfill that says "completed" has covered its window.  The runs      *)
(* check the same formulas on three candles.                               *)
(***************************************************************************)
EXTENDS CandleHistory, TLAPS, WellFoundedInduction, FiniteSetTheorems, SequenceTheorems

(* A set of naturals has a least member. *)
LEMMA LeastNumber ==
  ASSUME NEW S, S \subseteq Nat, S # {}
  PROVE  \E x \in S : \A y \in S : x <= y
<1> DEFINE R == OpToRel(<, Nat)
<1>1. IsWellFoundedOn(R, Nat)
  BY NatLessThanWellFounded
<1>2. \A x, y \in Nat : y < x => <<y, x>> \in R
  BY DEF OpToRel
<1> HIDE DEF R
<1>3. PICK x \in S : \A y \in S : ~ (<<y, x>> \in R)
  BY <1>1, WFMin
<1>4. ASSUME NEW y \in S PROVE x <= y
  <2>1. x \in Nat /\ y \in Nat
    OBVIOUS
  <2>2. ~ (y < x)
    BY <2>1, <1>2, <1>3
  <2> QED
    BY <2>1, <2>2
<1> QED
  BY <1>4

(* A bounded set of naturals has a greatest member. *)
LEMMA GreatestNumber ==
  ASSUME NEW S, NEW n \in Nat, S \subseteq 0..n, S # {}
  PROVE  \E x \in S : \A y \in S : x >= y
<1> DEFINE T == {n - x : x \in S}
<1>1. T \subseteq Nat
  OBVIOUS
<1>2. T # {}
  OBVIOUS
<1>3. PICK m \in T : \A y \in T : m <= y
  <2> HIDE DEF T
  <2> QED BY <1>1, <1>2, LeastNumber
<1>4. PICK x \in S : m = n - x
  BY <1>3
<1>5. ASSUME NEW y \in S PROVE x >= y
  <2>1. n - y \in T
    OBVIOUS
  <2>2. n - x <= n - y
    BY <2>1, <1>3, <1>4
  <2>3. x \in Nat /\ y \in Nat
    OBVIOUS
  <2> QED BY <2>2, <2>3
<1> QED
  BY <1>5

(* The last candle of a page, and the earliest and latest stored one, exist. *)
LEMMA GreatestBar ==
  ASSUME NEW S, S \subseteq Bars, S # {}
  PROVE  Max(S) \in S /\ Min(S) \in S
<1>1. Last \in Nat /\ S \subseteq Nat /\ S \subseteq 0..Last
  BY HistoryAssumption DEF Bars
<1>2. \E x \in S : \A y \in S : x >= y
  BY <1>1, GreatestNumber
<1>3. \E x \in S : \A y \in S : x <= y
  BY <1>1, LeastNumber
<1> QED
  BY <1>2, <1>3 DEF Max, Min

(* A queue that takes a message of its type, or none, stays typed. *)
LEMMA Received ==
  ASSUME NEW S, NEW s \in Seq(S), NEW e \in S, NEW t, t = s \/ t = Append(s, e)
  PROVE  t \in Seq(S)
<1>1. Append(s, e) \in Seq(S)
  BY AppendProperties
<1> QED
  BY <1>1

-----------------------------------------------------------------------------
(***************************************************************************)
(* The invariant.  A message on the wire, a candle a synchronization holds *)
(* back and a row of the table never claim more than the clock of the host *)
(* allows, and a page that waits to be parsed has no candle that has not   *)
(* opened; the coroutines' locals have their types, and a coroutine that   *)
(* fetches has a range to fetch and no verdict yet.                        *)
(***************************************************************************)
TimelyCandles == {c \in Candles : c.bar <= now /\ (c.closed => c.bar < now + Ahead)}
TimelyRows(rows) ==
  \A i \in Bars : (i > now => rows[i] = "none") /\ (rows[i] \in IsClosed => i < now + Ahead)

Klines == [bar : Bars, final : BOOLEAN]
TimelyPage(page) == \A k \in page : k.bar <= now

RunRecords == [pc : {"idle", "fetch", "parse"}, first : Bars, last : Bars,
               ranges : SUBSET (Nat \X Nat), cursor : Nat, page : SUBSET Klines,
               configured : BOOLEAN, status : {"none", "failed", "completed"}]
SyncRecords == [pc : {"idle", "fetch", "parse", "gap", "fill"}, first : Bars, last : Bars,
                cursor : Nat, page : SUBSET Klines, got : SUBSET Candles,
                gaps : SUBSET (Nat \X Nat)]

StoreInv ==
  /\ now \in Bars /\ halted \subseteq Bars
  /\ store \in [Bars -> Rows] /\ TimelyRows(store)
  /\ analysed \subseteq Closed(store)
StreamInv ==
  /\ wire \in Seq(TimelyCandles)
  /\ connected \in BOOLEAN /\ closing \subseteq Closed(store)
RunInv ==
  /\ run \in RunRecords /\ TimelyPage(run.page)
  /\ run.pc # "idle" => run.ranges # {} /\ run.status = "none"
SyncInv ==
  /\ sync \in SyncRecords /\ sync.got \subseteq TimelyCandles /\ TimelyPage(sync.page)
  /\ sync.pc \in {"gap", "fill"} => sync.gaps # {}

HistoryInv == StoreInv /\ StreamInv /\ RunInv /\ SyncInv

(* A row is closed exactly when its candle was. *)
LEMMA RowClosed ==
  ASSUME NEW c
  PROVE  /\ RowOf(c) \in Rows \ {"none"} /\ (c.closed => RowOf(c) \in IsClosed)
         /\ RowOf(c) \in IsClosed => c.closed
<1>1. CASE c.closed
  BY <1>1 DEF RowOf, Rows, IsClosed
<1>2. CASE ~c.closed
  BY <1>2 DEF RowOf, Rows, IsClosed
<1> QED
  BY <1>1, <1>2

(* upsert_candle keeps closed rows and the clock (repositories/market.py:29-41). *)
LEMMA UpsertKeeps ==
  ASSUME NEW rows \in [Bars -> Rows], NEW c \in Candles
  PROVE  /\ Upsert(rows, c) \in [Bars -> Rows]
         /\ \A i \in Bars : rows[i] \in IsClosed => Upsert(rows, c)[i] \in IsClosed
         /\ TimelyRows(rows) /\ c \in TimelyCandles /\ now \in Bars => TimelyRows(Upsert(rows, c))
<1> DEFINE new == Upsert(rows, c)
<1>1. c.bar \in Bars /\ c.closed \in BOOLEAN
  BY DEF Candles
<1>2. new = [rows EXCEPT ![c.bar] = IF @ \in IsClosed /\ ~c.closed THEN @ ELSE RowOf(c)]
  BY DEF Upsert
<1> HIDE DEF new
<1>3. new[c.bar] = rows[c.bar] \/ new[c.bar] = RowOf(c)
  BY <1>1, <1>2
<1>4. \A i \in Bars : i # c.bar => new[i] = rows[i]
  BY <1>1, <1>2
<1>5. rows[c.bar] \in IsClosed => new[c.bar] \in IsClosed
  BY <1>1, <1>2, RowClosed
<1>6. new \in [Bars -> Rows]
  BY <1>1, <1>2, <1>3, <1>4, RowClosed
<1>7. ASSUME TimelyRows(rows), c \in TimelyCandles, now \in Bars PROVE TimelyRows(new)
  <2>1. c.bar <= now /\ (c.closed => c.bar < now + Ahead) /\ now \in Nat /\ c.bar \in Nat
    BY <1>1, <1>7, HistoryAssumption DEF TimelyCandles, Bars
  <2>2. /\ c.bar > now => rows[c.bar] = "none"
        /\ rows[c.bar] \in IsClosed => c.bar < now + Ahead
    BY <1>1, <1>7 DEF TimelyRows
  <2>3. (c.bar > now => new[c.bar] = "none") /\ (new[c.bar] \in IsClosed => c.bar < now + Ahead)
    BY <1>3, <2>1, <2>2, RowClosed
  <2> QED
    BY <1>4, <1>7, <2>3 DEF TimelyRows
<1> QED
  BY <1>4, <1>5, <1>6, <1>7 DEF new

(* So does a transaction that stores a page. *)
LEMMA UpsertAllKeeps ==
  ASSUME NEW rows \in [Bars -> Rows], NEW got
  PROVE  /\ UpsertAll(rows, got) \in [Bars -> Rows]
         /\ \A i \in Bars : rows[i] \in IsClosed => UpsertAll(rows, got)[i] \in IsClosed
         /\ TimelyRows(rows) /\ got \subseteq TimelyCandles /\ now \in Bars
              => TimelyRows(UpsertAll(rows, got))
<1> DEFINE new == UpsertAll(rows, got)
<1>1. ASSUME NEW i \in Bars
      PROVE  /\ new[i] \in Rows
             /\ rows[i] \in IsClosed => new[i] \in IsClosed
             /\ new[i] = rows[i] \/ \E c \in got : c.bar = i /\ new[i] = RowOf(c)
  <2>1. CASE ~ \E c \in got : c.bar = i
    BY <2>1 DEF UpsertAll
  <2>2. CASE \E c \in got : c.bar = i
    <3> DEFINE d == CHOOSE c \in got : c.bar = i
    <3>1. d \in got /\ d.bar = i
      BY <2>2
    <3>2. new[i] = Upsert(rows, d)[i]
      BY <2>2 DEF UpsertAll
    <3> HIDE DEF d, new
    <3>3. new[i] = IF rows[i] \in IsClosed /\ ~d.closed THEN rows[i] ELSE RowOf(d)
      BY <3>1, <3>2 DEF Upsert
    <3> QED
      BY <3>1, <3>3, RowClosed
  <2> QED
    BY <2>1, <2>2
<1>2. new = [i \in Bars |-> new[i]]
  BY DEF UpsertAll
<1> HIDE DEF new
<1>3. new \in [Bars -> Rows]
  BY <1>1, <1>2
<1>4. ASSUME TimelyRows(rows), got \subseteq TimelyCandles, now \in Bars
      PROVE  TimelyRows(new)
  <2> SUFFICES ASSUME NEW i \in Bars
               PROVE (i > now => new[i] = "none") /\ (new[i] \in IsClosed => i < now + Ahead)
    BY DEF TimelyRows
  <2>1. i \in Nat /\ now \in Nat
    BY <1>4, HistoryAssumption DEF Bars
  <2>2. CASE new[i] = rows[i]
    BY <2>2, <1>4 DEF TimelyRows
  <2>3. CASE \E c \in got : c.bar = i /\ new[i] = RowOf(c)
    <3>1. PICK c \in got : c.bar = i /\ new[i] = RowOf(c)
      BY <2>3
    <3>2. i <= now /\ (c.closed => i < now + Ahead)
      BY <3>1, <1>4 DEF TimelyCandles
    <3> QED
      BY <3>1, <3>2, <2>1, RowClosed
  <2> QED
    BY <1>1, <2>2, <2>3
<1> QED
  BY <1>1, <1>3, <1>4 DEF new

(* The exchange serves candles that have opened. *)
LEMMA ServedIs ==
  ASSUME NEW from, NEW to, now \in Bars
  PROVE  /\ Page(from, to) \subseteq Klines /\ TimelyPage(Page(from, to))
         /\ Answer(Served(from, to)) \subseteq Klines /\ TimelyPage(Answer(Served(from, to)))
<1>1. ASSUME NEW bars, bars \subseteq Served(from, to)
      PROVE  Answer(bars) \subseteq Klines /\ TimelyPage(Answer(bars))
  <2>1. ASSUME NEW i \in bars
        PROVE  [bar |-> i, final |-> i < now] \in Klines /\ i <= now
    <3>1. i \in Bars /\ i <= now
      BY <1>1 DEF Served
    <3> QED
      BY <3>1 DEF Klines
  <2> QED
    BY <2>1 DEF Answer, TimelyPage
<1> QED
  BY <1>1 DEF Page

(* normalize_kline calls a candle closed only after it has closed by the    *)
(* clock of the host.                                                       *)
LEMMA ParsedTimely ==
  ASSUME NEW page, page \subseteq Klines, TimelyPage(page), now \in Bars
  PROVE  Parsed(page) \subseteq TimelyCandles
<1>1. ASSUME NEW k \in page PROVE Candle(k.bar, HasClosed(k.bar), k.final) \in TimelyCandles
  <2>1. /\ k.bar \in Bars /\ k.final \in BOOLEAN /\ k.bar <= now
        /\ HasClosed(k.bar) \in BOOLEAN /\ (HasClosed(k.bar) => k.bar < now + Ahead)
    BY DEF Klines, TimelyPage, HasClosed
  <2> QED
    BY <2>1 DEF Candle, Candles, TimelyCandles
<1> QED
  BY <1>1 DEF Parsed

(* The cursor moves behind the last candle of a page. *)
LEMMA CursorType ==
  ASSUME NEW page, page \subseteq Klines, page # {}
  PROVE  NextCursor(page) \in Nat
<1> DEFINE bars == {k.bar : k \in page}
<1>1. bars \subseteq Bars /\ bars # {}
  BY DEF Klines
<1>2. Max(bars) \in Nat
  <2> HIDE DEF bars
  <2>1. Bars \subseteq Nat
    BY HistoryAssumption DEF Bars
  <2> QED
    BY <1>1, <2>1, GreatestBar
<1> QED
  BY <1>2 DEF NextCursor

(* A hole between two stored candles is a range of candles. *)
LEMMA HolesType ==
  ASSUME NEW window, window \subseteq Bars
  PROVE  Holes(window) \subseteq Nat \X Nat
<1>1. ASSUME NEW q \in window \X window, q[1] + 1 < q[2]
      PROVE  <<q[1] + 1, q[2] - 1>> \in Nat \X Nat
  <2>1. window \subseteq Nat
    BY HistoryAssumption DEF Bars
  <2>2. q[1] \in window /\ q[2] \in window
    OBVIOUS
  <2>3. q[1] \in Nat /\ q[2] \in Nat
    BY <2>1, <2>2
  <2> QED
    BY <1>1, <2>3
<1> QED
  BY <1>1 DEF Holes

(* So is every missing range, at the edges of the table too. *)
LEMMA RangesType ==
  ASSUME NEW rows, NEW first \in Bars, NEW last \in Bars
  PROVE  Ranges(rows, first, last) \subseteq Nat \X Nat
<1> DEFINE all == Closed(rows)
<1>1. all \subseteq Bars /\ Bars \subseteq Nat /\ Last \in Nat
  BY HistoryAssumption DEF Closed, Bars
<1>2. Holes(all \cap first..last) \subseteq Nat \X Nat
  BY <1>1, HolesType
<1>3. CASE all = {}
  BY <1>1, <1>3 DEF Ranges
<1>4. CASE all # {}
  <2>1. Max(all) \in Nat /\ Min(all) \in Nat
    BY <1>1, <1>4, GreatestBar
  <2>2. {r \in {<<first, Min(all) - 1>>} : Min(all) > first} \subseteq Nat \X Nat
    BY <1>1, <2>1
  <2>3. {r \in {<<Max(all) + 1, last>>} : Max(all) < last} \subseteq Nat \X Nat
    BY <1>1, <2>1
  <2> HIDE DEF all
  <2> QED BY <1>2, <1>4, <2>2, <2>3 DEF Ranges, all
<1> QED
  BY <1>3, <1>4

(* There is a range that starts first. *)
LEMMA NextRangeIn ==
  ASSUME NEW ranges, ranges \subseteq Nat \X Nat, ranges # {}
  PROVE  NextRange(ranges) \in ranges
<1> DEFINE starts == {r[1] : r \in ranges}
<1>1. starts \subseteq Nat /\ starts # {}
  OBVIOUS
<1>2. PICK x \in starts : \A y \in starts : x <= y
  <2> HIDE DEF starts
  <2> QED BY <1>1, LeastNumber
<1>3. PICK r \in ranges : r[1] = x
  BY <1>2
<1>4. \A q \in ranges : r[1] <= q[1]
  BY <1>2, <1>3
<1> QED
  BY <1>4 DEF NextRange

(* An analysis adds snapshots of the candles it was given, at most. *)
LEMMA AnalyseAdds ==
  ASSUME NEW wanted, Analyse(wanted)
  PROVE  analysed' \subseteq analysed \cup wanted
BY DEF Analyse

(* A run that is over keeps its window and its verdict. *)
LEMMA EndedIs ==
  ASSUME NEW r \in RunRecords, NEW status \in {"failed", "completed"}
  PROVE  /\ Ended(r, status) \in RunRecords
         /\ Ended(r, status).pc = "idle" /\ Ended(r, status).page = {}
         /\ Ended(r, status).status = status
         /\ Ended(r, status).first = r.first /\ Ended(r, status).last = r.last
<1>1. Ended(r, status) \in RunRecords
  BY DEF Ended, NoRun, RunRecords
<1> QED
  BY <1>1 DEF Ended, NoRun

(* After its last range a backfill says "completed" only of a covered window. *)
LEMMA ContinueKeeps ==
  ASSUME NEW r \in RunRecords, r.status = "none", NEW rows \in [Bars -> Rows],
         analysed \subseteq Closed(rows), Continue(r, rows)
  PROVE  /\ run' \in RunRecords /\ run'.page = {}
         /\ run'.pc # "idle" => run'.ranges # {} /\ run'.status = "none"
         /\ run'.status = "completed" => Covered(rows, run'.first, run'.last)
         /\ analysed' \subseteq Closed(rows)
<1>1. CASE r.ranges # {}
  <2>1. NextRange(r.ranges) \in Nat \X Nat
    BY <1>1, NextRangeIn DEF RunRecords
  <2>2. /\ run' = [r EXCEPT !.pc = "fetch", !.page = {}, !.cursor = NextRange(r.ranges)[1]]
        /\ analysed' = analysed
    BY <1>1 DEF Continue, AnalyseNothing
  <2> QED
    BY <1>1, <2>1, <2>2 DEF RunRecords
<1>2. CASE r.ranges = {} /\ ~Covered(rows, r.first, r.last)
  BY <1>2, EndedIs DEF Continue, AnalyseNothing
<1>3. CASE r.ranges = {} /\ Covered(rows, r.first, r.last)
  <2>1. run' = Ended(r, "completed")
    BY <1>3 DEF Continue
  <2>2. analysed' \subseteq Closed(rows)
    <3>1. CASE r.configured
      BY <1>3, <3>1, AnalyseAdds DEF Continue, AnalyseRange
    <3>2. CASE ~r.configured
      BY <1>3, <3>2 DEF Continue, AnalyseNothing
    <3> QED
      BY <3>1, <3>2
  <2> QED
    BY <1>3, <2>1, <2>2, EndedIs
<1> QED
  BY <1>1, <1>2, <1>3

(* A synchronization goes on with a gap, or ends with an analysis. *)
LEMMA SyncEndsKeeps ==
  ASSUME SyncInv, NEW gaps, gaps \subseteq Nat \X Nat, NEW rows \in [Bars -> Rows],
         analysed \subseteq Closed(rows), SyncEnds(gaps, rows), now' = now
  PROVE  SyncInv' /\ analysed' \subseteq Closed(rows)
<1>1. CASE gaps # {}
  BY <1>1 DEF SyncEnds, AnalyseNothing, SyncInv, SyncRecords, TimelyPage
<1>2. CASE gaps = {}
  <2>1. sync' = NoSync /\ analysed' \subseteq Closed(rows)
    BY <1>2, AnalyseAdds DEF SyncEnds, AnalyseRange
  <2> QED
    BY <2>1, HistoryAssumption DEF SyncInv, SyncRecords, NoSync, Bars, TimelyPage
<1> QED
  BY <1>1, <1>2

(* What the table's writers have in common. *)
LEMMA StoreGrows ==
  ASSUME StoreInv, now' = now, halted' = halted,
         store' \in [Bars -> Rows], TimelyRows(store'),
         \A i \in Bars : store[i] \in IsClosed => store'[i] \in IsClosed,
         analysed' \subseteq Closed(store')
  PROVE  StoreInv'
BY DEF StoreInv, TimelyRows

(* The invariant holds at the start. *)
LEMMA InitHistory == Init => HistoryInv
<1> SUFFICES ASSUME Init PROVE HistoryInv
  OBVIOUS
<1>1. StoreInv
  BY HistoryAssumption DEF Init, StoreInv, Bars, Rows, IsClosed, TimelyRows
<1>2. StreamInv
  BY EmptySeq DEF Init, StreamInv
<1>3. RunInv /\ SyncInv
  BY HistoryAssumption DEF Init, RunInv, RunRecords, SyncInv, SyncRecords, NoRun, NoSync, Bars,
                           TimelyPage
<1> QED
  BY <1>1, <1>2, <1>3 DEF HistoryInv

(* The clock and the market stream keep the invariant. *)
LEMMA StreamSteps ==
  ASSUME HistoryInv,
         CandleCloses \/ CandleUpdates \/ StreamStores \/ StreamAnalyses \/ Connect
  PROVE  HistoryInv'
<1> USE DEF HistoryInv
<1>1. CASE CandleCloses
  <2>1. now \in Nat /\ now' = now + 1 /\ now' \in Bars /\ Bars \subseteq Nat
    BY <1>1, HistoryAssumption DEF CandleCloses, StoreInv, Bars
  <2>2. StoreInv'
    <3>2. store' = store /\ TimelyRows(store)
      BY <1>1 DEF CandleCloses, StoreInv
    <3>3. TimelyRows(store)'
      <4>1. ASSUME NEW i \in Bars
            PROVE  /\ i > now' => store[i] = "none"
                   /\ store[i] \in IsClosed => i < now' + Ahead
        BY <2>1, <3>2, HistoryAssumption DEF TimelyRows
      <4> QED
        BY <3>2, <4>1 DEF TimelyRows, IsClosed
    <3> QED
      BY <1>1, <2>1, <3>3 DEF CandleCloses, StoreInv, Closed
  <2>3. TimelyCandles \subseteq TimelyCandles'
    <3>1. \A c \in Candles : c.bar \in Nat
      BY <2>1 DEF Candles
    <3>3. ASSUME NEW c \in TimelyCandles PROVE c \in TimelyCandles'
      <4>1. c \in Candles /\ c.bar <= now /\ (c.closed => c.bar < now + Ahead)
        BY DEF TimelyCandles
      <4>2. c.bar <= now' /\ (c.closed => c.bar < now' + Ahead)
        BY <2>1, <3>1, <4>1, HistoryAssumption
      <4> QED
        BY <4>1, <4>2 DEF TimelyCandles, Candles
    <3> QED
      BY <3>3
  <2>4. StreamInv'
    <3>1. Candle(now, TRUE, TRUE) \in TimelyCandles'
      BY <2>1, HistoryAssumption DEF StoreInv, Candle, Candles, TimelyCandles
    <3>2. wire \in Seq(TimelyCandles')
      BY <2>3, SeqMonotonic DEF StreamInv
    <3>3. wire' = wire \/ wire' = Append(wire, Candle(now, TRUE, TRUE))
      BY <1>1 DEF CandleCloses, Receive
    <3>4. wire' \in Seq(TimelyCandles')
      BY <3>1, <3>2, <3>3, Received
    <3> QED
      BY <1>1, <3>4 DEF CandleCloses, StreamInv, Closed
  <2>5. RunInv' /\ SyncInv'
    <3>2. run' = run /\ sync' = sync
      BY <1>1 DEF CandleCloses
    <3>1. ASSUME NEW page \in SUBSET Klines, TimelyPage(page)
          PROVE  \A k \in page : k.bar <= now'
      <4> SUFFICES ASSUME NEW k \in page PROVE k.bar <= now'
        OBVIOUS
      <4>1. k \in Klines /\ k.bar <= now
        BY <3>1 DEF TimelyPage
      <4>2. k.bar \in Nat
        BY <2>1, <4>1 DEF Klines
      <4> QED
        BY <2>1, <4>1, <4>2
    <3>3. TimelyPage(run.page)' /\ TimelyPage(sync.page)'
      <4>1. run.page \in SUBSET Klines /\ sync.page \in SUBSET Klines
        BY DEF RunInv, RunRecords, SyncInv, SyncRecords
      <4>2. /\ \A k \in run.page : k.bar <= now'
            /\ \A k \in sync.page : k.bar <= now'
        BY <3>1, <4>1 DEF RunInv, SyncInv
      <4> QED
        BY <3>2, <4>2 DEF TimelyPage
    <3> QED
      BY <2>3, <3>2, <3>3 DEF RunInv, SyncInv
  <2> QED
    BY <2>2, <2>4, <2>5
<1>2. CASE CandleUpdates
  <2>1. Candle(now, FALSE, FALSE) \in TimelyCandles
    BY HistoryAssumption DEF StoreInv, Candle, Candles, TimelyCandles, Bars
  <2>2. wire' = wire \/ wire' = Append(wire, Candle(now, FALSE, FALSE))
    BY <1>2 DEF CandleUpdates, Receive
  <2>3. wire' \in Seq(TimelyCandles)
    BY <2>1, <2>2, Received DEF StreamInv
  <2> QED
    BY <1>2, <2>3 DEF CandleUpdates, StoreInv, StreamInv, RunInv, SyncInv, TimelyPage,
                      TimelyCandles,
                      TimelyRows, Closed, clockVars
<1>3. CASE StreamStores
  <2> DEFINE c == Head(wire)
  <2>1. c \in Candles /\ c \in TimelyCandles
    BY <1>3, HeadTailProperties DEF StreamStores, StreamInv, TimelyCandles
  <2>2. /\ store' = Upsert(store, c) /\ wire' = Tail(wire) /\ now' = now /\ halted' = halted
        /\ analysed' = analysed /\ connected' = connected /\ run' = run /\ sync' = sync
        /\ closing' = IF c.closed /\ store[c.bar] \notin IsClosed THEN {c.bar} ELSE {}
    BY <1>3 DEF StreamStores, clockVars
  <2> HIDE DEF c
  <2>3. /\ store' \in [Bars -> Rows] /\ TimelyRows(store')
        /\ \A i \in Bars : store[i] \in IsClosed => store'[i] \in IsClosed
    BY <2>1, <2>2, UpsertKeeps DEF StoreInv
  <2>4. StoreInv'
    BY <2>2, <2>3, StoreGrows DEF StoreInv, Closed
  <2>5. StreamInv'
    <3>1. wire' \in Seq(TimelyCandles)
      BY <1>3, <2>2, HeadTailProperties DEF StreamStores, StreamInv
    <3>2. closing' \subseteq Closed(store')
      <4>1. CASE c.closed /\ store[c.bar] \notin IsClosed
        <5>1. store'[c.bar] = RowOf(c)
          BY <2>1, <2>2, <4>1 DEF Upsert, Candles, StoreInv
        <5> QED
          BY <2>1, <2>2, <4>1, <5>1, RowClosed DEF Closed, Candles
      <4>2. CASE ~(c.closed /\ store[c.bar] \notin IsClosed)
        BY <2>2, <4>2
      <4> QED
        BY <4>1, <4>2
    <3> QED
      BY <2>2, <3>1, <3>2 DEF StreamInv, TimelyCandles
  <2> QED
    BY <2>2, <2>4, <2>5 DEF RunInv, SyncInv, TimelyPage, TimelyCandles
<1>4. CASE StreamAnalyses
  <2>1. analysed' \subseteq Closed(store)
    BY <1>4, AnalyseAdds DEF StreamAnalyses, StoreInv, StreamInv
  <2> QED
    BY <1>4, <2>1 DEF StreamAnalyses, StoreInv, StreamInv, RunInv, SyncInv, TimelyPage,
                      TimelyCandles,
                      TimelyRows, Closed, clockVars
<1>5. CASE Connect
  BY <1>5 DEF Connect, StoreInv, StreamInv, RunInv, SyncInv, TimelyPage, TimelyCandles,
              TimelyRows, Closed,
              clockVars
<1> QED
  BY <1>1, <1>2, <1>3, <1>4, <1>5

(* HistoricalBackfillService.run keeps the invariant. *)
LEMMA BackfillSteps ==
  ASSUME HistoryInv,
         (\E configured \in BOOLEAN : BackfillStarts(configured)) \/ BackfillStep
  PROVE  HistoryInv'
<1> USE DEF HistoryInv
<1>1. ASSUME NEW configured \in BOOLEAN, BackfillStarts(configured) PROVE HistoryInv'
  <2>1. PICK w \in Windows(configured) :
          Continue([NoRun EXCEPT !.first = w[1], !.last = w[2], !.configured = configured,
                                 !.ranges = Ranges(store, w[1], w[2])], store)
    BY <1>1 DEF BackfillStarts
  <2> DEFINE r == [NoRun EXCEPT !.first = w[1], !.last = w[2], !.configured = configured,
                                !.ranges = Ranges(store, w[1], w[2])]
  <2>2. w[1] \in Bars /\ w[2] \in Bars
    BY DEF Windows
  <2>3. Ranges(store, w[1], w[2]) \subseteq Nat \X Nat
    BY <2>2, RangesType
  <2>4. r \in RunRecords /\ r.status = "none"
    BY <2>2, <2>3 DEF NoRun, RunRecords
  <2> HIDE DEF r
  <2>5. RunInv' /\ analysed' \subseteq Closed(store)
    <3>1. Continue(r, store)
      BY <2>1 DEF r
    <3> QED
      BY <2>4, <3>1, ContinueKeeps DEF StoreInv, RunInv, TimelyPage
  <2> QED
    BY <1>1, <2>5 DEF BackfillStarts, StoreInv, StreamInv, SyncInv, TimelyPage,
                      TimelyCandles, TimelyRows,
                      Closed, clockVars, streamVars
<1>5. CASE BackfillServed
  <2>1. /\ run' = [run EXCEPT !.pc = "parse", !.page = Page(run.cursor, NextRange(run.ranges)[2])]
        /\ run.pc = "fetch"
    BY <1>5 DEF BackfillServed
  <2>2. RunInv'
    <3> DEFINE page == Page(run.cursor, NextRange(run.ranges)[2])
    <3>1. page \subseteq Klines /\ TimelyPage(page)
      BY ServedIs DEF StoreInv
    <3> HIDE DEF page
    <3>2. run' \in RunRecords /\ run'.page = page /\ run'.ranges = run.ranges
          /\ run'.status = run.status
      BY <2>1, <3>1 DEF RunInv, RunRecords, page
    <3>3. now' = now
      BY <1>5 DEF BackfillServed, clockVars
    <3> QED
      BY <2>1, <3>1, <3>2, <3>3 DEF RunInv, TimelyPage
  <2> QED
    BY <1>5, <2>2 DEF BackfillServed, StoreInv, StreamInv, SyncInv, TimelyPage,
                      TimelyCandles, TimelyRows,
                      Closed, clockVars, streamVars
<1>2. CASE BackfillStores
  <2> DEFINE r == NextRange(run.ranges)
             page == run.page
             rows == UpsertAll(store, {c \in Parsed(page) : c.closed})
             rest == [run EXCEPT !.ranges = @ \ {r}]
  <2>1. /\ run.pc = "parse" /\ page # {} /\ store' = rows
        /\ IF NextCursor(page) > r[2] THEN Continue(rest, rows)
           ELSE /\ run' = [run EXCEPT !.pc = "fetch", !.page = {}, !.cursor = NextCursor(page)]
                /\ AnalyseNothing
        /\ UNCHANGED <<clockVars, streamVars, sync, runs>>
    BY <1>2 DEF BackfillStores
  <2>2. page \subseteq Klines /\ {c \in Parsed(page) : c.closed} \subseteq TimelyCandles
    BY ParsedTimely DEF StoreInv, RunInv, RunRecords
  <2>3. /\ rows \in [Bars -> Rows] /\ TimelyRows(rows)
        /\ \A i \in Bars : store[i] \in IsClosed => rows[i] \in IsClosed
    BY <2>2, UpsertAllKeeps DEF StoreInv
  <2>4. rest \in RunRecords /\ rest.status = "none"
    BY <2>1 DEF RunInv, RunRecords
  <2>5. NextCursor(page) \in Nat
    BY <2>1, <2>2, CursorType
  <2>6. analysed \subseteq Closed(rows)
    BY <2>3 DEF StoreInv, Closed
  <2> HIDE DEF page, rows, rest
  <2>7. RunInv' /\ analysed' \subseteq Closed(rows)
    <3>1. CASE NextCursor(page) > r[2]
      BY <2>1, <2>3, <2>4, <2>6, <3>1, ContinueKeeps DEF RunInv, TimelyPage
    <3>2. CASE ~(NextCursor(page) > r[2])
      BY <2>1, <2>5, <2>6, <3>2 DEF RunInv, RunRecords, AnalyseNothing, TimelyPage
    <3> QED
      BY <3>1, <3>2
  <2>8. StoreInv'
    BY <2>1, <2>3, <2>7, StoreGrows DEF StoreInv, clockVars
  <2> QED
    BY <2>1, <2>3, <2>7, <2>8 DEF StreamInv, SyncInv, TimelyPage, TimelyCandles, Closed,
                                  clockVars, streamVars
<1>3. CASE BackfillSkips
  <2> DEFINE rest == [run EXCEPT !.ranges = @ \ {NextRange(run.ranges)}]
  <2>1. rest \in RunRecords /\ rest.status = "none" /\ Continue(rest, store)
    BY <1>3 DEF BackfillSkips, RunInv, RunRecords
  <2> HIDE DEF rest
  <2>2. RunInv' /\ analysed' \subseteq Closed(store)
    BY <2>1, ContinueKeeps DEF StoreInv, RunInv, TimelyPage
  <2> QED
    BY <1>3, <2>2 DEF BackfillSkips, StoreInv, StreamInv, SyncInv, TimelyPage, TimelyCandles,
                      TimelyRows,
                      Closed, clockVars, streamVars
<1>4. CASE BackfillFails
  <2>1. RunInv'
    BY <1>4, EndedIs DEF BackfillFails, RunInv, TimelyPage
  <2> QED
    BY <1>4, <2>1 DEF BackfillFails, StoreInv, StreamInv, SyncInv, TimelyPage, TimelyCandles,
                      TimelyRows,
                      Closed, clockVars, streamVars
<1> QED
  BY <1>1, <1>2, <1>3, <1>4, <1>5 DEF BackfillStep, BackfillProceeds

(* HistoricalSyncService.sync keeps the invariant. *)
LEMMA SyncSteps ==
  ASSUME HistoryInv, SyncStarts \/ SyncStep
  PROVE  HistoryInv'
<1> USE DEF HistoryInv
<1>1. CASE SyncStarts
  <2>1. PICK first, last \in Bars :
          sync' = [NoSync EXCEPT !.pc = "fetch", !.first = first, !.last = last, !.cursor = first]
    BY <1>1 DEF SyncStarts
  <2>2. SyncInv'
    <3>1. sync' = [pc |-> "fetch", first |-> first, last |-> last, cursor |-> first,
                   page |-> {}, got |-> {}, gaps |-> {}]
      BY <2>1 DEF NoSync
    <3>2. first \in Nat
      BY HistoryAssumption DEF Bars
    <3> QED
      BY <3>1, <3>2 DEF SyncInv, SyncRecords, TimelyPage
  <2> QED
    BY <1>1, <2>2 DEF SyncStarts, StoreInv, StreamInv, RunInv, TimelyPage, TimelyCandles,
                      TimelyRows, Closed, clockVars, streamVars
<1>5. CASE SyncServed
  <2>1. UNCHANGED <<clockVars, store, analysed, streamVars, run, countVars>>
    BY <1>5 DEF SyncServed
  <2>2. ASSUME NEW page, page \subseteq Klines, TimelyPage(page), NEW pc \in {"parse", "fill"},
               pc = "fill" => sync.pc = "gap", sync' = [sync EXCEPT !.pc = pc, !.page = page]
        PROVE  SyncInv'
    BY <2>1, <2>2 DEF SyncInv, SyncRecords, TimelyPage, TimelyCandles, clockVars
  <2>3. ASSUME sync.pc = "fetch",
               sync' = [sync EXCEPT !.pc = "parse", !.page = Page(sync.cursor, sync.last)]
        PROVE  SyncInv'
    <3> DEFINE page == Page(sync.cursor, sync.last)
    <3>1. page \subseteq Klines /\ TimelyPage(page)
      BY ServedIs DEF StoreInv
    <3>2. sync' = [sync EXCEPT !.pc = "parse", !.page = page]
      BY <2>3
    <3> HIDE DEF page
    <3> QED
      BY <2>2, <3>1, <3>2
  <2>4. ASSUME sync.pc = "gap", NEW gap,
               sync' = [sync EXCEPT !.pc = "fill", !.page = Answer(Served(gap[1], gap[2]))]
        PROVE  SyncInv'
    <3> DEFINE page == Answer(Served(gap[1], gap[2]))
    <3>1. page \subseteq Klines /\ TimelyPage(page)
      BY ServedIs DEF StoreInv
    <3>2. sync' = [sync EXCEPT !.pc = "fill", !.page = page]
      BY <2>4
    <3> HIDE DEF page
    <3> QED
      BY <2>2, <2>4, <3>1, <3>2
  <2>5. SyncInv'
    BY <1>5, <2>3, <2>4 DEF SyncServed
  <2> QED
    BY <2>1, <2>5 DEF StoreInv, StreamInv, RunInv, TimelyPage, TimelyCandles, TimelyRows,
                      Closed,
                      clockVars, streamVars
<1>2. CASE SyncFetches
  <2> DEFINE page == sync.page
             got == sync.got \cup Parsed(page)
             rows == UpsertAll(store, got)
             full == Cardinality(page) = Limit /\ NextCursor(page) <= sync.last
  <2>1. UNCHANGED <<clockVars, streamVars, run, runs>> /\ now' = now /\ halted' = halted
    BY <1>2 DEF SyncFetches, clockVars
  <2>2. page \subseteq Klines /\ got \subseteq TimelyCandles /\ got \subseteq Candles
    BY ParsedTimely DEF StoreInv, SyncInv, SyncRecords, TimelyCandles
  <2>3. CASE full
    <3>1. page # {}
      BY <2>3, FS_EmptySet, HistoryAssumption
    <3>2. NextCursor(page) \in Nat
      BY <2>2, <3>1, CursorType
    <3>3. /\ sync' = [sync EXCEPT !.pc = "fetch", !.page = {}, !.got = got,
                                  !.cursor = NextCursor(page)]
          /\ store' = store /\ analysed' = analysed
      BY <1>2, <2>3 DEF SyncFetches, AnalyseNothing
    <3> HIDE DEF page, got
    <3>4. SyncInv'
      BY <1>2, <2>1, <2>2, <3>2, <3>3 DEF SyncFetches, SyncInv, SyncRecords, TimelyCandles,
                                                    TimelyPage
    <3> QED
      BY <2>1, <3>3, <3>4 DEF StoreInv, StreamInv, RunInv, TimelyPage, TimelyCandles,
                              TimelyRows, Closed,
                              streamVars
  <2>4. CASE ~full
    <3>1. store' = rows /\ SyncEnds(Gaps(rows, sync.first, sync.last), rows)
      BY <1>2, <2>4 DEF SyncFetches
    <3>2. /\ rows \in [Bars -> Rows] /\ TimelyRows(rows)
          /\ \A i \in Bars : store[i] \in IsClosed => rows[i] \in IsClosed
      BY <2>2, UpsertAllKeeps DEF StoreInv
    <3> HIDE DEF rows
    <3>3. analysed \subseteq Closed(rows)
      BY <3>2 DEF StoreInv, Closed
    <3>4. Gaps(rows, sync.first, sync.last) \subseteq Nat \X Nat
      <4>1. sync.first \in Bars /\ sync.last \in Bars
        BY DEF SyncInv, SyncRecords
      <4>2. {i \in sync.first..sync.last : rows[i] # "none"} \subseteq Bars
        BY <4>1, HistoryAssumption DEF Bars
      <4> QED
        BY <4>2, HolesType DEF Gaps
    <3>5. SyncInv' /\ analysed' \subseteq Closed(rows)
      BY <2>1, <3>1, <3>2, <3>3, <3>4, SyncEndsKeeps
    <3>6. StoreInv'
      BY <2>1, <3>1, <3>2, <3>5, StoreGrows
    <3> QED
      BY <2>1, <3>1, <3>2, <3>5, <3>6 DEF StreamInv, RunInv, TimelyPage, TimelyCandles,
                                          Closed, streamVars
  <2> QED
    BY <2>3, <2>4
<1>3. CASE SyncFillsGap
  <2> DEFINE gap == NextRange(sync.gaps)
             rows == UpsertAll(store, Parsed(sync.page))
  <2>1. /\ UNCHANGED <<clockVars, streamVars, run, runs>> /\ now' = now /\ halted' = halted
        /\ store' = rows /\ SyncEnds(sync.gaps \ {gap}, rows)
    BY <1>3 DEF SyncFillsGap, clockVars
  <2>2. /\ rows \in [Bars -> Rows] /\ TimelyRows(rows)
        /\ \A i \in Bars : store[i] \in IsClosed => rows[i] \in IsClosed
    BY ParsedTimely, UpsertAllKeeps DEF StoreInv, SyncInv, SyncRecords
  <2> HIDE DEF rows
  <2>3. analysed \subseteq Closed(rows)
    BY <2>2 DEF StoreInv, Closed
  <2>4. sync.gaps \ {gap} \subseteq Nat \X Nat
    BY DEF SyncInv, SyncRecords
  <2>5. SyncInv' /\ analysed' \subseteq Closed(rows)
    BY <2>1, <2>2, <2>3, <2>4, SyncEndsKeeps
  <2>6. StoreInv'
    BY <2>1, <2>2, <2>5, StoreGrows
  <2> QED
    BY <2>1, <2>2, <2>5, <2>6 DEF StreamInv, RunInv, TimelyPage, TimelyCandles, Closed,
                                  streamVars
<1>4. CASE SyncFails
  <2>1. SyncInv'
    BY <1>4, HistoryAssumption DEF SyncFails, NoSync, SyncInv, SyncRecords, Bars, TimelyPage
  <2> QED
    BY <1>4, <2>1 DEF SyncFails, StoreInv, StreamInv, RunInv, TimelyPage, TimelyCandles,
                      TimelyRows, Closed,
                      clockVars, streamVars
<1> QED
  BY <1>1, <1>2, <1>3, <1>4, <1>5 DEF SyncStep, SyncProceeds

(* Disconnections and crashes keep the invariant. *)
LEMMA FaultSteps ==
  ASSUME HistoryInv, Disconnect \/ CrashRestart \/ UNCHANGED vars
  PROVE  HistoryInv'
<1> USE DEF HistoryInv
<1>1. CASE Disconnect
  BY <1>1, EmptySeq DEF Disconnect, StoreInv, StreamInv, RunInv, SyncInv, TimelyPage,
                        TimelyCandles,
                        TimelyRows, Closed, clockVars
<1>2. CASE CrashRestart
  <2>1. RunInv' /\ SyncInv'
    BY <1>2, HistoryAssumption DEF CrashRestart, RunInv, RunRecords, SyncInv, SyncRecords,
                                   NoRun,
                                   NoSync, Bars, TimelyPage
  <2> QED
    BY <1>2, <2>1, EmptySeq DEF CrashRestart, StoreInv, StreamInv, TimelyRows, Closed, clockVars
<1>3. CASE UNCHANGED vars
  BY <1>3 DEF vars, StoreInv, StreamInv, RunInv, SyncInv, TimelyPage, TimelyCandles,
              TimelyRows, Closed,
              clockVars, streamVars
<1> QED
  BY <1>1, <1>2, <1>3

(* Every step keeps the invariant. *)
LEMMA HistoryStep == HistoryInv /\ [Next]_vars => HistoryInv'
BY StreamSteps, BackfillSteps, SyncSteps, FaultSteps DEF Next

(* The invariant holds throughout: table, wire, pages and coroutines.       *)
THEOREM HistoryInvariant == Spec => []HistoryInv
BY InitHistory, HistoryStep, PTL DEF Spec

(* No candle is stored before it opened or as closed before it closed by    *)
(* the clock of the host, whichever of the three writers stores it, and     *)
(* only closed candles are analysed.                                        *)
THEOREM TypeCorrect == Spec => []HistoryTypeOK
<1>1. HistoryInv => HistoryTypeOK
  <2> SUFFICES ASSUME HistoryInv PROVE HistoryTypeOK
    OBVIOUS
  <2>1. wire \in Seq(Candles)
    <3>1. TimelyCandles \subseteq Candles
      BY DEF TimelyCandles
    <3> QED
      BY <3>1, SeqMonotonic DEF HistoryInv, StreamInv
  <2>2. /\ run.first \in Bars /\ run.last \in Bars /\ run.ranges \subseteq Nat \X Nat
        /\ run.cursor \in Nat /\ sync.got \subseteq Candles
    BY DEF HistoryInv, RunInv, RunRecords, SyncInv, SyncRecords
  <2> QED
    BY <2>1, <2>2 DEF HistoryInv, StoreInv, StreamInv, TimelyRows, HistoryTypeOK
<1> QED
  BY <1>1, HistoryInvariant, PTL

(* A row is written by upsert_candle alone, which keeps a closed one. *)
LEMMA ClosedStays ==
  ASSUME HistoryInv, [Next]_vars
  PROVE  \A i \in Bars : store[i] \in IsClosed => store'[i] \in IsClosed
<1>1. CASE UNCHANGED store
  BY <1>1
<1>2. CASE StreamStores
  <2>1. Head(wire) \in Candles
    BY <1>2, HeadTailProperties DEF StreamStores, HistoryInv, StreamInv, TimelyCandles
  <2> QED
    BY <1>2, <2>1, UpsertKeeps DEF StreamStores, HistoryInv, StoreInv
<1>3. CASE BackfillStores
  BY <1>3, UpsertAllKeeps DEF BackfillStores, HistoryInv, StoreInv
<1>4. CASE SyncFetches
  BY <1>4, UpsertAllKeeps DEF SyncFetches, HistoryInv, StoreInv
<1>5. CASE SyncFillsGap
  BY <1>5, UpsertAllKeeps DEF SyncFillsGap, HistoryInv, StoreInv
<1>6. UNCHANGED store \/ StreamStores \/ BackfillStores \/ SyncFetches \/ SyncFillsGap
  BY DEF Next, vars, CandleCloses, CandleUpdates, StreamAnalyses, Connect, BackfillStarts,
         BackfillStep, BackfillProceeds, BackfillServed, BackfillSkips, BackfillFails, SyncStarts,
         SyncStep, SyncProceeds, SyncServed, SyncFails, Disconnect, CrashRestart
<1> QED
  BY <1>1, <1>2, <1>3, <1>4, <1>5, <1>6

(* A stale open candle, of the stream or of a page fetched before the       *)
(* candle closed, never reopens a closed row.                               *)
THEOREM ClosedCandlesStay == Spec => NeverDowngraded
<1>1. HistoryInv /\ [Next]_vars
        => [\A i \in Bars : store[i] \in IsClosed => store'[i] \in IsClosed]_vars
  BY ClosedStays
<1> QED
  BY <1>1, HistoryInvariant, PTL DEF Spec, NeverDowngraded

(* A verdict is given of a covered window, and what is covered stays so. *)
LEMMA CoverageStep == HistoryInv /\ CompletedIsCovered /\ [Next]_vars => CompletedIsCovered'
<1> SUFFICES ASSUME HistoryInv, CompletedIsCovered, [Next]_vars PROVE CompletedIsCovered'
  OBVIOUS
<1>1. CASE UNCHANGED run
  <2>1. run.first..run.last \subseteq Bars
    BY HistoryAssumption DEF HistoryInv, RunInv, RunRecords, Bars
  <2> QED
    BY <1>1, <2>1, ClosedStays DEF CompletedIsCovered
<1>2. ASSUME NEW configured \in BOOLEAN, BackfillStarts(configured) PROVE CompletedIsCovered'
  <2>1. PICK w \in Windows(configured) :
          Continue([NoRun EXCEPT !.first = w[1], !.last = w[2], !.configured = configured,
                                 !.ranges = Ranges(store, w[1], w[2])], store)
    BY <1>2 DEF BackfillStarts
  <2> DEFINE r == [NoRun EXCEPT !.first = w[1], !.last = w[2], !.configured = configured,
                                !.ranges = Ranges(store, w[1], w[2])]
  <2>2. w[1] \in Bars /\ w[2] \in Bars
    BY DEF Windows
  <2>3. r \in RunRecords /\ r.status = "none" /\ Continue(r, store)
    BY <2>1, <2>2, RangesType DEF NoRun, RunRecords
  <2> HIDE DEF r
  <2> QED
    BY <1>2, <2>3, ContinueKeeps
       DEF BackfillStarts, HistoryInv, StoreInv, Covered, CompletedIsCovered
<1>3. CASE BackfillStores
  <2> DEFINE range == NextRange(run.ranges)
             page == run.page
             rows == UpsertAll(store, {c \in Parsed(page) : c.closed})
             rest == [run EXCEPT !.ranges = @ \ {range}]
  <2>1. CASE NextCursor(page) > range[2]
    <3>1. store' = rows /\ Continue(rest, rows)
      BY <1>3, <2>1 DEF BackfillStores
    <3>2. rest \in RunRecords /\ rest.status = "none"
      BY <1>3 DEF BackfillStores, HistoryInv, RunInv, RunRecords
    <3>3. rows \in [Bars -> Rows] /\ analysed \subseteq Closed(rows)
      BY UpsertAllKeeps DEF HistoryInv, StoreInv, Closed
    <3> HIDE DEF rows, rest
    <3> QED
      BY <3>1, <3>2, <3>3, ContinueKeeps DEF Covered, CompletedIsCovered
  <2>2. CASE ~(NextCursor(page) > range[2])
    <3>1. run' = [run EXCEPT !.pc = "fetch", !.page = {}, !.cursor = NextCursor(page)]
      BY <1>3, <2>2 DEF BackfillStores
    <3>2. run'.status = "none"
      BY <1>3, <3>1 DEF BackfillStores, HistoryInv, RunInv, RunRecords
    <3> QED
      BY <3>2 DEF CompletedIsCovered
  <2> QED
    BY <2>1, <2>2
<1>4. CASE BackfillSkips
  <2> DEFINE rest == [run EXCEPT !.ranges = @ \ {NextRange(run.ranges)}]
  <2>1. rest \in RunRecords /\ rest.status = "none" /\ Continue(rest, store) /\ store' = store
    BY <1>4 DEF BackfillSkips, HistoryInv, RunInv, RunRecords
  <2> HIDE DEF rest
  <2> QED
    BY <2>1, ContinueKeeps DEF HistoryInv, StoreInv, Covered, CompletedIsCovered
<1>5. CASE BackfillFails
  BY <1>5, EndedIs DEF BackfillFails, HistoryInv, RunInv, CompletedIsCovered
<1>8. CASE BackfillServed
  <2>1. run'.status = "none"
    BY <1>8 DEF BackfillServed, HistoryInv, RunInv, RunRecords
  <2> QED
    BY <2>1 DEF CompletedIsCovered
<1>6. CASE CrashRestart
  BY <1>6 DEF CrashRestart, NoRun, CompletedIsCovered
<1>7. \/ UNCHANGED run \/ (\E configured \in BOOLEAN : BackfillStarts(configured))
      \/ BackfillServed \/ BackfillStores \/ BackfillSkips \/ BackfillFails \/ CrashRestart
  BY DEF Next, vars, CandleCloses, CandleUpdates, StreamStores, StreamAnalyses, Connect,
         BackfillStep, BackfillProceeds, SyncStarts, SyncStep, SyncProceeds, SyncServed,
         SyncFetches, SyncFillsGap, SyncFails, Disconnect
<1> QED
  BY <1>1, <1>2, <1>3, <1>4, <1>5, <1>6, <1>7, <1>8

(* A backfill that reports "completed" is right then and ever after,        *)
(* although the stream and a synchronization write the same table.          *)
THEOREM CompletedCovers == Spec => []CompletedIsCovered
<1>1. Init => CompletedIsCovered
  BY DEF Init, NoRun, CompletedIsCovered
<1> QED
  BY <1>1, CoverageStep, HistoryInvariant, PTL DEF Spec
=============================================================================
