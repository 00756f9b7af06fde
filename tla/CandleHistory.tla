---------------------------- MODULE CandleHistory ----------------------------
(***************************************************************************)
(* The stored candles of one symbol and timeframe and everything that      *)
(* writes or analyses them: the market stream (market_data/binance_ws.py), *)
(* the history backfill (services/historical_backfill.py), the manual      *)
(* synchronization (services/historical_sync.py) and the incremental       *)
(* analysis they start (services/analysis_backfill.py).                    *)
(*                                                                         *)
(* Candles are numbered by their open time; candle `now' is still forming  *)
(* and the ones below it are complete at the exchange.  The stream, one    *)
(* backfill and one synchronization run as coroutines.  The exchange serves *)
(* a page in one step and the coroutine parses it in a later one, by the   *)
(* clock of the host: the candle that was forming may have closed by then. *)
(***************************************************************************)
EXTENDS Naturals, Sequences, FiniteSets, FiniteSetsExt

CONSTANTS
  Last,       \* bound: candles 0..Last
  Limit,      \* candles in one page of the exchange's answer
  MaxRuns,    \* bound: backfills and synchronizations
  MaxFaults,  \* bound: disconnections, crashes and failed analyses
  MaxQueue,   \* bound: messages waiting on the socket
  Ahead       \* candles by which the clock of the host runs ahead

ASSUME HistoryAssumption ==
  /\ Last \in Nat /\ Limit \in Nat \ {0}
  /\ MaxRuns \in Nat /\ MaxFaults \in Nat /\ MaxQueue \in Nat /\ Ahead \in Nat

VARIABLES
  now,                 \* the candle that is forming
  halted,              \* candles the exchange does not have: nothing was traded
  store,               \* the candles table
  analysed,            \* candles with an AnalysisSnapshot
  wire, connected,     \* the market stream's socket
  closing,             \* the closed candle the stream is about to process, a set
  run,                 \* HistoricalBackfillService.run
  sync,                \* HistoricalSyncService.sync
  runs, faults

streamVars == <<wire, connected, closing>>
countVars == <<runs, faults>>
clockVars == <<now, halted>>
vars == <<clockVars, store, analysed, streamVars, run, sync, countVars>>

Bars == 0..Last

(* What a row says: is_closed, with the figures the candle closed with, or  *)
(* early, with those it had while it was forming.                           *)
IsClosed == {"early", "closed"}
Rows == {"none", "open"} \cup IsClosed

(* first..last is the aligned range that was asked for, page what the       *)
(* exchange has served and nobody has parsed.                               *)
NoRun == [pc |-> "idle", first |-> 0, last |-> 0, ranges |-> {}, cursor |-> 0,
          page |-> {}, configured |-> FALSE, status |-> "none"]
NoSync == [pc |-> "idle", first |-> 0, last |-> 0, cursor |-> 0, page |-> {}, got |-> {},
           gaps |-> {}]

Init ==
  /\ now \in {0, Last} /\ halted \in SUBSET Bars /\ store = [i \in Bars |-> "none"] /\ analysed = {}
  /\ wire = <<>> /\ connected = FALSE /\ closing = {}
  /\ run = NoRun /\ sync = NoSync
  /\ runs = 0 /\ faults = 0

(***************************************************************************)
(* The table.                                                              *)
(***************************************************************************)
(* final: the figures are those the candle closed with. *)
Candle(i, closed, final) == [bar |-> i, closed |-> closed, final |-> final]

RowOf(c) == IF ~c.closed THEN "open" ELSE IF c.final THEN "closed" ELSE "early"

(* Mutant: whatever arrives is written. *)
Overwrite(rows, c) == [rows EXCEPT ![c.bar] = RowOf(c)]

(* upsert_candle: an update of an open candle does not touch a closed row;  *)
(* a closed candle overwrites whatever there is.                            *)
Upsert(rows, c) ==
  [rows EXCEPT ![c.bar] = IF @ \in IsClosed /\ ~c.closed THEN @ ELSE RowOf(c)]

(* One transaction writes several candles, at most one of each time. *)
UpsertAll(rows, got) ==
  [i \in Bars |-> IF \E c \in got : c.bar = i
                  THEN Upsert(rows, CHOOSE c \in got : c.bar = i)[i] ELSE rows[i]]

Closed(rows) == {i \in Bars : rows[i] \in IsClosed}

(* Mutant: a candle counts as closed once it has opened. *)
HasOpened(i) == i <= now + Ahead

(* normalize_kline: is_closed = close_time < now, by the clock of the host. *)
HasClosed(i) == i < now + Ahead

(* The candles from `from' to `to' the exchange has, and the first Limit of *)
(* them: a page of its answer.                                              *)
Served(from, to) == {i \in Bars \ halted : from <= i /\ i <= to /\ i <= now}
Answer(bars) == {[bar |-> i, final |-> i < now] : i \in bars}
Page(from, to) ==
  Answer({i \in Served(from, to) : Cardinality({j \in Served(from, to) : j < i}) < Limit})
Parsed(page) == {Candle(k.bar, HasClosed(k.bar), k.final) : k \in page}

(***************************************************************************)
(* The market stream: one message at a time; the processing of a closed    *)
(* candle comes after an await.                                            *)
(***************************************************************************)
Receive(message) ==
  wire' = IF connected /\ Len(wire) < MaxQueue THEN Append(wire, message) ELSE wire

(* The candle closes at the exchange.  A full queue would make the socket   *)
(* wait, so the clock of the model does.                                    *)
CandleCloses ==
  /\ now < Last /\ Len(wire) < MaxQueue
  /\ now' = now + 1
  /\ IF now \in halted THEN UNCHANGED wire ELSE Receive(Candle(now, TRUE, TRUE))
  /\ UNCHANGED <<halted, store, analysed, connected, closing, run, sync, countVars>>

CandleUpdates ==
  /\ connected /\ Len(wire) < MaxQueue /\ now \notin halted
  /\ Receive(Candle(now, FALSE, FALSE))
  /\ UNCHANGED <<clockVars, store, analysed, connected, closing, run, sync, countVars>>

(* handle_message: the candle is stored; if it is closed and its row was    *)
(* not, it is processed after the broadcast.                                *)
StreamStores ==
  LET c == Head(wire) IN
  /\ connected /\ closing = {} /\ wire # <<>>
  /\ store' = Upsert(store, c)
  /\ closing' = IF c.closed /\ store[c.bar] \notin IsClosed THEN {c.bar} ELSE {}
  /\ wire' = Tail(wire)
  /\ UNCHANGED <<clockVars, analysed, connected, run, sync, countVars>>

(* process_closed_candle ends with a snapshot, or with an exception that    *)
(* its callers only log.                                                    *)
Analyse(wanted) ==
  \/ analysed' = analysed \cup wanted /\ UNCHANGED faults
  \/ /\ faults < MaxFaults /\ faults' = faults + 1
     /\ \E i \in wanted : analysed' = analysed \cup (wanted \ {i})

StreamAnalyses ==
  /\ closing # {}
  /\ Analyse(closing)
  /\ closing' = {}
  /\ UNCHANGED <<clockVars, store, wire, connected, run, sync, runs>>

Connect ==
  /\ ~connected /\ closing = {}
  /\ connected' = TRUE
  /\ UNCHANGED <<clockVars, store, analysed, wire, closing, run, sync, countVars>>

(***************************************************************************)
(* AnalysisBackfillService.run without rebuild: every stored closed candle *)
(* of the range that has no snapshot, one at a time; it awaits nothing but *)
(* the handoffs of setups, so it is one step here.                         *)
(***************************************************************************)
AnalyseRange(rows, from, to) == Analyse((Closed(rows) \cap from..to) \ analysed)
AnalyseNothing == UNCHANGED <<analysed, faults>>

(***************************************************************************)
(* HistoricalBackfillService.run                                           *)
(***************************************************************************)

(* The holes between two neighbours of a set of candles. *)
Holes(window) ==
  {<<p[1] + 1, p[2] - 1>> : p \in
     {q \in window \X window : q[1] + 1 < q[2]
                               /\ \A k \in window : k <= q[1] \/ k >= q[2]}}

(* The missing ranges: before the earliest row, after the latest, and       *)
(* between two rows of the window.                                          *)
Ranges(rows, first, last) ==
  LET all == Closed(rows) IN
  IF all = {} THEN {<<first, last>>}
  ELSE {r \in {<<first, Min(all) - 1>>} : Min(all) > first}
       \cup {r \in {<<Max(all) + 1, last>>} : Max(all) < last}
       \cup Holes(all \cap first..last)

(* The one that starts first, of those that are left. *)
NextRange(ranges) == CHOOSE r \in ranges : \A q \in ranges : r[1] <= q[1]

(* Mutant: the last candle of the window is not looked at. *)
CoveredButLast(rows, first, last) == \A i \in first..last : i = last \/ rows[i] \in IsClosed

(* verify(): no closed candle of the window is missing.                     *)
Covered(rows, first, last) == \A i \in first..last : rows[i] \in IsClosed

(* run_configured asks for the retention up to the latest closed candle,    *)
(* the API for any window.                                                  *)
Windows(configured) ==
  {w \in Bars \X Bars : w[1] <= w[2] /\ (configured => w[2] + 1 = now + Ahead)}

(* What is left of a run in its status.                                     *)
Ended(r, status) ==
  [NoRun EXCEPT !.first = r.first, !.last = r.last, !.configured = r.configured,
                !.status = status]

(* The ranges are worked off; after the last one comes verify(), without an *)
(* await in between.  run_configured then looks up its latest snapshot and  *)
(* analyses from there on.                                                  *)
Continue(r, rows) ==
  IF r.ranges # {}
  THEN LET next == NextRange(r.ranges)
       IN  run' = [r EXCEPT !.pc = "fetch", !.page = {}, !.cursor = next[1]] /\ AnalyseNothing
  ELSE IF ~Covered(rows, r.first, r.last)
  THEN run' = Ended(r, "failed") /\ AnalyseNothing
  ELSE /\ run' = Ended(r, "completed")
       /\ IF r.configured
          THEN AnalyseRange(rows, IF analysed = {} THEN 0 ELSE Max(analysed) + 1, Last)
          ELSE AnalyseNothing

BackfillStarts(configured) ==
  /\ run.pc = "idle" /\ runs < MaxRuns
  /\ runs' = runs + 1
  /\ \E w \in Windows(configured) :
       Continue([NoRun EXCEPT !.first = w[1], !.last = w[2], !.configured = configured,
                              !.ranges = Ranges(store, w[1], w[2])], store)
  /\ UNCHANGED <<clockVars, store, streamVars, sync>>

(* Mutant: the next page starts with the last candle of this one. *)
LastOf(page) == Max({k.bar : k \in page})

NextCursor(page) == Max({k.bar : k \in page}) + 1

(* The exchange answers the request the coroutine waits for. *)
BackfillServed ==
  /\ run.pc = "fetch"
  /\ run' = [run EXCEPT !.pc = "parse", !.page = Page(run.cursor, NextRange(run.ranges)[2])]
  /\ UNCHANGED <<clockVars, store, analysed, streamVars, sync, countVars>>

BackfillStores ==
  LET r == NextRange(run.ranges)
      rows == UpsertAll(store, {c \in Parsed(run.page) : c.closed})
  IN
  /\ run.pc = "parse" /\ run.page # {}
  /\ store' = rows
  /\ IF NextCursor(run.page) > r[2]
     THEN Continue([run EXCEPT !.ranges = @ \ {r}], rows)
     ELSE /\ run' = [run EXCEPT !.pc = "fetch", !.page = {}, !.cursor = NextCursor(run.page)]
          /\ AnalyseNothing
  /\ UNCHANGED <<clockVars, streamVars, sync, runs>>

(* The exchange has no candle of the range: it is given up. *)
BackfillSkips ==
  /\ run.pc = "parse" /\ run.page = {}
  /\ Continue([run EXCEPT !.ranges = @ \ {NextRange(run.ranges)}], store)
  /\ UNCHANGED <<clockVars, store, streamVars, sync, runs>>

BackfillFails ==
  /\ run.pc # "idle"
  /\ run' = Ended(run, "failed")
  /\ UNCHANGED <<clockVars, store, analysed, streamVars, sync, countVars>>

(***************************************************************************)
(* HistoricalSyncService.sync: all pages are fetched before the first is   *)
(* stored, then the gaps between the stored candles.                       *)
(***************************************************************************)
SyncStarts ==
  /\ sync.pc = "idle" /\ runs < MaxRuns
  /\ runs' = runs + 1
  /\ \E first, last \in Bars :
       /\ first <= last
       /\ sync' = [NoSync EXCEPT !.pc = "fetch", !.first = first, !.last = last,
                                 !.cursor = first]
  /\ UNCHANGED <<clockVars, store, analysed, streamVars, run, faults>>

(* detect_gaps: between two rows of the window, open or closed.             *)
Gaps(rows, first, last) == Holes({i \in first..last : rows[i] # "none"})

SyncEnds(gaps, rows) ==
  IF gaps # {}
  THEN /\ sync' = [sync EXCEPT !.pc = "gap", !.page = {}, !.got = {}, !.gaps = gaps]
       /\ AnalyseNothing
  ELSE sync' = NoSync /\ AnalyseRange(rows, sync.first, sync.last)

(* The exchange answers: a page of the range, or what it has of a gap.      *)
SyncServed ==
  /\ \/ /\ sync.pc = "fetch"
        /\ sync' = [sync EXCEPT !.pc = "parse", !.page = Page(sync.cursor, sync.last)]
     \/ /\ sync.pc = "gap"
        /\ \E gap \in {NextRange(sync.gaps)} :
             sync' = [sync EXCEPT !.pc = "fill", !.page = Answer(Served(gap[1], gap[2]))]
  /\ UNCHANGED <<clockVars, store, analysed, streamVars, run, countVars>>

(* fetch_paginated goes on after a full page; then everything is stored.    *)
SyncFetches ==
  LET got == sync.got \cup Parsed(sync.page)
      rows == UpsertAll(store, got)
  IN
  /\ sync.pc = "parse"
  /\ IF Cardinality(sync.page) = Limit /\ NextCursor(sync.page) <= sync.last
     THEN /\ sync' = [sync EXCEPT !.pc = "fetch", !.page = {}, !.got = got,
                                  !.cursor = NextCursor(sync.page)]
          /\ UNCHANGED store /\ AnalyseNothing
     ELSE store' = rows /\ SyncEnds(Gaps(rows, sync.first, sync.last), rows)
  /\ UNCHANGED <<clockVars, streamVars, run, runs>>

SyncFillsGap ==
  LET rows == UpsertAll(store, Parsed(sync.page)) IN
  /\ sync.pc = "fill"
  /\ store' = rows
  /\ SyncEnds(sync.gaps \ {NextRange(sync.gaps)}, rows)
  /\ UNCHANGED <<clockVars, streamVars, run, runs>>

SyncFails ==
  /\ sync.pc # "idle"
  /\ sync' = NoSync
  /\ UNCHANGED <<clockVars, store, analysed, streamVars, run, countVars>>

(***************************************************************************)
(* Failures.                                                               *)
(***************************************************************************)
Fault == faults < MaxFaults /\ faults' = faults + 1

(* What was not received yet is lost. *)
Disconnect ==
  /\ Fault /\ connected /\ closing = {}
  /\ connected' = FALSE /\ wire' = <<>>
  /\ UNCHANGED <<clockVars, store, analysed, closing, run, sync, runs>>

CrashRestart ==
  /\ Fault
  /\ connected' = FALSE /\ wire' = <<>> /\ closing' = {}
  /\ run' = NoRun /\ sync' = NoSync
  /\ UNCHANGED <<clockVars, store, analysed, runs>>

BackfillProceeds == BackfillServed \/ BackfillStores \/ BackfillSkips
SyncProceeds == SyncServed \/ SyncFetches \/ SyncFillsGap

BackfillStep == BackfillProceeds \/ BackfillFails
SyncStep == SyncProceeds \/ SyncFails

Next ==
  \/ CandleCloses \/ CandleUpdates \/ StreamStores \/ StreamAnalyses \/ Connect
  \/ \E configured \in BOOLEAN : BackfillStarts(configured)
  \/ BackfillStep \/ SyncStarts \/ SyncStep
  \/ Disconnect \/ CrashRestart

Spec == Init /\ [][Next]_vars

(* The loop schedules every coroutine again and a request has a timeout,    *)
(* so it is answered or fails; nothing has to fail.                         *)
FairSpec == Spec /\ WF_vars(BackfillProceeds) /\ WF_vars(SyncProceeds)

-----------------------------------------------------------------------------
Candles == [bar : Bars, closed : BOOLEAN, final : BOOLEAN]

(* No candle is stored before it opened or as closed before it closed by    *)
(* the clock of the host, and only closed candles are analysed              *)
(* (binance_rest.py:44, binance_ws.py:105-122).                             *)
HistoryTypeOK ==
  /\ now \in Bars /\ halted \subseteq Bars /\ store \in [Bars -> Rows]
  /\ \A i \in Bars : (i > now => store[i] = "none") /\ (store[i] \in IsClosed => i < now + Ahead)
  /\ analysed \subseteq Closed(store)
  /\ wire \in Seq(Candles) /\ connected \in BOOLEAN /\ closing \subseteq Closed(store)
  /\ run.first \in Bars /\ run.last \in Bars /\ run.ranges \subseteq Nat \X Nat
  /\ run.cursor \in Nat /\ sync.got \subseteq Candles

(* README.md:113: "Existing closed candles are not downgraded by stale open *)
(* updates", those of a synchronization that fetched its pages before the   *)
(* stream saw the candle close among them.                                  *)
NeverDowngraded == [][\A i \in Bars : store[i] \in IsClosed => store'[i] \in IsClosed]_vars

(* A backfill that reports "completed" is right for good: every candle of   *)
(* its window is stored and closed (historical_backfill.py:210-215).        *)
CompletedIsCovered ==
  run.status = "completed" => \A i \in run.first..run.last : store[i] \in IsClosed

(* A backfill ends, whatever it finds stored and while candles close:       *)
(* the cursor passes every page (historical_backfill.py:166-209).           *)
BackfillEnds == (run.pc # "idle") ~> (run.pc = "idle")

(* A closed row holds the figures its candle closed with, the only ones the *)
(* analysis may see ("The engine uses only closed Binance Production Spot   *)
(* candles already stored", README.md:276).  No run checks it: it fails     *)
(* when a page served while the candle was forming is parsed after its      *)
(* close, or by a clock that runs ahead (binance_rest.py:44).               *)
ClosedIsFinal == \A i \in Bars : store[i] # "early"

(* "Candle synchronization and derived analysis must advance together."     *)
(* (historical_backfill.py:253): the window a configured run completed is   *)
(* analysed.                                                                *)
SyncedIsAnalysed ==
  run.status = "completed" /\ run.configured => run.first..run.last \subseteq analysed
=============================================================================
