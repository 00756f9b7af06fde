---------------------------- MODULE ElliottCounts ----------------------------
(***************************************************************************)
(* The Elliott wave counts of one symbol and timeframe: the windows of     *)
(* confirmed swings that obey the rules of an impulse or a zigzag          *)
(* (elliott/engine.py), and their rows, which every analysed candle        *)
(* invalidates, adds, retires and ranks (elliott/service.py).              *)
(*                                                                         *)
(* How confident a candidate is, is a choice: scoring gives it for its     *)
(* shape and the candle it ends with, 0 below elliott_minimum_confidence.  *)
(***************************************************************************)
EXTENDS MarketStructure

CONSTANTS
  Truncation,     \* elliott_allow_zigzag_truncation
  MaxAlternates,  \* elliott_max_alternate_counts
  Recency         \* candles after which a count is not ranked any more (100)

ASSUME CountsAssumption ==
  /\ Truncation \in BOOLEAN /\ MaxAlternates \in Nat /\ Recency \in Nat

Recent == 20      \* windows start at one of the last 20 swings

Rises(d, a, b) == IF d = "bullish" THEN b > a ELSE b < a
Apart(a, b) == IF a > b THEN a - b ELSE b - a

(* _chronological and _alternates                                           *)
WellOrdered(swings, ids) ==
  \A k \in 1..(Len(ids) - 1) :
    /\ swings[ids[k]].candle < swings[ids[k + 1]].candle
    /\ swings[ids[k]].type # swings[ids[k + 1]].type

(* validate_impulse: p(k) is the price at the end of wave k.                *)
ValidImpulse(swings, ids, d) ==
  LET p(k) == swings[ids[k + 1]].price IN
  /\ WellOrdered(swings, ids)
  /\ Rises(d, p(0), p(2))
  /\ Len(ids) >= 5 => Rises(d, p(1), p(4))
  /\ Len(ids) >= 6 =>
       /\ Apart(p(3), p(2)) >= Min({Apart(p(1), p(0)), Apart(p(5), p(4))})
       /\ Rises(d, p(0), p(5))

(* validate_zigzag                                                          *)
ValidZigzag(swings, ids, d) ==
  LET p(k) == swings[ids[k + 1]].price IN
  /\ WellOrdered(swings, ids)
  /\ Rises(d, p(0), p(2))
  /\ Len(ids) >= 4 => Truncation \/ Rises(d, p(1), p(3))

(* The projection from an anchor: so many thousandths of a wave's length.   *)
Project(d, anchor, length, thousandths) ==
  LET move == (length * thousandths) \div 1000 IN
  IF d = "bullish" THEN anchor + move ELSE anchor - move

Candidate(swings, ids, pattern, confidence) ==
  LET p(k) == swings[ids[k + 1]].price
      d == IF swings[ids[1]].type = "low" THEN "bullish" ELSE "bearish"
      first == Apart(p(1), p(0))
  IN  [pattern |-> pattern, direction |-> d, points |-> ids, confidence |-> confidence,
       origin |-> p(0),
       complete |-> Len(ids) = IF pattern = "impulse" THEN 6 ELSE 4,
       targets |-> IF pattern = "impulse"
                   THEN {Project(d, p(2), first, t) : t \in {1618, 2618}}
                   ELSE {Project(d, p(2), first, t) : t \in {1000, 1618}}]

(* The shapes in the order they are looked for: pattern and swings.         *)
Shapes == <<<<"impulse", 3>>, <<"impulse", 5>>, <<"impulse", 6>>, <<"zigzag", 3>>, <<"zigzag", 4>>>>

(* A window is its shape and the place of its first swing.                  *)
Valid(swings, pattern, ids) ==
  LET d == IF swings[ids[1]].type = "low" THEN "bullish" ELSE "bearish" IN
  IF pattern = "impulse" THEN ValidImpulse(swings, ids, d) ELSE ValidZigzag(swings, ids, d)

(* The windows of the swings in their order, best candidate first: by       *)
(* confidence, then the latest end, then as they were found.                *)
CandidatesAmong(swings, ordered, scoring) ==
  LET n == Len(ordered)
      ids(w) == SubSeq(ordered, w[2], w[2] + Shapes[w[1]][2] - 1)
      windows == {w \in (DOMAIN Shapes) \X (Max({1, n - Recent + 1})..n) :
                    /\ w[2] + Shapes[w[1]][2] - 1 <= n
                    /\ Valid(swings, Shapes[w[1]][1], ids(w))}
      end(w) == swings[Last(ids(w))].candle
      confidence(w) == scoring[Shapes[w[1]][1]][Shapes[w[1]][2]][end(w)]
      before(v, w) ==
        \/ confidence(v) > confidence(w)
        \/ confidence(v) = confidence(w) /\ end(v) > end(w)
        \/ confidence(v) = confidence(w) /\ end(v) = end(w)
           /\ (v[1] < w[1] \/ (v[1] = w[1] /\ v[2] < w[2]))
      taken == Ordered(windows, {p \in (Nat \X Nat) \X (Nat \X Nat) : before(p[1], p[2])})
  IN  <<>> \o [k \in DOMAIN taken |->
         Candidate(swings, ids(taken[k]), Shapes[taken[k][1]][1], confidence(taken[k]))]

(* generate_candidates in the order the service takes them.                 *)
Candidates(swings, known, scoring) ==
  CandidatesAmong(swings, ByDetection(swings, known), scoring)

-----------------------------------------------------------------------------
(* process_elliott_candidates                                              *)

(* A candle beyond the origin of a count ends it; its rank stays written.   *)
Invalidated(counts, i) ==
  [r \in DOMAIN counts |->
     IF /\ counts[r].status \in {"candidate", "primary", "alternate"}
        /\ IF counts[r].direction = "bullish" THEN feed[i].low < counts[r].origin
                                              ELSE feed[i].high > counts[r].origin
     THEN [counts[r] EXCEPT !.status = "invalidated"] ELSE counts[r]]

CountRow(swings, c, i) ==
  [pattern |-> c.pattern, direction |-> c.direction, points |-> c.points,
   start |-> swings[c.points[1]].candle, end |-> swings[Last(c.points)].candle,
   confidence |-> c.confidence, origin |-> c.origin, targets |-> c.targets,
   complete |-> c.complete, at |-> i, status |-> "candidate", rank |-> 0]

(* One pattern of one direction between two candles is one count: the       *)
(* code's pattern_type is both, as in bullish_impulse.                      *)
SameCount(r, s) ==
  /\ r.pattern = s.pattern /\ r.direction = s.direction
  /\ r.start = s.start /\ r.end = s.end

CountRows(swings, found, i) ==
  <<>> \o [k \in DOMAIN found |-> CountRow(swings, found[k], i)]

(* A candidate is a new row unless the count has one, or an earlier         *)
(* candidate has just made it.                                              *)
AddCounts(counts, found, row) ==
  LET graded == {k \in DOMAIN found : found[k].confidence # 0}
      new == Ascending({k \in graded :
               /\ \A r \in DOMAIN counts : ~SameCount(counts[r], row[k])
               /\ \A j \in graded : j < k => ~SameCount(row[j], row[k])})
  IN  counts \o [k \in DOMAIN new |-> row[new[k]]]

Created(counts, swings, known, i, scoring) ==
  LET found == Candidates(swings, known, scoring)
  IN  AddCounts(counts, found, CountRows(swings, found, i))

(* Mutant: a count that is too old keeps its place.                         *)
RetiredNever(counts, i) == counts

(* A count that is too old loses its place: it is complete, or waits.       *)
Retired(counts, i) ==
  [r \in DOMAIN counts |->
     IF counts[r].status \in {"primary", "alternate"} /\ counts[r].at < i - Recency
     THEN [counts[r] EXCEPT !.status = IF counts[r].complete THEN "completed" ELSE "candidate",
                            !.rank = 0]
     ELSE counts[r]]

Rankable(counts, i) ==
  {r \in DOMAIN counts : /\ counts[r].status \notin {"invalidated", "completed"}
                         /\ counts[r].at >= i - Recency}

Better(counts, a, b) ==
  \/ counts[a].confidence > counts[b].confidence
  \/ counts[a].confidence = counts[b].confidence /\ counts[a].at > counts[b].at
  \/ counts[a].confidence = counts[b].confidence /\ counts[a].at = counts[b].at /\ a > b

(* Mutant: one alternate more than configured. *)
RankedBeyond(counts, i) ==
  LET rankable == Rankable(counts, i)
      better == {p \in (DOMAIN counts) \X (DOMAIN counts) : Better(counts, p[1], p[2])}
      place(r) == PlaceOf(r, rankable, better)
  IN  [r \in DOMAIN counts |->
         IF r \notin rankable THEN counts[r]
         ELSE [counts[r] EXCEPT
                 !.status = IF place(r) = 1 THEN "primary"
                            ELSE IF place(r) <= MaxAlternates + 2 THEN "alternate" ELSE "candidate",
                 !.rank = IF place(r) <= MaxAlternates + 2 THEN place(r) ELSE 0]]

Ranked(counts, i) ==
  LET rankable == Rankable(counts, i)
      better == {p \in (DOMAIN counts) \X (DOMAIN counts) : Better(counts, p[1], p[2])}
      place(r) == PlaceOf(r, rankable, better)
  IN  [r \in DOMAIN counts |->
         IF r \notin rankable THEN counts[r]
         ELSE [counts[r] EXCEPT
                 !.status = IF place(r) = 1 THEN "primary"
                            ELSE IF place(r) <= MaxAlternates + 1 THEN "alternate" ELSE "candidate",
                 !.rank = IF place(r) <= MaxAlternates + 1 THEN place(r) ELSE 0]]

CountsAfter(counts, swings, known, i, scoring) ==
  Ranked(Retired(Created(Invalidated(counts, i), swings, known, i, scoring), i), i)

(* recalculate_elliott: every stored candle once more, in time order, with  *)
(* the swings known at its close; with rebuild, from no counts at all.      *)
Recalculated(counts, swings, rebuild, scoring) ==
  LET candles == Window(Len(feed))
      after[k \in 0..Len(candles)] ==
        IF k = 0 THEN IF rebuild THEN <<>> ELSE counts
        ELSE CountsAfter(after[k - 1], swings, KnownSwings(swings, candles[k]), candles[k], scoring)
  IN  after[Len(candles)]
=============================================================================
