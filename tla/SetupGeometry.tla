---------------------------- MODULE SetupGeometry ----------------------------
(***************************************************************************)
(* From zones, swings, pools and sweeps to a trade setup's entry, stop and *)
(* targets: generate_setup and select_execution_targets (smc/setups.py),   *)
(* validate_geometry (trading/validation.py) and select_wave_strategy      *)
(* (elliott/setups.py).  Candle prices are even, so that the middle of a   *)
(* zone is a price.                                                        *)
(***************************************************************************)
EXTENDS ElliottCounts

CONSTANTS
  Buffer,     \* how far the stop is beyond its anchor
  MinReward   \* minimum_reward_to_risk, in tenths

ASSUME GeometryAssumption == Buffer \in Nat \ {0} /\ MinReward \in Nat

(* directional_risk and directional_reward                                  *)
Reward(d, from, to) == IF d = "bullish" THEN to - from ELSE from - to
Beyond(d, price, distance) == IF d = "bullish" THEN price + distance ELSE price - distance

(* _zone: a tradeable gap and a tradeable block of the direction, their     *)
(* overlap if they have one, else the gap.  The queries do not order the    *)
(* rows, so the last of them is any.                                        *)
EntryZones(d, gaps, blocks, i) ==
  LET usable(rows) == {rows[z] : z \in {z \in DOMAIN rows :
                         /\ rows[z].at <= i /\ rows[z].direction = d /\ rows[z].status \in Live}}
      range(z) == [low |-> z.lower, high |-> z.upper]
      both(p) == [low |-> Max({p[1].lower, p[2].lower}), high |-> Min({p[1].upper, p[2].upper})]
  IN  IF usable(gaps) # {} /\ usable(blocks) # {}
      THEN {IF both(p).low < both(p).high THEN both(p) ELSE range(p[1]) :
              p \in usable(gaps) \X usable(blocks)}
      ELSE {range(z) : z \in usable(gaps) \cup usable(blocks)}

(* select_execution_targets: the three nearest that pay enough.             *)
SelectTargets(d, entry, stop, candidates) ==
  LET valid == {t \in candidates : /\ Reward(d, entry, t) > 0
                  /\ 10 * Reward(d, entry, t) >= MinReward * Reward(d, stop, entry)}
      nearest(S) == CHOOSE t \in S : \A u \in S : Reward(d, t, u) >= 0
  IN  IF Reward(d, stop, entry) <= 0 THEN <<>>
      ELSE FoldLeft(LAMBDA chosen, k :
             IF valid \subseteq Range(chosen) THEN chosen
             ELSE Append(chosen, nearest(valid \ Range(chosen))), <<>>, <<1, 2, 3>>)

(* validate_geometry                                                        *)
ValidGeometry(d, zone, entry, stop, targets) ==
  /\ zone.low <= entry /\ entry <= zone.high
  /\ Reward(d, stop, IF d = "bullish" THEN zone.low ELSE zone.high) > 0
  /\ targets # <<>>
  /\ 10 * Reward(d, entry, targets[1]) >= MinReward * Reward(d, stop, entry)
  /\ \A k \in DOMAIN targets : Reward(d, IF k = 1 THEN entry ELSE targets[k - 1], targets[k]) > 0

(* Swings and active pools on the profitable side of the entry.             *)
StructuralTargets(d, entry, swings, known, pools, i) ==
  {t \in {swings[s].price : s \in {s \in known : swings[s].type = IF d = "bullish" THEN "high" ELSE "low"}}
         \cup {pools[p].price : p \in {p \in DOMAIN pools :
                 /\ pools[p].at <= i /\ pools[p].status = "active"
                 /\ pools[p].type = IF d = "bullish" THEN "BSL" ELSE "SSL"}} :
     Reward(d, entry, t) > 0}

(* The stop, beyond the extreme of the sweep, or of the candle and the zone.*)
StopOf(d, zone, sweep, c) ==
  Beyond(d, IF sweep # {} THEN (CHOOSE s \in sweep : TRUE).extreme
            ELSE IF d = "bullish" THEN Min({c.low, zone.low}) ELSE Max({c.high, zone.high}),
         -Buffer)

(* generate_setup: what it may accept, without a reason to reject it; sweep *)
(* holds the row that supports the setup, if one does.  extra: the          *)
(* projections a wave setup is retargeted to after it was accepted.         *)
Setups(d, i, swings, known, gaps, blocks, pools, sweep, wave, extra) ==
  LET setup(zone) ==
        LET entry == (zone.low + zone.high) \div 2
            stop == StopOf(d, zone, sweep, feed[i])
            structural == StructuralTargets(d, entry, swings, known, pools, i)
            fallback == {Beyond(d, entry, m * Reward(d, stop, entry)) : m \in 1..3}
        IN  [direction |-> d, zone |-> zone, entry |-> entry, stop |-> stop, wave |-> wave,
             first |-> SelectTargets(d, entry, stop, structural \cup fallback),
             targets |-> IF wave = "" THEN SelectTargets(d, entry, stop, structural \cup fallback)
                         ELSE SelectTargets(d, entry, stop, structural \cup extra)]
  IN  {s \in {setup(zone) : zone \in EntryZones(d, gaps, blocks, i)} :
         /\ ValidGeometry(d, s.zone, s.entry, s.stop, s.first)
         /\ ValidGeometry(d, s.zone, s.entry, s.stop, s.targets)}

(* The latest event up to candle i, the one the setups are built on.        *)
LatestEvents(events, i) ==
  LET known == {e \in DOMAIN events : events[e].at <= i} IN
  {events[e] : e \in {e \in known : \A f \in known : events[f].at <= events[e].at}}

ConfirmedSweeps(sweeps, i) ==
  LET done == {s \in DOMAIN sweeps : sweeps[s].status = "confirmed" /\ sweeps[s].confirmed <= i} IN
  {sweeps[s] : s \in {s \in done : \A t \in done : sweeps[t].confirmed <= sweeps[s].confirmed}}

(* The structural setups: a reversal after a confirmed sweep, or the        *)
(* continuation of a BOS.                                                   *)
StructuralSetups(i, swings, known, events, gaps, blocks, pools, sweeps, signals) ==
  UNION {LET sweep == {s \in ConfirmedSweeps(sweeps, i) :
                         s.direction = e.direction /\ s.confirmed <= e.at}
         IN  IF sweep = {} /\ e.type # "BOS" THEN {}
             ELSE UNION {Setups(e.direction, i, swings, known, gaps, blocks, pools, one, "", {}) :
                           one \in IF sweep = {} THEN {{}} ELSE {{s} : s \in sweep}} :
           e \in IF signals # {} THEN signals ELSE LatestEvents(events, i)}

(* select_wave_strategy, "" for none.                                       *)
WaveStrategy(count, swept, types) ==
  LET last == Len(count.points) - 1 IN
  IF count.pattern = "impulse" /\ last = 2 /\ swept /\ {"CHoCH", "BOS"} \subseteq types THEN "wave_3"
  ELSE IF count.pattern = "impulse" /\ last = 4 /\ "BOS" \in types THEN "wave_5"
  ELSE IF count.pattern = "zigzag" /\ last = 2 /\ "BOS" \in types THEN "c_wave"
  ELSE ""

(* The setups of the primary count, if structure goes its way.              *)
WaveSetups(i, swings, known, events, gaps, blocks, pools, sweeps, counts, signals) ==
  UNION {LET d == count.direction
             types == {events[e].type : e \in {e \in DOMAIN events :
                         events[e].at <= i /\ events[e].direction = d}}
             aligned == {s \in ConfirmedSweeps(sweeps, i) : s.direction = d}
             wave == WaveStrategy(count, aligned # {}, types)
             uses == Len(count.points) = 3 /\ aligned # {}
         IN  IF wave = "" \/ ~\E e \in IF signals # {} THEN signals ELSE LatestEvents(events, i) :
                               e.direction = d THEN {}
             ELSE UNION {Setups(d, i, swings, known, gaps, blocks, pools, one, wave, count.targets) :
                           one \in IF uses THEN {{s} : s \in aligned} ELSE {{}}} :
           count \in {counts[r] : r \in {r \in DOMAIN counts : counts[r].status = "primary"}}}
=============================================================================
