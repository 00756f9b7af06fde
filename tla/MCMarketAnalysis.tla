--------------------------- MODULE MCMarketAnalysis ---------------------------
(* Markets for TLC: two equal lows that are swept before a break upwards and *)
(* a fall through its zones; five waves up and a break of their trend; their *)
(* mirror images; a triple bottom of nearly equal lows.                      *)
EXTENDS MarketAnalysis

C(o, h, l, c) == [open |-> o, high |-> h, low |-> l, close |-> c]

Mirror(f) ==
  [k \in DOMAIN f |-> C(50 - f[k].open, 50 - f[k].low, 50 - f[k].high, 50 - f[k].close)]

Swept ==
  <<C(20, 22, 18, 18), C(18, 20, 10, 12), C(12, 24, 12, 22), C(20, 22, 10, 12),
    C(12, 18, 12, 16), C(16, 18, 8, 14), C(14, 28, 14, 28), C(28, 30, 22, 26),
    C(26, 26, 6, 12)>>

Waves ==
  <<C(16, 18, 14, 14), C(14, 16, 10, 12), C(16, 20, 16, 20), C(18, 18, 14, 16),
    C(26, 34, 26, 32), C(30, 32, 24, 26), C(36, 44, 36, 42), C(40, 40, 30, 32)>>

Dip == <<C(30, 30, 20, 20)>>
Crash == <<C(30, 30, 8, 8)>>

Bottoms ==
  <<C(20, 22, 18, 18), C(18, 20, 10, 12), C(12, 24, 12, 22), C(20, 22, 12, 14),
    C(14, 18, 14, 16), C(16, 18, 10, 10), C(12, 20, 12, 18), C(18, 18, 8, 14)>>

MCFeeds == {Swept, Mirror(Swept), Waves \o Dip, Mirror(Waves \o Crash), Bottoms}

(* A count's confidence by its shape; in the first, counts that end early   *)
(* are better than those that end late.                                     *)
Alike(confidence) == [k \in DOMAIN confidence |-> [i \in Places |-> confidence[k]]]
Falling(confidence) ==
  [k \in DOMAIN confidence |-> [i \in Places |-> IF i > 5 THEN Min({1, confidence[k]}) ELSE confidence[k]]]

MCScorings ==
  {[impulse |-> Falling(<<0, 0, 2, 0, 1, 3>>), zigzag |-> Falling(<<0, 0, 1, 2>>)],
   [impulse |-> Alike(<<0, 0, 0, 0, 4, 3>>), zigzag |-> Alike(<<0, 0, 1, 2>>)]}
=============================================================================
