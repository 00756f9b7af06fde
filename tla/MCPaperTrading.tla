---------------------------- MODULE MCPaperTrading ----------------------------
(* PaperTrading with a few markets of four candles.                         *)
EXTENDS PaperTrading

Zone == <<2, 2, 2>>      \* in the entry zone
Up == <<3, 5, 4>>        \* above it, through the targets
Swing == <<2, 5, 3>>     \* from the zone through the targets
Wide == <<1, 5, 4>>      \* from the stop through the targets

MCFeeds == {<<Zone, Swing, Up, Up>>, <<Up, Zone, Wide, Up>>, <<Zone, Up, Zone, Wide>>}
=============================================================================
