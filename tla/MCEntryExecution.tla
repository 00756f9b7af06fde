-------------------------- MODULE MCEntryExecution --------------------------
(***************************************************************************)
(* Instances of EntryExecution for TLC: two setups, either of one symbol   *)
(* and one fingerprint window, or of two symbols.                          *)
(***************************************************************************)
EXTENDS EntryExecution, TLC

CONSTANTS s1, s2

SameSymbol == [s \in {s1, s2} |-> "BTC"]
TwoSymbols == (s1 :> "BTC") @@ (s2 :> "ETH")
=============================================================================
