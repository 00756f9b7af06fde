------------------------------ MODULE EntryOnce ------------------------------
(***************************************************************************)
(* What order entry promises: a trade setup is claimed at most once, two   *)
(* setups of one fingerprint window are never both claimed, and a claimed  *)
(* setup is handed to the exchange at most once.  A claim is never taken   *)
(* back: neither an error nor a restart makes a setup eligible again.      *)
(***************************************************************************)

CONSTANTS
  Setups,     \* trade setups
  WindowOf    \* WindowOf[s]: the setup_fingerprint of s

VARIABLE claim

Claims == {"free", "claimed", "sent"}

Init == claim = [s \in Setups |-> "free"]

Claim(s) ==
  /\ claim[s] = "free"
  /\ \A t \in Setups : WindowOf[t] = WindowOf[s] => claim[t] = "free"
  /\ claim' = [claim EXCEPT ![s] = "claimed"]

Send(s) ==
  /\ claim[s] = "claimed"
  /\ claim' = [claim EXCEPT ![s] = "sent"]

Next == \E s \in Setups : Claim(s) \/ Send(s)

Spec == Init /\ [][Next]_claim
=============================================================================
