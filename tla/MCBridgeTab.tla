----------------------------- MODULE MCBridgeTab -----------------------------
(***************************************************************************)
(* What bridges do to each other's Chrome is explored in every combination *)
(* without a tab.  The tab only sees whether its Chrome answers, which is  *)
(* explored with a bridge alone whose Chrome crashes or is closed.         *)
(***************************************************************************)
EXTENDS BridgeTab

Alone ==
  /\ \A b \in Bridges \ {Here} : At(b, {"off"})
  /\ bridge[Here].attempt = 1

Focus == cmd = "none" \/ Alone
=============================================================================
