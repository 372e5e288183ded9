--------------------------- MODULE PaymentLifecycle ---------------------------
(***************************************************************************)
(* What the posting procedures promise of one transaction in one mode: its *)
(* money is taken once, at most settled once, and given back at most once. *)
(* A direct payment is taken and delivered in one step; a two-leg payment  *)
(* is first held in the reserve wallet.  Nothing happens after the money   *)
(* went back.                                                              *)
(***************************************************************************)
CONSTANTS Payments,      \* transactions
          Modes,         \* posting modes
          HeldModes      \* the modes that hold the money before they deliver it

VARIABLE phase

PhaseType == [Payments -> [Modes -> {"none", "held", "paid", "returned"}]]

PInit == phase = [t \in Payments |-> [m \in Modes |-> "none"]]

MoveTo(t, m, s) == phase' = [phase EXCEPT ![t][m] = s]

Take(t, m) ==
  /\ phase[t][m] = "none"
  /\ MoveTo(t, m, IF m \in HeldModes THEN "held" ELSE "paid")

Deliver(t, m) ==
  /\ phase[t][m] = "held"
  /\ MoveTo(t, m, "paid")

Return(t, m) ==
  /\ phase[t][m] \in {"held", "paid"}
  /\ MoveTo(t, m, "returned")

PNext == \E t \in Payments, m \in Modes : Take(t, m) \/ Deliver(t, m) \/ Return(t, m)

PSpec == PInit /\ [][PNext]_phase
=============================================================================
