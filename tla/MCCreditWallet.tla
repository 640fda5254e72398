--------------------------- MODULE MCCreditWallet ---------------------------
(***************************************************************************)
(* Instance of CreditWallet for TLC: calls are interchangeable, top-ups    *)
(* are too.                                                                *)
(***************************************************************************)
EXTENDS CreditWallet, TLC

Symmetry == Permutations(Calls) \cup Permutations(Topups)
=============================================================================
