--------------------------- MODULE MCQuotaReserve ---------------------------
(***************************************************************************)
(* Instance of QuotaReserve for TLC: two project names, so that requests   *)
(* race for one name and for the last slot; requests are interchangeable,  *)
(* and so are project names, since each one's kind and name are chosen in  *)
(* Init.                                                                   *)
(***************************************************************************)
EXTENDS QuotaReserve, TLC

Symmetry == Permutations(Requests) \cup Permutations(Projects)
=============================================================================
