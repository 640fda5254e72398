----------------------------- MODULE MCPreviews -----------------------------
(***************************************************************************)
(* An instance of Previews for TLC: two branches whose stacks share a name *)
(* (feat/login and feat-login), and a stack no preview has.                *)
(***************************************************************************)
EXTENDS Previews, TLC

CONSTANTS b1, b2, s1, s2

Shared == b1 :> s1 @@ b2 :> s1
=============================================================================
