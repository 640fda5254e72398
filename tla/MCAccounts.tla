----------------------------- MODULE MCAccounts -----------------------------
(***************************************************************************)
(* Instance of Accounts for TLC: one tenant with two owners, two more that *)
(* may be created or signed up, three requests in any interleaving.  The    *)
(* two owners are interchangeable together with their addresses.           *)
(***************************************************************************)
EXTENDS Accounts, TLC

CONSTANTS p1, p2, e1, e2

OwnersOf == {p1, p2}
AddressOf == p1 :> e1 @@ p2 :> e2
SwapOwners == p1 :> p2 @@ p2 :> p1 @@ e1 :> e2 @@ e2 :> e1
Symmetry == Permutations(Requests) \cup Permutations(Invites)
            \cup Permutations(Tenants \ {Home})
            \cup Permutations(People \ OwnersOf)
            \cup Permutations(Emails \ {e1, e2})
            \cup {SwapOwners}
=============================================================================
