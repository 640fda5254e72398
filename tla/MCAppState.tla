----------------------------- MODULE MCAppState -----------------------------
(***************************************************************************)
(* Two callers and three calls of one client; one mailbox, two codes and   *)
(* three tokens; a limiter of two calls in two ticks; two starts at most   *)
(* of a database with up to three tenants and four people.  And, with      *)
(* nothing of that under way, one account signing in: two requests at once *)
(* and seven in all, one personal token, two secrets and two sets of two   *)
(* backup codes.                                                           *)
(***************************************************************************)
EXTENDS AppState, SignIn, TLC
\* Tenants are the tokens' values and two addresses the codes': a behaviour is
\* about one or the other, and one permutation does for both.
MCKeys == ListingKeys \cup LoginCodes \cup AccessTokens
MCBudgets == {<<2, 2, 0>>, <<1, 1, 3>>, <<2, 0, 2>>}
MCOffers == {[apps |-> 2, cpu |-> 3], [apps |-> 0, cpu |-> 3], [apps |-> 1, cpu |-> 2]}
Symm == Permutations(LoginCodes) \cup Permutations(AccessTokens)

\* The two share no state: a behaviour is about one of them.
Quiet == part = "limiter" /\ now = 0 /\ bucket = <<>>
MCInit == AppStateInit /\ Init
MCNext ==
    \/ Init /\ AppStateNext /\ UNCHANGED vars
    \/ Quiet /\ Next /\ UNCHANGED appStateVars
MCSpec == MCInit /\ [][MCNext]_<<appStateVars, vars>>
=============================================================================
