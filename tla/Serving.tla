------------------------------- MODULE Serving -------------------------------
(***************************************************************************)
(* Apps and the hostnames they are served under: a deployment routes the   *)
(* hostnames verified when it gets to read them, and what changes later is *)
(* routed by the next one.                                                 *)
(***************************************************************************)
EXTENDS Naturals

CONSTANTS Projects, Name, MaxDeploys, MaxCommits, MaxEdits,
          Hosts, Callers, MaxClaims, None,
          Budgets       \* bounds on what is asked for, <<about apps, about hostnames>>

ServingAssumption ==
    MaxDeploys \in Nat /\ MaxCommits \in Nat \ {0} /\ MaxClaims \in Nat
ASSUME ServingAssumption

VARIABLES head, hook, pushed, accepted, app, request, dir, image, env, dep, stack, met, gone,
          controls, claim, published, registered, call,
          touched,      \* deployments made before a project's variables or
                        \* verified hostnames last changed
          left          \* of the budget

R == INSTANCE Releases
D == INSTANCE Domains

releases == <<head, hook, pushed, accepted, app, request, dir, image, env, dep, stack, met, gone>>
domains == <<controls, claim, published, registered, call>>
vars == <<releases, domains, touched, left>>

Init ==
    /\ R!ReleasesInit /\ D!DomainsInit
    /\ touched = [p \in Projects |-> 0] /\ left \in Budgets

\* Ownership of the app is checked when a hostname is added to it.
AddDomain == \E p \in app, h \in Hosts : D!Add(p, h)

\* The deployment reads the rows in a transaction of its own.
Configure == \E d \in R!Ids : R!Configure(d, D!VerifiedHosts(dep[d].project))

Spend(i) == left[i] > 0 /\ left' = [left EXCEPT ![i] = @ - 1]

Asked ==
    \/ Spend(1) /\ R!ReleasesAsked /\ UNCHANGED domains
    \/ Spend(2) /\ (D!DomainsAsked \/ AddDomain) /\ UNCHANGED releases

Step ==
    /\ UNCHANGED left
    /\ \/ (R!ReleasesStep \/ Configure) /\ UNCHANGED domains
       \/ D!DomainsStep /\ UNCHANGED releases

Next ==
    /\ Asked \/ Step
    /\ touched' = [p \in Projects |->
          IF env'[p] # env[p] \/ D!VerifiedHosts(p)' # D!VerifiedHosts(p)
          THEN R!Cardinality(R!Begun) ELSE touched[p]]

Spec == Init /\ [][Next]_vars

-----------------------------------------------------------------------------
TagNamesCode == R!TagNamesCode
LatestIsLive == R!LatestIsLive
PushIsLive == R!PushIsLive
VouchedIsProven == D!VouchedIsProven
\* A stack has the variables and routes the hostnames that the app it was
\* deployed for has now, unless these changed after the deployment was asked
\* for: no failure, restart or rollback brings back what was there before.
\* Of a deployment that was asked for before the change nothing is said, and it
\* may well replace the stack of one that was asked for after it.
ConfigIsCurrent ==
    \A n \in R!Names : LET by == stack[n].by  p == dep[by].project IN
       by # R!Nothing => (by > touched[p] =>
          stack[n].env = env[p] /\ stack[n].hosts = D!VerifiedHosts(p))
=============================================================================
