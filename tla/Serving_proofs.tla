--------------------------- MODULE Serving_proofs ---------------------------
(***************************************************************************)
(* For any apps, names, hostnames and numbers of deployments, commits,     *)
(* claims and edits, the apps of several tenants sharing names: images     *)
(* hold the code they are named for, the newest success and the newest     *)
(* accepted push of a name are live, unless deployments of the name met or *)
(* a removal or an install replaced its stack; a stack has the present     *)
(* configuration of its app, unless that changed after the deployment was  *)
(* asked for; and a hostname the edge vouches for is proven.  ServingInv   *)
(* is inductive.                                                           *)
(*                                                                         *)
(* And, of the images a project keeps: what a retention pass deletes is    *)
(* outside the rollback window and nobody else's, unless a row appears     *)
(* while it deletes.  RetentionInv is inductive.                           *)
(***************************************************************************)
EXTENDS Serving, ImageRetention, FiniteSetTheorems, WellFoundedInduction, TLAPS

PCs == {"none", "queued", "cloned", "named", "built", "set", "up", "ready", "error", "lost"}
Kept == R!Code \cup {None}
Deployment == [pc : PCs, project : Projects \cup {None}, from : Nat, tag : Kept,
               env : Nat, hosts : SUBSET Hosts]
Row == [status : {"none", "pending", "verified", "gone"}, host : Hosts \cup {None},
        project : Projects \cup {None}, cf : BOOLEAN]
Call == [pc : {"idle", "resolve", "register", "verified", "unregister", "delete"},
         claim : Nat, cf : BOOLEAN]

ReleasesShape ==
    /\ head \in [Projects -> R!Commits] /\ accepted \in [Projects -> Nat]
    /\ env \in [Projects -> Nat] /\ touched \in [Projects -> Nat]
    /\ app \subseteq Projects
    /\ dir \in [R!Names -> Kept] /\ image \in [R!Names -> [R!Code -> Kept]]
    /\ met \in [R!Names -> Nat] /\ gone \in [R!Names -> Nat]
    /\ dep \in [R!Ids -> Deployment]
    /\ stack = [n \in R!Names |-> stack[n]] /\ \A n \in R!Names : stack[n].by \in Nat

\* Deployments are numbered as they are made, each of an app.
Newest == R!Cardinality(R!Begun)
Numbered ==
    /\ Newest \in Nat /\ Newest <= MaxDeploys
    /\ \A d \in R!Ids : dep[d].pc # "none" <=> d <= Newest
    /\ \A d \in R!Begun : dep[d].project \in Projects

\* A deployment was alone that no other of its name was under way with.  None
\* that was is newer than one that is under way: so a deployment that is alone
\* and under way is the newest of its name, and the only one under way.
Alone(d) == d > met[R!NameOf(d)]
Serial ==
    \A n \in R!Names : \A d \in R!Underway(n), e \in R!Of(n) : e > met[n] => e <= d

\* The work directory holds what a deployment that is alone has cloned, and
\* the image of a tag that it built its code.  What a rollback finds is as
\* sure if no two deployments of the name ever met.
HasImage(d) == /\ dep[d].tag \in R!Code
               /\ image[R!NameOf(d)][dep[d].tag] = dep[d].tag
Sure(d) == Alone(d) /\ (dep[d].from = 0 \/ met[R!NameOf(d)] = 0)
Tagged(d) == \/ dep[d].pc \in {"built", "set", "up", "ready"}
             \/ dep[d].pc = "queued" /\ dep[d].from # 0
Working ==
    \A d \in R!Begun :
        /\ Alone(d) /\ dep[d].pc = "cloned" => dir[R!NameOf(d)] \in R!Code
        /\ Alone(d) /\ dep[d].pc = "named" => /\ dir[R!NameOf(d)] = dep[d].tag
                                              /\ dep[d].tag \in R!Code
        /\ Sure(d) /\ Tagged(d) => HasImage(d)

\* What runs is of a deployment that got that far, and no older than any that
\* was alone, was recorded READY and has not been replaced since.
Shown ==
    \A n \in R!Names :
        /\ stack[n].by # 0 =>
              /\ stack[n].by \in R!Of(n)
              /\ dep[stack[n].by].pc \in {"up", "ready", "error", "lost"}
              /\ Sure(stack[n].by) => stack[n].code = dep[stack[n].by].tag
        /\ \A d \in R!Of(n) :
              d > met[n] /\ d > gone[n] /\ dep[d].pc \in {"up", "ready"} => d <= stack[n].by

\* A commit is pushed before its webhook is answered, and what the newest
\* deployment of a name has cloned is no older.
Answered ==
    /\ \A p \in Projects, c \in R!Commits : <<p, c>> \in pushed => c <= head[p]
    /\ \A p \in Projects : accepted[p] <= head[p]
Recent(p) == {<<p, c>> : c \in {k \in R!Commits : accepted[p] <= k}}
Last(d) == Alone(d) /\ dep[d].from = 0 /\ \A e \in R!Of(R!NameOf(d)) : e <= d
Past == {"named", "built", "set", "up", "ready"}
Fresh ==
    \A d \in R!Begun : Last(d) =>
        /\ dep[d].pc = "cloned" => dir[R!NameOf(d)] \in Recent(dep[d].project)
        /\ dep[d].pc \in Past => dep[d].tag \in Recent(dep[d].project)

\* A deployment that read its configuration has the present one, unless that
\* changed since it was asked for.
Configured ==
    \A d \in R!Begun : dep[d].pc = "set" /\ d > touched[dep[d].project] =>
        /\ dep[d].env = env[dep[d].project]
        /\ dep[d].hosts = D!VerifiedHosts(dep[d].project)

\* A row that is verified, or about to be, was found in its holder's DNS.
Proven ==
    /\ claim \in [D!Claims -> Row] /\ call \in [Callers -> Call]
    /\ \A c \in D!Claims : claim[c].status # "none" => claim[c].host \in Hosts
    /\ \A c \in published : /\ c \in D!Claims /\ claim[c].status # "none"
                            /\ controls[claim[c].host] = claim[c].project
    /\ \A c \in D!Claims : claim[c].status = "verified" => c \in published
    /\ \A r \in Callers :
          /\ call[r].pc # "idle" => /\ call[r].claim \in D!Claims
                                    /\ claim[call[r].claim].status # "none"
          /\ call[r].pc \in {"register", "verified"} => call[r].claim \in published

ServingInv ==
    /\ ReleasesShape /\ Numbered /\ Serial /\ Working /\ Shown
    /\ Answered /\ Fresh /\ Configured /\ Proven
    /\ TagNamesCode /\ ConfigIsCurrent

-----------------------------------------------------------------------------
LEMMA Numbers ==
    /\ R!Ids \subseteq Nat \ {0} /\ R!Commits \subseteq Nat \ {0} /\ D!Claims \subseteq Nat \ {0}
    /\ \A d \in Nat : d # 0 /\ d <= MaxDeploys => d \in R!Ids
    /\ 1 \in R!Commits
    /\ \A c \in R!Commits, m \in Nat : c <= m /\ m <= MaxCommits => m \in R!Commits
BY ServingAssumption DEF ServingAssumption, R!Ids, R!Commits, D!Claims

LEMMA NamesOfApps == \A p \in Projects : Name[p] \in R!Names
BY DEF R!Names

LEMMA CountUpTo == ASSUME NEW n \in Nat PROVE R!Cardinality(1..n) = n
<1>1. R!Cardinality(1..n) = Cardinality(1..n)
  BY DEF R!Cardinality, Cardinality
<1>2. Cardinality(1..n) = n
  BY FS_Interval
<1> QED
  BY <1>1, <1>2

LEMMA DeploymentFields ==
    ASSUME NEW f \in [R!Ids -> Deployment], NEW d \in R!Ids
    PROVE  /\ f[d].pc \in PCs /\ f[d].project \in Projects \cup {None}
           /\ f[d].from \in Nat /\ f[d].tag \in Kept /\ f[d].env \in Nat
           /\ f[d].hosts \in SUBSET Hosts
<1>1. f[d] \in Deployment
  OBVIOUS
<1> QED
  BY <1>1 DEF Deployment

LEMMA OfNames ==
    /\ R!Begun \subseteq R!Ids
    /\ \A n : /\ R!Of(n) \subseteq R!Begun /\ R!Underway(n) \subseteq R!Of(n)
              /\ R!Ready(n) \subseteq R!Of(n)
              /\ \A d \in R!Of(n) : R!NameOf(d) = n /\ d \in R!Of(R!NameOf(d))
              /\ \A d \in R!Of(n) : d \in R!Underway(n)
                                    <=> dep[d].pc \notin {"ready", "error", "lost"}
    /\ \A d \in R!Begun : d \in R!Of(R!NameOf(d))
BY DEF R!Begun, R!Of, R!Underway, R!Running, R!Ready

\* A step that moves deployments on, without making one, keeps who is who.
LEMMA SameMade ==
    ASSUME Numbered, \A d \in R!Ids : /\ dep'[d].project = dep[d].project
                                      /\ dep'[d].pc = "none" <=> dep[d].pc = "none"
    PROVE  /\ Numbered' /\ Newest' = Newest /\ R!Begun' = R!Begun
           /\ \A d \in R!Ids : R!NameOf(d)' = R!NameOf(d)
           /\ \A n : R!Of(n)' = R!Of(n)
<1>1. R!Begun' = R!Begun
  BY DEF R!Begun
<1>2. Newest' = Newest
  BY <1>1 DEF Newest
<1>3. \A d \in R!Ids : R!NameOf(d)' = R!NameOf(d)
  BY DEF R!NameOf
<1>4. \A n : R!Of(n)' = R!Of(n)
  BY <1>1, <1>3 DEF R!Of, R!Begun
<1>5. Numbered'
  BY <1>1, <1>2 DEF Numbered, R!Begun
<1> QED
  BY <1>1, <1>2, <1>3, <1>4, <1>5

\* What a step about releases leaves alone.
Framed ==
    /\ UNCHANGED <<controls, claim, published, registered, call, env>>
    /\ touched' = touched

LEMMA FrameOfStep ==
    ASSUME ServingInv, UNCHANGED domains, env' = env,
           touched' = [p \in Projects |->
                IF env'[p] # env[p] \/ D!VerifiedHosts(p)' # D!VerifiedHosts(p)
                THEN R!Cardinality(R!Begun) ELSE touched[p]]
    PROVE  Framed
<1>1. UNCHANGED <<controls, claim, published, registered, call>>
  BY DEF domains
<1>2. \A p \in Projects : D!VerifiedHosts(p)' = D!VerifiedHosts(p)
  BY <1>1 DEF D!VerifiedHosts, D!Verified, D!HostOf
<1>3. touched \in [Projects -> Nat]
  BY DEF ServingInv, ReleasesShape
<1>4. touched' = touched
  BY <1>2, <1>3
<1> QED
  BY <1>1, <1>4 DEF Framed

LEMMA FrameKeeps ==
    ASSUME Proven, Framed
    PROVE  /\ Proven' /\ env' = env /\ touched' = touched
           /\ \A p : D!VerifiedHosts(p)' = D!VerifiedHosts(p)
<1>1. \A p : D!VerifiedHosts(p)' = D!VerifiedHosts(p)
  BY DEF Framed, D!VerifiedHosts, D!Verified, D!HostOf
<1>2. Proven'
  BY DEF Framed, Proven
<1> QED
  BY <1>1, <1>2 DEF Framed

-----------------------------------------------------------------------------
(***************************************************************************)
(* A step of the one deployment d, whatever it is: what it has to see to   *)
(* for the invariant to hold after it.                                     *)
(***************************************************************************)
Proj(d) == dep[d].project

\* The stack is left as it is, or becomes what d runs.
StackOf(d) ==
    \/ /\ stack' = stack
       /\ dep'[d].pc # "up"
       /\ dep'[d].pc = "ready" => dep[d].pc = "up"
       /\ dep[d].pc = "up" => dep'[d].pc \in {"ready", "error"}
    \/ /\ stack' = [stack EXCEPT ![R!NameOf(d)] = R!Runs(d)]
       /\ dep[d].pc = "set" /\ dep'[d].pc \in {"up", "error"}

\* Directories and images of other names are left alone, images of d's name
\* hold what they are named for, and d does what its place asks for.
BuildOf(d) ==
    /\ dir' \in [R!Names -> Kept] /\ image' \in [R!Names -> [R!Code -> Kept]]
    /\ \A n \in R!Names \ {R!NameOf(d)} : dir'[n] = dir[n] /\ image'[n] = image[n]
    /\ Alone(d) => \A k \in R!Code :
          image'[R!NameOf(d)][k] \in {image[R!NameOf(d)][k], k}
    /\ Alone(d) /\ dep'[d].pc = "cloned" =>
          dir'[R!NameOf(d)] \in R!Code /\ dir'[R!NameOf(d)] \in Recent(Proj(d))
    /\ Alone(d) /\ dep'[d].pc = "named" =>
          dir'[R!NameOf(d)] = dep'[d].tag /\ dep'[d].tag \in R!Code
    /\ Sure(d) /\ dep'[d].pc \in {"built", "set", "up", "ready"} =>
          dep'[d].tag \in R!Code /\ image'[R!NameOf(d)][dep'[d].tag] = dep'[d].tag
    /\ Last(d) /\ dep'[d].pc \in Past => dep'[d].tag \in Recent(Proj(d))

Move(d) ==
    /\ dep' \in [R!Ids -> Deployment]
    /\ \A e \in R!Ids \ {d} : dep'[e] = dep[e]
    /\ dep[d].pc \notin {"none", "ready", "error", "lost"}
    /\ dep'[d].pc \notin {"none", "queued"}
    /\ dep'[d].project = dep[d].project /\ dep'[d].from = dep[d].from
    /\ dep[d].pc # "cloned" => dep'[d].tag = dep[d].tag
    /\ dep'[d].pc = "set" => /\ dep'[d].env = env[Proj(d)]
                             /\ dep'[d].hosts = D!VerifiedHosts(Proj(d))
    /\ app' \subseteq Projects
    /\ UNCHANGED <<head, pushed, accepted, met, gone>>

LEMMA UnderwayFacts ==
    ASSUME ServingInv, NEW d \in R!Ids, dep[d].pc \notin {"none", "ready", "error", "lost"}
    PROVE  /\ d \in R!Begun /\ Proj(d) \in Projects /\ d \in R!Of(R!NameOf(d))
           /\ R!NameOf(d) \in R!Names /\ R!NameOf(d) = Name[Proj(d)]
           /\ d \in R!Underway(R!NameOf(d))
           /\ dep \in [R!Ids -> Deployment] /\ dep[d].tag \in Kept
           /\ dir \in [R!Names -> Kept] /\ image \in [R!Names -> [R!Code -> Kept]]
           /\ app \subseteq Projects
           /\ \A e \in R!Of(R!NameOf(d)) : e > met[R!NameOf(d)] => Alone(d) /\ e <= d
           /\ Alone(d) => \A e \in R!Of(R!NameOf(d)) : e <= d
           /\ \A e \in R!Underway(R!NameOf(d)) : e > met[R!NameOf(d)] => e = d
           /\ Sure(d) /\ dep[d].pc \in {"built", "set", "up"} => HasImage(d)
           /\ Last(d) /\ dep[d].pc \in {"named", "built", "set", "up"}
              => dep[d].tag \in Recent(Proj(d))
<1> DEFINE n == R!NameOf(d)
<1>0. ReleasesShape /\ Numbered /\ Serial /\ Working /\ Fresh
  BY DEF ServingInv
<1>1. d \in R!Begun
  BY DEF R!Begun
<1>2. /\ Proj(d) \in Projects /\ n = Name[Proj(d)] /\ n \in R!Names
      /\ d \in R!Of(n) /\ d \in R!Underway(n)
  BY <1>0, <1>1, NamesOfApps DEF Numbered, Proj, R!NameOf, R!Of, R!Underway, R!Running
<1>3. met[n] \in Nat /\ d \in Nat /\ \A e \in R!Of(n) : e \in Nat
  BY <1>0, <1>2, OfNames, Numbers DEF ReleasesShape
<1>4. \A e \in R!Of(n) : e > met[n] => e <= d
  BY <1>0, <1>2 DEF Serial
<1>5. \A e \in R!Of(n) : e > met[n] => d > met[n]
  BY <1>3, <1>4
<1>6. d > met[n] => \A e \in R!Of(n) : e <= d
  BY <1>3, <1>4
<1>7. \A e \in R!Underway(n) : e > met[n] => e = d
  <2> SUFFICES ASSUME NEW e \in R!Underway(n), e > met[n] PROVE e = d
    OBVIOUS
  <2>1. e \in R!Of(n) /\ e <= d /\ d > met[n]
    BY <1>4, <1>5, OfNames
  <2>2. d <= e
    BY <1>0, <1>2, <2>1 DEF Serial
  <2> QED
    BY <1>3, <2>1, <2>2
<1>8. /\ dep \in [R!Ids -> Deployment] /\ dep[d].tag \in Kept
      /\ dir \in [R!Names -> Kept] /\ image \in [R!Names -> [R!Code -> Kept]]
      /\ app \subseteq Projects
  BY <1>0, DeploymentFields DEF ReleasesShape
<1>9. Sure(d) /\ dep[d].pc \in {"built", "set", "up"} => HasImage(d)
  BY <1>0, <1>1 DEF Working, Tagged
<1>10. Last(d) /\ dep[d].pc \in {"named", "built", "set", "up"} => dep[d].tag \in Recent(Proj(d))
  BY <1>0, <1>1 DEF Fresh, Past, Proj
<1> QED
  BY <1>1, <1>2, <1>4, <1>5, <1>6, <1>7, <1>8, <1>9, <1>10 DEF Alone

LEMMA MoveKeepsInv ==
    ASSUME ServingInv, NEW d \in R!Ids, Move(d), BuildOf(d), StackOf(d), Framed
    PROVE  ServingInv'
<1> DEFINE p0 == Proj(d)
           n0 == R!NameOf(d)
<1>0. /\ ReleasesShape /\ Numbered /\ Serial /\ Working /\ Shown
      /\ Answered /\ Fresh /\ Configured /\ Proven /\ TagNamesCode /\ ConfigIsCurrent
  BY DEF ServingInv
<1>1. /\ dep' \in [R!Ids -> Deployment]
      /\ \A e \in R!Ids \ {d} : dep'[e] = dep[e]
      /\ dep[d].pc \notin {"none", "ready", "error", "lost"}
      /\ dep'[d].pc \notin {"none", "queued"}
      /\ dep'[d].project = p0 /\ dep[d].project = p0 /\ dep'[d].from = dep[d].from
      /\ dep[d].pc # "cloned" => dep'[d].tag = dep[d].tag
      /\ dep'[d].pc = "set" => /\ dep'[d].env = env[p0]
                               /\ dep'[d].hosts = D!VerifiedHosts(p0)
      /\ app' \subseteq Projects
      /\ head' = head /\ pushed' = pushed /\ accepted' = accepted /\ met' = met /\ gone' = gone
  BY DEF Move, Proj
<1>2. /\ Proven' /\ env' = env /\ touched' = touched
      /\ \A p : D!VerifiedHosts(p)' = D!VerifiedHosts(p)
  BY <1>0, FrameKeeps
\* If d was alone it is the newest of its name and the only one under way, and
\* if it was not, none of its name was.
<1>3. /\ d \in R!Begun /\ p0 \in Projects /\ n0 \in R!Names
      /\ d \in R!Of(n0) /\ d \in R!Underway(n0)
      /\ \A e \in R!Of(n0) : e > met[n0] => Alone(d) /\ e <= d
      /\ Alone(d) => \A e \in R!Of(n0) : e <= d
      /\ \A e \in R!Underway(n0) : e > met[n0] => e = d
      /\ Sure(d) /\ dep[d].pc \in {"built", "set", "up"} => HasImage(d)
  BY <1>1, UnderwayFacts
<1>4. /\ Numbered' /\ Newest' = Newest /\ R!Begun' = R!Begun
      /\ \A e \in R!Ids : R!NameOf(e)' = R!NameOf(e)
      /\ \A n : R!Of(n)' = R!Of(n)
  <2>1. \A e \in R!Ids : /\ dep'[e].project = dep[e].project
                         /\ dep'[e].pc = "none" <=> dep[e].pc = "none"
    BY <1>1
  <2> QED
    BY <1>0, <2>1, SameMade
<1>5. /\ R!Begun \subseteq R!Ids
      /\ \A n : R!Of(n) \subseteq R!Begun /\ \A e \in R!Of(n) : R!NameOf(e) = n
  BY OfNames
<1>6. \A n : R!Underway(n)' \subseteq R!Underway(n)
  BY <1>1, <1>3, <1>4, <1>5 DEF R!Underway, R!Running
<1>7. \A e \in R!Ids : /\ Alone(e)' <=> Alone(e)
                       /\ Sure(e)' <=> Sure(e)
                       /\ Last(e)' <=> Last(e)
                       /\ Recent(Proj(e))' = Recent(Proj(e))
  <2> TAKE e \in R!Ids
  <2>1. dep'[e].from = dep[e].from /\ dep'[e].project = dep[e].project
    BY <1>1
  <2>2. Alone(e)' <=> Alone(e)
    BY <1>1, <1>4 DEF Alone
  <2>3. Sure(e)' <=> Sure(e)
    BY <1>1, <1>4, <2>1, <2>2 DEF Sure
  <2>4. Last(e)' <=> Last(e)
    BY <1>4, <2>1, <2>2 DEF Last
  <2>5. Recent(Proj(e))' = Recent(Proj(e))
    BY <1>1, <2>1 DEF Recent, Proj
  <2> QED
    BY <2>2, <2>3, <2>4, <2>5
<1> HIDE DEF p0, n0
<1>8. n0 = R!NameOf(d) /\ p0 = Proj(d)
  BY DEF n0, p0
<1>9. ReleasesShape'
  <2>1. dir' \in [R!Names -> Kept] /\ image' \in [R!Names -> [R!Code -> Kept]]
    BY DEF BuildOf
  <2>2. d \in Nat /\ R!Runs(d).by = d
    BY Numbers DEF R!Runs
  <2>3. /\ stack' = [n \in R!Names |-> stack'[n]]
        /\ \A n \in R!Names : stack'[n].by \in Nat
    BY <1>0, <1>3, <1>8, <2>2 DEF StackOf, ReleasesShape
  <2> QED
    BY <1>0, <1>1, <1>2, <2>1, <2>3 DEF ReleasesShape
<1>10. Serial'
  BY <1>0, <1>1, <1>4, <1>6 DEF Serial
<1>11. \A n \in R!Names \ {n0} : dir'[n] = dir[n] /\ image'[n] = image[n]
  BY <1>8 DEF BuildOf
<1>12. /\ Alone(d) => \A k \in R!Code : image'[n0][k] \in {image[n0][k], k}
       /\ Alone(d) /\ dep'[d].pc = "cloned" =>
             dir'[n0] \in R!Code /\ dir'[n0] \in Recent(p0)
       /\ Alone(d) /\ dep'[d].pc = "named" => dir'[n0] = dep'[d].tag /\ dep'[d].tag \in R!Code
       /\ Sure(d) /\ dep'[d].pc \in {"built", "set", "up", "ready"} =>
             dep'[d].tag \in R!Code /\ image'[n0][dep'[d].tag] = dep'[d].tag
       /\ Last(d) /\ dep'[d].pc \in Past => dep'[d].tag \in Recent(p0)
  BY <1>8 DEF BuildOf
<1>13. Working'
  <2> SUFFICES ASSUME NEW e \in R!Begun
               PROVE  /\ Alone(e) /\ dep'[e].pc = "cloned" => dir'[R!NameOf(e)] \in R!Code
                      /\ Alone(e) /\ dep'[e].pc = "named" => /\ dir'[R!NameOf(e)] = dep'[e].tag
                                                             /\ dep'[e].tag \in R!Code
                      /\ Sure(e) /\ Tagged(e)' =>
                            /\ dep'[e].tag \in R!Code
                            /\ image'[R!NameOf(e)][dep'[e].tag] = dep'[e].tag
    BY <1>4, <1>5, <1>7 DEF Working, HasImage
  <2>1. CASE e = d
    BY <1>1, <1>8, <1>12, <2>1 DEF Tagged
  <2>2. CASE e # d /\ R!NameOf(e) # n0
    <3>1. dep'[e] = dep[e] /\ R!NameOf(e) \in R!Names \ {n0}
      BY <1>0, <1>1, <1>5, <2>2, NamesOfApps DEF Numbered, R!NameOf
    <3> QED
      BY <1>0, <1>11, <3>1 DEF Working, HasImage, Tagged
  <2>3. CASE e # d /\ R!NameOf(e) = n0
    <3>1. dep'[e] = dep[e] /\ e \in R!Of(n0)
      BY <1>1, <1>5, <2>3, OfNames
    <3> SUFFICES ASSUME Alone(e)
                 PROVE  /\ dep[e].pc \notin {"cloned", "named"}
                        /\ Sure(e) /\ Tagged(e) =>
                            /\ dep[e].tag \in R!Code
                            /\ image'[n0][dep[e].tag] = dep[e].tag
      BY <2>3, <3>1 DEF Sure, Tagged
    <3>2. e > met[n0] /\ Alone(d)
      BY <1>3, <2>3, <3>1 DEF Alone
    <3>3. e \notin R!Underway(n0)
      BY <1>3, <2>3, <3>2
    <3>4. dep[e].pc \in {"ready", "error", "lost"}
      BY <3>1, <3>3, OfNames
    <3>5. Sure(e) /\ Tagged(e) => HasImage(e)
      BY <1>0 DEF Working
    <3> QED
      BY <1>12, <2>3, <3>2, <3>4, <3>5 DEF HasImage
  <2> QED
    BY <2>1, <2>2, <2>3
<1>14. /\ \A n \in R!Names \ {n0} : stack'[n] = stack[n]
       /\ \/ /\ stack'[n0] = stack[n0]
             /\ dep'[d].pc # "up"
             /\ dep'[d].pc = "ready" => dep[d].pc = "up"
             /\ dep[d].pc = "up" => dep'[d].pc \in {"ready", "error"}
          \/ /\ stack'[n0] = R!Runs(d)
             /\ dep[d].pc = "set" /\ dep'[d].pc \in {"up", "error"}
  BY <1>0, <1>3, <1>8 DEF StackOf, ReleasesShape
<1>15. /\ R!Runs(d).by = d /\ R!Runs(d).code = image[n0][dep[d].tag]
       /\ R!Runs(d).env = dep[d].env /\ R!Runs(d).hosts = dep[d].hosts
  BY <1>8 DEF R!Runs
<1>16. Shown'
  <2> SUFFICES ASSUME NEW n \in R!Names
               PROVE  /\ stack'[n].by # 0 =>
                            /\ stack'[n].by \in R!Of(n)
                            /\ dep'[stack'[n].by].pc \in {"up", "ready", "error", "lost"}
                            /\ Sure(stack'[n].by) => stack'[n].code = dep'[stack'[n].by].tag
                      /\ \A e \in R!Of(n) :
                            e > met[n] /\ e > gone[n] /\ dep'[e].pc \in {"up", "ready"}
                            => e <= stack'[n].by
    <3>1. ASSUME NEW n \in R!Names, stack'[n].by \in R!Of(n)
          PROVE  Sure(stack[n].by)' <=> Sure(stack'[n].by)
      <4>1. /\ dep'[stack'[n].by].from = dep[stack'[n].by].from
            /\ dep'[stack'[n].by].project = dep[stack'[n].by].project
        BY <1>1, <1>5, <3>1
      <4> QED
        BY <1>1, <4>1 DEF Sure, Alone, R!NameOf
    <3> QED
      BY <1>1, <1>4, <3>1 DEF Shown
  <2>1. /\ stack[n].by # 0 =>
              /\ stack[n].by \in R!Of(n)
              /\ dep[stack[n].by].pc \in {"up", "ready", "error", "lost"}
              /\ Sure(stack[n].by) => stack[n].code = dep[stack[n].by].tag
        /\ \A e \in R!Of(n) :
              e > met[n] /\ e > gone[n] /\ dep[e].pc \in {"up", "ready"} => e <= stack[n].by
    BY <1>0 DEF Shown
  <2>2. CASE n # n0
    <3>1. \A e \in R!Of(n) : dep'[e] = dep[e]
      BY <1>1, <1>5, <1>8, <2>2
    <3> QED
      BY <1>14, <2>1, <2>2, <3>1
  <2>3. CASE n = n0 /\ stack'[n0] = stack[n0] /\ dep'[d].pc # "up"
             /\ (dep'[d].pc = "ready" => dep[d].pc = "up")
             /\ (dep[d].pc = "up" => dep'[d].pc \in {"ready", "error"})
    BY <1>1, <1>5, <2>1, <2>3
  <2>4. CASE n = n0 /\ stack'[n0] = R!Runs(d) /\ dep[d].pc = "set"
             /\ dep'[d].pc \in {"up", "error"}
    <3>1. Sure(d) => image[n0][dep[d].tag] = dep[d].tag
      BY <1>3, <1>8, <2>4 DEF HasImage
    <3> QED
      BY <1>1, <1>3, <1>15, <2>4, <3>1
  <2> QED
    BY <1>14, <2>2, <2>3, <2>4
<1>17. Answered'
  BY <1>0, <1>1 DEF Answered
<1>18. Fresh'
  <2> SUFFICES ASSUME NEW e \in R!Begun, Last(e)
               PROVE  /\ dep'[e].pc = "cloned" => dir'[R!NameOf(e)] \in Recent(Proj(e))
                      /\ dep'[e].pc \in Past => dep'[e].tag \in Recent(Proj(e))
    BY <1>4, <1>5, <1>7 DEF Fresh, Proj
  <2>1. CASE R!NameOf(e) = n0
    <3>0. e \in R!Of(n0) /\ e > met[n0] /\ d <= e
      BY <1>3, <2>1, OfNames DEF Last, Alone
    <3>1. e <= d /\ e \in Nat /\ d \in Nat
      BY <1>3, <1>5, <3>0, Numbers
    <3>2. e = d /\ Alone(d)
      BY <1>3, <3>0, <3>1
    <3> QED
      BY <1>8, <1>12, <3>2
  <2>2. CASE R!NameOf(e) # n0
    <3>1. dep'[e] = dep[e] /\ R!NameOf(e) \in R!Names \ {n0}
      BY <1>0, <1>1, <1>5, <1>8, <2>2, NamesOfApps DEF Numbered, R!NameOf
    <3> QED
      BY <1>0, <1>11, <3>1 DEF Fresh, Proj
  <2> QED
    BY <2>1, <2>2
<1>19. Configured'
  <2> SUFFICES ASSUME NEW e \in R!Begun, dep'[e].pc = "set", e > touched[dep'[e].project]
               PROVE  /\ dep'[e].env = env[dep'[e].project]
                      /\ dep'[e].hosts = D!VerifiedHosts(dep'[e].project)
    BY <1>2, <1>4 DEF Configured
  <2>1. CASE e = d
    BY <1>1, <2>1
  <2>2. CASE e # d
    <3>1. dep'[e] = dep[e]
      BY <1>1, <1>5, <1>3, <2>2
    <3> QED
      BY <1>0, <3>1 DEF Configured
  <2> QED
    BY <2>1, <2>2
<1>20. TagNamesCode'
  <2> SUFFICES ASSUME NEW n \in R!Names, met[n] = 0, NEW k \in R!Code
               PROVE  image'[n][k] \in {None, k}
    BY <1>1 DEF TagNamesCode, R!TagNamesCode, R!Nothing
  <2>1. image[n][k] \in {None, k}
    BY <1>0 DEF TagNamesCode, R!TagNamesCode, R!Nothing
  <2>2. n = n0 => Alone(d)
    BY <1>8, Numbers DEF Alone
  <2> QED
    BY <1>11, <1>12, <2>1, <2>2
<1>21. ConfigIsCurrent'
  <2> SUFFICES ASSUME NEW n \in R!Names, stack'[n].by # 0,
                      stack'[n].by > touched[dep'[stack'[n].by].project]
               PROVE  /\ stack'[n].env = env[dep'[stack'[n].by].project]
                      /\ stack'[n].hosts = D!VerifiedHosts(dep'[stack'[n].by].project)
    BY <1>2 DEF ConfigIsCurrent, R!Nothing
  <2>1. CASE stack'[n] = stack[n]
    <3>1. stack[n].by \in R!Ids
      BY <1>0, <1>5, <2>1 DEF Shown
    <3>2. dep'[stack[n].by].project = dep[stack[n].by].project
      BY <1>1, <3>1
    <3> QED
      BY <1>0, <2>1, <3>2 DEF ConfigIsCurrent, R!Nothing
  <2>2. CASE stack'[n] = R!Runs(d) /\ dep[d].pc = "set"
    BY <1>0, <1>1, <1>3, <1>15, <2>2 DEF Configured
  <2> QED
    BY <1>14, <2>1, <2>2
<1> QED
  BY <1>2, <1>4, <1>9, <1>10, <1>13, <1>16, <1>17, <1>18, <1>19, <1>20, <1>21 DEF ServingInv

-----------------------------------------------------------------------------
(***************************************************************************)
(* Each step of a deployment is such a move.                               *)
(***************************************************************************)
\* A step that only changes the place of d.
LEMMA GotoFields ==
    ASSUME dep \in [R!Ids -> Deployment], NEW d \in R!Ids, NEW pc \in PCs, R!Goto(d, pc)
    PROVE  /\ dep' \in [R!Ids -> Deployment]
           /\ \A e \in R!Ids \ {d} : dep'[e] = dep[e]
           /\ dep'[d].pc = pc /\ dep'[d].project = dep[d].project
           /\ dep'[d].from = dep[d].from /\ dep'[d].tag = dep[d].tag
           /\ dep'[d].env = dep[d].env /\ dep'[d].hosts = dep[d].hosts
<1> DEFINE k == [dep[d] EXCEPT !.pc = pc]
<1>1. dep[d] \in Deployment
  OBVIOUS
<1>2. /\ k \in Deployment /\ k.pc = pc /\ k.project = dep[d].project
      /\ k.from = dep[d].from /\ k.tag = dep[d].tag
      /\ k.env = dep[d].env /\ k.hosts = dep[d].hosts
  BY <1>1 DEF Deployment
<1>3. dep' = [dep EXCEPT ![d] = k]
  BY DEF R!Goto
<1> HIDE DEF k
<1> QED
  BY <1>2, <1>3

LEMMA CloneKeepsInv ==
    ASSUME ServingInv, NEW d \in R!Ids, R!Clone(d), Framed
    PROVE  ServingInv'
<1>1. /\ dep[d].pc = "queued" /\ R!Goto(d, "cloned")
      /\ dir' = [dir EXCEPT ![Name[Proj(d)]] = <<Proj(d), head[Proj(d)]>>]
      /\ UNCHANGED <<image, head, pushed, accepted, app, env, stack, met, gone>>
  BY DEF R!Clone, R!At, R!SetDir, R!Dest, R!HeadOf, R!building, Proj
<1>2. /\ Proj(d) \in Projects /\ dep \in [R!Ids -> Deployment] /\ app \subseteq Projects
      /\ R!NameOf(d) \in R!Names /\ R!NameOf(d) = Name[Proj(d)]
      /\ dir \in [R!Names -> Kept] /\ image \in [R!Names -> [R!Code -> Kept]]
  BY <1>1, UnderwayFacts
<1>3. /\ dep' \in [R!Ids -> Deployment]
      /\ \A e \in R!Ids \ {d} : dep'[e] = dep[e]
      /\ dep'[d].pc = "cloned" /\ dep'[d].project = dep[d].project
      /\ dep'[d].from = dep[d].from /\ dep'[d].tag = dep[d].tag
  BY <1>1, <1>2, GotoFields DEF PCs
<1>4. /\ <<Proj(d), head[Proj(d)]>> \in R!Code
      /\ <<Proj(d), head[Proj(d)]>> \in Recent(Proj(d))
  BY <1>2 DEF ServingInv, ReleasesShape, Answered, R!Code, Recent
<1>5. Move(d)
  BY <1>1, <1>2, <1>3 DEF Move
<1>6. BuildOf(d)
  <2>1. /\ dir' \in [R!Names -> Kept]
        /\ dir'[R!NameOf(d)] = <<Proj(d), head[Proj(d)]>>
        /\ \A n \in R!Names \ {R!NameOf(d)} : dir'[n] = dir[n]
    BY <1>1, <1>2, <1>4 DEF Kept
  <2> QED
    BY <1>1, <1>2, <1>3, <1>4, <2>1 DEF BuildOf, Past
<1>7. StackOf(d)
  BY <1>1, <1>3 DEF StackOf
<1> QED
  BY <1>5, <1>6, <1>7, MoveKeepsInv

LEMMA RevParseKeepsInv ==
    ASSUME ServingInv, NEW d \in R!Ids, R!RevParse(d), Framed
    PROVE  ServingInv'
<1>1. /\ dep[d].pc = "cloned"
      /\ dep' = [dep EXCEPT ![d].pc = "named", ![d].tag = dir[Name[Proj(d)]]]
      /\ UNCHANGED <<dir, image, head, pushed, accepted, app, env, stack, met, gone>>
  BY DEF R!RevParse, R!At, R!DirOf, R!Dest, R!building, Proj
<1>2. /\ Proj(d) \in Projects /\ dep \in [R!Ids -> Deployment] /\ app \subseteq Projects
      /\ R!NameOf(d) \in R!Names /\ R!NameOf(d) = Name[Proj(d)]
      /\ dir \in [R!Names -> Kept] /\ image \in [R!Names -> [R!Code -> Kept]]
      /\ d \in R!Begun
  BY <1>1, UnderwayFacts
<1> DEFINE k1 == [dep[d] EXCEPT !.pc = "named"]
           k2 == [k1 EXCEPT !.tag = dir[R!NameOf(d)]]
<1>3. dep[d] \in Deployment /\ dir[R!NameOf(d)] \in Kept
  BY <1>2
<1>4. /\ k1 \in Deployment /\ k1.pc = "named" /\ k1.project = dep[d].project
      /\ k1.from = dep[d].from
  BY <1>3 DEF Deployment, PCs
<1>5. dep' = [dep EXCEPT ![d] = k2]
  BY <1>1, <1>2
<1> HIDE DEF k1
<1>6. /\ k2 \in Deployment /\ k2.pc = "named" /\ k2.project = dep[d].project
      /\ k2.from = dep[d].from /\ k2.tag = dir[R!NameOf(d)]
  BY <1>3, <1>4 DEF Deployment
<1> HIDE DEF k2
<1>7. /\ dep' \in [R!Ids -> Deployment] /\ dep'[d] = k2
      /\ \A e \in R!Ids \ {d} : dep'[e] = dep[e]
  BY <1>2, <1>5, <1>6
<1>8. Alone(d) => dir[R!NameOf(d)] \in R!Code
  BY <1>1, <1>2 DEF ServingInv, Working
<1>9. Last(d) => dir[R!NameOf(d)] \in Recent(Proj(d))
  BY <1>1, <1>2 DEF ServingInv, Fresh, Proj
<1>10. Move(d)
  BY <1>1, <1>2, <1>6, <1>7 DEF Move
<1>11. BuildOf(d)
  BY <1>1, <1>2, <1>6, <1>7, <1>8, <1>9 DEF BuildOf, Past
<1>12. StackOf(d)
  BY <1>1, <1>6, <1>7 DEF StackOf
<1> QED
  BY <1>10, <1>11, <1>12, MoveKeepsInv

LEMMA BuildKeepsInv ==
    ASSUME ServingInv, NEW d \in R!Ids, R!Build(d), Framed
    PROVE  ServingInv'
<1>1. /\ dep[d].pc = "named" /\ R!Goto(d, "built")
      /\ image' = [image EXCEPT ![R!NameOf(d)][dep[d].tag] = dir[R!NameOf(d)]]
      /\ UNCHANGED <<dir, head, pushed, accepted, app, env, stack, met, gone>>
  BY DEF R!Build, R!At, R!DirOf, R!Dest, R!building, R!NameOf
<1>2. /\ Proj(d) \in Projects /\ dep \in [R!Ids -> Deployment] /\ app \subseteq Projects
      /\ R!NameOf(d) \in R!Names /\ R!NameOf(d) = Name[Proj(d)]
      /\ dir \in [R!Names -> Kept] /\ image \in [R!Names -> [R!Code -> Kept]]
      /\ d \in R!Begun
      /\ Last(d) => dep[d].tag \in Recent(Proj(d))
  BY <1>1, UnderwayFacts
<1>3. /\ dep' \in [R!Ids -> Deployment]
      /\ \A e \in R!Ids \ {d} : dep'[e] = dep[e]
      /\ dep'[d].pc = "built" /\ dep'[d].project = dep[d].project
      /\ dep'[d].from = dep[d].from /\ dep'[d].tag = dep[d].tag
  BY <1>1, <1>2, GotoFields DEF PCs
<1>4. Alone(d) => dir[R!NameOf(d)] = dep[d].tag /\ dep[d].tag \in R!Code
  BY <1>1, <1>2 DEF ServingInv, Working
<1> DEFINE shelf == [image[R!NameOf(d)] EXCEPT ![dep[d].tag] = dir[R!NameOf(d)]]
<1>5. /\ shelf \in [R!Code -> Kept]
      /\ \A k \in R!Code : shelf[k] = IF k = dep[d].tag THEN dir[R!NameOf(d)]
                                      ELSE image[R!NameOf(d)][k]
  BY <1>2
<1>6. image' = [image EXCEPT ![R!NameOf(d)] = shelf]
  BY <1>1
<1> HIDE DEF shelf
<1>7. /\ image' \in [R!Names -> [R!Code -> Kept]] /\ image'[R!NameOf(d)] = shelf
      /\ \A n \in R!Names \ {R!NameOf(d)} : image'[n] = image[n]
  BY <1>2, <1>5, <1>6
<1>8. Move(d)
  BY <1>1, <1>2, <1>3 DEF Move
<1>9. BuildOf(d)
  BY <1>1, <1>2, <1>3, <1>4, <1>5, <1>7 DEF BuildOf, Sure
<1>10. StackOf(d)
  BY <1>1, <1>3 DEF StackOf
<1> QED
  BY <1>8, <1>9, <1>10, MoveKeepsInv

LEMMA FindImageKeepsInv ==
    ASSUME ServingInv, NEW d \in R!Ids, R!FindImage(d), Framed
    PROVE  ServingInv'
<1>1. /\ dep[d].pc = "queued" /\ dep[d].from # 0 /\ R!Goto(d, "built")
      /\ UNCHANGED <<dir, image, head, pushed, accepted, app, env, stack, met, gone>>
  BY DEF R!FindImage, R!At, R!building, R!Nothing
<1>2. /\ Proj(d) \in Projects /\ dep \in [R!Ids -> Deployment] /\ app \subseteq Projects
      /\ R!NameOf(d) \in R!Names /\ R!NameOf(d) = Name[Proj(d)]
      /\ dir \in [R!Names -> Kept] /\ image \in [R!Names -> [R!Code -> Kept]]
      /\ d \in R!Begun
  BY <1>1, UnderwayFacts
<1>3. /\ dep' \in [R!Ids -> Deployment]
      /\ \A e \in R!Ids \ {d} : dep'[e] = dep[e]
      /\ dep'[d].pc = "built" /\ dep'[d].project = dep[d].project
      /\ dep'[d].from = dep[d].from /\ dep'[d].tag = dep[d].tag
  BY <1>1, <1>2, GotoFields DEF PCs
<1>4. Sure(d) => HasImage(d)
  BY <1>1, <1>2 DEF ServingInv, Working, Tagged
<1>5. Move(d)
  BY <1>1, <1>2, <1>3 DEF Move
<1>6. BuildOf(d)
  BY <1>1, <1>2, <1>3, <1>4 DEF BuildOf, HasImage, Last
<1>7. StackOf(d)
  BY <1>1, <1>3 DEF StackOf
<1> QED
  BY <1>5, <1>6, <1>7, MoveKeepsInv

LEMMA HostsKnown ==
    ASSUME Proven, NEW p PROVE D!VerifiedHosts(p) \in SUBSET Hosts
BY DEF Proven, D!VerifiedHosts, D!HostOf, D!Verified

LEMMA ConfigureKeepsInv ==
    ASSUME ServingInv, NEW d \in R!Ids, R!Configure(d, D!VerifiedHosts(dep[d].project)), Framed
    PROVE  ServingInv'
<1> DEFINE hosts == D!VerifiedHosts(Proj(d))
           k1 == [dep[d] EXCEPT !.pc = "set"]
           k2 == [k1 EXCEPT !.hosts = hosts]
           k3 == [k2 EXCEPT !.env = env[Proj(d)]]
<1>1. /\ dep[d].pc = "built"
      /\ dep' = [dep EXCEPT ![d].pc = "set", ![d].hosts = hosts, ![d].env = env[Proj(d)]]
      /\ UNCHANGED <<dir, image, head, pushed, accepted, app, env, stack, met, gone>>
  BY DEF R!Configure, R!At, R!building, Proj
<1>2. /\ Proj(d) \in Projects /\ dep \in [R!Ids -> Deployment] /\ app \subseteq Projects
      /\ R!NameOf(d) \in R!Names /\ R!NameOf(d) = Name[Proj(d)]
      /\ dir \in [R!Names -> Kept] /\ image \in [R!Names -> [R!Code -> Kept]]
      /\ Sure(d) => HasImage(d)
      /\ Last(d) => dep[d].tag \in Recent(Proj(d))
  BY <1>1, UnderwayFacts
<1>3. hosts \in SUBSET Hosts /\ env[Proj(d)] \in Nat /\ dep[d] \in Deployment
  BY <1>2, HostsKnown DEF ServingInv, ReleasesShape
<1>4. dep' = [dep EXCEPT ![d] = k3]
  BY <1>1, <1>2
<1> HIDE DEF hosts
<1>5. /\ k1 \in Deployment /\ k1.pc = "set" /\ k1.project = dep[d].project
      /\ k1.from = dep[d].from /\ k1.tag = dep[d].tag
  BY <1>3 DEF Deployment, PCs
<1> HIDE DEF k1
<1>6. /\ k2 \in Deployment /\ k2.pc = "set" /\ k2.project = dep[d].project
      /\ k2.from = dep[d].from /\ k2.tag = dep[d].tag /\ k2.hosts = hosts
  BY <1>3, <1>5 DEF Deployment
<1> HIDE DEF k2
<1>7. /\ k3 \in Deployment /\ k3.pc = "set" /\ k3.project = dep[d].project
      /\ k3.from = dep[d].from /\ k3.tag = dep[d].tag /\ k3.hosts = hosts
      /\ k3.env = env[Proj(d)]
  BY <1>3, <1>6 DEF Deployment
<1> HIDE DEF k3
<1>8. /\ dep' \in [R!Ids -> Deployment] /\ dep'[d] = k3
      /\ \A e \in R!Ids \ {d} : dep'[e] = dep[e]
  BY <1>2, <1>4, <1>7
<1>9. Move(d)
  BY <1>1, <1>2, <1>7, <1>8 DEF Move, hosts
<1>10. BuildOf(d)
  BY <1>1, <1>2, <1>7, <1>8 DEF BuildOf, HasImage
<1>11. StackOf(d)
  BY <1>1, <1>7, <1>8 DEF StackOf
<1> QED
  BY <1>9, <1>10, <1>11, MoveKeepsInv

LEMMA UpKeepsInv ==
    ASSUME ServingInv, NEW d \in R!Ids, R!Up(d), Framed
    PROVE  ServingInv'
<1>1. /\ dep[d].pc = "set" /\ R!Goto(d, "up")
      /\ stack' = [stack EXCEPT ![R!NameOf(d)] = R!Runs(d)]
      /\ UNCHANGED <<dir, image, head, pushed, accepted, app, env, met, gone>>
  BY DEF R!Up, R!At, R!SetStack
<1>2. /\ Proj(d) \in Projects /\ dep \in [R!Ids -> Deployment] /\ app \subseteq Projects
      /\ R!NameOf(d) \in R!Names /\ R!NameOf(d) = Name[Proj(d)]
      /\ dir \in [R!Names -> Kept] /\ image \in [R!Names -> [R!Code -> Kept]]
      /\ Sure(d) => HasImage(d)
      /\ Last(d) => dep[d].tag \in Recent(Proj(d))
  BY <1>1, UnderwayFacts
<1>3. /\ dep' \in [R!Ids -> Deployment]
      /\ \A e \in R!Ids \ {d} : dep'[e] = dep[e]
      /\ dep'[d].pc = "up" /\ dep'[d].project = dep[d].project
      /\ dep'[d].from = dep[d].from /\ dep'[d].tag = dep[d].tag
  BY <1>1, <1>2, GotoFields DEF PCs
<1>4. Move(d)
  BY <1>1, <1>2, <1>3 DEF Move
<1>5. BuildOf(d)
  BY <1>1, <1>2, <1>3 DEF BuildOf, HasImage
<1>6. StackOf(d)
  BY <1>1, <1>3 DEF StackOf
<1> QED
  BY <1>4, <1>5, <1>6, MoveKeepsInv

LEMMA RecordReadyKeepsInv ==
    ASSUME ServingInv, NEW d \in R!Ids, R!RecordReady(d), Framed
    PROVE  ServingInv'
<1>1. /\ dep[d].pc = "up" /\ R!Goto(d, "ready")
      /\ UNCHANGED <<dir, image, head, pushed, accepted, app, env, stack, met, gone>>
  BY DEF R!RecordReady, R!At, R!building
<1>2. /\ Proj(d) \in Projects /\ dep \in [R!Ids -> Deployment] /\ app \subseteq Projects
      /\ R!NameOf(d) \in R!Names /\ R!NameOf(d) = Name[Proj(d)]
      /\ dir \in [R!Names -> Kept] /\ image \in [R!Names -> [R!Code -> Kept]]
      /\ Sure(d) => HasImage(d)
      /\ Last(d) => dep[d].tag \in Recent(Proj(d))
  BY <1>1, UnderwayFacts
<1>3. /\ dep' \in [R!Ids -> Deployment]
      /\ \A e \in R!Ids \ {d} : dep'[e] = dep[e]
      /\ dep'[d].pc = "ready" /\ dep'[d].project = dep[d].project
      /\ dep'[d].from = dep[d].from /\ dep'[d].tag = dep[d].tag
  BY <1>1, <1>2, GotoFields DEF PCs
<1>4. Move(d)
  BY <1>1, <1>2, <1>3 DEF Move
<1>5. BuildOf(d)
  BY <1>1, <1>2, <1>3 DEF BuildOf, HasImage
<1>6. StackOf(d)
  BY <1>1, <1>3 DEF StackOf
<1> QED
  BY <1>4, <1>5, <1>6, MoveKeepsInv

LEMMA FailsKeepsInv ==
    ASSUME ServingInv, NEW d \in R!Ids, R!Fails(d), Framed
    PROVE  ServingInv'
<1>1. /\ dep[d].pc \notin {"none", "ready", "error", "lost"} /\ R!Goto(d, "error")
      /\ \/ stack' = stack
         \/ dep[d].pc = "set" /\ stack' = [stack EXCEPT ![R!NameOf(d)] = R!Runs(d)]
      /\ app' \subseteq app
      /\ UNCHANGED <<dir, image, head, pushed, accepted, env, met, gone>>
  BY DEF R!Fails, R!Running, R!At, R!SetStack, Framed
<1>2. /\ Proj(d) \in Projects /\ dep \in [R!Ids -> Deployment] /\ app \subseteq Projects
      /\ R!NameOf(d) \in R!Names /\ R!NameOf(d) = Name[Proj(d)]
      /\ dir \in [R!Names -> Kept] /\ image \in [R!Names -> [R!Code -> Kept]]
  BY <1>1, UnderwayFacts
<1>3. /\ dep' \in [R!Ids -> Deployment]
      /\ \A e \in R!Ids \ {d} : dep'[e] = dep[e]
      /\ dep'[d].pc = "error" /\ dep'[d].project = dep[d].project
      /\ dep'[d].from = dep[d].from /\ dep'[d].tag = dep[d].tag
  BY <1>1, <1>2, GotoFields DEF PCs
<1>4. Move(d)
  BY <1>1, <1>2, <1>3 DEF Move
<1>5. BuildOf(d)
  BY <1>1, <1>2, <1>3 DEF BuildOf, Past
<1>6. StackOf(d)
  BY <1>1, <1>3 DEF StackOf
<1> QED
  BY <1>4, <1>5, <1>6, MoveKeepsInv

-----------------------------------------------------------------------------
(***************************************************************************)
(* A deployment is made, the process restarts, or none of them moves.      *)
(***************************************************************************)
LEMMA StartKeepsInv ==
    ASSUME ServingInv, Framed, NEW p \in Projects, NEW from \in Nat, NEW tag \in Kept,
           R!Start(p, from, tag),
           UNCHANGED <<head, dir, image, stack, gone>>, app' \subseteq Projects,
           pushed' \subseteq pushed, accepted' \in [Projects -> Nat],
           \A q \in Projects \ {p} : accepted'[q] = accepted[q],
           accepted'[p] <= head[p],
           met[Name[p]] = 0 /\ from # 0 => tag \in R!Code /\ image[Name[p]][tag] = tag
    PROVE  ServingInv'
<1> DEFINE n0 == Name[p]
           new == [pc |-> "queued", project |-> p, from |-> from, tag |-> tag,
                   env |-> 0, hosts |-> {}]
<1>0. /\ ReleasesShape /\ Numbered /\ Serial /\ Working /\ Shown
      /\ Answered /\ Fresh /\ Configured /\ Proven /\ TagNamesCode /\ ConfigIsCurrent
  BY DEF ServingInv
<1>1. PICK d \in R!Ids :
      /\ d = Newest + 1 /\ dep' = [dep EXCEPT ![d] = new] /\ n0 \in R!Names
      /\ met' = IF R!Underway(n0) # {} THEN [met EXCEPT ![n0] = d] ELSE met
  BY NamesOfApps DEF R!Start, Newest
<1>2. new \in Deployment /\ new.pc = "queued" /\ new.project = p /\ new.from = from /\ new.tag = tag
  BY DEF Deployment, PCs
<1>3. Newest \in Nat /\ Newest <= MaxDeploys /\ d \in Nat /\ Newest < d /\ d <= MaxDeploys
  <2>1. Newest \in Nat /\ Newest <= MaxDeploys
    BY <1>0 DEF Numbered
  <2>2. d <= MaxDeploys
    BY <1>1, <2>1, ServingAssumption DEF ServingAssumption, R!Ids
  <2> QED
    BY <1>1, <2>1, <2>2
<1> HIDE DEF new
<1>4. /\ dep' \in [R!Ids -> Deployment] /\ dep'[d] = new
      /\ \A e \in R!Ids \ {d} : dep'[e] = dep[e]
  BY <1>0, <1>1, <1>2 DEF ReleasesShape
<1>5. /\ R!Begun = 1..Newest /\ d \notin R!Begun
      /\ \A e \in R!Begun : /\ e \in R!Ids /\ e \in Nat /\ e <= Newest /\ e < d
                            /\ dep'[e] = dep[e] /\ R!NameOf(e)' = R!NameOf(e)
  <2>1. \A e \in R!Ids : e \in R!Begun <=> e <= Newest
    BY <1>0 DEF Numbered, R!Begun
  <2>2. R!Begun = 1..Newest
    BY <1>3, <2>1, ServingAssumption DEF ServingAssumption, R!Ids, R!Begun
  <2>3. d \notin R!Begun
    BY <1>3, <2>2
  <2>4. \A e \in R!Begun : e \in R!Ids /\ e \in Nat /\ e <= Newest /\ e < d /\ e # d
    BY <1>3, <2>1, <2>2, <2>3 DEF R!Begun
  <2> QED
    BY <1>4, <2>2, <2>3, <2>4 DEF R!NameOf
<1>6. R!Begun' = R!Begun \cup {d} /\ R!NameOf(d)' = n0
  BY <1>1, <1>2, <1>4, <1>5 DEF R!Begun, R!NameOf
<1>7. Newest' = d
  <2>1. R!Begun' = 1..d
    BY <1>1, <1>3, <1>5, <1>6
  <2> QED
    BY <1>3, <2>1, CountUpTo DEF Newest
<1>8. /\ R!Of(n0)' = R!Of(n0) \cup {d}
      /\ \A n \in R!Names \ {n0} : R!Of(n)' = R!Of(n)
      /\ \A n : R!Of(n) \subseteq R!Begun
  BY <1>5, <1>6 DEF R!Of
<1>9. /\ \A n \in R!Names \ {n0} : R!Underway(n)' = R!Underway(n)
      /\ R!Underway(n0)' = R!Underway(n0) \cup {d}
  BY <1>2, <1>4, <1>5, <1>8 DEF R!Underway, R!Running
\* Whoever is alone after the step was alone before it, or is d.
<1>10. /\ met' \in [R!Names -> Nat]
       /\ \A n \in R!Names \ {n0} : met'[n] = met[n]
       /\ \/ met'[n0] = d
          \/ met'[n0] = met[n0] /\ R!Underway(n0) = {}
  BY <1>0, <1>1, <1>3 DEF ReleasesShape
<1>11. \A e \in R!Begun : R!NameOf(e) \in R!Names
  BY <1>0, NamesOfApps DEF Numbered, R!NameOf
<1>12. \A e \in R!Begun : /\ Alone(e)' => Alone(e)
                          /\ Sure(e)' => Sure(e)
                          /\ Tagged(e)' <=> Tagged(e)
                          /\ HasImage(e)' <=> HasImage(e)
  <2> TAKE e \in R!Begun
  <2>1. /\ dep'[e] = dep[e] /\ R!NameOf(e)' = R!NameOf(e) /\ e \in Nat /\ e < d
        /\ R!NameOf(e) \in R!Names /\ d # 0
    BY <1>1, <1>3, <1>5, <1>11
  <2>2. R!NameOf(e) = n0 => met'[n0] = met[n0] \/ (~(e > met'[n0]) /\ met'[n0] # 0)
    BY <1>3, <1>10, <2>1
  <2>3. Alone(e)' => Alone(e)
    BY <1>10, <2>1, <2>2 DEF Alone
  <2>4. Sure(e)' => Sure(e)
    BY <1>10, <2>1, <2>2, <2>3 DEF Sure, Alone
  <2> QED
    BY <2>1, <2>3, <2>4 DEF Tagged, HasImage
<1>13. /\ Proven' /\ env' = env /\ touched' = touched
       /\ \A q : D!VerifiedHosts(q)' = D!VerifiedHosts(q)
  BY <1>0, FrameKeeps
<1>14. Numbered'
  <2>1. \A e \in R!Ids : dep'[e].pc # "none" <=> e <= d
    <3> SUFFICES ASSUME NEW e \in R!Ids PROVE dep'[e].pc # "none" <=> e <= d
      OBVIOUS
    <3>1. CASE e = d
      BY <1>2, <1>3, <1>4, <3>1
    <3>2. CASE e # d
      <4>1. dep'[e] = dep[e] /\ (dep[e].pc # "none" <=> e <= Newest) /\ e \in Nat
        BY <1>0, <1>4, <3>2, Numbers DEF Numbered
      <4> QED
        BY <1>1, <1>3, <3>2, <4>1
    <3> QED
      BY <3>1, <3>2
  <2>2. \A e \in R!Begun \cup {d} : dep'[e].project \in Projects
    BY <1>0, <1>2, <1>4, <1>5 DEF Numbered
  <2> QED
    BY <1>3, <1>6, <1>7, <2>1, <2>2 DEF Numbered
<1>15. ReleasesShape'
  BY <1>0, <1>4, <1>10, <1>13 DEF ReleasesShape
<1>16. Serial'
  <2> SUFFICES ASSUME NEW n \in R!Names, NEW x \in R!Underway(n)', NEW e \in R!Of(n)', e > met'[n]
               PROVE  e <= x
    BY DEF Serial
  <2>1. CASE n = n0
    <3>1. e \in R!Of(n0) \cup {d} /\ x \in R!Underway(n0) \cup {d}
      BY <1>8, <1>9, <2>1
    <3>2. e \in Nat /\ e <= d
      BY <1>3, <1>5, <1>8, <3>1
    <3>3. met'[n0] # d
      BY <1>3, <2>1, <3>2
    <3> QED
      BY <1>10, <3>1, <3>2, <3>3
  <2>2. CASE n # n0
    BY <1>0, <1>8, <1>9, <1>10, <2>2 DEF Serial
  <2> QED
    BY <2>1, <2>2
<1>17. Working'
  <2> SUFFICES ASSUME NEW e \in R!Begun \cup {d}
               PROVE  /\ Alone(e)' /\ dep'[e].pc = "cloned" => dir[R!NameOf(e)]' \in R!Code
                      /\ Alone(e)' /\ dep'[e].pc = "named" => /\ dir[R!NameOf(e)]' = dep'[e].tag
                                                              /\ dep'[e].tag \in R!Code
                      /\ Sure(e)' /\ Tagged(e)' => HasImage(e)'
    BY <1>6 DEF Working
  <2>1. CASE e = d
    BY <1>1, <1>2, <1>4, <1>6, <1>10, <1>3, <2>1 DEF HasImage, Sure, Alone, Tagged
  <2>2. CASE e # d
    <3>1. e \in R!Begun /\ dep'[e] = dep[e] /\ R!NameOf(e)' = R!NameOf(e)
      BY <1>5, <2>2
    <3> QED
      BY <1>0, <1>12, <3>1 DEF Working
  <2> QED
    BY <2>1, <2>2
<1>18. Shown'
  <2> SUFFICES ASSUME NEW n \in R!Names
               PROVE  /\ stack[n].by # 0 =>
                            /\ stack[n].by \in R!Of(n)'
                            /\ dep'[stack[n].by].pc \in {"up", "ready", "error", "lost"}
                            /\ Sure(stack[n].by)' => stack[n].code = dep'[stack[n].by].tag
                      /\ \A e \in R!Of(n)' :
                            e > met'[n] /\ e > gone[n] /\ dep'[e].pc \in {"up", "ready"}
                            => e <= stack[n].by
    BY DEF Shown
  <2>1. /\ stack[n].by # 0 =>
              /\ stack[n].by \in R!Of(n)
              /\ dep[stack[n].by].pc \in {"up", "ready", "error", "lost"}
              /\ Sure(stack[n].by) => stack[n].code = dep[stack[n].by].tag
        /\ \A e \in R!Of(n) :
              e > met[n] /\ e > gone[n] /\ dep[e].pc \in {"up", "ready"} => e <= stack[n].by
    BY <1>0 DEF Shown
  <2>2. R!Of(n) \subseteq R!Of(n)' /\ R!Of(n)' \subseteq R!Of(n) \cup {d}
    BY <1>8
  <2>3. \A e \in R!Of(n) : /\ dep'[e] = dep[e] /\ (Sure(e)' => Sure(e))
                           /\ (e > met'[n] => e > met[n])
    <3> TAKE e \in R!Of(n)
    <3>1. e \in R!Begun /\ R!NameOf(e) = n
      BY OfNames
    <3>2. dep'[e] = dep[e] /\ (Sure(e)' => Sure(e)) /\ (Alone(e)' => Alone(e)) /\ R!NameOf(e)' = n
      BY <1>5, <1>12, <3>1
    <3> QED
      BY <3>1, <3>2 DEF Alone
  <2> QED
    BY <1>2, <1>4, <2>1, <2>2, <2>3
<1>19. Answered'
  <2>1. \A q \in Projects : accepted'[q] <= head[q]
    BY <1>0 DEF Answered
  <2> QED
    BY <1>0, <2>1 DEF Answered
<1>20. Fresh'
  <2> SUFFICES ASSUME NEW e \in R!Begun \cup {d}, Last(e)'
               PROVE  /\ dep'[e].pc = "cloned" => (dir[R!NameOf(e)] \in Recent(dep[e].project))'
                      /\ dep'[e].pc \in Past => dep'[e].tag \in Recent(dep[e].project)'
    BY <1>6 DEF Fresh
  <2>1. CASE e = d
    BY <1>2, <1>4, <2>1 DEF Past
  <2>2. CASE e # d
    <3>1. e \in R!Begun /\ dep'[e] = dep[e] /\ R!NameOf(e)' = R!NameOf(e) /\ e < d
      BY <1>5, <2>2
    <3>2. R!NameOf(e) # n0
      <4> SUFFICES ASSUME R!NameOf(e) = n0 PROVE FALSE
        OBVIOUS
      <4>1. d \in R!Of(R!NameOf(e))'
        BY <1>8, <3>1
      <4>2. d <= e
        BY <4>1 DEF Last
      <4> QED
        BY <1>3, <1>5, <3>1, <4>2
    <3>3. R!Of(R!NameOf(e))' = R!Of(R!NameOf(e))
      BY <1>8, <1>11, <3>1, <3>2
    <3>4. Last(e)
      BY <1>12, <3>1, <3>3 DEF Last
    <3>5. dep[e].project # p /\ dep[e].project \in Projects
      BY <1>0, <3>1, <3>2 DEF Numbered, R!NameOf
    <3>6. Recent(dep[e].project)' = Recent(dep[e].project)
      BY <3>1, <3>5 DEF Recent
    <3> QED
      BY <1>0, <3>1, <3>4, <3>6 DEF Fresh
  <2> QED
    BY <2>1, <2>2
<1>21. Configured'
  <2> SUFFICES ASSUME NEW e \in R!Begun \cup {d}, dep'[e].pc = "set", e > touched[dep'[e].project]
               PROVE  /\ dep'[e].env = env[dep'[e].project]
                      /\ dep'[e].hosts = D!VerifiedHosts(dep'[e].project)
    BY <1>6, <1>13 DEF Configured
  <2>1. e # d
    BY <1>2, <1>4
  <2>2. e \in R!Begun /\ dep'[e] = dep[e]
    BY <1>5, <2>1
  <2> QED
    BY <1>0, <2>2 DEF Configured
<1>22. TagNamesCode'
  <2>1. \A n \in R!Names : met'[n] = 0 => met[n] = 0
    BY <1>1, <1>3, <1>10
  <2> QED
    BY <1>0, <2>1 DEF TagNamesCode, R!TagNamesCode, R!Nothing
<1>23. ConfigIsCurrent'
  <2>1. \A n \in R!Names : stack[n].by # 0 => dep'[stack[n].by] = dep[stack[n].by]
    BY <1>0, <1>5, <1>8 DEF Shown
  <2> QED
    BY <1>0, <1>13, <2>1 DEF ConfigIsCurrent, R!Nothing
<1> QED
  BY <1>13, <1>14, <1>15, <1>16, <1>17, <1>18, <1>19, <1>20, <1>21, <1>22, <1>23 DEF ServingInv

LEMMA RestartKeepsInv ==
    ASSUME ServingInv, R!Restart, Framed
    PROVE  ServingInv'
<1>0. /\ ReleasesShape /\ Numbered /\ Serial /\ Working /\ Shown
      /\ Answered /\ Fresh /\ Configured /\ Proven /\ TagNamesCode /\ ConfigIsCurrent
  BY DEF ServingInv
<1>1. /\ dep' = [d \in R!Ids |-> IF R!Running(d)
                                 THEN [dep[d] EXCEPT !.pc = "lost"] ELSE dep[d]]
      /\ UNCHANGED <<dir, image, head, pushed, accepted, app, env, stack, met, gone>>
  BY DEF R!Restart
<1>2. ASSUME NEW d \in R!Ids
      PROVE  /\ dep'[d] \in Deployment
             /\ dep'[d].project = dep[d].project /\ dep'[d].from = dep[d].from
             /\ dep'[d].tag = dep[d].tag
             /\ \/ dep'[d].pc = "lost" /\ dep[d].pc # "none"
                \/ dep'[d] = dep[d] /\ dep[d].pc \in {"none", "ready", "error", "lost"}
  <2> DEFINE k == [dep[d] EXCEPT !.pc = "lost"]
  <2>1. dep[d] \in Deployment
    BY <1>0 DEF ReleasesShape
  <2>2. /\ k \in Deployment /\ k.pc = "lost" /\ k.project = dep[d].project
        /\ k.from = dep[d].from /\ k.tag = dep[d].tag
    BY <2>1 DEF Deployment, PCs
  <2>3. dep'[d] = IF R!Running(d) THEN k ELSE dep[d]
    BY <1>1
  <2> HIDE DEF k
  <2>4. R!Running(d) <=> dep[d].pc \notin {"none", "ready", "error", "lost"}
    BY DEF R!Running
  <2> QED
    BY <2>1, <2>2, <2>3, <2>4
<1>3. /\ Numbered' /\ Newest' = Newest /\ R!Begun' = R!Begun
      /\ \A d \in R!Ids : R!NameOf(d)' = R!NameOf(d)
      /\ \A n : R!Of(n)' = R!Of(n)
  <2>1. \A d \in R!Ids : /\ dep'[d].project = dep[d].project
                         /\ dep'[d].pc = "none" <=> dep[d].pc = "none"
    BY <1>2
  <2> QED
    BY <1>0, <2>1, SameMade
<1>4. /\ R!Begun \subseteq R!Ids /\ \A n : R!Of(n) \subseteq R!Begun
      /\ \A d \in R!Begun : dep'[d].pc \in {"ready", "error", "lost"}
  BY <1>2 DEF R!Of, R!Begun
<1>5. /\ Proven' /\ env' = env /\ touched' = touched
      /\ \A q : D!VerifiedHosts(q)' = D!VerifiedHosts(q)
  BY <1>0, FrameKeeps
<1>6. \A d \in R!Ids : (Alone(d)' <=> Alone(d)) /\ (Sure(d)' <=> Sure(d)) /\ (Last(d)' <=> Last(d))
  <2> TAKE d \in R!Ids
  <2>1. dep'[d].from = dep[d].from /\ (Alone(d)' <=> Alone(d))
    BY <1>1, <1>2, <1>3 DEF Alone
  <2> QED
    BY <1>1, <1>3, <2>1 DEF Sure, Last
<1>7. ReleasesShape'
  <2>1. dep' \in [R!Ids -> Deployment]
    <3>1. \A d \in R!Ids : dep'[d] \in Deployment
      BY <1>2
    <3> QED
      BY <1>1, <3>1
  <2> QED
    BY <1>0, <1>1, <1>5, <2>1 DEF ReleasesShape
<1>8. Serial'
  BY <1>3, <1>4 DEF Serial, R!Underway, R!Running
<1>9. Working'
  <2> SUFFICES ASSUME NEW d \in R!Begun, Sure(d), dep'[d].pc = "ready"
               PROVE  HasImage(d)'
    BY <1>3, <1>4, <1>6 DEF Working, Tagged
  <2>1. dep'[d] = dep[d] /\ d \in R!Ids /\ Tagged(d)
    BY <1>2, <1>4 DEF Tagged
  <2>2. HasImage(d)
    BY <1>0, <2>1 DEF Working
  <2> QED
    BY <1>1, <1>3, <2>1, <2>2 DEF HasImage
<1>10. Shown'
  <2> SUFFICES ASSUME NEW n \in R!Names
               PROVE  /\ stack[n].by # 0 =>
                            /\ stack[n].by \in R!Of(n)
                            /\ dep'[stack[n].by].pc \in {"up", "ready", "error", "lost"}
                            /\ Sure(stack[n].by)' => stack[n].code = dep'[stack[n].by].tag
                      /\ \A e \in R!Of(n) :
                            e > met[n] /\ e > gone[n] /\ dep'[e].pc \in {"up", "ready"}
                            => e <= stack[n].by
    BY <1>1, <1>3 DEF Shown
  <2>1. \A e \in R!Of(n) : e \in R!Begun /\ e \in R!Ids
    BY <1>4
  <2>2. stack[n].by # 0 => stack[n].by \in R!Ids /\ (Sure(stack[n].by)' => Sure(stack[n].by))
    <3> SUFFICES ASSUME stack[n].by # 0
                 PROVE  stack[n].by \in R!Ids /\ (Sure(stack[n].by)' => Sure(stack[n].by))
      OBVIOUS
    <3>1. PICK b \in R!Ids : b = stack[n].by
      BY <1>0, <2>1 DEF Shown
    <3>2. stack' = stack
      BY <1>1
    <3> QED
      BY <1>6, <3>1, <3>2
  <2>3. \A e \in R!Ids : dep'[e].tag = dep[e].tag
                          /\ (dep'[e].pc \in {"up", "ready"} => dep'[e] = dep[e])
    BY <1>2
  <2>4. stack[n].by # 0 => stack[n].by \in R!Of(n) /\ dep'[stack[n].by].pc \in {"up", "ready", "error", "lost"}
    BY <1>0, <1>4 DEF Shown
  <2> QED
    BY <1>0, <2>1, <2>2, <2>3, <2>4 DEF Shown
<1>11. Answered' /\ TagNamesCode'
  BY <1>0, <1>1 DEF Answered, TagNamesCode, R!TagNamesCode
<1>12. Fresh'
  <2> SUFFICES ASSUME NEW d \in R!Begun, Last(d), dep'[d].pc = "ready"
               PROVE  dep'[d].tag \in Recent(dep[d].project)'
    BY <1>3, <1>4, <1>6 DEF Fresh, Past
  <2>1. dep'[d] = dep[d]
    BY <1>2, <1>4
  <2>2. Recent(dep[d].project)' = Recent(dep[d].project)
    BY <1>1, <2>1 DEF Recent
  <2> QED
    BY <1>0, <2>1, <2>2 DEF Fresh, Past
<1>13. Configured'
  BY <1>3, <1>4 DEF Configured
<1>14. ConfigIsCurrent'
  <2>1. \A n \in R!Names : stack[n].by # 0 => dep'[stack[n].by].project = dep[stack[n].by].project
    BY <1>0, <1>2, <1>4 DEF Shown
  <2> QED
    BY <1>0, <1>1, <1>5, <2>1 DEF ConfigIsCurrent, R!Nothing
<1> QED
  BY <1>3, <1>5, <1>7, <1>8, <1>9, <1>10, <1>11, <1>12, <1>13, <1>14 DEF ServingInv

\* A step of none of them: variables, hostnames or the branch may change, and
\* the stack of a name may be replaced by something that is not a deployment.
LEMMA OtherKeepsInv ==
    ASSUME ServingInv, UNCHANGED <<dep, dir, image, met, accepted>>,
           \/ UNCHANGED <<stack, gone>>
           \/ \E p \in Projects : R!Displaced(p),
           Proven', app' \subseteq Projects, env' \in [Projects -> Nat],
           head' \in [Projects -> R!Commits], \A p \in Projects : head[p] <= head'[p],
           \A p \in Projects, c \in R!Commits : <<p, c>> \in pushed' => c <= head'[p],
           touched' = [p \in Projects |->
                IF env'[p] # env[p] \/ D!VerifiedHosts(p)' # D!VerifiedHosts(p)
                THEN R!Cardinality(R!Begun) ELSE touched[p]]
    PROVE  ServingInv'
<1>0. /\ ReleasesShape /\ Numbered /\ Serial /\ Working /\ Shown
      /\ Answered /\ Fresh /\ Configured /\ TagNamesCode /\ ConfigIsCurrent
  BY DEF ServingInv
<1>1. /\ R!Begun' = R!Begun /\ Newest' = Newest
      /\ \A n : R!Of(n)' = R!Of(n) /\ R!Underway(n)' = R!Underway(n)
  BY DEF R!Begun, R!NameOf, R!Of, R!Underway, R!Running, Newest
<1>2. \A p \in Projects :
         \/ touched'[p] = Newest
         \/ /\ touched'[p] = touched[p] /\ env'[p] = env[p]
            /\ D!VerifiedHosts(p)' = D!VerifiedHosts(p)
  BY DEF Newest
<1>3. Newest \in Nat /\ \A d \in R!Begun : d \in Nat /\ d <= Newest
  BY <1>0, Numbers DEF Numbered, R!Begun
\* The stack of a name is left alone, or no deployment of it runs any more.
<1>4. /\ stack' = [n \in R!Names |-> stack'[n]] /\ gone' \in [R!Names -> Nat]
      /\ \A n \in R!Names : \/ stack'[n] = stack[n] /\ gone'[n] = gone[n]
                            \/ stack'[n].by = 0 /\ gone'[n] = Newest
  <2>1. R!NoStack.by = 0
    BY DEF R!NoStack, R!Nothing
  <2>2. ASSUME NEW p \in Projects, R!Displaced(p)
        PROVE  /\ stack' = [stack EXCEPT ![Name[p]] = R!NoStack]
               /\ gone' = [gone EXCEPT ![Name[p]] = Newest]
    BY <2>2 DEF R!Displaced, Newest
  <2> QED
    BY <1>0, <1>3, <2>1, <2>2 DEF ReleasesShape
<1>5. ReleasesShape'
  <2>1. touched' \in [Projects -> Nat]
    BY <1>0, <1>2, <1>3 DEF ReleasesShape
  <2>2. \A n \in R!Names : stack'[n].by \in Nat
    BY <1>0, <1>4 DEF ReleasesShape
  <2> QED
    BY <1>0, <1>4, <2>1, <2>2 DEF ReleasesShape
<1>6. \A d : /\ Alone(d)' <=> Alone(d)
             /\ Sure(d)' <=> Sure(d)
             /\ Last(d)' <=> Last(d)
             /\ Tagged(d)' <=> Tagged(d)
             /\ HasImage(d)' <=> HasImage(d)
             /\ R!NameOf(d)' = R!NameOf(d)
             /\ Recent(dep[d].project)' = Recent(dep[d].project)
  BY <1>1 DEF Alone, Sure, Last, Tagged, HasImage, R!NameOf, R!Of, R!Begun, Recent
<1>7. Numbered' /\ Serial' /\ Fresh'
  BY <1>0, <1>1, <1>6 DEF Numbered, Serial, Fresh
<1>8. Shown'
  <2> SUFFICES ASSUME NEW n \in R!Names
               PROVE  /\ stack'[n].by # 0 =>
                            /\ stack'[n].by \in R!Of(n)
                            /\ dep[stack'[n].by].pc \in {"up", "ready", "error", "lost"}
                            /\ Sure(stack[n].by)' => stack'[n].code = dep[stack'[n].by].tag
                      /\ \A e \in R!Of(n) :
                            e > met[n] /\ e > gone'[n] /\ dep[e].pc \in {"up", "ready"}
                            => e <= stack'[n].by
    BY <1>1 DEF Shown
  <2>1. CASE stack'[n] = stack[n] /\ gone'[n] = gone[n]
    <3>1. Sure(stack[n].by)' => Sure(stack[n].by)
      BY <2>1 DEF Sure, Alone, R!NameOf
    <3> QED
      BY <1>0, <2>1, <3>1 DEF Shown
  <2>2. CASE stack'[n].by = 0 /\ gone'[n] = Newest
    <3>1. \A e \in R!Of(n) : ~(e > gone'[n])
      BY <1>3, <2>2, OfNames
    <3> QED
      BY <2>2, <3>1
  <2> QED
    BY <1>4, <2>1, <2>2
<1>9. Working' /\ TagNamesCode'
  BY <1>0, <1>1, <1>6 DEF Working, TagNamesCode, R!TagNamesCode
<1>10. Answered'
  <2> SUFFICES ASSUME NEW p \in Projects PROVE accepted[p] <= head'[p]
    BY DEF Answered
  <2>1. accepted[p] <= head[p] /\ head[p] <= head'[p]
    BY <1>0 DEF Answered
  <2>2. accepted[p] \in Nat /\ head[p] \in Nat /\ head'[p] \in Nat
    BY <1>0, Numbers DEF ReleasesShape
  <2> QED
    BY <2>1, <2>2
<1>11. Configured'
  <2> SUFFICES ASSUME NEW d \in R!Begun, dep[d].pc = "set", d > touched'[dep[d].project]
               PROVE  /\ dep[d].env = env'[dep[d].project]
                      /\ dep[d].hosts = D!VerifiedHosts(dep[d].project)'
    BY <1>1 DEF Configured
  <2>1. dep[d].project \in Projects
    BY <1>0 DEF Numbered
  <2>2. touched'[dep[d].project] # Newest
    BY <1>3
  <2> QED
    BY <1>0, <1>2, <2>1, <2>2 DEF Configured
<1>12. ConfigIsCurrent'
  <2> SUFFICES ASSUME NEW n \in R!Names, stack'[n].by # 0,
                      stack'[n].by > touched'[dep[stack'[n].by].project]
               PROVE  /\ stack'[n].env = env'[dep[stack'[n].by].project]
                      /\ stack'[n].hosts = D!VerifiedHosts(dep[stack[n].by].project)'
    BY DEF ConfigIsCurrent, R!Nothing
  <2>1. stack'[n] = stack[n] /\ stack[n].by \in R!Begun
    BY <1>0, <1>4, OfNames DEF Shown
  <2>2. PICK p \in Projects : p = dep[stack[n].by].project /\ stack[n].by > touched'[p]
    BY <1>0, <2>1 DEF Numbered
  <2>3. touched'[p] # Newest
    BY <1>3, <2>1, <2>2
  <2>4. /\ touched'[p] = touched[p] /\ env'[p] = env[p]
        /\ D!VerifiedHosts(p)' = D!VerifiedHosts(p)
    BY <1>2, <2>3
  <2>5. stack[n].env = env[p] /\ stack[n].hosts = D!VerifiedHosts(p)
    BY <1>0, <2>1, <2>2, <2>4 DEF ConfigIsCurrent, R!Nothing
  <2>6. D!VerifiedHosts(dep[stack[n].by].project)' = D!VerifiedHosts(p)'
    BY <2>1, <2>2 DEF D!VerifiedHosts
  <2> QED
    BY <2>1, <2>2, <2>4, <2>5, <2>6
<1> QED
  BY <1>5, <1>7, <1>8, <1>9, <1>10, <1>11, <1>12 DEF ServingInv

-----------------------------------------------------------------------------
(***************************************************************************)
(* Hostnames: every step keeps Proven.                                     *)
(***************************************************************************)
Statuses == {"none", "pending", "verified", "gone"}
Places == {"idle", "resolve", "register", "verified", "unregister", "delete"}

LEMMA CallMoves ==
    ASSUME Proven, NEW r \in Callers, NEW pc \in Places, NEW cf \in BOOLEAN, D!Goto(r, pc, cf)
    PROVE  /\ call' \in [Callers -> Call]
           /\ call'[r].pc = pc /\ call'[r].claim = call[r].claim
           /\ \A o \in Callers \ {r} : call'[o] = call[o]
<1> DEFINE a == [call[r] EXCEPT !.pc = pc]
           b == [a EXCEPT !.cf = cf]
<1>1. call[r] \in Call /\ call \in [Callers -> Call]
  BY DEF Proven
<1>2. a \in Call /\ a.pc = pc /\ a.claim = call[r].claim
  BY <1>1 DEF Call, Places
<1>3. b \in Call /\ b.pc = a.pc /\ b.claim = a.claim
  BY <1>2 DEF Call
<1>4. call' = [call EXCEPT ![r] = b]
  BY <1>1, ZenonT(60) DEF D!Goto
<1> HIDE DEF a, b
<1> QED
  BY <1>1, <1>2, <1>3, <1>4

LEMMA CallEnds ==
    ASSUME Proven, NEW r \in Callers, D!End(r)
    PROVE  /\ call' \in [Callers -> Call] /\ call'[r].pc = "idle"
           /\ \A o \in Callers \ {r} : call'[o] = call[o]
<1>1. D!NoCall \in Call /\ D!NoCall.pc = "idle"
  BY DEF D!NoCall, D!NoClaim, Call
<1>2. call \in [Callers -> Call] /\ call' = [call EXCEPT ![r] = D!NoCall]
  BY DEF Proven, D!End
<1> HIDE DEF D!NoCall
<1> QED
  BY <1>1, <1>2

\* The requests of others are left alone, as are the rows.
LEMMA CallKeepsProven ==
    ASSUME Proven, NEW r \in Callers, UNCHANGED <<controls, claim, published>>,
           call' \in [Callers -> Call], \A o \in Callers \ {r} : call'[o] = call[o],
           call'[r].pc # "idle" => /\ call'[r].claim \in D!Claims
                                   /\ claim[call'[r].claim].status # "none",
           call'[r].pc \in {"register", "verified"} => call'[r].claim \in published
    PROVE  Proven'
<1>1. \A o \in Callers :
        /\ call'[o].pc # "idle" => /\ call'[o].claim \in D!Claims
                                   /\ claim[call'[o].claim].status # "none"
        /\ call'[o].pc \in {"register", "verified"} => call'[o].claim \in published
  <2> TAKE o \in Callers
  <2>1. CASE o = r
    BY <2>1
  <2>2. CASE o # r
    BY <2>2 DEF Proven
  <2> QED
    BY <2>1, <2>2
<1> QED
  BY <1>1 DEF Proven

\* One row changes: it stays of its host and holder once made.
LEMMA RowKeepsProven ==
    ASSUME Proven, NEW c \in D!Claims, NEW row \in Row, UNCHANGED <<controls, published>>,
           claim' = [claim EXCEPT ![c] = row], row.status # "none", row.host \in Hosts,
           claim[c].status # "none" => row.host = claim[c].host /\ row.project = claim[c].project,
           row.status = "verified" => c \in published,
           call' \in [Callers -> Call],
           \A o \in Callers : call'[o].pc = "idle" \/ call'[o] = call[o]
    PROVE  Proven'
<1>1. /\ claim' \in [D!Claims -> Row] /\ claim'[c] = row
      /\ \A b \in D!Claims \ {c} : claim'[b] = claim[b]
  BY DEF Proven
<1>2. \A b \in D!Claims : /\ claim'[b].status # "none" => claim'[b].host \in Hosts
                          /\ claim[b].status # "none" => claim'[b].status # "none"
                          /\ claim'[b].status = "verified" => b \in published
  BY <1>1 DEF Proven
<1>3. \A b \in published : /\ b \in D!Claims /\ claim'[b].status # "none"
                           /\ controls[claim'[b].host] = claim'[b].project
  BY <1>1, <1>2 DEF Proven
<1>4. \A o \in Callers :
        /\ call'[o].pc # "idle" => /\ call'[o].claim \in D!Claims
                                   /\ claim'[call'[o].claim].status # "none"
        /\ call'[o].pc \in {"register", "verified"} => call'[o].claim \in published
  BY <1>2 DEF Proven
<1> QED
  BY <1>1, <1>2, <1>3, <1>4 DEF Proven

LEMMA RowFields ==
    ASSUME Proven, NEW c \in D!Claims
    PROVE  /\ claim[c] \in Row /\ claim[c].status \in Statuses
           /\ claim[c].host \in Hosts \cup {None} /\ claim[c].project \in Projects \cup {None}
           /\ claim[c].cf \in BOOLEAN
<1>1. claim[c] \in Row
  BY DEF Proven
<1> QED
  BY <1>1 DEF Row, Statuses

LEMMA AddKeepsProven ==
    ASSUME Proven, NEW p \in Projects, NEW h \in Hosts, D!Add(p, h)
    PROVE  Proven'
<1> DEFINE row == [status |-> "pending", host |-> h, project |-> p, cf |-> FALSE]
<1>1. PICK c \in D!Claims : /\ claim[c].status = "none" /\ claim' = [claim EXCEPT ![c] = row]
                            /\ UNCHANGED <<controls, published, call>>
  BY DEF D!Add
<1>2. row \in Row /\ row.status = "pending" /\ row.host \in Hosts
  BY DEF Row
<1>3. call' \in [Callers -> Call]
  BY <1>1 DEF Proven
<1> HIDE DEF row
<1> QED
  BY <1>1, <1>2, <1>3, RowKeepsProven

LEMMA PublishKeepsProven ==
    ASSUME Proven, NEW c \in D!Claims, D!Publish(c)
    PROVE  Proven'
<1>1. /\ claim[c].status # "none" /\ controls[claim[c].host] = claim[c].project
      /\ published' = published \cup {c} /\ UNCHANGED <<controls, claim, call>>
  BY DEF D!Publish, D!Live, D!HostOf
<1> QED
  BY <1>1 DEF Proven

LEMMA BeginKeepsProven ==
    ASSUME Proven, NEW r \in Callers, NEW c \in D!Claims, D!Verify(r, c) \/ D!Delete(r, c)
    PROVE  Proven'
<1>1. PICK pc \in {"resolve", "unregister", "delete"} : D!Begin(r, c, pc) /\ claim[c].status # "none"
  BY DEF D!Verify, D!Delete, D!Live
<1> DEFINE new == [pc |-> pc, claim |-> c, cf |-> FALSE]
<1>2. new \in Call /\ new.pc = pc /\ new.claim = c
  BY Numbers DEF Call
<1>3. call' = [call EXCEPT ![r] = new] /\ UNCHANGED <<controls, claim, published>>
  BY <1>1 DEF D!Begin
<1> HIDE DEF new
<1>4. /\ call' \in [Callers -> Call] /\ call'[r] = new
      /\ \A o \in Callers \ {r} : call'[o] = call[o]
  BY <1>2, <1>3 DEF Proven
<1> QED
  BY <1>1, <1>2, <1>3, <1>4, CallKeepsProven

LEMMA CallStepKeepsProven ==
    ASSUME Proven, NEW r \in Callers,
           \/ D!Resolve(r) \/ D!Register(r) \/ D!RegisterFails(r)
           \/ D!Unregister(r) \/ D!UnregisterFails(r) \/ D!Cut(r)
    PROVE  Proven'
<1>1. call[r].pc # "idle" /\ UNCHANGED <<controls, claim, published>>
  BY DEF D!Resolve, D!Register, D!RegisterFails, D!Unregister, D!UnregisterFails, D!Cut, D!At
<1>2. /\ call[r].claim \in D!Claims /\ claim[call[r].claim].status # "none"
      /\ call[r].pc \in {"register", "verified"} => call[r].claim \in published
  BY <1>1 DEF Proven
<1>3. \/ D!End(r)
      \/ D!Goto(r, "register", FALSE) /\ call[r].claim \in published
      \/ (D!Goto(r, "verified", TRUE) \/ D!Goto(r, "verified", FALSE)) /\ call[r].pc = "register"
      \/ D!Goto(r, "delete", FALSE)
  BY DEF D!Resolve, D!Register, D!RegisterFails, D!Unregister, D!UnregisterFails, D!Cut, D!At
<1>4. CASE D!End(r)
  BY <1>1, <1>4, CallEnds, CallKeepsProven
<1>5. CASE D!Goto(r, "register", FALSE) /\ call[r].claim \in published
  BY <1>1, <1>2, <1>5, CallMoves, CallKeepsProven DEF Places
<1>6. ASSUME NEW cf \in BOOLEAN, D!Goto(r, "verified", cf), call[r].pc = "register"
      PROVE  Proven'
  BY <1>1, <1>2, <1>6, CallMoves, CallKeepsProven DEF Places
<1>7. CASE D!Goto(r, "delete", FALSE)
  BY <1>1, <1>2, <1>7, CallMoves, CallKeepsProven DEF Places
<1> QED
  BY <1>3, <1>4, <1>5, <1>6, <1>7

LEMMA VerifyCommitsKeepsProven ==
    ASSUME Proven, NEW r \in Callers, D!VerifyCommits(r)
    PROVE  Proven'
<1> DEFINE c == call[r].claim
           k == [claim[c] EXCEPT !.status = "verified"]
           row == [k EXCEPT !.cf = @ \/ call[r].cf]
<1>1. /\ call[r].pc = "verified" /\ D!End(r) /\ UNCHANGED <<controls, published>>
      /\ claim' = IF D!Live(c) THEN [claim EXCEPT ![c].status = "verified",
                                                  ![c].cf = @ \/ call[r].cf]
                  ELSE claim
  BY DEF D!VerifyCommits, D!At
<1>2. c \in D!Claims /\ claim[c].status # "none" /\ c \in published /\ claim[c].host \in Hosts
  BY <1>1 DEF Proven
<1>3. claim[c] \in Row /\ claim[c].cf \in BOOLEAN /\ call[r].cf \in BOOLEAN
  <2>1. call[r] \in Call
    BY DEF Proven
  <2> QED
    BY <1>2, <2>1, RowFields DEF Call
<1>4. /\ k \in Row /\ k.status = "verified" /\ k.host = claim[c].host
      /\ k.project = claim[c].project /\ k.cf = claim[c].cf
  BY <1>3 DEF Row
<1>5. claim \in [D!Claims -> Row]
  BY DEF Proven
<1>6. D!Live(c) => claim' = [claim EXCEPT ![c] = row]
  <2>1. [claim EXCEPT ![c].status = "verified", ![c].cf = @ \/ call[r].cf] = [claim EXCEPT ![c] = row]
    BY <1>2, <1>5, ZenonT(60)
  <2> QED
    BY <1>1, <2>1
<1> HIDE DEF k
<1>7. row \in Row /\ row.status = "verified" /\ row.host = k.host /\ row.project = k.project
  <2>1. (k.cf \/ call[r].cf) \in BOOLEAN
    BY <1>3, <1>4
  <2> QED
    BY <1>4, <2>1 DEF Row
<1> HIDE DEF row, c
<1>8. /\ call' \in [Callers -> Call]
      /\ \A o \in Callers : call'[o].pc = "idle" \/ call'[o] = call[o]
      /\ call'[r].pc = "idle" /\ \A o \in Callers \ {r} : call'[o] = call[o]
  BY <1>1, CallEnds
<1>9. CASE D!Live(c)
  <2>1. claim' = [claim EXCEPT ![c] = row]
    BY <1>6, <1>9
  <2> QED
    BY <1>1, <1>2, <1>4, <1>7, <1>8, <2>1, RowKeepsProven
<1>10. CASE ~D!Live(c)
  BY <1>1, <1>8, <1>10, CallKeepsProven DEF c
<1> QED
  BY <1>9, <1>10

LEMMA DeleteCommitsKeepsProven ==
    ASSUME Proven, NEW r \in Callers, D!DeleteCommits(r)
    PROVE  Proven'
<1> DEFINE c == call[r].claim
           row == [claim[c] EXCEPT !.status = "gone"]
<1>1. /\ call[r].pc = "delete" /\ D!End(r) /\ UNCHANGED <<controls, published>>
      /\ claim' = [claim EXCEPT ![c].status = "gone"]
  BY DEF D!DeleteCommits, D!At
<1>2. c \in D!Claims /\ claim[c].status # "none" /\ claim[c].host \in Hosts
  BY <1>1 DEF Proven
<1>3. claim' = [claim EXCEPT ![c] = row]
  BY <1>1
<1>4. /\ row \in Row /\ row.status = "gone" /\ row.host = claim[c].host
      /\ row.project = claim[c].project
  BY <1>2, RowFields DEF Row
<1> HIDE DEF row, c
<1>5. /\ call' \in [Callers -> Call]
      /\ \A o \in Callers : call'[o].pc = "idle" \/ call'[o] = call[o]
  BY <1>1, CallEnds
<1> QED
  BY <1>1, <1>2, <1>3, <1>4, <1>5, RowKeepsProven

-----------------------------------------------------------------------------
(***************************************************************************)
(* What is asked for, and the whole next-state relation.                   *)
(***************************************************************************)
TouchedBy ==
    touched' = [p \in Projects |->
        IF env'[p] # env[p] \/ D!VerifiedHosts(p)' # D!VerifiedHosts(p)
        THEN R!Cardinality(R!Begun) ELSE touched[p]]

LEMMA DomainStepKeepsInv ==
    ASSUME ServingInv, TouchedBy, UNCHANGED releases,
           D!DomainsAsked \/ AddDomain \/ D!DomainsStep
    PROVE  ServingInv'
<1>1. Proven /\ app \subseteq Projects /\ env \in [Projects -> Nat] /\ head \in [Projects -> R!Commits]
      /\ \A p \in Projects, c \in R!Commits : <<p, c>> \in pushed => c <= head[p]
  BY DEF ServingInv, ReleasesShape, Answered
<1>2. Proven'
  <2>1. ASSUME NEW p \in app, NEW h \in Hosts, D!Add(p, h) PROVE Proven'
    BY <1>1, <2>1, AddKeepsProven
  <2>2. ASSUME NEW c \in D!Claims, D!Publish(c) PROVE Proven'
    BY <1>1, <2>2, PublishKeepsProven
  <2>3. ASSUME NEW c \in D!Claims, NEW r \in Callers, D!Verify(r, c) \/ D!Delete(r, c)
        PROVE  Proven'
    BY <1>1, <2>3, BeginKeepsProven
  <2>4. ASSUME NEW r \in Callers,
               \/ D!Resolve(r) \/ D!Register(r) \/ D!RegisterFails(r)
               \/ D!Unregister(r) \/ D!UnregisterFails(r) \/ D!Cut(r)
        PROVE  Proven'
    BY <1>1, <2>4, CallStepKeepsProven
  <2>5. ASSUME NEW r \in Callers, D!VerifyCommits(r) PROVE Proven'
    BY <1>1, <2>5, VerifyCommitsKeepsProven
  <2>6. ASSUME NEW r \in Callers, D!DeleteCommits(r) PROVE Proven'
    BY <1>1, <2>6, DeleteCommitsKeepsProven
  <2> QED
    BY <2>1, <2>2, <2>3, <2>4, <2>5, <2>6 DEF D!DomainsAsked, AddDomain, D!DomainsStep
<1>3. UNCHANGED <<head, pushed, accepted, app, dir, image, env, dep, stack, met, gone>>
  BY DEF releases
<1>4. \A p \in Projects : head[p] <= head'[p]
  <2> TAKE p \in Projects
  <2>1. head'[p] = head[p] /\ head[p] \in Nat
    BY <1>1, <1>3, Numbers
  <2> QED
    BY <2>1
<1> QED
  BY <1>1, <1>2, <1>3, <1>4, OtherKeepsInv DEF TouchedBy

\* What a step about releases leaves of the hostnames.
LEMMA DomainsKeepProven ==
    ASSUME Proven, UNCHANGED domains PROVE Proven'
BY DEF Proven, domains

LEMMA PushKeepsInv ==
    ASSUME ServingInv, TouchedBy, UNCHANGED domains, NEW p \in Projects, R!Push(p)
    PROVE  ServingInv'
<1>1. /\ head[p] < MaxCommits /\ head' = [head EXCEPT ![p] = @ + 1]
      /\ pushed' \subseteq pushed \cup {<<p, head[p] + 1>>}
      /\ UNCHANGED <<accepted, app, dir, image, env, dep, stack, met, gone>>
  BY DEF R!Push
<1>2. /\ app \subseteq Projects /\ env \in [Projects -> Nat] /\ head \in [Projects -> R!Commits]
      /\ \A q \in Projects, c \in R!Commits : <<q, c>> \in pushed => c <= head[q]
  BY DEF ServingInv, ReleasesShape, Answered
<1>3. Proven'
  BY DomainsKeepProven DEF ServingInv
<1>4. \A q \in Projects : head[q] \in Nat
  BY <1>2, Numbers
<1>5. head[p] + 1 \in R!Commits
  BY <1>1, <1>2, ServingAssumption DEF ServingAssumption, R!Commits
<1>6. /\ head' \in [Projects -> R!Commits]
      /\ \A q \in Projects : head[q] <= head'[q]
      /\ head'[p] = head[p] + 1
  BY <1>1, <1>2, <1>4, <1>5
<1>7. ASSUME NEW q \in Projects, NEW c \in R!Commits, <<q, c>> \in pushed'
      PROVE  c <= head'[q]
  <2>1. CASE <<q, c>> \in pushed
    <3>1. c <= head[q] /\ head[q] <= head'[q]
      BY <1>2, <1>6, <2>1
    <3>2. c \in Nat /\ head[q] \in Nat /\ head'[q] \in Nat
      BY <1>4, <1>6, Numbers
    <3> QED
      BY <3>1, <3>2
  <2>2. CASE q = p /\ c = head[p] + 1
    BY <1>4, <1>6, <2>2
  <2> QED
    BY <1>1, <1>7, <2>1, <2>2
<1> QED
  BY <1>1, <1>2, <1>3, <1>6, <1>7, OtherKeepsInv DEF TouchedBy

\* A step that leaves deployments and the branch alone.
LEMMA AsideKeepsInv ==
    ASSUME ServingInv, TouchedBy, UNCHANGED domains, env' \in [Projects -> Nat],
           pushed' \subseteq pushed, app' \subseteq Projects,
           UNCHANGED <<head, accepted, dir, image, dep, met>>,
           \/ UNCHANGED <<stack, gone>>
           \/ \E p \in Projects : R!Displaced(p)
    PROVE  ServingInv'
<1>1. /\ head \in [Projects -> R!Commits]
      /\ \A q \in Projects, c \in R!Commits : <<q, c>> \in pushed => c <= head[q]
  BY DEF ServingInv, ReleasesShape, Answered
<1>2. Proven'
  BY DomainsKeepProven DEF ServingInv
<1>3. \A q \in Projects : head[q] <= head'[q]
  <2> TAKE q \in Projects
  <2>1. head'[q] = head[q] /\ head[q] \in Nat
    BY <1>1, Numbers
  <2> QED
    BY <2>1
<1> QED
  BY <1>1, <1>2, <1>3, OtherKeepsInv DEF TouchedBy

LEMMA SetEnvKeepsInv ==
    ASSUME ServingInv, TouchedBy, UNCHANGED domains, NEW p \in Projects, R!SetHook(p) \/ R!SetEnv(p)
    PROVE  ServingInv'
<1>1. env \in [Projects -> Nat] /\ app \subseteq Projects
  BY DEF ServingInv, ReleasesShape
<1>2. /\ env' = env \/ env' = [env EXCEPT ![p] = @ + 1]
      /\ pushed' = pushed
      /\ UNCHANGED <<head, accepted, app, dir, image, dep, stack, met, gone>>
  BY DEF R!SetHook, R!SetEnv, R!Edited
<1>3. env' \in [Projects -> Nat]
  BY <1>1, <1>2
<1> QED
  BY <1>1, <1>2, <1>3, AsideKeepsInv

\* Removals and installs
LEMMA RequestKeepsInv ==
    ASSUME ServingInv, TouchedBy, UNCHANGED domains, NEW p \in Projects,
           R!Ask(p) \/ R!Replace(p) \/ R!ReplaceFails(p) \/ R!Conclude(p)
    PROVE  ServingInv'
<1>1. env \in [Projects -> Nat] /\ app \subseteq Projects
  BY DEF ServingInv, ReleasesShape
<1>2. /\ app' \in {app, app \ {p}, app \cup {p}}
      /\ UNCHANGED <<head, pushed, accepted, dir, image, env, dep, met>>
      /\ UNCHANGED <<stack, gone>> \/ R!Displaced(p)
  BY DEF R!Ask, R!Replace, R!ReplaceFails, R!Conclude
<1>3. app' \subseteq Projects
  BY <1>1, <1>2
<1> QED
  BY <1>1, <1>2, <1>3, AsideKeepsInv

LEMMA DeployKeepsInv ==
    ASSUME ServingInv, TouchedBy, UNCHANGED domains, NEW p \in Projects, R!Deploy(p)
    PROVE  ServingInv'
<1>1. /\ R!Start(p, 0, None) /\ app' = app \cup {p}
      /\ UNCHANGED <<head, pushed, accepted, dir, image, env, stack, gone>>
  BY DEF R!Deploy, R!Nothing
<1>2. Framed
  BY <1>1, FrameOfStep DEF TouchedBy
<1>3. /\ app \subseteq Projects /\ accepted \in [Projects -> Nat] /\ accepted[p] <= head[p]
      /\ None \in Kept
  BY DEF ServingInv, ReleasesShape, Answered, Kept
<1> QED
  BY <1>1, <1>2, <1>3, StartKeepsInv

LEMMA RollbackKeepsInv ==
    ASSUME ServingInv, TouchedBy, UNCHANGED domains, NEW d \in R!Ids, R!Rollback(d)
    PROVE  ServingInv'
<1>1. /\ dep[d].pc = "ready" /\ dep[d].project \in app
      /\ R!Start(dep[d].project, d, dep[d].tag)
      /\ UNCHANGED <<head, pushed, accepted, app, dir, image, env, stack, gone>>
  BY DEF R!Rollback, R!At
<1>2. Framed
  BY <1>1, FrameOfStep DEF TouchedBy
<1>3. /\ app \subseteq Projects /\ accepted \in [Projects -> Nat]
      /\ dep \in [R!Ids -> Deployment] /\ \A p \in Projects : accepted[p] <= head[p]
  BY DEF ServingInv, ReleasesShape, Answered
<1>4. dep[d].project \in Projects /\ dep[d].tag \in Kept /\ d \in Nat \ {0}
  BY <1>1, <1>3, DeploymentFields, Numbers
<1>5. met[R!NameOf(d)] = 0 =>
         dep[d].tag \in R!Code /\ image[R!NameOf(d)][dep[d].tag] = dep[d].tag
  <2>1. d \in R!Begun
    BY <1>1 DEF R!Begun
  <2>2. met[R!NameOf(d)] = 0 => Sure(d) /\ Tagged(d)
    BY <1>1, <1>4 DEF Sure, Alone, Tagged
  <2> QED
    BY <2>1, <2>2 DEF ServingInv, Working, HasImage
<1>6. Name[dep[d].project] = R!NameOf(d)
  BY DEF R!NameOf
<1> QED
  BY <1>1, <1>2, <1>3, <1>4, <1>5, <1>6, StartKeepsInv

LEMMA WebhookKeepsInv ==
    ASSUME ServingInv, TouchedBy, UNCHANGED domains,
           NEW p \in Projects, NEW c \in R!Commits, R!Webhook(p, c)
    PROVE  ServingInv'
<1>1. /\ <<p, c>> \in pushed /\ pushed' \subseteq pushed
      /\ UNCHANGED <<head, app, dir, image, env, stack, gone>>
      /\ \/ /\ R!Start(p, 0, None)
            /\ accepted' = [accepted EXCEPT ![p] = IF @ < c THEN c ELSE @]
         \/ UNCHANGED <<dep, met, accepted>>
  BY DEF R!Webhook, R!Nothing
<1>2. /\ app \subseteq Projects /\ accepted \in [Projects -> Nat] /\ env \in [Projects -> Nat]
      /\ accepted[p] <= head[p] /\ c <= head[p] /\ None \in Kept
  BY <1>1 DEF ServingInv, ReleasesShape, Answered, Kept
<1>3. CASE R!Start(p, 0, None) /\ accepted' = [accepted EXCEPT ![p] = IF @ < c THEN c ELSE @]
  <2>1. Framed
    BY <1>1, FrameOfStep DEF TouchedBy
  <2>2. c \in Nat
    BY Numbers
  <2>3. /\ accepted' \in [Projects -> Nat] /\ accepted'[p] \in {accepted[p], c}
        /\ \A q \in Projects \ {p} : accepted'[q] = accepted[q]
    BY <1>2, <1>3, <2>2
  <2>4. accepted'[p] <= head[p]
    BY <1>2, <2>3
  <2> QED
    BY <1>1, <1>2, <1>3, <2>1, <2>3, <2>4, StartKeepsInv
<1>4. CASE UNCHANGED <<dep, met, accepted>>
  BY <1>1, <1>2, <1>4, AsideKeepsInv
<1> QED
  BY <1>1, <1>3, <1>4

LEMMA BuildStepKeepsInv ==
    ASSUME ServingInv, TouchedBy, UNCHANGED domains, NEW d \in R!Ids,
           \/ R!Clone(d) \/ R!RevParse(d) \/ R!Build(d) \/ R!FindImage(d)
           \/ R!Configure(d, D!VerifiedHosts(dep[d].project))
           \/ R!Up(d) \/ R!RecordReady(d) \/ R!Fails(d)
    PROVE  ServingInv'
<1>1. env' = env
  BY DEF R!Clone, R!RevParse, R!Build, R!FindImage, R!Configure, R!Up, R!RecordReady, R!Fails,
         R!building
<1>2. Framed
  BY <1>1, FrameOfStep DEF TouchedBy
<1> QED
  BY <1>2, CloneKeepsInv, RevParseKeepsInv, BuildKeepsInv, FindImageKeepsInv, ConfigureKeepsInv,
     UpKeepsInv, RecordReadyKeepsInv, FailsKeepsInv

LEMMA RestartStepKeepsInv ==
    ASSUME ServingInv, TouchedBy, UNCHANGED domains, R!Restart
    PROVE  ServingInv'
<1>1. env' = env
  BY DEF R!Restart
<1>2. Framed
  BY <1>1, FrameOfStep DEF TouchedBy
<1> QED
  BY <1>2, RestartKeepsInv

LEMMA StepKeepsInv == ServingInv /\ [Next]_vars => ServingInv'
<1> SUFFICES ASSUME ServingInv, [Next]_vars PROVE ServingInv'
  OBVIOUS
<1>1. CASE Next
  <2>1. TouchedBy /\ (Asked \/ Step)
    BY <1>1 DEF Next, TouchedBy
  <2>2. CASE Asked
    <3>1. CASE R!ReleasesAsked /\ UNCHANGED domains
      BY <2>1, <3>1, PushKeepsInv, SetEnvKeepsInv, DeployKeepsInv, RequestKeepsInv,
         RollbackKeepsInv, RestartStepKeepsInv DEF R!ReleasesAsked
    <3>2. CASE (D!DomainsAsked \/ AddDomain) /\ UNCHANGED releases
      BY <2>1, <3>2, DomainStepKeepsInv
    <3> QED
      BY <2>2, <3>1, <3>2 DEF Asked
  <2>3. CASE Step
    <3>1. CASE (R!ReleasesStep \/ Configure) /\ UNCHANGED domains
      BY <2>1, <3>1, WebhookKeepsInv, RequestKeepsInv, BuildStepKeepsInv DEF R!ReleasesStep, Configure
    <3>2. CASE D!DomainsStep /\ UNCHANGED releases
      BY <2>1, <3>2, DomainStepKeepsInv
    <3> QED
      BY <2>3, <3>1, <3>2 DEF Step
  <2> QED
    BY <2>1, <2>2, <2>3
<1>2. CASE UNCHANGED vars
  <2>1. UNCHANGED domains /\ UNCHANGED releases /\ touched' = touched
    BY <1>2 DEF vars
  <2>2. UNCHANGED <<head, pushed, accepted, app, dir, image, env, dep, stack, met, gone>>
    BY <2>1 DEF releases
  <2>3. touched \in [Projects -> Nat] /\ env \in [Projects -> Nat] /\ app \subseteq Projects
    BY DEF ServingInv, ReleasesShape
  <2>4. \A p \in Projects : D!VerifiedHosts(p)' = D!VerifiedHosts(p)
    BY <2>1 DEF domains, D!VerifiedHosts, D!Verified, D!HostOf
  <2>5. TouchedBy
    BY <2>1, <2>2, <2>3, <2>4 DEF TouchedBy
  <2> QED
    BY <2>1, <2>2, <2>3, <2>5, AsideKeepsInv
<1> QED
  BY <1>1, <1>2

LEMMA InitHasInv == Init => ServingInv
<1> SUFFICES ASSUME Init PROVE ServingInv
  OBVIOUS
<1>1. /\ head = [p \in Projects |-> 1] /\ pushed = {} /\ app = {}
      /\ accepted = [p \in Projects |-> 0] /\ dir = [n \in R!Names |-> None]
      /\ image = [n \in R!Names |-> [k \in R!Code |-> None]]
      /\ env = [p \in Projects |-> 0] /\ dep = [d \in R!Ids |-> R!NoDep]
      /\ stack = [n \in R!Names |-> R!NoStack]
      /\ met = [n \in R!Names |-> 0] /\ gone = [n \in R!Names |-> 0]
      /\ touched = [p \in Projects |-> 0]
  BY DEF Init, R!ReleasesInit, R!Nothing
<1>2. /\ controls \in [Hosts -> Projects] /\ claim = [c \in D!Claims |-> D!NoRow]
      /\ published = {} /\ call = [r \in Callers |-> D!NoCall]
  BY DEF Init, D!DomainsInit
<1>3. /\ R!NoDep \in Deployment /\ R!NoDep.pc = "none" /\ R!NoStack.by = 0
      /\ D!NoRow \in Row /\ D!NoRow.status = "none"
      /\ D!NoCall \in Call /\ D!NoCall.pc = "idle"
  BY DEF R!NoDep, R!NoStack, R!Nothing, D!NoRow, D!NoCall, D!NoClaim, Deployment, Kept, PCs, Row, Call
<1>4. R!Begun = {} /\ \A n : R!Of(n) = {} /\ R!Underway(n) = {}
  BY <1>1, <1>3 DEF R!Begun, R!Of, R!Underway
<1>5. Newest = 0
  <2>1. R!Begun = 1..0
    BY <1>4
  <2> QED
    BY <2>1, CountUpTo DEF Newest
<1>6. ReleasesShape
  BY <1>1, <1>3, Numbers DEF ReleasesShape, Kept
<1>7. Numbered
  <2>1. \A d \in R!Ids : ~(d <= 0)
    BY Numbers
  <2> QED
    BY <1>1, <1>3, <1>4, <1>5, <2>1, ServingAssumption DEF ServingAssumption, Numbered
<1>8. Serial /\ Working /\ Fresh /\ Configured
  BY <1>4 DEF Serial, Working, Fresh, Configured
<1>9. Shown
  BY <1>1, <1>3, <1>4 DEF Shown
<1>10. Answered
  BY <1>1 DEF Answered
<1>11. Proven
  BY <1>2, <1>3 DEF Proven
<1>12. TagNamesCode
  BY <1>1 DEF TagNamesCode, R!TagNamesCode, R!Nothing
<1>13. ConfigIsCurrent
  BY <1>1, <1>3 DEF ConfigIsCurrent, R!Nothing
<1> QED
  BY <1>6, <1>7, <1>8, <1>9, <1>10, <1>11, <1>12, <1>13 DEF ServingInv

\* The invariant of the whole, for every instance.
THEOREM Invariance == Spec => []ServingInv
<1>1. Init => ServingInv
  BY InitHasInv
<1>2. ServingInv /\ [Next]_vars => ServingInv'
  BY StepKeepsInv
<1> QED
  BY <1>1, <1>2, PTL DEF Spec

-----------------------------------------------------------------------------
(***************************************************************************)
(* What follows from it.                                                   *)
(***************************************************************************)

LEMMA GreatestExists ==
    ASSUME NEW n \in Nat, NEW S \in SUBSET (1..n), S # {}
    PROVE  R!Max(S) \in S /\ \A x \in S : x <= R!Max(S)
<1> DEFINE T == {n - x : x \in S}
       Less == {pair \in Nat \X Nat : pair[1] < pair[2]}
<1>1. T \subseteq Nat
  <2>1. \A x \in S : x \in Nat /\ x <= n
    OBVIOUS
  <2> QED
    BY <2>1
<1>2. IsWellFoundedOn(Less, Nat)
  BY NatLessThanWellFounded DEF OpToRel
<1>3. T # {}
  OBVIOUS
<1>4. PICK m \in T : \A y \in T : ~(<<y, m>> \in Less)
  <2> HIDE DEF T, Less
  <2> QED
    BY <1>1, <1>2, <1>3, WFMin
<1>5. \A y \in T : m <= y
  <2> TAKE y \in T
  <2>1. y \in Nat /\ m \in Nat
    BY <1>1
  <2>2. ~(y < m)
    BY <1>4, <2>1
  <2> QED
    BY <2>1, <2>2
<1>6. PICK g \in S : m = n - g
  OBVIOUS
<1>7. \A x \in S : g >= x
  <2> TAKE x \in S
  <2>1. n - x \in T /\ x \in Nat /\ g \in Nat
    OBVIOUS
  <2> HIDE DEF T
  <2> QED
    BY <1>5, <1>6, <2>1
<1> HIDE DEF T
<1>8. R!Max(S) \in S /\ \A x \in S : R!Max(S) >= x
  BY <1>7 DEF R!Max
<1> QED
  BY <1>8

\* "an immutable tetra-<project>:<sha> image" (build_from_git), of a name no two
\* deployments of which were under way at once, whosever apps have it.
THEOREM ImagesHoldTheirCommit == Spec => []TagNamesCode
BY Invariance, PTL DEF ServingInv

\* The variables and the hostnames of a stack are those its app has now, unless
\* these changed after the deployment was asked for (env_map_for_deploy,
\* _custom_hosts), whatever failed, restarted or was rolled back since.
THEOREM ConfigStaysCurrent == Spec => []ConfigIsCurrent
BY Invariance, PTL DEF ServingInv

\* A hostname the edge is told to serve is its holder's (GET /edge/ask).
THEOREM VouchedForHolder == Spec => []VouchedIsProven
<1>1. ServingInv => VouchedIsProven
  <2> SUFFICES ASSUME ServingInv, NEW h \in Hosts, D!Vouched(h)
               PROVE  h \in D!VerifiedHosts(controls[h])
    BY DEF VouchedIsProven, D!VouchedIsProven
  <2>1. PICK c \in D!Claims : D!Verified(c) /\ D!HostOf(c) = h
    BY DEF D!Vouched
  <2>2. controls[h] = claim[c].project
    BY <2>1 DEF ServingInv, Proven, D!Verified, D!HostOf
  <2> QED
    BY <2>1, <2>2 DEF D!VerifiedHosts
<1> QED
  BY <1>1, Invariance, PTL

\* What is known of a name of which no deployment is under way.
LEMMA SettledFacts ==
    ASSUME ServingInv, NEW n \in R!Settled, NEW S \in SUBSET R!Of(n), S # {}
    PROVE  /\ R!Max(S) \in S /\ R!Max(S) \in Nat /\ \A d \in S : d <= R!Max(S)
           /\ R!Of(n) \subseteq Nat \ {0} /\ stack[n].by \in Nat
           /\ R!Max(R!Ready(n)) <= stack[n].by /\ stack[n].by \in R!Of(n)
           /\ met[n] < stack[n].by
           /\ Sure(stack[n].by) => stack[n].code = dep[stack[n].by].tag
           /\ \A d \in R!Ready(n) : d > met[n] /\ d > gone[n] => d <= stack[n].by
<1>1. /\ n \in R!Names /\ R!Ready(n) # {}
      /\ R!Max(R!Ready(n)) > met[n] /\ R!Max(R!Ready(n)) > gone[n]
      /\ R!Ready(n) \subseteq R!Of(n) /\ R!Of(n) \subseteq R!Ids
      /\ \A d \in R!Ready(n) : dep[d].pc = "ready"
  BY OfNames DEF R!Settled, R!Ready, R!At
<1>2. MaxDeploys \in Nat /\ R!Ids = 1..MaxDeploys
  BY ServingAssumption DEF ServingAssumption, R!Ids
<1>3. R!Max(S) \in S /\ \A d \in S : d <= R!Max(S)
  BY <1>1, <1>2, GreatestExists
<1>4. R!Max(R!Ready(n)) \in R!Ready(n)
  BY <1>1, <1>2, GreatestExists
<1>5. /\ stack[n].by \in Nat /\ met[n] \in Nat
      /\ \A d \in R!Ready(n) : d > met[n] /\ d > gone[n] => d <= stack[n].by
      /\ stack[n].by # 0 => /\ stack[n].by \in R!Of(n)
                            /\ Sure(stack[n].by) => stack[n].code = dep[stack[n].by].tag
  BY <1>1 DEF ServingInv, Shown, ReleasesShape
<1>6. R!Of(n) \subseteq Nat \ {0}
  BY <1>1, Numbers
<1>7. R!Max(R!Ready(n)) <= stack[n].by /\ R!Max(R!Ready(n)) \in Nat \ {0}
  BY <1>1, <1>4, <1>5, <1>6
<1>8. stack[n].by # 0 /\ met[n] < stack[n].by
  BY <1>1, <1>5, <1>7
<1>9. R!Max(S) \in Nat
  BY <1>3, <1>6
<1> QED
  BY <1>3, <1>5, <1>6, <1>7, <1>8, <1>9

\* The last success of a name is live, of whichever tenant, or what a later
\* failure left (RecordReady, Fails): unless another deployment of the name was
\* under way with it, or a removal or an install replaced its stack since.
THEOREM SuccessStaysLive == Spec => []LatestIsLive
<1>1. ServingInv => LatestIsLive
  <2> SUFFICES ASSUME ServingInv, NEW n \in R!Settled
               PROVE  /\ stack[n].by >= R!Max(R!Ready(n))
                      /\ stack[n].by \in {R!Max(R!Ready(n))} \cup (R!Of(n) \ R!Ready(n))
                      /\ dep[stack[n].by].from = 0 \/ met[n] = 0 =>
                            stack[n].code = dep[stack[n].by].tag
    BY DEF LatestIsLive, R!LatestIsLive, R!Nothing
  <2>1. R!Ready(n) \in SUBSET R!Of(n) /\ R!Ready(n) # {}
    BY DEF R!Settled, R!Ready
  <2>2. /\ R!Max(R!Ready(n)) \in Nat /\ \A d \in R!Ready(n) : d <= R!Max(R!Ready(n))
        /\ stack[n].by \in Nat /\ R!Max(R!Ready(n)) <= stack[n].by /\ stack[n].by \in R!Of(n)
        /\ met[n] < stack[n].by
        /\ Sure(stack[n].by) => stack[n].code = dep[stack[n].by].tag
    BY <2>1, SettledFacts
  <2>3. stack[n].by \in R!Ready(n) => stack[n].by = R!Max(R!Ready(n))
    BY <2>2
  <2>4. met[n] \in Nat /\ R!NameOf(stack[n].by) = n
    BY <2>2, OfNames DEF ServingInv, ReleasesShape, R!Settled
  <2>5. dep[stack[n].by].from = 0 \/ met[n] = 0 => Sure(stack[n].by)
    BY <2>2, <2>4 DEF Sure, Alone
  <2> QED
    BY <2>2, <2>3, <2>5
<1> QED
  BY <1>1, Invariance, PTL

\* An accepted push, or a newer one of the app, is live once a build of the app
\* that was alone is the last deployment of the name and READY, in whatever
\* order the webhooks before it came (api_github_webhook, build_from_git).
THEOREM PushesGoLive == Spec => []PushIsLive
<1>1. ServingInv => PushIsLive
  <2> DEFINE last(n) == R!Max(R!Of(n))
  <2> SUFFICES ASSUME ServingInv, NEW n \in R!Settled,
                      R!At(last(n), "ready"), dep[last(n)].from = 0
               PROVE  stack[n].code \in {<<dep[last(n)].project, c>> :
                                            c \in accepted[dep[last(n)].project]..MaxCommits}
    BY DEF PushIsLive, R!PushIsLive, R!Nothing
  <2>1. R!Of(n) # {} /\ n \in R!Names
    BY DEF R!Settled, R!Ready
  <2>2. PICK k \in R!Of(n) : k = last(n) /\ \A d \in R!Of(n) : d <= k
    BY <2>1, SettledFacts
  <2>3. /\ k \in Nat /\ stack[n].by \in Nat /\ stack[n].by \in R!Of(n)
        /\ met[n] < stack[n].by /\ R!Max(R!Ready(n)) <= stack[n].by
        /\ Sure(stack[n].by) => stack[n].code = dep[stack[n].by].tag
    BY <2>1, SettledFacts
  <2>4. dep[k].pc = "ready" /\ dep[k].from = 0
    BY <2>2 DEF R!At
  <2> HIDE DEF last
  <2>5. stack[n].by = k
    <3>1. k \in R!Ready(n)
      BY <2>2, <2>4 DEF R!Ready, R!At
    <3>2. k <= R!Max(R!Ready(n)) /\ R!Max(R!Ready(n)) \in Nat
      BY <3>1, SettledFacts, OfNames
    <3> QED
      BY <2>2, <2>3, <3>2
  <2>6. k \in R!Begun /\ R!NameOf(k) = n
    BY <2>2, OfNames
  <2>7. Last(k) /\ Sure(k)
    BY <2>2, <2>3, <2>4, <2>5, <2>6 DEF Last, Sure, Alone
  <2>8. dep[k].tag \in Recent(dep[k].project)
    BY <2>4, <2>6, <2>7 DEF ServingInv, Fresh, Past
  <2>9. PICK c \in R!Commits : accepted[dep[k].project] <= c /\ dep[k].tag = <<dep[k].project, c>>
    BY <2>8 DEF Recent
  <2>10. dep[k].project \in Projects /\ accepted[dep[k].project] \in Nat
    BY <2>6 DEF ServingInv, Numbered, ReleasesShape
  <2>11. c \in accepted[dep[k].project]..MaxCommits
    BY <2>9, <2>10, ServingAssumption DEF ServingAssumption, R!Commits
  <2> QED
    BY <2>2, <2>3, <2>5, <2>7, <2>9, <2>11
<1> QED
  BY <1>1, Invariance, PTL

-----------------------------------------------------------------------------
(***************************************************************************)
(* Retention.  A pass that no new row has disturbed found nothing in       *)
(* flight, and nothing has come to be in flight since: the window and what *)
(* others record are what they were when it chose what to delete.          *)
(***************************************************************************)
Launching == {"cloning", "built", "pushed", "starting", "checking", "restarting"}

\* A pass deletes only what it chose, one ref at a time.
Chosen(d) ==
    /\ toDelete[d] \subseteq stale[d]
    /\ half[d] # NoRef => task[d] = "pruning" /\ half[d] \in stale[d]

\* What an undisturbed pass chose is outside the window and nobody else's.
Safe(d) ==
    ~disturbed /\ task[d] = "pruning" =>
        /\ InFlight = {}
        /\ stale[d] \cap Window = {}
        /\ stale[d] \cap Shared = {}

RetentionInv ==
    /\ RetentionTypeOK
    /\ \A d \in Deployments :
          /\ task[d] \in Launching => status[d] = "inflight" /\ ref[d] \in Refs
          /\ d > created => task[d] = "none"
    /\ \A d \in Deployments : Chosen(d) /\ Safe(d)

LEMMA RetentionStart == RetentionInit => RetentionInv
<1>. SUFFICES ASSUME RetentionInit PROVE RetentionInv
  OBVIOUS
<1>1. RetentionTypeOK
  <2>1. created \in 0..MaxDeployments
    BY RetentionAssumption DEF RetentionInit
  <2>. QED  BY <2>1 DEF RetentionInit, RetentionTypeOK, Tasks
<1>2. \A d \in Deployments : task[d] = "none" /\ half[d] = NoRef /\ Chosen(d)
  BY DEF RetentionInit, Chosen
<1>. QED  BY <1>1, <1>2 DEF RetentionInv, Safe, Launching

\* A step of a deployment's own task, which only touches its own row.
LEMMA TaskStepKeeps ==
    ASSUME RetentionInv, NEW k \in Deployments, task[k] \in Launching,
           NEW stage \in Launching \cup {"retention", "done"},
           Goto(k, stage),
           NEW s \in {"inflight", "ready", "error"}, NEW i \in Refs \cup {NoRef},
           status' = [status EXCEPT ![k] = s],
           recorded' = [recorded EXCEPT ![k] = i],
           stage \in Launching => s = "inflight",
           NEW j \in Refs, ref' = [ref EXCEPT ![k] = j],
           local' \subseteq Refs, remote' \subseteq Commits,
           UNCHANGED <<created, foreign, prune, disturbed>>
    PROVE  RetentionInv'
<1>. USE DEF RetentionInv
<1>1. UNCHANGED <<stale, toDelete, half>>
  BY DEF prune
<1>2. RetentionTypeOK' /\ task'[k] = stage /\ \A d \in Deployments \ {k} : task'[d] = task[d]
  BY <1>1 DEF RetentionTypeOK, Goto, Launching, Tasks
<1>3. /\ status'[k] = s /\ \A d \in Deployments \ {k} : status'[d] = status[d]
      /\ ref'[k] = j /\ \A d \in Deployments \ {k} : ref'[d] = ref[d]
  BY DEF RetentionTypeOK
<1>4. status[k] = "inflight" /\ k \in InFlight /\ half[k] = NoRef
  BY DEF InFlight, Chosen, Launching
<1>5. ASSUME NEW d \in Deployments
      PROVE  Chosen(d)' /\ Safe(d)'
  <2>1. Chosen(d)'
    BY <1>1, <1>2, <1>4 DEF Chosen
  <2>2. ~disturbed' => task'[d] # "pruning"
    BY <1>2, <1>4 DEF Safe, Launching
  <2>. QED  BY <2>1, <2>2 DEF Safe
<1>6. ~(k > created)
  BY DEF Launching
<1>. QED  BY <1>2, <1>3, <1>5, <1>6

\* A new row disturbs the passes under way.
LEMMA CreateKeeps ==
    ASSUME RetentionInv, NEW stage \in Launching, CreateRow(stage),
           \/ UNCHANGED recorded
           \/ \E i \in Refs : recorded' = [recorded EXCEPT ![created'] = i],
           NEW j \in Refs, ref' = [ref EXCEPT ![created'] = j],
           UNCHANGED <<store, foreign, prune>>
    PROVE  RetentionInv'
<1>. USE DEF RetentionInv
<1>1. UNCHANGED <<stale, toDelete, half>>
  BY DEF prune
<1>2. created' \in Deployments /\ created' \in 0..MaxDeployments
  BY RetentionAssumption DEF CreateRow, RetentionTypeOK, Deployments
<1>. PICK k \in Deployments : k = created'
  BY <1>2
<1>3. /\ status' = [status EXCEPT ![k] = "inflight"]
      /\ task' = [task EXCEPT ![k] = stage]
      /\ disturbed' = (disturbed \/ Pruning)
      /\ UNCHANGED recorded \/ \E i \in Refs : recorded' = [recorded EXCEPT ![k] = i]
      /\ ref' = [ref EXCEPT ![k] = j]
      /\ UNCHANGED <<local, remote>>
  BY DEF CreateRow, Goto, store
<1>4. RetentionTypeOK'
  BY <1>1, <1>2, <1>3 DEF RetentionTypeOK, Launching, Tasks
<1>5. /\ task'[k] = stage /\ \A d \in Deployments \ {k} : task'[d] = task[d]
      /\ ref'[k] = j /\ \A d \in Deployments \ {k} : ref'[d] = ref[d]
      /\ status'[k] = "inflight" /\ \A d \in Deployments \ {k} : status'[d] = status[d]
  BY <1>3 DEF RetentionTypeOK
<1>6. ASSUME NEW d \in Deployments
      PROVE  Chosen(d)' /\ Safe(d)'
  <2>1. Chosen(d)'
    <3>1. k > created
      BY RetentionAssumption DEF CreateRow, RetentionTypeOK
    <3>2. half[k] = NoRef
      BY <3>1 DEF Chosen
    <3>. QED  BY <1>1, <1>5, <3>2 DEF Chosen
  <2>2. ~disturbed' => task'[d] # "pruning"
    BY <1>3, <1>5 DEF Pruning, Launching
  <2>. QED  BY <2>1, <2>2 DEF Safe
<1>7. \A d \in Deployments : d > created' => d > created /\ d # k
  BY DEF RetentionTypeOK, CreateRow, Deployments
<1>. QED  BY <1>4, <1>5, <1>6, <1>7

LEMMA BuildKeeps ==
    ASSUME RetentionInv, NEW d \in Deployments, BuildStep(d) \/ RollbackStep(d)
    PROVE  RetentionInv'
<1>. USE DEF RetentionInv
<1>0. /\ task[d] \in Launching /\ status[d] = "inflight" /\ ref[d] \in Refs
      /\ recorded[d] \in Refs \cup {NoRef}
      /\ status = [status EXCEPT ![d] = "inflight"]
      /\ recorded = [recorded EXCEPT ![d] = recorded[d]]
      /\ ref = [ref EXCEPT ![d] = ref[d]]
      /\ local \subseteq Refs /\ remote \subseteq Commits
  <2>1. task[d] \in Launching
    BY DEF BuildStep, RollbackStep, Build, Push, RecordRef, BuildReady, TaskFails,
           FindImage, RollbackReady, Launching
  <2>. QED  BY <2>1 DEF RetentionTypeOK
<1>1. ASSUME NEW stage \in {"built", "pushed", "restarting"}, Goto(d, stage),
             NEW j \in Refs, ref' = [ref EXCEPT ![d] = j],
             local' \subseteq Refs, remote' \subseteq Commits,
             UNCHANGED <<rows, foreign, prune, disturbed>>
      PROVE  RetentionInv'
  <2>1. UNCHANGED <<created, status, recorded>> /\ stage \in Launching
    BY <1>1 DEF rows, Launching
  <2>. QED  BY <1>0, <1>1, <2>1, TaskStepKeeps
<1>2. ASSUME NEW next \in {"retention", "done"}, GoLive(d, next)
      PROVE  RetentionInv'
  <2>1. local' \subseteq Refs /\ remote' \subseteq Commits /\ next \notin Launching
    BY <1>0, <1>2 DEF GoLive, Launching
  <2>. QED  BY <1>0, <1>2, <2>1, TaskStepKeeps DEF GoLive
<1>3. CASE Build(d)
  <2>1. local' \subseteq Refs /\ remote' \subseteq Commits /\ ref' = ref
    BY <1>0, <1>3 DEF Build
  <2>. QED  BY <1>0, <1>1, <1>3, <2>1 DEF Build
<1>4. CASE Push(d)
  <2>1. ref[d].commit \in Commits
    BY <1>0 DEF Refs
  <2>2. Pushed(ref[d].commit) \in Refs
    BY <2>1 DEF Refs, Pushed
  <2>3. local' \subseteq Refs /\ remote' \subseteq Commits
    BY <1>0, <1>4, <2>1, <2>2 DEF Push
  <2>4. \E j \in Refs : ref' = [ref EXCEPT ![d] = j]
    BY <1>0, <1>4, <2>2 DEF Push
  <2>. QED  BY <1>1, <1>4, <2>3, <2>4 DEF Push
<1>5. CASE RecordRef(d)
  <2>1. "starting" \in Launching
    BY DEF Launching
  <2>2. UNCHANGED <<local, remote>>
    BY <1>5 DEF RecordRef, store
  <2>. QED  BY <1>0, <1>5, <2>1, <2>2, TaskStepKeeps DEF RecordRef
<1>6. CASE BuildReady(d)
  BY <1>2, <1>6 DEF BuildReady
<1>7. CASE TaskFails(d)
  <2>1. "done" \notin Launching
    BY DEF Launching
  <2>2. UNCHANGED <<local, remote>>
    BY <1>7 DEF TaskFails, store
  <2>. QED  BY <1>0, <1>7, <2>1, <2>2, TaskStepKeeps DEF TaskFails
<1>8. CASE FindImage(d)
  <2>1. local' \subseteq Refs /\ remote' \subseteq Commits /\ ref' = ref
    BY <1>0, <1>8 DEF FindImage
  <2>. QED  BY <1>0, <1>1, <1>8, <2>1 DEF FindImage
<1>9. CASE RollbackReady(d)
  BY <1>2, <1>9 DEF RollbackReady
<1>. QED  BY <1>3, <1>4, <1>5, <1>6, <1>7, <1>8, <1>9 DEF BuildStep, RollbackStep

\* The window depends on the READY rows only.
LEMMA WindowStays ==
    ASSUME UNCHANGED status,
           \A d \in Deployments : status[d] = "ready" => recorded'[d] = recorded[d]
    PROVE  Window' = Window
<1>1. \A r : Ready(r)' = Ready(r)
  BY DEF Ready
<1>2. ReadyRefs' = ReadyRefs
  BY <1>1 DEF ReadyRefs
<1>3. \A r, s : Newer(r, s)' <=> Newer(r, s)
  BY <1>1 DEF Newer
<1>. QED  BY <1>2, <1>3 DEF Window

LEMMA PruneReadKeeps ==
    ASSUME RetentionInv, NEW k \in Deployments, PruneRead(k)
    PROVE  RetentionInv'
<1>. USE DEF RetentionInv
<1>1. /\ UNCHANGED <<created, status, recorded, ref, local, remote, foreign, disturbed, half>>
      /\ task[k] = "retention" /\ half[k] = NoRef
  BY DEF PruneRead, rows, store, prune, Chosen
<1>2. Window' = Window /\ InFlight' = InFlight /\ Shared' = Shared
  BY <1>1, WindowStays DEF InFlight, Shared
<1>3. CASE InFlight # {}
  <2>1. Goto(k, "done") /\ UNCHANGED <<stale, toDelete>>
    BY <1>3 DEF PruneRead, prune
  <2>2. RetentionTypeOK' /\ task'[k] = "done" /\ \A d \in Deployments \ {k} : task'[d] = task[d]
    BY <1>1, <2>1 DEF RetentionTypeOK, Goto, Tasks
  <2>3. \A d \in Deployments : Chosen(d)' /\ Safe(d)'
    BY <1>1, <1>2, <2>1, <2>2 DEF Chosen, Safe
  <2>. QED  BY <1>1, <2>2, <2>3 DEF Launching
<1>4. CASE InFlight = {}
  <2>. DEFINE doomed == ((ReadyRefs \cup ErrorRefs) \ Window) \ Shared
  <2>1. /\ Goto(k, "pruning")
        /\ stale' = [stale EXCEPT ![k] = doomed]
        /\ toDelete' = [toDelete EXCEPT ![k] = doomed]
    BY <1>4 DEF PruneRead
  <2>2. doomed \subseteq Refs /\ doomed \cap Window = {} /\ doomed \cap Shared = {}
    BY DEF ReadyRefs, ErrorRefs
  <2>. HIDE DEF doomed
  <2>3. /\ RetentionTypeOK'
        /\ task'[k] = "pruning" /\ \A d \in Deployments \ {k} : task'[d] = task[d]
        /\ stale'[k] = doomed /\ \A d \in Deployments \ {k} : stale'[d] = stale[d]
        /\ toDelete'[k] = doomed /\ \A d \in Deployments \ {k} : toDelete'[d] = toDelete[d]
    BY <1>1, <2>1, <2>2 DEF RetentionTypeOK, Goto, Tasks
  <2>4. \A d \in Deployments : Chosen(d)' /\ Safe(d)'
    BY <1>1, <1>2, <1>4, <2>2, <2>3 DEF Chosen, Safe
  <2>. QED  BY <1>1, <2>3, <2>4 DEF Launching
<1>. QED  BY <1>3, <1>4

LEMMA PruneStepKeeps ==
    ASSUME RetentionInv, NEW k \in Deployments, PruneStep(k)
    PROVE  RetentionInv'
<1>. USE DEF RetentionInv
<1>1. CASE PruneRead(k)
  BY <1>1, PruneReadKeeps
<1>2. ASSUME NEW r \in Refs, RemoveLocal(k, r)
      PROVE  RetentionInv'
  <2>1. /\ UNCHANGED <<created, status, recorded, task, ref, remote, foreign, stale, disturbed>>
        /\ local' \subseteq local
        /\ task[k] = "pruning" /\ r \in stale[k]
        /\ toDelete' = [toDelete EXCEPT ![k] = @ \ {r}]
        /\ half' = [half EXCEPT ![k] = r]
    BY <1>2 DEF RemoveLocal, rows, Chosen
  <2>2. Window' = Window /\ InFlight' = InFlight /\ Shared' = Shared
    BY <2>1, WindowStays DEF InFlight, Shared
  <2>3. RetentionTypeOK'
    BY <2>1 DEF RetentionTypeOK
  <2>4. \A d \in Deployments : Chosen(d)' /\ Safe(d)'
    BY <2>1, <2>2 DEF Chosen, Safe, RetentionTypeOK
  <2>. QED  BY <2>1, <2>3, <2>4
<1>3. CASE DeleteRemote(k)
  <2>1. /\ UNCHANGED <<created, status, recorded, task, ref, local, foreign, stale, toDelete, disturbed>>
        /\ remote' \subseteq remote
        /\ half' = [half EXCEPT ![k] = NoRef]
    BY <1>3 DEF DeleteRemote, rows
  <2>2. Window' = Window /\ InFlight' = InFlight /\ Shared' = Shared
    BY <2>1, WindowStays DEF InFlight, Shared
  <2>3. RetentionTypeOK'
    BY <2>1 DEF RetentionTypeOK
  <2>4. \A d \in Deployments : Chosen(d)' /\ Safe(d)'
    BY <2>1, <2>2 DEF Chosen, Safe, RetentionTypeOK
  <2>. QED  BY <2>1, <2>3, <2>4
<1>4. CASE PruneDone(k)
  <2>1. /\ UNCHANGED <<created, status, ref, local, remote, foreign, toDelete, half>>
        /\ task[k] = "pruning" /\ half[k] = NoRef /\ toDelete[k] = {}
        /\ task' = [task EXCEPT ![k] = "done"]
        /\ stale' = [stale EXCEPT ![k] = {}]
        /\ recorded' \in [Deployments -> Refs \cup {NoRef}]
        /\ \A e \in Deployments : status[e] # "error" => recorded'[e] = recorded[e]
        /\ disturbed' = (disturbed /\ \E e \in Deployments \ {k} : task[e] = "pruning")
    BY <1>4 DEF PruneDone, Goto, store, RetentionTypeOK
  <2>2. Window' = Window /\ InFlight' = InFlight /\ Shared' = Shared
    BY <2>1, WindowStays DEF InFlight, Shared
  <2>3. /\ RetentionTypeOK'
        /\ task'[k] = "done" /\ \A d \in Deployments \ {k} : task'[d] = task[d]
        /\ stale'[k] = {} /\ \A d \in Deployments \ {k} : stale'[d] = stale[d]
    BY <2>1 DEF RetentionTypeOK, Tasks
  <2>4. \A d \in Deployments : Chosen(d)'
    BY <2>1, <2>3 DEF Chosen
  <2>5. \A d \in Deployments : Safe(d)'
    <3>. SUFFICES ASSUME NEW d \in Deployments, ~disturbed', task'[d] = "pruning"
                  PROVE  Safe(d)'
      BY DEF Safe
    <3>1. d # k /\ task[d] = "pruning"
      BY <2>3
    <3>2. ~disturbed
      BY <2>1, <3>1 DEF RetentionTypeOK
    <3>. QED  BY <2>2, <2>3, <3>1, <3>2 DEF Safe
  <2>6. ~(k > created)
    BY <2>1
  <2>. QED  BY <2>1, <2>3, <2>4, <2>5, <2>6 DEF Launching
<1>. QED  BY <1>1, <1>2, <1>3, <1>4 DEF PruneStep

LEMMA ForeignKeeps ==
    ASSUME RetentionInv, NEW c \in Commits, ForeignPush(c) \/ ForeignRecord(c)
    PROVE  RetentionInv'
<1>. USE DEF RetentionInv
<1>1. /\ UNCHANGED <<created, status, recorded, task, ref, local, stale, toDelete, half>>
      /\ remote' \subseteq Commits /\ foreign' \subseteq Commits
      /\ \/ UNCHANGED <<foreign, disturbed>>
         \/ disturbed' = (disturbed \/ Pruning)
  BY DEF ForeignPush, ForeignRecord, rows, store, prune, RetentionTypeOK
<1>2. Window' = Window /\ InFlight' = InFlight
  BY <1>1, WindowStays DEF InFlight
<1>3. RetentionTypeOK' /\ \A d \in Deployments : Chosen(d)'
  BY <1>1 DEF RetentionTypeOK, Chosen, Pruning
<1>4. \A d \in Deployments : Safe(d)'
  <2>1. CASE UNCHANGED <<foreign, disturbed>>
    BY <1>1, <1>2, <2>1 DEF Safe, Shared
  <2>2. CASE disturbed' = (disturbed \/ Pruning)
    BY <1>1, <2>2 DEF Safe, Pruning
  <2>. QED  BY <1>1, <2>1, <2>2
<1>. QED  BY <1>1, <1>3, <1>4

LEMMA RetentionKeeps ==
    ASSUME RetentionInv, [RetentionNext]_retentionVars
    PROVE  RetentionInv'
<1>1. ASSUME NEW c \in Commits, StartBuild(c)
      PROVE  RetentionInv'
  <2>1. /\ CreateRow("cloning") /\ UNCHANGED <<recorded, store, foreign, prune>>
        /\ ref' = [ref EXCEPT ![created'] = Bare(c)] /\ Bare(c) \in Refs
    BY <1>1 DEF StartBuild, Bare, Refs
  <2>. QED  BY <2>1, CreateKeeps DEF Launching
<1>2. ASSUME NEW d \in Deployments, StartRollback(d)
      PROVE  RetentionInv'
  <2>1. /\ CreateRow("checking") /\ UNCHANGED <<store, foreign, prune>>
        /\ recorded[d] \in Refs
        /\ recorded' = [recorded EXCEPT ![created'] = recorded[d]]
        /\ ref' = [ref EXCEPT ![created'] = recorded[d]]
    BY <1>2 DEF StartRollback, RetentionInv, RetentionTypeOK
  <2>. QED  BY <2>1, CreateKeeps DEF Launching
<1>3. CASE UNCHANGED retentionVars
  <2>1. UNCHANGED <<created, status, recorded, task, ref, local, remote, foreign, stale,
                    toDelete, half, disturbed>>
    BY <1>3 DEF retentionVars, rows, store, prune
  <2>2. Window' = Window /\ InFlight' = InFlight /\ Shared' = Shared
    BY <2>1, WindowStays DEF InFlight, Shared
  <2>. QED  BY <2>1, <2>2 DEF RetentionInv, RetentionTypeOK, Chosen, Safe
<1>. QED  BY <1>1, <1>2, <1>3, BuildKeeps, PruneStepKeeps, ForeignKeeps DEF RetentionNext

THEOREM RetentionInvariance == RetentionSpec => []RetentionInv
  BY RetentionStart, RetentionKeeps, PTL DEF RetentionSpec

\* Whatever a step deletes from the registry was chosen by a pass.
LEMMA DeletedWasChosen ==
    ASSUME RetentionInv, [RetentionNext]_retentionVars, NEW c \in Deleted
    PROVE  \E d \in Deployments : task[d] = "pruning" /\ Pushed(c) \in stale[d]
<1>1. PICK d \in Deployments : DeleteRemote(d)
  <2>1. c \in remote /\ c \notin remote'
    BY DEF Deleted
  <2>2. \/ UNCHANGED remote
        \/ \E d \in Deployments : DeleteRemote(d)
        \/ \E k : remote' = remote \cup {k}
    BY DEF RetentionNext, retentionVars, store, StartBuild, ForeignPush, ForeignRecord,
           StartRollback, BuildStep, Build, Push, RecordRef, BuildReady, GoLive, TaskFails,
           RollbackStep, FindImage, RollbackReady, PruneStep, PruneRead, RemoveLocal,
           PruneDone
  <2>. QED  BY <2>1, <2>2
<1>2. /\ task[d] = "pruning" /\ half[d] # NoRef
      /\ half[d].pushed /\ c = half[d].commit
  BY <1>1 DEF DeleteRemote, Deleted
<1>3. half[d] \in stale[d] /\ half[d] \in Refs
  BY <1>2 DEF RetentionInv, RetentionTypeOK, Chosen
<1>4. half[d] = Pushed(c)
  BY <1>2, <1>3 DEF Refs, Pushed
<1>. QED  BY <1>2, <1>3, <1>4

\* The rollback window and what is in flight (_prune_old_images: "skip this
\* cycle rather than race it"), for any window, commits and deployments.
THEOREM WindowIsKept == RetentionSpec => KeepsQuietWindow
<1>1. RetentionInv /\ [RetentionNext]_retentionVars
         => [\A c \in Deleted : Spared(c) => disturbed]_retentionVars
  BY DeletedWasChosen DEF RetentionInv, Safe, Spared
<1>. QED  BY <1>1, RetentionInvariance, PTL DEF RetentionSpec, KeepsQuietWindow

\* The images of other tenants (ADR 0014), on the same condition.
THEOREM ForeignIsKept == RetentionSpec => KeepsForeign
<1>1. RetentionInv /\ [RetentionNext]_retentionVars
         => [\A c \in Deleted : c \in foreign => disturbed]_retentionVars
  BY DeletedWasChosen DEF RetentionInv, Safe, Shared
<1>. QED  BY <1>1, RetentionInvariance, PTL DEF RetentionSpec, KeepsForeign

=============================================================================
