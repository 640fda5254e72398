--------------------------- MODULE Hosting_proofs ---------------------------
(***************************************************************************)
(* For every set of tenants, resources and requests: rows and providers    *)
(* agree about what is quiet and not doubtful, a resource has one holder,  *)
(* and providers act for whoever holds it.  HostingInv is inductive: it    *)
(* says what a request has in its hands from the provider's answer to its  *)
(* commit, and that two requests that meet over a resource make it         *)
(* doubtful, so that whatever is not doubtful is changed by one alone.     *)
(***************************************************************************)
EXTENDS Hosting, TLAPS

\* What goes to a provider; assignments and releases do not.
Calls == {"create", "change", "sort", "delete"}

\* What the routes offer: nothing creates a site or a zone, nothing deletes a
\* zone or a service of one.
LEMMA VerbFacts ==
    /\ \A k \in Kinds : Verbs(k) \subseteq Calls
    /\ "create" \notin Verbs("site") /\ "create" \notin Verbs("dns_zone")
    /\ "delete" \notin Verbs("dns_zone") /\ "delete" \notin Verbs("zone_service")
    /\ "sort" \notin Verbs("zone_service")
<1>1. \A ops \in Routes["site"] : Does(ops) \subseteq {"change", "read"}
  <2>1. Does(SiteOps) \subseteq {"change", "read"}
    BY DEF Calls, Does, SiteOps
  <2>2. Does(SiteStorageOps) \subseteq {"change", "read"}
    BY DEF Calls, Does, SiteStorageOps
  <2>3. Does(SiteRunOps) \subseteq {"change", "read"}
    BY DEF Calls, Does, SiteRunOps
  <2>4. Does(SiteEnvOps) \subseteq {"change", "read"}
    BY DEF Calls, Does, SiteEnvOps
  <2>5. Does(SiteDeploymentOps) \subseteq {"change", "read"}
    BY DEF Calls, Does, SiteDeploymentOps
  <2>6. Does(SitePageOps) \subseteq {"change", "read"}
    BY DEF Calls, Does, SitePageOps
  <2>7. Does(SitePageRunOps) \subseteq {"change", "read"}
    BY DEF Calls, Does, SitePageRunOps
  <2>8. Does(SitePageEditOps) \subseteq {"change", "read"}
    BY DEF Calls, Does, SitePageEditOps
  <2>9. Does(SitePageDataOps) \subseteq {"change", "read"}
    BY DEF Calls, Does, SitePageDataOps
  <2>. QED  BY <2>1, <2>2, <2>3, <2>4, <2>5, <2>6, <2>7, <2>8, <2>9 DEF Routes
<1>2. \A ops \in Routes["mail_domain"] : Does(ops) \subseteq Calls \cup {"read"}
  <2>1. Does(DomainOps) \subseteq Calls \cup {"read"}
    BY DEF Calls, Does, DomainOps
  <2>2. Does(AliasOps) \subseteq Calls \cup {"read"}
    BY DEF Calls, Does, AliasOps
  <2>. QED  BY <2>1, <2>2 DEF Routes
<1>3. \A ops \in Routes["mailbox"] : Does(ops) \subseteq Calls \cup {"read"}
  <2>1. Does(MailboxOps) \subseteq Calls \cup {"read"}
    BY DEF Calls, Does, MailboxOps
  <2>2. Does(AppPasswordOps) \subseteq Calls \cup {"read"}
    BY DEF Calls, Does, AppPasswordOps
  <2>3. Does(QuarantineOps) \subseteq Calls \cup {"read"}
    BY DEF Calls, Does, QuarantineOps
  <2>. QED  BY <2>1, <2>2, <2>3 DEF Routes
<1>4. \A ops \in Routes["dns_zone"] : Does(ops) \subseteq {"change", "read"}
  <2>1. Does(ZoneRecordOps) \subseteq {"change", "read"}
    BY DEF Calls, Does, ZoneRecordOps
  <2>2. Does(ZonePageOps) \subseteq {"change", "read"}
    BY DEF Calls, Does, ZonePageOps
  <2>3. Does(ZoneOps) \subseteq {"change", "read"}
    BY DEF Calls, Does, ZoneOps
  <2>. QED  BY <2>1, <2>2, <2>3 DEF Routes
<1>5. \A ops \in Routes["zone_service"] : Does(ops) \subseteq {"create", "read"}
  <2>1. Does(ZonePlanOps) \subseteq {"create", "read"}
    BY DEF Calls, Does, ZonePlanOps
  <2>. QED  BY <2>1 DEF Routes
<1>6. \A ops \in Routes["database"] : Does(ops) \subseteq Calls \cup {"read"}
  <2>1. Does(DatabaseOps) \subseteq Calls \cup {"read"}
    BY DEF Calls, Does, DatabaseOps
  <2>. QED  BY <2>1 DEF Routes
<1>7. \A ops \in Routes["bucket"] : Does(ops) \subseteq Calls \cup {"read"}
  <2>1. Does(BucketOps) \subseteq Calls \cup {"read"}
    BY DEF Calls, Does, BucketOps
  <2>. QED  BY <2>1 DEF Routes
<1>8. \A ops \in Routes["ai_key"] : Does(ops) \subseteq Calls \cup {"read"}
  <2>1. Does(KeyOps) \subseteq Calls \cup {"read"}
    BY DEF Calls, Does, KeyOps
  <2>. QED  BY <2>1 DEF Routes
<1>9. \A k \in Kinds : \A ops \in Routes[k] : Does(ops) \subseteq Calls \cup {"read"}
  <2>. SUFFICES ASSUME NEW k \in Kinds, NEW ops \in Routes[k]
                PROVE  Does(ops) \subseteq Calls \cup {"read"}
    OBVIOUS
  <2>1. {"change", "read"} \subseteq Calls \cup {"read"} /\ {"create", "read"} \subseteq Calls \cup {"read"}
    BY DEF Calls
  <2>. QED  BY <1>1, <1>2, <1>3, <1>4, <1>5, <1>6, <1>7, <1>8, <2>1 DEF Kinds
<1>0. ASSUME NEW k \in Kinds, NEW v \in Verbs(k)
      PROVE  v # "read" /\ \E ops \in Routes[k] : v \in Does(ops)
  <2>1. v \in (UNION {Does(ops) : ops \in Routes[k]}) /\ v # "read"
    BY DEF Verbs
  <2>2. PICK S \in {Does(ops) : ops \in Routes[k]} : v \in S
    BY <2>1
  <2>. QED  BY <2>1, <2>2
<1>10. \A k \in Kinds : Verbs(k) \subseteq Calls
  BY <1>0, <1>9
<1>11. "create" \notin Verbs("site") /\ "create" \notin Verbs("dns_zone")
  BY <1>0, <1>1, <1>4 DEF Kinds
<1>12. /\ "delete" \notin Verbs("dns_zone") /\ "delete" \notin Verbs("zone_service")
       /\ "sort" \notin Verbs("zone_service")
  BY <1>0, <1>4, <1>5 DEF Kinds
<1>. QED  BY <1>10, <1>11, <1>12

\* Resources are related when one is under the other: a mailbox and its
\* domain, a service and its zone.
LEMMA FamilyFacts ==
    ASSUME NEW x \in Resources, NEW y \in Resources
    PROVE  /\ x \in Family(x)
           /\ Related(x, y) <=> Related(y, x)
           /\ Related(x, x)
           /\ y \in Family(x) => Related(x, y)
           /\ y \in Family(x) /\ y # x => Kind[y] \in {"mailbox", "zone_service"} /\ Under[y] = x
           /\ y \in Family(x) => Family(y) \subseteq Family(x)
           /\ Kind[x] \in {"database", "ai_key", "bucket", "site"} => (Related(x, y) => x = y)
           /\ \A z \in Resources : z \in Family(x) /\ z \in Family(y) => Related(x, y)
           /\ Kind[x] = "mailbox" => Family(x) = {x}
  BY HostingAssumption DEF HostingAssumption, Family, Related, Kinds, Over
-----------------------------------------------------------------------------
\* A request is under way; the provider has answered it; Doing: and it is about x.
Busy(r) == ~Is(r, "idle")
Acting(r) == req[r].pc \in {"rows", "commit"}
Doing(r, verb, x) == req[r].verb = verb /\ Acting(r) /\ x \in Family(req[r].res)
\* Resources by how their names come about.
Service == Of("zone_service")
Named == Resources \ (GivenIds \cup Service)

\* What a request has in its hands, by where it is.
Shaped(r) ==
    /\ Is(r, "idle") => req[r] = Idle
    /\ Busy(r) => /\ req[r].by \in Tenants /\ req[r].res \in Resources
                  /\ req[r].verb \in Calls \cup {"assign", "release"}
    /\ req[r].verb \in Calls => req[r].verb \in Verbs(Kind[req[r].res])
    /\ req[r].verb \in {"assign", "release"} => Is(r, "commit")
    /\ Is(r, "commit") => req[r].verb \notin {"change", "sort"}
    /\ req[r].add = IF Is(r, "commit") /\ req[r].verb \in {"create", "assign"}
                    THEN {<<req[r].by, req[r].res>>} ELSE {}
    /\ req[r].verb = "release" => req[r].drop = {<<req[r].by, req[r].res>>}
    /\ req[r].drop # {} => Is(r, "commit") /\ req[r].verb \in {"release", "delete"}
    /\ \A t \in Tenants, x \in Resources : <<t, x>> \in req[r].drop => x \in Family(req[r].res)

\* Two requests about related resources make both doubtful, unless one is a
\* creation whose id the provider had still to give.
Met(o, q) ==
    \/ req[o].res \in doubtful /\ req[q].res \in doubtful
    \/ /\ req[o].res = req[q].res /\ req[o].res \in GivenIds
       /\ \/ req[o].verb = "create" /\ req[q].verb \in Calls
          \/ req[q].verb = "create" /\ req[o].verb \in Calls
Apart ==
    \A o, q \in Requests :
       o # q /\ Busy(o) /\ Busy(q) /\ Related(req[o].res, req[q].res) => Met(o, q)

\* What a deletion has been answered for is gone.
Gone == \A r \in Requests, x \in Resources \ doubtful : Doing(r, "delete", x) => x \notin exists

\* An id in a row or in an answer has been given.
GivenOnes ==
    /\ exists \cap GivenIds \subseteq given
    /\ \A t \in Tenants, x \in GivenIds \ doubtful : Mapped(t, x) => x \in given
    /\ \A r \in Requests :
          /\ req[r].res \in GivenIds \ doubtful
          /\ Acting(r)
          => req[r].res \in given

\* MadeIsHeld with its exception: the creation that has yet to write the row.
Held ==
    \A x \in exists \ doubtful :
       keeper[x] # None =>
          \/ Mapped(keeper[x], x)
          \/ \E r \in Requests : /\ req[r].verb = "create" /\ Acting(r)
                                 /\ req[r].res = x /\ req[r].by = keeper[x]

\* HeldExists with its exception: the deletion that has yet to take the row away.
RowsExist ==
    \A t \in Tenants, x \in Named \ (doubtful \cup exists) :
       Mapped(t, x) => \E r \in Requests : /\ Doing(r, "delete", x)
                                           /\ Is(r, "commit") => <<t, x>> \in req[r].drop

\* Every row of a resource is its keeper's.
Sole == \A x \in exists \ (doubtful \cup Service), t \in Tenants : Mapped(t, x) => t = keeper[x]

\* A creation the provider has answered made what it is about.
Makers ==
    \A r \in Requests :
       req[r].verb = "create" /\ Acting(r) /\ req[r].res \notin doubtful =>
          /\ req[r].res \in Named => req[r].res \in exists
          /\ req[r].res \notin Service /\ req[r].res \in exists => keeper[req[r].res] = req[r].by

\* What the platform admin's request found is still so.
Staff ==
    \A r \in Requests :
       req[r].res \notin doubtful =>
          /\ req[r].verb = "assign" => /\ req[r].res \in exists
                                       /\ \A u \in Tenants : ~Mapped(u, req[r].res)
          /\ req[r].verb = "release" => Mapped(req[r].by, req[r].res)

\* Whoever calls a provider about a resource still holds it.
Holds ==
    \A r \in Requests :
       /\ Is(r, "call") /\ req[r].verb # "create" /\ req[r].res \notin doubtful
       => MayTouch(req[r].by, req[r].res)

HostingInv ==
    /\ TypeOK
    /\ \A r \in Requests : Shaped(r)
    /\ Apart /\ Gone /\ GivenOnes /\ Held /\ RowsExist /\ Sole /\ Makers /\ Staff /\ Holds

-----------------------------------------------------------------------------
\* A request that ends and writes no rows: refused, cut off, or never answered.
Quits(r) ==
    /\ req' = [req EXCEPT ![r] = Idle]
    /\ doubtful \subseteq doubtful' /\ doubtful' \subseteq Resources
    /\ req[r].verb \in {"create", "delete"} /\ Acting(r) => Family(req[r].res) \subseteq doubtful'
    /\ UNCHANGED <<exists, given, rows, keeper, asked>>

\* The request that is none has the shape of one.
LEMMA IdleType == Idle \in Request
  BY HostingAssumption DEF HostingAssumption, Idle, Request

\* It leaves doubt about what the provider may have done.
LEMMA QuitsKeeps ==
    ASSUME HostingInv, NEW r \in Requests, Quits(r)
    PROVE  HostingInv'
<1>. USE HostingAssumption DEF HostingInv
<1>1. \A q \in Requests : req'[q] = IF q = r THEN Idle ELSE req[q]
  BY DEF Quits, TypeOK
<1>2. /\ Idle.pc = "idle" /\ Idle.verb = "none" /\ Idle.add = {} /\ Idle.drop = {} /\ Idle.res = None
  BY DEF Idle
<1>2a. None \notin Resources
  BY DEF HostingAssumption
<1>3. TypeOK'
  BY IdleType DEF Quits, TypeOK
<1>4. \A q \in Requests : Shaped(q)'
  <2>. SUFFICES ASSUME NEW q \in Requests
                PROVE  Shaped(q)'
    OBVIOUS
  <2>1. CASE q = r
    BY <1>1, <1>2, <2>1 DEF Shaped, Is, Busy, Idle, Calls
  <2>2. CASE q # r
    BY <1>1, <2>2 DEF Shaped, Is, Busy, Quits
  <2>. QED  BY <2>1, <2>2
<1>5. Apart'
  BY <1>1, <1>2 DEF Apart, Met, Busy, Is, Quits
<1>6. Gone'
  BY <1>1, <1>2 DEF Gone, Doing, Acting, Quits
<1>7. GivenOnes'
  BY <1>1, <1>2, <1>2a DEF GivenOnes, Acting, Mapped, Quits, Of, GivenIds
<1>8. Held'
  <2>. SUFFICES ASSUME NEW x \in exists \ doubtful', keeper[x] # None
                PROVE  \/ Mapped(keeper[x], x)
                       \/ \E q \in Requests : req'[q].verb = "create" /\ Acting(q)' /\ req'[q].res = x
                                              /\ req'[q].by = keeper[x]
    BY DEF Held, Quits, Mapped
  <2>1. CASE Mapped(keeper[x], x)
    BY <2>1
  <2>2. ASSUME NEW q \in Requests, req[q].verb = "create", Acting(q), req[q].res = x, req[q].by = keeper[x]
        PROVE  q # r
    BY <2>2, FamilyFacts DEF Quits, TypeOK, Request
  <2>. QED  BY <1>1, <2>1, <2>2 DEF Held, Quits, Acting
<1>9. RowsExist'
  <2>. SUFFICES ASSUME NEW t \in Tenants, NEW x \in Named \ (doubtful' \cup exists), Mapped(t, x)
                PROVE  \E q \in Requests : /\ Doing(q, "delete", x)'
                                           /\ Is(q, "commit")' => <<t, x>> \in req'[q].drop
    BY DEF RowsExist, Quits, Mapped
  <2>1. PICK q \in Requests : Doing(q, "delete", x) /\ (Is(q, "commit") => <<t, x>> \in req[q].drop)
    BY DEF RowsExist, Quits
  <2>2. q # r
    BY <2>1 DEF Doing, Quits
  <2>. QED  BY <1>1, <2>1, <2>2 DEF Doing, Acting, Is
<1>10. Sole'
  BY DEF Sole, Quits, Mapped
<1>11. Makers'
  BY <1>1, <1>2 DEF Makers, Acting, Quits
<1>12. Staff'
  BY <1>1, <1>2 DEF Staff, Quits, Mapped
<1>13. Holds'
  BY <1>1, <1>2 DEF Holds, Quits, Is, MayTouch, MailboxAccessible, Accessible, Mapped
<1>. QED  BY <1>3, <1>4, <1>5, <1>6, <1>7, <1>8, <1>9, <1>10, <1>11, <1>12, <1>13

-----------------------------------------------------------------------------
\* What a step leaves alone keeps its shape.
LEMMA ShapedStays ==
    ASSUME NEW q, Shaped(q), req'[q] = req[q]
    PROVE  Shaped(q)'
  BY DEF Shaped, Is, Busy

\* The next attempt is a request.
LEMMA RetryType ==
    ASSUME NEW c \in Request, NEW n \in 1..MaxAttempts, NEW y \in Resources \cup {None}
    PROVE  [c EXCEPT !.tries = n, !.res = y] \in Request
  BY DEF Request

\* An attempt the provider never saw changes nothing but the count of them.
LEMMA RetriesKeep ==
    ASSUME HostingInv, NEW r \in Requests, Is(r, "call"), req[r].tries # MaxAttempts,
           req' = [req EXCEPT ![r] = [req[r] EXCEPT !.tries = @ + 1, !.res = req[r].res]],
           UNCHANGED <<exists, given, rows, keeper, doubtful, asked>>
    PROVE  HostingInv'
<1>. USE HostingAssumption DEF HostingInv
<1>0. req[r] \in Request
  BY DEF TypeOK
<1>1. /\ \A q \in Requests : q # r => req'[q] = req[q]
      /\ req'[r].pc = "call" /\ req'[r].tries = req[r].tries + 1
      /\ \A q \in Requests : /\ req'[q].pc = req[q].pc /\ req'[q].verb = req[q].verb
                             /\ req'[q].by = req[q].by /\ req'[q].res = req[q].res
                             /\ req'[q].add = req[q].add /\ req'[q].drop = req[q].drop
  BY <1>0 DEF TypeOK, Request, Is
<1>3. TypeOK'
  <2>0. /\ MaxAttempts \in Nat /\ req[r].tries \in 1..MaxAttempts
        /\ req'[r] = [req[r] EXCEPT !.tries = @ + 1, !.res = req[r].res]
    BY <1>0 DEF HostingAssumption, Request, TypeOK
  <2>0a. req[r].tries + 1 \in 1..MaxAttempts
    BY <2>0
  <2>0b. req[r].res \in Resources \cup {None}
    BY <1>0 DEF Request
  <2>0c. [req[r] EXCEPT !.tries = req[r].tries + 1, !.res = req[r].res] \in Request
    BY ONLY <1>0, <2>0a, <2>0b, RetryType
  <2>1. req'[r] \in Request
    BY <2>0, <2>0c
  <2>. QED  BY <2>1 DEF TypeOK
<1>4. \A q \in Requests : Shaped(q)'
  <2>. SUFFICES ASSUME NEW q \in Requests
                PROVE  Shaped(q)'
    OBVIOUS
  <2>1. CASE q = r
    <3>1. Shaped(r)
      OBVIOUS
    <3>. QED  BY ONLY <1>1, <2>1, <3>1, Is(r, "call"), req'[r].pc = req[r].pc, req'[r].verb = req[r].verb, req'[r].by = req[r].by, req'[r].res = req[r].res,
         req'[r].add = req[r].add, req'[r].drop = req[r].drop DEF Shaped, Is, Busy
  <2>2. CASE q # r
    BY <1>1, <2>2, ShapedStays
  <2>. QED  BY <2>1, <2>2
<1>5. Apart'
  BY <1>1 DEF Apart, Met, Busy, Is
<1>6. Gone'
  BY <1>1 DEF Gone, Doing, Acting
<1>7. GivenOnes'
  BY <1>1 DEF GivenOnes, Acting, Mapped
<1>8. Held'
  BY <1>1 DEF Held, Mapped, Acting
<1>9. RowsExist'
  <2>. SUFFICES ASSUME NEW t \in Tenants, NEW x \in Named \ (doubtful \cup exists), Mapped(t, x)
                PROVE  \E q \in Requests : /\ Doing(q, "delete", x)'
                                           /\ Is(q, "commit")' => <<t, x>> \in req'[q].drop
    BY DEF RowsExist, Mapped
  <2>1. PICK q \in Requests : Doing(q, "delete", x) /\ (Is(q, "commit") => <<t, x>> \in req[q].drop)
    BY DEF RowsExist
  <2>. QED  BY <1>1, <2>1 DEF Doing, Acting, Is
<1>10. Sole'
  BY DEF Sole, Mapped
<1>11. Makers'
  BY <1>1 DEF Makers, Acting
<1>12. Staff'
  BY <1>1 DEF Staff, Mapped
<1>13. Holds'
  BY <1>1 DEF Holds, Is, MayTouch, MailboxAccessible, Accessible, Mapped
<1>. QED  BY <1>3, <1>4, <1>5, <1>6, <1>7, <1>8, <1>9, <1>10, <1>11, <1>12, <1>13

-----------------------------------------------------------------------------
(***************************************************************************)
(* The provider acts.                                                      *)
(***************************************************************************)
\* Who asks, about what; only databases and keys are created under a given id.
LEMMA BusyFacts ==
    ASSUME HostingInv, NEW r \in Requests, Busy(r)
    PROVE  /\ req[r].by \in Tenants /\ req[r].res \in Resources
           /\ req[r].verb = "create" => Kind[req[r].res] \notin {"site", "dns_zone"}
           /\ req[r].verb = "delete" => Kind[req[r].res] \notin {"zone_service", "dns_zone"}
           /\ req[r].verb = "create" /\ req[r].res \in GivenIds
                => Kind[req[r].res] \in {"database", "ai_key"}
<1>. USE HostingAssumption DEF HostingInv
<1>1. /\ req[r].by \in Tenants /\ req[r].res \in Resources
      /\ req[r].verb \in Calls => req[r].verb \in Verbs(Kind[req[r].res])
  BY DEF Shaped
<1>. QED  BY <1>1, VerbFacts DEF Calls, GivenIds, Of, HostingAssumption

\* What a creation that is accepted finds: nothing but doubt.
LEMMA AcceptedIsNew ==
    ASSUME HostingInv, NEW r \in Requests, Is(r, "call"), req[r].verb = "create", Accepts(r),
           req[r].res \notin doubtful
    PROVE  LET x == req[r].res IN
           /\ x \in GivenIds => x \notin given
           /\ x \notin Service => x \notin exists /\ \A t \in Tenants : ~Mapped(t, x)
           /\ \A q \in Requests \ {r} :
                 Busy(q) /\ Related(req[q].res, x)
                   => /\ req[q].res = x /\ x \in GivenIds /\ req[q].verb \in Calls
                      /\ ~Acting(q)
<1>. USE HostingAssumption DEF HostingInv
<1>. DEFINE x == req[r].res
<1>1. Busy(r) /\ x \in Resources
  BY BusyFacts DEF Busy, Is
<1>2. x \in GivenIds => x \notin given
  BY DEF Accepts, Fresh
<1>3. ASSUME NEW q \in Requests \ {r}, Busy(q), Related(req[q].res, x)
      PROVE  req[q].res = x /\ x \in GivenIds /\ req[q].verb \in Calls /\ ~Acting(q)
  <2>1. req[q].res = x /\ x \in GivenIds /\ req[q].verb \in Calls
    BY <1>1, <1>3 DEF Apart, Met, Calls
  <2>. QED  BY <1>2, <2>1 DEF GivenOnes
<1>4. x \notin Service => x \notin exists
  BY <1>1 DEF Accepts, Service, Of
<1>5. ASSUME x \notin Service, NEW t \in Tenants, Mapped(t, x)
      PROVE  FALSE
  <2>1. x \in Named
    BY <1>1, <1>2, <1>5 DEF GivenOnes, Named
  <2>2. PICK q \in Requests : Doing(q, "delete", x)
    BY <1>4, <1>5, <2>1 DEF RowsExist
  <2>3. q # r /\ Busy(q)
    BY <2>2 DEF Doing, Acting, Busy, Is
  <2>4. Related(req[q].res, x)
    BY <1>1, <2>2, <2>3, BusyFacts, FamilyFacts DEF Doing
  <2>. QED  BY <1>3, <2>2, <2>3, <2>4 DEF Doing
<1>. QED  BY <1>2, <1>3, <1>4, <1>5

\* The provider has acted: its answer has come, or there is doubt.
Outcome(r) ==
    /\ \A q \in Requests \ {r} : req'[q] = req[q]
    /\ doubtful \subseteq doubtful'
    /\ req'[r].verb \in {req[r].verb, "none"}
    /\ \/ /\ Is(r, "rows")'
          /\ req'[r].verb = req[r].verb /\ req'[r].by = req[r].by /\ req'[r].res = req[r].res
       \/ Family(req[r].res) \subseteq doubtful' /\ ~Acting(r)'

\* A creation: the new resource is nobody's else.
LEMMA CreationKeeps ==
    ASSUME HostingInv, NEW r \in Requests, Is(r, "call"), Accepts(r), Acts(r), Outcome(r),
           UNCHANGED rows, req[r].verb = "create"
    PROVE  Gone' /\ GivenOnes' /\ Held' /\ RowsExist' /\ Sole' /\ Makers' /\ Staff'
<1>. USE HostingAssumption DEF HostingInv
<1>. DEFINE x == req[r].res
<1>1. x \in Resources /\ req[r].by \in Tenants /\ Busy(r) /\ ~Acting(r)
  BY BusyFacts DEF Busy, Is, Acting
<1>2. /\ exists' = exists \cup {x} /\ given' = given \cup {x}
      /\ keeper' = [keeper EXCEPT ![x] = req[r].by]
      /\ keeper \in [Resources -> Tenants \cup {None}] /\ exists \subseteq Resources
  BY DEF Acts, TypeOK
<1>3. x \in Family(x)
  BY <1>1, FamilyFacts
<1>4. x \notin doubtful =>
         /\ x \notin Service => x \notin exists /\ \A t \in Tenants : ~Mapped(t, x)
         /\ \A q \in Requests \ {r} : Busy(q) /\ Related(req[q].res, x) => ~Acting(q) /\ req[q].verb \in Calls
  BY AcceptedIsNew
<1>5. \A q \in Requests \ {r} : Acting(q) => /\ Busy(q) /\ req[q].res \in Resources
                                             /\ x \in Family(req[q].res) => Related(req[q].res, x)
  BY <1>1, BusyFacts, FamilyFacts DEF Acting, Busy, Is
<1>6. Gone'
  <2>. SUFFICES ASSUME NEW q \in Requests, NEW y \in Resources \ doubtful', Doing(q, "delete", y)'
                PROVE  y \notin exists'
    BY DEF Gone
  <2>1. q # r
    BY <1>1 DEF Outcome, Doing
  <2>. QED  BY <1>2, <1>4, <1>5, <2>1 DEF Outcome, Doing, Acting, Gone
<1>7. GivenOnes'
  BY <1>1, <1>2 DEF GivenOnes, Outcome, Acting, Mapped, GivenIds, Of
<1>8. Held'
  <2>. SUFFICES ASSUME NEW y \in exists' \ doubtful', keeper'[y] # None
                PROVE  \/ Mapped(keeper'[y], y)
                       \/ \E q \in Requests : /\ req'[q].verb = "create" /\ Acting(q)'
                                              /\ req'[q].res = y /\ req'[q].by = keeper'[y]
    BY DEF Held, Mapped
  <2>1. CASE y = x
    BY <1>1, <1>2, <1>3, <2>1 DEF Outcome, Acting, Is
  <2>2. CASE y # x
    BY <1>1, <1>2, <2>2 DEF Outcome, Acting, Held
  <2>. QED  BY <2>1, <2>2
<1>9. RowsExist'
  <2>. SUFFICES ASSUME NEW t \in Tenants, NEW y \in Named \ (doubtful' \cup exists'), Mapped(t, y)
                PROVE  \E q \in Requests : /\ Doing(q, "delete", y)'
                                           /\ Is(q, "commit")' => <<t, y>> \in req'[q].drop
    BY DEF RowsExist, Mapped
  <2>1. PICK q \in Requests : Doing(q, "delete", y) /\ (Is(q, "commit") => <<t, y>> \in req[q].drop)
    BY <1>2 DEF RowsExist, Outcome
  <2>. QED  BY <1>1, <2>1 DEF Doing, Acting, Is, Outcome
<1>10. Sole'
  BY <1>2, <1>4 DEF Sole, Mapped, Outcome
<1>11. Makers'
  <2>. SUFFICES ASSUME NEW q \in Requests, req'[q].verb = "create", Acting(q)', req'[q].res \notin doubtful'
                PROVE  /\ req'[q].res \in Named => req'[q].res \in exists'
                       /\ req'[q].res \notin Service /\ req'[q].res \in exists' => keeper'[req'[q].res] = req'[q].by
    BY DEF Makers
  <2>1. CASE q = r
    BY <1>1, <1>2, <2>1 DEF Outcome
  <2>2. CASE q # r
    <3>1. req'[q] = req[q] /\ Acting(q) /\ req[q].res \notin doubtful
      BY <2>2 DEF Outcome, Acting
    <3>2. req[q].res # x
      BY <1>1, <1>3, <1>4, <1>5, <2>2, <3>1
    <3>. QED  BY <1>2, <3>1, <3>2 DEF Makers
  <2>. QED  BY <2>1, <2>2
<1>12. Staff'
  BY <1>1, <1>2 DEF Staff, Outcome, Mapped
<1>. QED  BY <1>6, <1>7, <1>8, <1>9, <1>10, <1>11, <1>12

\* A deletion takes what is under the resource with it.
LEMMA DeletionKeeps ==
    ASSUME HostingInv, NEW r \in Requests, Is(r, "call"), Accepts(r), Acts(r), Outcome(r),
           UNCHANGED rows, req[r].verb = "delete"
    PROVE  Gone' /\ GivenOnes' /\ Held' /\ RowsExist' /\ Sole' /\ Makers' /\ Staff'
<1>. USE HostingAssumption DEF HostingInv
<1>. DEFINE x == req[r].res
<1>1. x \in Resources /\ req[r].by \in Tenants /\ Busy(r) /\ ~Acting(r) /\ x \in exists
  BY BusyFacts DEF Busy, Is, Acting, Accepts
<1>2. /\ exists' = exists \ Family(x) /\ given' = given
      /\ keeper' = [y \in Resources |-> IF y \in Family(x) THEN None ELSE keeper[y]]
      /\ keeper \in [Resources -> Tenants \cup {None}] /\ exists \subseteq Resources
  BY DEF Acts, TypeOK
<1>3. x \in Family(x)
  BY <1>1, FamilyFacts
\* A request about what is deleted has made it doubtful, or is for its id.
<1>4. ASSUME NEW q \in Requests \ {r}, Busy(q), req[q].res \in Family(x), req[q].res \notin doubtful
      PROVE  req[q].res \in GivenIds /\ req[q].verb \in Calls
  <2>1. req[q].res \in Resources /\ Related(req[q].res, x)
    BY <1>1, <1>4, BusyFacts, FamilyFacts
  <2>. QED  BY <1>1, <1>4, <2>1 DEF Apart, Met, Calls
<1>5. \A q \in Requests : Acting(q) => Busy(q)
  BY DEF Acting, Busy, Is
<1>6. Gone'
  BY <1>1, <1>2 DEF Gone, Doing, Outcome, Acting
<1>7. GivenOnes'
  BY <1>1, <1>2 DEF GivenOnes, Outcome, Acting, Mapped, GivenIds, Of
<1>8. Held'
  <2>. SUFFICES ASSUME NEW y \in exists' \ doubtful', keeper'[y] # None
                PROVE  \/ Mapped(keeper'[y], y)
                       \/ \E q \in Requests : /\ req'[q].verb = "create" /\ Acting(q)'
                                              /\ req'[q].res = y /\ req'[q].by = keeper'[y]
    BY DEF Held, Mapped
  <2>. QED  BY <1>1, <1>2 DEF Outcome, Acting, Held
<1>9. RowsExist'
  <2>. SUFFICES ASSUME NEW t \in Tenants, NEW y \in Named \ (doubtful' \cup exists'), Mapped(t, y)
                PROVE  \E q \in Requests : /\ Doing(q, "delete", y)'
                                           /\ Is(q, "commit")' => <<t, y>> \in req'[q].drop
    BY DEF RowsExist, Mapped
  <2>1. CASE y \in Family(x)
    BY <1>1, <2>1 DEF Doing, Acting, Is, Outcome
  <2>2. CASE y \notin Family(x)
    <3>1. PICK q \in Requests : Doing(q, "delete", y) /\ (Is(q, "commit") => <<t, y>> \in req[q].drop)
      BY <1>2, <2>2 DEF RowsExist, Outcome
    <3>. QED  BY <1>1, <3>1 DEF Doing, Acting, Is, Outcome
  <2>. QED  BY <2>1, <2>2
<1>10. Sole'
  BY <1>2 DEF Sole, Mapped, Outcome
<1>11. Makers'
  <2>. SUFFICES ASSUME NEW q \in Requests, req'[q].verb = "create", Acting(q)', req'[q].res \notin doubtful'
                PROVE  /\ req'[q].res \in Named => req'[q].res \in exists'
                       /\ req'[q].res \notin Service /\ req'[q].res \in exists' => keeper'[req'[q].res] = req'[q].by
    BY DEF Makers
  <2>1. q # r
    BY <1>1 DEF Outcome
  <2>2. req'[q] = req[q] /\ Acting(q) /\ req[q].res \notin doubtful /\ Busy(q)
    BY <1>5, <2>1 DEF Outcome, Acting
  <2>3. req[q].res \in Resources
    BY <2>2, BusyFacts
  <2>4. CASE req[q].res \in Family(x)
    BY <1>2, <1>4, <2>1, <2>2, <2>4 DEF Named
  <2>5. CASE req[q].res \notin Family(x)
    BY <1>2, <2>2, <2>3, <2>5 DEF Makers
  <2>. QED  BY <2>4, <2>5
<1>12. Staff'
  <2>. SUFFICES ASSUME NEW q \in Requests, req'[q].res \notin doubtful', req'[q].verb \in {"assign", "release"}
                PROVE  /\ req'[q].verb = "assign" => /\ req'[q].res \in exists'
                                                     /\ \A u \in Tenants : ~Mapped(u, req'[q].res)
                       /\ req'[q].verb = "release" => Mapped(req'[q].by, req'[q].res)
    BY DEF Staff, Mapped
  <2>1. q # r
    BY <1>1 DEF Outcome
  <2>2. req'[q] = req[q] /\ req[q].res \notin doubtful
    BY <2>1 DEF Outcome
  <2>3. Busy(q)
    <3>1. Shaped(q) /\ Idle.verb = "none" /\ req[q].verb # "none"
      BY <2>2 DEF Idle
    <3>. QED  BY <3>1 DEF Shaped, Busy
  <2>4. req[q].res \notin Family(x)
    BY <1>4, <2>1, <2>2, <2>3 DEF Calls
  <2>. QED  BY <1>2, <2>2, <2>4 DEF Staff
<1>. QED  BY <1>6, <1>7, <1>8, <1>9, <1>10, <1>11, <1>12

\* Anything else leaves what there is.
LEMMA ChangeKeeps ==
    ASSUME HostingInv, NEW r \in Requests, Is(r, "call"), Accepts(r), Acts(r), Outcome(r),
           UNCHANGED rows, req[r].verb \in {"change", "sort"}
    PROVE  Gone' /\ GivenOnes' /\ Held' /\ RowsExist' /\ Sole' /\ Makers' /\ Staff'
<1>. USE HostingAssumption DEF HostingInv
<1>1. exists' = exists /\ given' = given /\ keeper' = keeper
  BY DEF Acts
<1>2. ~Acting(r) /\ req[r].res \in exists
  BY DEF Acting, Is, Accepts
<1>6. Gone'
  BY <1>1 DEF Gone, Doing, Outcome, Acting
<1>7. GivenOnes'
  BY <1>1, <1>2 DEF GivenOnes, Outcome, Acting, Mapped, GivenIds, Of
<1>8. Held'
  <2>. SUFFICES ASSUME NEW y \in exists' \ doubtful', keeper'[y] # None
                PROVE  \/ Mapped(keeper'[y], y)
                       \/ \E q \in Requests : /\ req'[q].verb = "create" /\ Acting(q)'
                                              /\ req'[q].res = y /\ req'[q].by = keeper'[y]
    BY DEF Held, Mapped
  <2>. QED  BY <1>1, <1>2 DEF Outcome, Acting, Held
<1>9. RowsExist'
  <2>. SUFFICES ASSUME NEW t \in Tenants, NEW y \in Named \ (doubtful' \cup exists'), Mapped(t, y)
                PROVE  \E q \in Requests : /\ Doing(q, "delete", y)'
                                           /\ Is(q, "commit")' => <<t, y>> \in req'[q].drop
    BY DEF RowsExist, Mapped
  <2>1. PICK q \in Requests : Doing(q, "delete", y) /\ (Is(q, "commit") => <<t, y>> \in req[q].drop)
    BY <1>1 DEF RowsExist, Outcome
  <2>. QED  BY <1>2, <2>1 DEF Doing, Acting, Is, Outcome
<1>10. Sole'
  BY <1>1 DEF Sole, Mapped, Outcome
<1>11. Makers'
  BY <1>1 DEF Makers, Acting, Outcome
<1>12. Staff'
  BY <1>1 DEF Staff, Outcome, Mapped
<1>. QED  BY <1>6, <1>7, <1>8, <1>9, <1>10, <1>11, <1>12

\* Whatever was asked.
LEMMA ProviderKeeps ==
    ASSUME HostingInv, NEW r \in Requests, Is(r, "call"), Accepts(r), Acts(r), Outcome(r),
           UNCHANGED rows
    PROVE  /\ Gone' /\ GivenOnes' /\ Held' /\ RowsExist' /\ Sole' /\ Makers' /\ Staff'
           /\ exists' \subseteq Resources /\ given' \subseteq Resources
           /\ keeper' \in [Resources -> Tenants \cup {None}]
<1>1. req[r].verb \in Calls /\ req[r].by \in Tenants /\ req[r].res \in Resources
  BY DEF HostingInv, Shaped, Busy, Is
<1>2. req[r].verb \in {"change", "sort"} \/ req[r].verb = "create" \/ req[r].verb = "delete"
  BY <1>1 DEF Calls
<1>3. /\ exists' \subseteq Resources /\ given' \subseteq Resources
      /\ keeper' \in [Resources -> Tenants \cup {None}]
  BY <1>1, <1>2 DEF HostingInv, TypeOK, Acts
<1>. QED  BY <1>2, <1>3, CreationKeeps, DeletionKeeps, ChangeKeeps

\* What the caller is left with: nothing, its answer, or the next attempt.
Left(r, c) ==
    \/ c = Idle
    \/ c = [req[r] EXCEPT !.pc = "rows"]
    \/ \E n \in 1..MaxAttempts, y \in Resources :
          /\ c = [req[r] EXCEPT !.tries = n, !.res = y]
          /\ \/ y = req[r].res
             \/ /\ req[r].verb = "create" /\ req[r].res \in GivenIds
                /\ Kind[y] = Kind[req[r].res] /\ y \notin given

\* It has a shape, and is about the same resource or a new id of its kind.
LEMMA LeftShape ==
    ASSUME HostingInv, NEW r \in Requests, Is(r, "call"), NEW c, Left(r, c),
           req' = [req EXCEPT ![r] = c]
    PROVE  /\ c \in Request /\ req'[r] = c /\ \A q \in Requests : q # r => req'[q] = req[q]
           /\ c # Idle => /\ c.verb = req[r].verb /\ c.by = req[r].by
                          /\ c.add = {} /\ c.drop = {} /\ c.pc \in {"call", "rows"}
                          /\ c.res \in Resources
                          /\ \/ c.res = req[r].res
                             \/ /\ req[r].verb = "create" /\ req[r].res \in GivenIds
                                /\ Kind[c.res] = Kind[req[r].res] /\ c.res \notin given
           /\ req[r].verb \in Calls
<1>1. Shaped(r) /\ req[r] \in Request
  BY DEF HostingInv, TypeOK
<1>2. /\ req[r].add = {} /\ req[r].drop = {} /\ req[r].res \in Resources
      /\ req[r].verb \in Calls
  BY <1>1 DEF Shaped, Is, Busy
<1>3. req'[r] = c /\ \A q \in Requests : q # r => req'[q] = req[q]
  BY DEF HostingInv, TypeOK
<1>4. CASE c = Idle
  BY <1>2, <1>3, <1>4, IdleType
<1>5. CASE c = [req[r] EXCEPT !.pc = "rows"]
  BY <1>1, <1>2, <1>3, <1>5 DEF Request
<1>6. CASE \E n \in 1..MaxAttempts, y \in Resources :
              /\ c = [req[r] EXCEPT !.tries = n, !.res = y]
              /\ \/ y = req[r].res
                 \/ /\ req[r].verb = "create" /\ req[r].res \in GivenIds
                    /\ Kind[y] = Kind[req[r].res] /\ y \notin given
  <2>1. PICK n \in 1..MaxAttempts, y \in Resources :
              /\ c = [req[r] EXCEPT !.tries = n, !.res = y]
              /\ \/ y = req[r].res
                 \/ /\ req[r].verb = "create" /\ req[r].res \in GivenIds
                    /\ Kind[y] = Kind[req[r].res] /\ y \notin given
    BY <1>6
  <2>2. c \in Request
    BY <1>1, <2>1, RetryType
  <2>3. /\ c.verb = req[r].verb /\ c.by = req[r].by /\ c.add = {} /\ c.drop = {}
        /\ c.pc = "call" /\ c.res = y
    BY <1>1, <1>2, <2>1 DEF Request, Is
  <2>. QED  BY <1>2, <1>3, <2>1, <2>2, <2>3
<1>. QED  BY <1>4, <1>5, <1>6 DEF Left

\* A request that leaves its call, or tries again, meets none it had not met.
LEMMA CallLeaves ==
    ASSUME HostingInv, NEW r \in Requests, Is(r, "call"), NEW c, Left(r, c),
           req' = [req EXCEPT ![r] = c], doubtful \subseteq doubtful', UNCHANGED rows
    PROVE  req' \in [Requests -> Request] /\ (\A q \in Requests : Shaped(q)') /\ Apart' /\ Holds'
<1>. USE HostingAssumption DEF HostingInv
<1>1. /\ c \in Request /\ req'[r] = c /\ \A q \in Requests : q # r => req'[q] = req[q]
      /\ c # Idle => /\ c.verb = req[r].verb /\ c.by = req[r].by
                     /\ c.add = {} /\ c.drop = {} /\ c.pc \in {"call", "rows"}
                     /\ c.res \in Resources
                     /\ \/ c.res = req[r].res
                        \/ /\ req[r].verb = "create" /\ req[r].res \in GivenIds
                           /\ Kind[c.res] = Kind[req[r].res] /\ c.res \notin given
      /\ req[r].verb \in Calls
  BY LeftShape
<1>2. req[r].by \in Tenants /\ req[r].res \in Resources /\ Busy(r) /\ req[r].verb \in Verbs(Kind[req[r].res])
  BY <1>1 DEF Shaped, Is, Busy
<1>3. Idle.pc = "idle" /\ Idle.verb = "none" /\ Idle.add = {} /\ Idle.drop = {}
  BY DEF Idle
<1>4. req' \in [Requests -> Request]
  BY <1>1 DEF TypeOK
<1>5. ASSUME NEW q \in Requests
      PROVE  Shaped(q)'
  <2>1. CASE q # r
    BY <1>1, <2>1, ShapedStays
  <2>2. CASE q = r /\ c = Idle
    BY <1>1, <1>3, <2>2 DEF Shaped, Is, Busy, Calls
  <2>3. CASE q = r /\ c # Idle
    <3>1. c.verb \in Verbs(Kind[c.res]) /\ c.by \in Tenants /\ c.res \in Resources
      BY <1>1, <1>2, <2>3
    <3>2. c.verb \notin {"assign", "release"}
      BY <1>1, <2>3 DEF Calls
    <3>. QED  BY <1>1, <2>3, <3>1, <3>2 DEF Shaped, Is, Busy
  <2>. QED  BY <2>1, <2>2, <2>3
\* The next id is new to every assignment and release but those in doubt.
<1>6. ASSUME NEW q \in Requests, q # r, Busy(q), c # Idle, c.res # req[r].res, Related(c.res, req[q].res)
      PROVE  /\ c.res = req[q].res /\ c.res \in GivenIds
             /\ req[q].verb \in Calls \/ c.res \in doubtful
  <2>1. Kind[c.res] \in {"database", "ai_key"} /\ c.res \in Resources
    BY <1>1, <1>2, <1>6, BusyFacts
  <2>2. req[q].res \in Resources /\ req[q].verb \in Calls \cup {"assign", "release"}
    BY <1>6 DEF Shaped
  <2>3. c.res = req[q].res
    BY <1>6, <2>1, <2>2, FamilyFacts
  <2>4. c.res \in GivenIds /\ c.res \notin given
    BY <1>1, <1>6, <2>1 DEF GivenIds, Of
  <2>5. CASE req[q].verb = "assign" /\ c.res \notin doubtful
    BY <2>3, <2>4, <2>5 DEF Staff, GivenOnes
  <2>6. CASE req[q].verb = "release" /\ c.res \notin doubtful
    <3>1. Mapped(req[q].by, c.res) /\ req[q].by \in Tenants
      BY <1>6, <2>3, <2>6 DEF Staff, Shaped
    <3>. QED  BY <2>4, <2>6, <3>1 DEF GivenOnes
  <2>. QED  BY <2>2, <2>3, <2>4, <2>5, <2>6
<1>7. Apart'
  <2>. SUFFICES ASSUME NEW o \in Requests, NEW q \in Requests, o # q, Busy(o)', Busy(q)',
                       Related(req'[o].res, req'[q].res)
                PROVE  Met(o, q)'
    BY DEF Apart, Related, Family
  <2>0. ASSUME NEW p \in Requests, p # r, Busy(p)'
        PROVE  Busy(p) /\ req'[p] = req[p] /\ req[p].res \in Resources
    BY <1>1, <2>0, BusyFacts DEF Busy, Is
  <2>1. CASE o # r /\ q # r
    BY <1>1, <2>0, <2>1 DEF Apart, Met
  <2>2. ASSUME NEW p \in Requests, p # r, Busy(p)', c # Idle, Related(c.res, req[p].res)
        PROVE  \/ c.res \in doubtful /\ req[p].res \in doubtful
               \/ /\ c.res = req[p].res /\ c.res \in GivenIds
                  /\ \/ c.verb = "create" /\ req[p].verb \in Calls
                     \/ req[p].verb = "create" /\ c.verb \in Calls
    <3>1. CASE c.res # req[r].res
      BY <1>1, <1>6, <2>0, <2>2, <3>1
    <3>2. CASE c.res = req[r].res
      <4>1. Met(r, p)
        BY <1>2, <2>0, <2>2, <3>2 DEF Apart
      <4>. QED  BY <1>1, <2>2, <3>2, <4>1 DEF Met
    <3>. QED  BY <3>1, <3>2
  <2>3. CASE o = r
    <3>1. c # Idle
      BY <1>1, <1>3, <2>3 DEF Busy, Is
    <3>. QED  BY <1>1, <2>0, <2>2, <2>3, <3>1 DEF Met
  <2>4. CASE q = r
    <3>1. c # Idle
      BY <1>1, <1>3, <2>4 DEF Busy, Is
    <3>2. Related(c.res, req[o].res)
      BY <1>1, <2>0, <2>4, <3>1, FamilyFacts
    <3>. QED  BY <1>1, <2>0, <2>2, <2>4, <3>1, <3>2 DEF Met
  <2>. QED  BY <2>1, <2>3, <2>4
<1>8. Holds'
  <2>. SUFFICES ASSUME NEW q \in Requests, Is(q, "call")', req'[q].verb # "create", req'[q].res \notin doubtful'
                PROVE  MayTouch(req'[q].by, req'[q].res)
    BY DEF Holds, MayTouch, MailboxAccessible, Accessible, Mapped
  <2>1. CASE q # r
    BY <1>1, <2>1 DEF Holds, Is
  <2>2. CASE q = r
    <3>1. c # Idle /\ c.res = req[r].res /\ req[r].verb # "create"
      BY <1>1, <1>3, <2>2 DEF Is
    <3>. QED  BY <1>1, <2>2, <3>1 DEF Holds
  <2>. QED  BY <2>1, <2>2
<1>. QED  BY <1>4, <1>5, <1>7, <1>8

\* An answer.
LEMMA AnsweredKeeps ==
    ASSUME HostingInv, NEW r \in Requests, Answered(r)
    PROVE  HostingInv'
<1>1. req' = [req EXCEPT ![r] = [req[r] EXCEPT !.pc = "rows"]]
  BY DEF Answered
<1>2. Left(r, [req[r] EXCEPT !.pc = "rows"])
  BY DEF Left
<1>3. req'[r] = [req[r] EXCEPT !.pc = "rows"] /\ req[r] \in Request
      /\ \A q \in Requests : q # r => req'[q] = req[q]
  BY <1>1 DEF HostingInv, TypeOK
<1>4. Outcome(r)
  BY <1>3 DEF Outcome, Answered, Is, Request
<1>. QED  BY <1>1, <1>2, <1>4, CallLeaves, ProviderKeeps DEF Answered, HostingInv, TypeOK

\* An answer that is not JSON.
LEMMA GarbledKeeps ==
    ASSUME HostingInv, NEW r \in Requests, Garbled(r)
    PROVE  HostingInv'
<1>1. req' = [req EXCEPT ![r] = Idle] /\ Left(r, Idle)
  BY DEF Garbled, Left
<1>2. req'[r] = Idle /\ \A q \in Requests : q # r => req'[q] = req[q]
  BY <1>1 DEF HostingInv, TypeOK
<1>3. Outcome(r)
  BY <1>2 DEF Outcome, Garbled, Is, Idle, Acting
<1>4. doubtful' \subseteq Resources /\ doubtful \subseteq doubtful'
  <2>1. req[r].res \in Resources
    BY BusyFacts DEF Garbled, Busy, Is
  <2>. QED  BY <2>1 DEF Garbled, Family, HostingInv, TypeOK
<1>. QED  BY <1>1, <1>3, <1>4, CallLeaves, ProviderKeeps DEF Garbled, HostingInv, TypeOK

\* An answer that is lost, and the next attempt.
LEMMA LostAfterKeeps ==
    ASSUME HostingInv, NEW r \in Requests, LostAfter(r)
    PROVE  HostingInv'
<1>. DEFINE x == req[r].res
<1>1. x \in Resources /\ req[r] \in Request /\ MaxAttempts \in Nat \ {0}
  BY BusyFacts, HostingAssumption DEF LostAfter, Busy, Is, HostingInv, TypeOK, HostingAssumption
<1>2. PICK y : /\ Again(r, y)
               /\ \/ y = x
                  \/ /\ req[r].verb = "create" /\ x \in GivenIds /\ req[r].tries < MaxAttempts
                     /\ y \in Of(Kind[x]) \ (given \cup {x})
  BY DEF LostAfter
<1>. DEFINE c == IF req[r].tries = MaxAttempts THEN Idle
                 ELSE [req[r] EXCEPT !.tries = @ + 1, !.res = y]
<1>3. req' = [req EXCEPT ![r] = c]
  BY <1>2 DEF Again
<1>4. Left(r, c)
  <2>1. CASE req[r].tries = MaxAttempts
    BY <2>1 DEF Left
  <2>2. CASE req[r].tries # MaxAttempts
    <3>1. req[r].tries + 1 \in 1..MaxAttempts
      BY <1>1, <2>2 DEF Request
    <3>2. y \in Resources
      BY <1>1, <1>2 DEF Of
    <3>3. c = [req[r] EXCEPT !.tries = req[r].tries + 1, !.res = y]
      BY <2>2
    <3>4. \/ y = req[r].res
          \/ /\ req[r].verb = "create" /\ req[r].res \in GivenIds
             /\ Kind[y] = Kind[req[r].res] /\ y \notin given
      BY <1>2 DEF Of
    <3>. HIDE DEF c
    <3>. QED  BY <3>1, <3>2, <3>3, <3>4 DEF Left
  <2>. QED  BY <2>1, <2>2
<1>. HIDE DEF c
<1>5. /\ req'[r] = c /\ \A q \in Requests : q # r => req'[q] = req[q]
  BY <1>3 DEF HostingInv, TypeOK
<1>6. ~Acting(r)' /\ c.verb \in {req[r].verb, "none"}
  BY <1>1, <1>5 DEF c, Acting, Idle, Request, LostAfter, Is
<1>7. doubtful' \subseteq Resources /\ doubtful \subseteq doubtful' /\ Family(x) \subseteq doubtful'
  BY <1>1 DEF LostAfter, Family, HostingInv, TypeOK
<1>8. Outcome(r)
  BY <1>5, <1>6, <1>7 DEF Outcome
<1>. QED  BY <1>3, <1>4, <1>7, <1>8, CallLeaves, ProviderKeeps DEF LostAfter, HostingInv, TypeOK

\* A call that is lost, and the next attempt.
LEMMA LostBeforeKeeps ==
    ASSUME HostingInv, NEW r \in Requests, LostBefore(r)
    PROVE  HostingInv'
<1>1. CASE req[r].tries = MaxAttempts
  <2>1. Quits(r)
    BY <1>1 DEF LostBefore, Again, Quits, Acting, Is, HostingInv, TypeOK
  <2>. QED  BY <2>1, QuitsKeeps
<1>2. CASE req[r].tries # MaxAttempts
  BY <1>2, RetriesKeep DEF LostBefore, Again
<1>. QED  BY <1>1, <1>2

\* The other ways to end.
LEMMA EndsKeep ==
    ASSUME HostingInv, NEW r \in Requests,
           Refused(r) \/ Cut(r) \/ CredentialsFail(r) \/ NoId(r)
    PROVE  HostingInv'
<1>1. CASE Refused(r)
  <2>1. Quits(r)
    BY <1>1 DEF Refused, Quits, Acting, Is, HostingInv, TypeOK
  <2>. QED  BY <2>1, QuitsKeeps
<1>2. CASE Cut(r) \/ CredentialsFail(r) \/ NoId(r)
  <2>1. RollBack(r) /\ Busy(r)
    BY <1>2 DEF Cut, CredentialsFail, NoId, Busy, Is
  <2>2. Family(req[r].res) \subseteq Resources
    BY <2>1, BusyFacts DEF Family
  <2>3. Quits(r)
    BY <2>1, <2>2 DEF RollBack, Ends, Quits, HostingInv, TypeOK
  <2>. QED  BY <2>3, QuitsKeeps
<1>. QED  BY <1>1, <1>2

\* The rows of what the provider has done are prepared ...
LEMMA RecordKeeps ==
    ASSUME HostingInv, NEW r \in Requests, Record(r)
    PROVE  HostingInv'
<1>. USE HostingAssumption DEF HostingInv
<1>. DEFINE x == req[r].res
<1>1. /\ Shaped(r) /\ req[r] \in Request /\ req[r].pc = "rows" /\ Busy(r) /\ x \in Resources
      /\ req[r].by \in Tenants /\ rows \subseteq Tenants \X Resources
  BY BusyFacts DEF Record, Is, Busy, TypeOK
<1>2. req[r].verb \in Calls
  BY <1>1 DEF Shaped, Is
<1>3. doubtful \subseteq doubtful' /\ doubtful' \subseteq Resources
  BY <1>1 DEF Record, LeftBehind, TypeOK
<1>4. CASE req[r].verb \in {"change", "sort"}
  <2>1. Quits(r)
    BY <1>3, <1>4 DEF Record, Quits
  <2>. QED  BY <2>1, QuitsKeeps
<1>5. CASE req[r].verb \in {"create", "delete"}
  <2>1. /\ req[r].verb = "create" \/ req[r].verb = "delete"
        /\ req[r].verb \notin {"change", "sort", "assign", "release"}
    BY <1>5
  <2>. DEFINE add == IF req[r].verb = "create" THEN NewRow(req[r].by, req[r].res) ELSE {}
              drop == IF req[r].verb = "delete" THEN RowsOf(req[r].by, req[r].res) ELSE {}
              c == [req[r] EXCEPT !.pc = "commit", !.add = add, !.drop = drop]
  <2>2. add \subseteq Tenants \X Resources /\ drop \subseteq rows
    BY <1>1 DEF NewRow, RowsOf, DomainRows, MailboxRows, OwnRow
  <2>3. req' = [req EXCEPT ![r] = c]
    BY <2>1 DEF Record
  <2>4. /\ c \in Request /\ c.pc = "commit" /\ c.verb = req[r].verb /\ c.by = req[r].by
        /\ c.res = req[r].res /\ c.add = add /\ c.drop = drop
    BY <1>1, <2>2 DEF Request
  <2>5. /\ req'[r] = c /\ \A q \in Requests : q # r => req'[q] = req[q]
        /\ \A q \in Requests : /\ Busy(q)' <=> Busy(q)
                               /\ Acting(q)' <=> Acting(q)
                               /\ req'[q].verb = req[q].verb /\ req'[q].by = req[q].by
                               /\ req'[q].res = req[q].res
    BY <1>1, <2>3, <2>4 DEF TypeOK, Busy, Is, Acting
  <2>6. \A t \in Tenants, y \in Resources : <<t, y>> \in drop => y \in Family(x)
    <3>1. x \in Family(x)
      BY <1>1, FamilyFacts
    <3>. QED  BY <3>1 DEF RowsOf, DomainRows, MailboxRows, OwnRow
  <2>7. \A y \in Named \ doubtful', t \in Tenants :
           req[r].verb = "delete" /\ y \in Family(x) /\ Mapped(t, y) => <<t, y>> \in drop
    <3>. SUFFICES ASSUME NEW y \in Named \ doubtful', NEW t \in Tenants, req[r].verb = "delete",
                         y \in Family(x), Mapped(t, y)
                  PROVE  <<t, y>> \in drop
      OBVIOUS
    <3>1. <<t, y>> \in rows /\ <<t, y>>[2] = y /\ y \in Resources
      BY DEF Mapped, Named
    <3>2. CASE Kind[x] = "mail_domain"
      BY <3>1, <3>2 DEF RowsOf, DomainRows
    <3>3. CASE Kind[x] = "mailbox"
      <4>1. y = x
        BY <1>1, <3>1, <3>3, FamilyFacts
      <4>. QED  BY <3>1, <3>3, <4>1 DEF RowsOf, MailboxRows
    <3>4. CASE Kind[x] \in {"site", "database", "ai_key", "bucket"}
      <4>1. y = x
        BY <1>1, <3>1, <3>4, FamilyFacts
      <4>2. x \notin doubtful'
        BY <4>1
      <4>3. CASE t = req[r].by
        BY <3>1, <3>4, <4>1, <4>3 DEF RowsOf, OwnRow
      <4>4. CASE t # req[r].by
        <5>1. x \notin LeftBehind(r)
          BY <4>2 DEF Record
        <5>2. <<t, x>>[1] = t /\ <<t, x>>[2] = x
          OBVIOUS
        <5>3. <<t, x>> \in RowsOf(req[r].by, x)
          BY <3>1, <4>1, <4>4, <5>1, <5>2 DEF LeftBehind
        <5>. QED  BY <4>1, <5>3
      <4>. QED  BY <4>3, <4>4
    <3>5. Kind[x] \in Kinds \ {"zone_service", "dns_zone"}
      BY <1>1, BusyFacts DEF HostingAssumption
    <3>. QED  BY <3>2, <3>3, <3>4, <3>5 DEF Kinds
  <2>. HIDE DEF c, drop, add
  <2>10. TypeOK'
    BY <1>3, <2>3, <2>4 DEF TypeOK, Record
  <2>11. \A q \in Requests : Shaped(q)'
    <3>. SUFFICES ASSUME NEW q \in Requests
                  PROVE  Shaped(q)'
      OBVIOUS
    <3>1. CASE q # r
      BY <2>5, <3>1, ShapedStays
    <3>2. CASE q = r
      <4>1. add = IF req[r].verb = "create" THEN {<<req[r].by, req[r].res>>} ELSE {}
        BY DEF add, NewRow
      <4>2. drop # {} => req[r].verb = "delete"
        BY DEF drop
      <4>. QED  BY <1>1, <1>2, <2>1, <2>4, <2>5, <2>6, <3>2, <4>1, <4>2 DEF Shaped, Is, Busy
    <3>. QED  BY <3>1, <3>2
  <2>12. Apart'
    BY <1>3, <2>5 DEF Apart, Met
  <2>9. UNCHANGED <<exists, given, rows, keeper, asked>>
    BY DEF Record
  <2>13. Gone'
    BY <1>3, <2>5, <2>9 DEF Gone, Doing
  <2>14. GivenOnes'
    BY <1>3, <2>5, <2>9 DEF GivenOnes, Mapped
  <2>15. Held'
    BY <1>3, <2>5, <2>9 DEF Held, Mapped
  <2>16. RowsExist'
    <3>. SUFFICES ASSUME NEW t \in Tenants, NEW y \in Named \ (doubtful' \cup exists), Mapped(t, y)
                  PROVE  \E q \in Requests : /\ Doing(q, "delete", y)'
                                             /\ Is(q, "commit")' => <<t, y>> \in req'[q].drop
      BY DEF RowsExist, Mapped, Record
    <3>1. PICK q \in Requests : Doing(q, "delete", y) /\ (Is(q, "commit") => <<t, y>> \in req[q].drop)
      BY <1>3 DEF RowsExist
    <3>. QED  BY <2>4, <2>5, <2>7, <3>1 DEF Doing, Is
  <2>17. Sole'
    BY <1>3, <2>9 DEF Sole, Mapped
  <2>18. Makers'
    BY <1>3, <2>5, <2>9 DEF Makers
  <2>19. Staff'
    BY <1>3, <2>5, <2>9 DEF Staff, Mapped
  <2>20. Holds'
    <3>. SUFFICES ASSUME NEW q \in Requests, Is(q, "call")', req'[q].verb # "create", req'[q].res \notin doubtful'
                  PROVE  MayTouch(req'[q].by, req'[q].res)
      BY <2>9 DEF Holds, MayTouch, MailboxAccessible, Accessible, Mapped
    <3>1. Is(q, "call")
      BY <2>4, <2>5 DEF Is
    <3>. QED  BY <1>3, <2>5, <3>1 DEF Holds
  <2>. QED  BY <2>10, <2>11, <2>12, <2>13, <2>14, <2>15, <2>16, <2>17, <2>18, <2>19, <2>20
<1>. QED  BY <1>2, <1>4, <1>5 DEF Calls

\* What another request under way may share with an assignment, a release or a
\* deletion.
LEMMA Alone ==
    ASSUME HostingInv, NEW r \in Requests, NEW q \in Requests, q # r, Busy(r), Busy(q),
           Related(req[r].res, req[q].res), req[q].res \notin doubtful \/ req[r].res \notin doubtful
    PROVE  /\ req[q].res = req[r].res /\ req[r].res \in GivenIds
           /\ \/ req[r].verb = "create" /\ req[q].verb \in Calls
              \/ req[q].verb = "create" /\ req[r].verb \in Calls
  BY DEF HostingInv, Apart, Met

\* ... and committed, as an assignment or a release is.
LEMMA CommitKeeps ==
    ASSUME HostingInv, NEW r \in Requests, Commit(r)
    PROVE  HostingInv'
<1>. USE HostingAssumption DEF HostingInv
<1>. DEFINE x == req[r].res
            add == req[r].add
            drop == req[r].drop
<1>1. /\ Shaped(r) /\ req[r] \in Request /\ Is(r, "commit") /\ Busy(r) /\ x \in Resources
      /\ req[r].by \in Tenants /\ rows \subseteq Tenants \X Resources
      /\ keeper \in [Resources -> Tenants \cup {None}] /\ Acting(r)
      /\ req[r].verb \in {"create", "delete", "assign", "release"}
  <2>1. Is(r, "commit") /\ Busy(r) /\ Acting(r) /\ Shaped(r) /\ req[r] \in Request
    BY DEF Commit, Is, Busy, Acting, TypeOK
  <2>2. req[r].verb \in Calls \cup {"assign", "release"} /\ req[r].verb \notin {"change", "sort"}
    BY <2>1 DEF Shaped
  <2>. QED  BY <2>1, <2>2, BusyFacts DEF Calls, TypeOK
<1>2. /\ add = IF req[r].verb \in {"create", "assign"} THEN {<<req[r].by, x>>} ELSE {}
      /\ req[r].verb = "release" => drop = {<<req[r].by, x>>}
      /\ req[r].verb \in {"create", "assign"} => drop = {}
      /\ \A t \in Tenants, y \in Resources : <<t, y>> \in drop => y \in Family(x)
  BY <1>1 DEF Shaped
<1>3. /\ \A q \in Requests : q # r => req'[q] = req[q]
      /\ req'[r] = Idle /\ req' \in [Requests -> Request]
      /\ Idle.pc = "idle" /\ Idle.verb = "none" /\ Idle.add = {} /\ Idle.drop = {}
      /\ UNCHANGED <<exists, given, doubtful, asked>> /\ ~Busy(r)' /\ ~Acting(r)'
      /\ rows' = (rows \ drop) \cup add
  BY IdleType DEF Commit, Ends, TypeOK, Idle, Busy, Is, Acting
<1>4. /\ req[r].verb = "assign" => keeper' = [keeper EXCEPT ![x] = req[r].by]
      /\ req[r].verb = "release" => keeper' = [keeper EXCEPT ![x] = None]
      /\ req[r].verb \in {"create", "delete"} => keeper' = keeper
  BY DEF Commit
<1>5. \A t \in Tenants, y \in Resources :
         <<t, y>> \in rows' <=> (Mapped(t, y) /\ <<t, y>> \notin drop) \/ <<t, y>> \in add
  BY <1>3 DEF Mapped
<1>6. x \in Family(x) /\ Related(x, x)
  BY <1>1, FamilyFacts
<1>7. \A q \in Requests : Acting(q) => Busy(q) /\ req[q].res \in Resources
  BY BusyFacts DEF Acting, Busy, Is
\* What the rows that come and go are about.
<1>8. x \notin doubtful =>
         /\ req[r].verb = "assign" => x \in exists /\ \A u \in Tenants : ~Mapped(u, x)
         /\ req[r].verb = "release" => Mapped(req[r].by, x)
         /\ req[r].verb = "create" /\ x \in Named => x \in exists
         /\ req[r].verb = "create" /\ x \notin Service /\ x \in exists => keeper[x] = req[r].by
  BY <1>1 DEF Staff, Makers
<1>9. x \in GivenIds \ doubtful => x \in given
  BY <1>1 DEF GivenOnes
<1>10. req[r].verb = "delete" => \A y \in Family(x) \ doubtful : y \notin exists
  BY <1>1 DEF Gone, Doing, Family
<1>11. ASSUME NEW q \in Requests, q # r, Busy(q), Related(x, req[q].res), req[r].verb # "create",
              req[r].verb = "delete" => req[q].verb # "create"
       PROVE  req[q].res \in doubtful /\ x \in doubtful
  BY <1>1, <1>11, Alone DEF Calls
<1>12. TypeOK'
  BY <1>1, <1>2, <1>3, <1>4 DEF TypeOK
<1>13. \A q \in Requests : Shaped(q)'
  <2>. SUFFICES ASSUME NEW q \in Requests
                PROVE  Shaped(q)'
    OBVIOUS
  <2>1. CASE q # r
    BY <1>3, <2>1, ShapedStays
  <2>2. CASE q = r
    BY <1>3, <2>2 DEF Shaped, Is, Busy, Calls
  <2>. QED  BY <2>1, <2>2
<1>14. Apart'
  BY <1>3 DEF Apart, Met, Busy, Is
<1>15. Gone'
  BY <1>3 DEF Gone, Doing, Acting
<1>16. GivenOnes'
  <2>1. \A t \in Tenants, y \in GivenIds \ doubtful : <<t, y>> \in rows' => y \in given
    BY <1>2, <1>5, <1>9 DEF GivenOnes, GivenIds, Of
  <2>2. \A q \in Requests : Acting(q)' => req'[q] = req[q] /\ Acting(q)
    BY <1>3 DEF Acting
  <2>. QED  BY <1>3, <2>1, <2>2 DEF GivenOnes, Mapped
<1>17. Held'
  <2>. SUFFICES ASSUME NEW y \in exists \ doubtful, keeper'[y] # None
                PROVE  \/ <<keeper'[y], y>> \in rows'
                       \/ \E q \in Requests : /\ req'[q].verb = "create" /\ Acting(q)'
                                              /\ req'[q].res = y /\ req'[q].by = keeper'[y]
    BY <1>3 DEF Held, Mapped
  <2>0. y \in Resources /\ keeper[y] \in Tenants \cup {None}
    BY <1>1 DEF TypeOK
  <2>1. CASE y = x /\ req[r].verb \in {"assign", "release"}
    BY <1>1, <1>2, <1>4, <1>5, <2>1
  <2>2. CASE ~(y = x /\ req[r].verb \in {"assign", "release"})
    <3>1. keeper'[y] = keeper[y]
      BY <1>1, <1>4, <2>0, <2>2
    <3>2. CASE Mapped(keeper[y], y)
      <4>1. <<keeper[y], y>> \notin drop
        BY <1>1, <1>2, <1>10, <2>0, <2>2, <3>1
      <4>. QED  BY <1>5, <2>0, <3>1, <3>2, <4>1
    <3>3. ASSUME NEW q \in Requests, req[q].verb = "create", Acting(q), req[q].res = y, req[q].by = keeper[y]
          PROVE  \/ <<keeper'[y], y>> \in rows'
                 \/ /\ req'[q].verb = "create" /\ Acting(q)'
                    /\ req'[q].res = y /\ req'[q].by = keeper'[y]
      <4>1. CASE q = r
        BY <1>1, <1>2, <1>5, <2>0, <3>1, <3>3, <4>1
      <4>2. CASE q # r
        BY <1>3, <3>1, <3>3, <4>2 DEF Acting
      <4>. QED  BY <4>1, <4>2
    <3>. QED  BY <3>1, <3>2, <3>3 DEF Held
  <2>. QED  BY <2>1, <2>2
<1>18. RowsExist'
  <2>. SUFFICES ASSUME NEW t \in Tenants, NEW y \in Named \ (doubtful \cup exists), <<t, y>> \in rows'
                PROVE  \E q \in Requests : /\ Doing(q, "delete", y)'
                                           /\ Is(q, "commit")' => <<t, y>> \in req'[q].drop
    BY <1>3 DEF RowsExist, Mapped
  <2>0. y \in Resources
    BY DEF Named
  <2>1. <<t, y>> \notin add
    BY <1>2, <1>8
  <2>2. Mapped(t, y) /\ <<t, y>> \notin drop
    BY <1>5, <2>0, <2>1
  <2>3. PICK q \in Requests : Doing(q, "delete", y) /\ (Is(q, "commit") => <<t, y>> \in req[q].drop)
    BY <2>2 DEF RowsExist
  <2>4. q # r
    BY <1>1, <2>2, <2>3
  <2>. QED  BY <1>3, <2>3, <2>4 DEF Doing, Acting, Is
<1>19. Sole'
  <2>. SUFFICES ASSUME NEW y \in exists \ (doubtful \cup Service), NEW t \in Tenants, <<t, y>> \in rows'
                PROVE  t = keeper'[y]
    BY <1>3 DEF Sole, Mapped
  <2>0. y \in Resources
    BY DEF TypeOK
  <2>1. CASE y # x
    BY <1>1, <1>2, <1>4, <1>5, <2>0, <2>1 DEF Sole
  <2>2. CASE y = x
    BY <1>1, <1>2, <1>4, <1>5, <1>8, <2>0, <2>2 DEF Sole
  <2>. QED  BY <2>1, <2>2
<1>20. Makers'
  <2>. SUFFICES ASSUME NEW q \in Requests, req'[q].verb = "create", Acting(q)', req'[q].res \notin doubtful
                PROVE  /\ req'[q].res \in Named => req'[q].res \in exists
                       /\ req'[q].res \notin Service /\ req'[q].res \in exists => keeper'[req'[q].res] = req'[q].by
    BY <1>3 DEF Makers
  <2>1. q # r /\ req'[q] = req[q] /\ Acting(q)
    BY <1>3 DEF Acting
  <2>2. Busy(q) /\ req[q].res \in Resources
    BY <1>7, <2>1
  <2>3. req[r].verb \in {"assign", "release"} => req[q].res # x
    BY <1>6, <1>11, <2>1, <2>2
  <2>4. keeper'[req[q].res] = keeper[req[q].res]
    BY <1>1, <1>4, <2>2, <2>3
  <2>. QED  BY <2>1, <2>4 DEF Makers
<1>21. Staff'
  <2>. SUFFICES ASSUME NEW q \in Requests, req'[q].res \notin doubtful, req'[q].verb \in {"assign", "release"}
                PROVE  /\ req'[q].verb = "assign" => /\ req'[q].res \in exists
                                                     /\ \A u \in Tenants : <<u, req'[q].res>> \notin rows'
                       /\ req'[q].verb = "release" => <<req'[q].by, req'[q].res>> \in rows'
    BY <1>3 DEF Staff, Mapped
  <2>1. q # r /\ req'[q] = req[q]
    BY <1>3
  <2>2. Busy(q)
    <3>1. Shaped(q) /\ Idle.verb = "none" /\ req[q].verb # "none"
      BY <2>1 DEF Idle
    <3>. QED  BY <3>1 DEF Shaped, Busy
  <2>3. req[q].res \in Resources /\ req[q].by \in Tenants
    BY <2>2, BusyFacts
  <2>4. ~Related(x, req[q].res)
    BY <1>1, <2>1, <2>2, Alone DEF Calls
  <2>5. req[q].res # x /\ req[q].res \notin Family(x)
    BY <1>1, <1>6, <2>3, <2>4, FamilyFacts
  <2>6. \A u \in Tenants : <<u, req[q].res>> \in rows' <=> Mapped(u, req[q].res)
    BY <1>2, <1>5, <2>3, <2>5
  <2>. QED  BY <2>1, <2>3, <2>6 DEF Staff, Mapped
<1>22. Holds'
  <2>. SUFFICES ASSUME NEW q \in Requests, Is(q, "call")', req'[q].verb # "create", req'[q].res \notin doubtful
                PROVE  MayTouch(req[q].by, req[q].res)'
    <3>1. ASSUME NEW q \in Requests, Is(q, "call")', req'[q].verb # "create", req'[q].res \notin doubtful
          PROVE  req'[q] = req[q]
      BY <1>3, <3>1 DEF Is
    <3>. QED  BY <1>3, <3>1 DEF Holds, MayTouch, MailboxAccessible, Accessible, Mapped
  <2>1. q # r /\ req'[q] = req[q] /\ Is(q, "call") /\ Busy(q)
    BY <1>3 DEF Is, Busy
  <2>. DEFINE z == req[q].res
              t == req[q].by
  <2>2. z \in Resources /\ t \in Tenants /\ MayTouch(t, z)
    BY <2>1, BusyFacts DEF Holds
  <2>3. Related(x, z) => req[r].verb = "create"
    BY <1>11, <2>1
  <2>4. ASSUME NEW y \in Resources, Mapped(t, y), y = z \/ (Kind[z] = "mailbox" /\ y = Under[z])
        PROVE  <<t, y>> \in rows'
    <3>1. z \in Family(y)
      BY <2>2, <2>4, FamilyFacts DEF Family
    <3>2. y \in Family(x) => Related(x, z)
      BY <1>1, <2>2, <2>4, <3>1, FamilyFacts
    <3>3. <<t, y>> \notin drop
      BY <1>2, <2>2, <2>3, <3>2
    <3>. QED  BY <1>5, <2>2, <2>4, <3>3
  <2>5. Kind[z] = "mailbox" => Under[z] \in Resources
    BY <2>2 DEF HostingAssumption, Over
  <2>. QED  BY <2>1, <2>2, <2>4, <2>5 DEF MayTouch, MailboxAccessible, Accessible, Mapped
<1>. QED  BY <1>12, <1>13, <1>14, <1>15, <1>16, <1>17, <1>18, <1>19, <1>20, <1>21, <1>22

-----------------------------------------------------------------------------
(***************************************************************************)
(* A request arrives.                                                      *)
(***************************************************************************)
\* What one that may be asked brings with it.
Ready(t, verb, x, pc, add, drop) ==
    \/ /\ pc = "call" /\ add = {} /\ drop = {} /\ verb \in Calls
       /\ May(t, verb, x)
    \/ /\ pc = "commit" /\ verb = "assign" /\ add = {<<t, x>>} /\ drop = {}
       /\ \A u \in Tenants : ~Mapped(u, x)
    \/ /\ pc = "commit" /\ verb = "release" /\ add = {} /\ drop = {<<t, x>>}
       /\ Mapped(t, x)

\* Who may sort held mail may touch the mailbox.
LEMMA SortTouches ==
    ASSUME TypeOK, NEW t \in Tenants, NEW x \in Resources, MaySort(t, x),
           "sort" \in Verbs(Kind[x])
    PROVE  MayTouch(t, x)
<1>1. CASE Kind[x] = "mailbox"
  BY <1>1 DEF MaySort, MayTouch, MailboxAccessible, Accessible
<1>2. CASE Kind[x] # "mailbox"
  <2>1. Kind[x] # "zone_service"
    BY VerbFacts
  <2>2. Under[x] = None /\ None \notin Resources
    BY <1>2, <2>1, HostingAssumption DEF HostingAssumption, Over
  <2>3. Mapped(t, x)
    BY <2>2 DEF MaySort, Mapped, TypeOK
  <2>. QED  BY <1>2, <2>3 DEF MayTouch, Accessible
<1>. QED  BY <1>1, <1>2

\* A new request: it meets whoever is under way about the same.
LEMMA AsksKeeps ==
    ASSUME HostingInv, NEW r \in Requests, NEW t \in Tenants, NEW x \in Resources,
           NEW verb, NEW pc, NEW add, NEW drop,
           Ready(t, verb, x, pc, add, drop), Asks(r, t, verb, x, pc, add, drop)
    PROVE  HostingInv'
<1>. USE HostingAssumption DEF HostingInv
<1>. DEFINE c == [pc |-> pc, verb |-> verb, by |-> t, res |-> x, tries |-> 1,
                  add |-> add, drop |-> drop]
<1>1. /\ verb \in Calls \cup {"assign", "release"}
      /\ add \subseteq Tenants \X Resources /\ drop \subseteq Tenants \X Resources
      /\ pc \in {"call", "commit"}
      /\ verb \in Calls => verb \in Verbs(Kind[x]) /\ pc = "call" /\ add = {} /\ drop = {}
  BY DEF Ready, May, Calls
<1>2. c \in Request
  BY <1>1 DEF Request, Calls, HostingAssumption
<1>3. /\ \A q \in Requests : q # r => req'[q] = req[q]
      /\ req'[r] = c /\ req' \in [Requests -> Request] /\ req[r] = Idle /\ ~Busy(r)
      /\ UNCHANGED <<exists, given, rows, keeper>>
      /\ asked' = asked + 1 /\ asked < MaxAsked
  BY <1>2 DEF Asks, TypeOK, Shaped, Busy, Is
<1>4. doubtful \subseteq doubtful' /\ doubtful' \subseteq Resources
  BY DEF Asks, TypeOK
<1>5. Idle.verb = "none" /\ Idle.pc = "idle" /\ ~Acting(r)
  BY <1>3 DEF Idle, Acting, Is
<1>6. TypeOK'
  BY <1>3, <1>4 DEF TypeOK, HostingAssumption
<1>7. /\ c.pc = pc /\ c.verb = verb /\ c.by = t /\ c.res = x /\ c.add = add /\ c.drop = drop
      /\ x \in Family(x) /\ Related(x, x)
  BY FamilyFacts
<1>. HIDE DEF c
<1>8. \A q \in Requests : Shaped(q)'
  <2>. SUFFICES ASSUME NEW q \in Requests
                PROVE  Shaped(q)'
    OBVIOUS
  <2>1. CASE q # r
    BY <1>3, <2>1, ShapedStays
  <2>2. CASE q = r
    <3>1. CASE verb \in Calls
      BY <1>1, <1>3, <1>7, <2>2, <3>1 DEF Shaped, Is, Busy, Calls
    <3>2. CASE verb = "assign"
      <4>1. pc = "commit" /\ add = {<<t, x>>} /\ drop = {} /\ verb \notin Calls
        BY <3>2 DEF Ready, Calls
      <4>2. req'[r].pc # "idle" /\ req'[r].verb \notin {"change", "sort", "release", "delete", "create"}
        BY <1>3, <1>7, <3>2, <4>1
      <4>. QED  BY <1>3, <1>7, <2>2, <3>2, <4>1, <4>2 DEF Shaped, Is, Busy
    <3>3. CASE verb = "release"
      <4>1. pc = "commit" /\ add = {} /\ drop = {<<t, x>>} /\ verb \notin Calls
        BY <3>3 DEF Ready, Calls
      <4>2. req'[r].pc # "idle" /\ req'[r].verb \notin {"change", "sort", "assign", "delete", "create"}
        BY <1>3, <1>7, <3>3, <4>1
      <4>3. \A u \in Tenants, y \in Resources : <<u, y>> \in drop => y \in Family(x)
        BY <1>7, <4>1
      <4>4. drop # {}
        BY <4>1
      <4>. QED  BY <1>3, <1>7, <2>2, <3>3, <4>1, <4>2, <4>3, <4>4 DEF Shaped, Is, Busy
    <3>. QED  BY <1>1, <3>1, <3>2, <3>3
  <2>. QED  BY <2>1, <2>2
<1>9. ASSUME NEW q \in Requests, q # r, Busy(q), Related(req[q].res, x)
      PROVE  x \in doubtful' /\ req[q].res \in doubtful'
  <2>1. req[q].res \in Resources
    BY <1>9, BusyFacts
  <2>2. Related(x, x) /\ Related(x, req[q].res)
    BY <1>9, <2>1, FamilyFacts
  <2>3. doubtful' = doubtful \cup {y \in Resources : Related(x, y)}
    BY <1>9 DEF Asks, Busy
  <2>. QED  BY <2>1, <2>2, <2>3
<1>10. Apart'
  <2>. SUFFICES ASSUME NEW o \in Requests, NEW q \in Requests, o # q, Busy(o)', Busy(q)',
                       Related(req'[o].res, req'[q].res)
                PROVE  Met(o, q)'
    BY DEF Apart, Related, Family
  <2>0. ASSUME NEW p \in Requests, p # r, Busy(p)'
        PROVE  Busy(p) /\ req'[p] = req[p] /\ req[p].res \in Resources
    BY <1>3, <2>0, BusyFacts DEF Busy, Is
  <2>1. CASE o # r /\ q # r
    BY <1>4, <2>0, <2>1 DEF Apart, Met
  <2>2. CASE o = r
    BY <1>3, <1>7, <1>9, <2>0, <2>2, FamilyFacts DEF Met
  <2>3. CASE q = r
    BY <1>3, <1>7, <1>9, <2>0, <2>3 DEF Met
  <2>. QED  BY <2>1, <2>2, <2>3
\* An assignment or a release that nothing makes doubtful.
<1>11. x \notin doubtful' =>
         /\ verb = "assign" => x \in exists /\ \A u \in Tenants : ~Mapped(u, x)
         /\ verb = "release" => Mapped(t, x)
  <2>1. verb = "assign" /\ x \notin exists => x \in doubtful'
    BY <1>7 DEF Asks
  <2>. QED  BY <2>1 DEF Ready, Calls
<1>12. Acting(r)' => verb \in {"assign", "release"}
  BY <1>1, <1>3, <1>7 DEF Acting
<1>13. Gone'
  <2>. SUFFICES ASSUME NEW q \in Requests, NEW y \in Resources \ doubtful', Doing(q, "delete", y)'
                PROVE  y \notin exists
    BY <1>3 DEF Gone
  <2>1. q # r
    BY <1>3, <1>7, <1>12 DEF Doing
  <2>. QED  BY <1>3, <1>4, <2>1 DEF Gone, Doing, Acting
<1>14. GivenOnes'
  <2>1. \A y \in GivenIds \ doubtful', u \in Tenants : Mapped(u, y) => y \in given
    BY <1>4 DEF GivenOnes
  <2>2. ASSUME NEW q \in Requests, req'[q].res \in GivenIds \ doubtful', Acting(q)'
        PROVE  req'[q].res \in given
    <3>1. CASE q = r
      BY <1>3, <1>7, <1>11, <1>12, <2>1, <2>2, <3>1 DEF GivenOnes
    <3>2. CASE q # r
      BY <1>3, <1>4, <2>2, <3>2 DEF GivenOnes, Acting
    <3>. QED  BY <3>1, <3>2
  <2>. QED  BY <1>3, <2>1, <2>2 DEF GivenOnes, Mapped
<1>15. Held'
  <2>. SUFFICES ASSUME NEW y \in exists \ doubtful', keeper[y] # None, ~Mapped(keeper[y], y)
                PROVE  \E q \in Requests : /\ req'[q].verb = "create" /\ Acting(q)'
                                           /\ req'[q].res = y /\ req'[q].by = keeper[y]
    BY <1>3 DEF Held, Mapped
  <2>1. PICK q \in Requests : /\ req[q].verb = "create" /\ Acting(q)
                             /\ req[q].res = y /\ req[q].by = keeper[y]
    BY <1>4 DEF Held
  <2>. QED  BY <1>3, <1>5, <2>1 DEF Acting
<1>16. RowsExist'
  <2>. SUFFICES ASSUME NEW u \in Tenants, NEW y \in Named \ (doubtful' \cup exists), Mapped(u, y)
                PROVE  \E q \in Requests : /\ Doing(q, "delete", y)'
                                           /\ Is(q, "commit")' => <<u, y>> \in req'[q].drop
    BY <1>3 DEF RowsExist, Mapped
  <2>1. PICK q \in Requests : Doing(q, "delete", y) /\ (Is(q, "commit") => <<u, y>> \in req[q].drop)
    BY <1>4 DEF RowsExist
  <2>2. q # r
    BY <1>5, <2>1 DEF Doing
  <2>. QED  BY <1>3, <2>1, <2>2 DEF Doing, Acting, Is
<1>17. Sole'
  BY <1>3, <1>4 DEF Sole, Mapped
<1>18. Makers'
  <2>. SUFFICES ASSUME NEW q \in Requests, req'[q].verb = "create", Acting(q)', req'[q].res \notin doubtful'
                PROVE  /\ req'[q].res \in Named => req'[q].res \in exists
                       /\ req'[q].res \notin Service /\ req'[q].res \in exists => keeper[req'[q].res] = req'[q].by
    BY <1>3 DEF Makers
  <2>1. q # r
    BY <1>3, <1>7, <1>12
  <2>. QED  BY <1>3, <1>4, <2>1 DEF Makers, Acting
<1>19. Staff'
  <2>. SUFFICES ASSUME NEW q \in Requests, req'[q].res \notin doubtful'
                PROVE  /\ req'[q].verb = "assign" => /\ req'[q].res \in exists
                                                     /\ \A u \in Tenants : ~Mapped(u, req'[q].res)
                       /\ req'[q].verb = "release" => Mapped(req'[q].by, req'[q].res)
    BY <1>3 DEF Staff, Mapped
  <2>1. CASE q = r
    BY <1>3, <1>7, <1>11, <2>1
  <2>2. CASE q # r
    BY <1>3, <1>4, <2>2 DEF Staff
  <2>. QED  BY <2>1, <2>2
<1>20. Holds'
  <2>. SUFFICES ASSUME NEW q \in Requests, Is(q, "call")', req'[q].verb # "create", req'[q].res \notin doubtful'
                PROVE  MayTouch(req'[q].by, req'[q].res)
    BY <1>3 DEF Holds, MayTouch, MailboxAccessible, Accessible, Mapped
  <2>1. CASE q = r
    <3>1. pc = "call" /\ verb # "create"
      BY <1>3, <1>7, <2>1 DEF Is
    <3>2. May(t, verb, x)
      BY <3>1 DEF Ready
    <3>3. MayTouch(t, x)
      BY <3>1, <3>2, SortTouches DEF May
    <3>. QED  BY <1>3, <1>7, <2>1, <3>3
  <2>2. CASE q # r
    BY <1>3, <1>4, <2>2 DEF Holds, Is
  <2>. QED  BY <2>1, <2>2
<1>. QED  BY <1>6, <1>8, <1>10, <1>13, <1>14, <1>15, <1>16, <1>17, <1>18, <1>19, <1>20

-----------------------------------------------------------------------------
\* At first nothing is held.
LEMMA StartsRight == Init => HostingInv
<1>. SUFFICES ASSUME Init
              PROVE  HostingInv
  OBVIOUS
<1>. USE HostingAssumption DEF Init
<1>1. /\ \A r \in Requests : req[r] = Idle
      /\ Idle.pc = "idle" /\ Idle.verb = "none" /\ Idle.add = {} /\ Idle.drop = {} /\ Idle.res = None
      /\ None \notin Resources
  BY DEF Idle, HostingAssumption
<1>2. TypeOK
  BY IdleType DEF TypeOK, HostingAssumption
<1>3. \A r \in Requests : Shaped(r)
  BY <1>1 DEF Shaped, Is, Busy, Calls
<1>4. Apart /\ Gone /\ Makers /\ Staff /\ Holds
  BY <1>1 DEF Apart, Busy, Is, Gone, Doing, Acting, Makers, Staff, Holds
<1>5. GivenOnes /\ Held /\ RowsExist /\ Sole
  BY <1>1 DEF GivenOnes, Held, RowsExist, Sole, Mapped, GivenIds, Of, HostingAssumption, Acting
<1>. QED  BY <1>2, <1>3, <1>4, <1>5 DEF HostingInv

\* HostingInv is inductive.
LEMMA StepKeeps ==
    ASSUME HostingInv, [Next]_vars
    PROVE  HostingInv'
<1>1. CASE UNCHANGED vars
  <2>1. /\ UNCHANGED <<exists, given, rows, keeper, doubtful, asked, req>>
        /\ \A r \in Requests : req'[r] = req[r]
    BY <1>1 DEF vars
  <2>2. \A r \in Requests : Shaped(r)'
    BY <2>1, ShapedStays DEF HostingInv
  <2>3. TypeOK'
    BY <2>1 DEF HostingInv, TypeOK
  <2>4. Apart' /\ Gone' /\ GivenOnes'
    BY <2>1 DEF HostingInv, Apart, Met, Busy, Is, Gone, Doing, Acting, GivenOnes, Mapped
  <2>5. Held' /\ Sole' /\ Makers' /\ Staff'
    BY <2>1 DEF HostingInv, Held, Acting, Mapped, Sole, Makers, Staff
  <2>6. RowsExist'
    BY <2>1 DEF HostingInv, RowsExist, Doing, Acting, Is, Mapped
  <2>7. Holds'
    BY <2>1 DEF HostingInv, Holds, Is, MayTouch, MailboxAccessible, Accessible, Mapped
  <2>. QED  BY <2>2, <2>3, <2>4, <2>5, <2>6, <2>7 DEF HostingInv
<1>2. ASSUME NEW r \in Requests, Steps(r) \/ Cut(r)
      PROVE  HostingInv'
  BY <1>2, AnsweredKeeps, GarbledKeeps, LostBeforeKeeps, LostAfterKeeps, EndsKeep, RecordKeeps,
     CommitKeeps DEF Steps
<1>3. ASSUME NEW r \in Requests, NEW t \in Tenants, NEW x \in Resources,
             \/ \E verb \in Calls : Ask(r, t, verb, x)
             \/ Assign(r, t, x) \/ Release(r, t, x)
      PROVE  HostingInv'
  <2>1. ASSUME NEW verb \in Calls, Ask(r, t, verb, x)
        PROVE  HostingInv'
    <3>1. Ready(t, verb, x, "call", {}, {}) /\ Asks(r, t, verb, x, "call", {}, {})
      BY <2>1 DEF Ask, Ready
    <3>. QED  BY <3>1, AsksKeeps
  <2>2. CASE Assign(r, t, x)
    <3>1. /\ Ready(t, "assign", x, "commit", {<<t, x>>}, {})
          /\ Asks(r, t, "assign", x, "commit", {<<t, x>>}, {})
      BY <2>2 DEF Assign, Ready
    <3>. QED  BY <3>1, AsksKeeps
  <2>3. CASE Release(r, t, x)
    <3>1. /\ Ready(t, "release", x, "commit", {}, {<<t, x>>})
          /\ Asks(r, t, "release", x, "commit", {}, {<<t, x>>})
      BY <2>3 DEF Release, Ready
    <3>. QED  BY <3>1, AsksKeeps
  <2>. QED  BY <1>3, <2>1, <2>2, <2>3
<1>. QED  BY <1>1, <1>2, <1>3 DEF Next, Calls

\* HostingInv holds in every reachable state.
THEOREM Invariance == Spec => []HostingInv
<1>. QED  BY StartsRight, StepKeeps, PTL DEF Spec

\* A quiet resource is in the hands of no request that could still write its rows.
LEMMA QuietFacts ==
    ASSUME HostingInv, NEW x \in Resources, Quiet(x)
    PROVE  \A r \in Requests : ~(Acting(r) /\ req[r].res = x) /\ ~Doing(r, "delete", x)
  BY FamilyFacts DEF Quiet, Doing, Acting, Is

\* The state has the shape the code gives it.
THEOREM TypeCorrect == Spec => []TypeOK
<1>1. HostingInv => TypeOK
  BY DEF HostingInv
<1>. QED  BY <1>1, Invariance, PTL

\* What a tenant made or was assigned, and what exists, it holds; a row of a mail
\* domain, a mailbox or a bucket names something that exists (MailService,
\* StorageService and TenantResourceService on either side of the provider).
THEOREM RowsMatch == Spec => []RowsMatchProviders
<1>1. ASSUME HostingInv
      PROVE  RowsMatchProviders
  <2>1. ASSUME NEW x \in exists \ doubtful, keeper[x] # None, Quiet(x)
        PROVE  Mapped(keeper[x], x)
    BY <1>1, <2>1, QuietFacts DEF HostingInv, TypeOK, Held
  <2>2. ASSUME NEW x \in (Of("mail_domain") \cup Of("mailbox") \cup Of("bucket")) \ doubtful,
               NEW t \in Tenants, Mapped(t, x), Quiet(x)
        PROVE  x \in exists
    <3>1. x \in Named
      BY DEF Named, Of, GivenIds, Service
    <3>2. \A r \in Requests : ~Doing(r, "delete", x)
      BY <1>1, <2>2, <3>1, QuietFacts DEF Named
    <3>. QED  BY <1>1, <2>2, <3>1, <3>2 DEF HostingInv, RowsExist
  <2>. QED  BY <2>1, <2>2 DEF RowsMatchProviders, MadeIsHeld, HeldExists
<1>. QED  BY <1>1, Invariance, PTL

\* A name made, deleted and made again is held by its maker alone.
THEOREM OneTenantHolds == Spec => []OneHolder
<1>1. HostingInv => OneHolder
  BY DEF HostingInv, Sole, OneHolder, Service
<1>. QED  BY <1>1, Invariance, PTL

\* Up to three calls after the check of ensure_access the caller still holds
\* what the provider acts on.
THEOREM ActsForTheHolder == Spec => ActsForHolder
<1>1. HostingInv /\ [Next]_vars
      => [\A r \in Requests :
            (Is(r, "call") /\ req'[r].pc = "rows" /\ req[r].verb # "create")
            => \/ req[r].res \in doubtful
               \/ MayTouch(req[r].by, req[r].res)]_vars
  BY DEF HostingInv, Holds
<1>. QED  BY <1>1, Invariance, PTL DEF Spec, ActsForHolder
=============================================================================
