------------------------------- MODULE Hosting -------------------------------
(***************************************************************************)
(* Resources that live at a provider - mail domains and mailboxes at       *)
(* Mailcow, sites and databases at Coolify, DNS zones and buckets at       *)
(* Cloudflare, keys at OpenRouter - and the rows of tenant_resources that  *)
(* say which tenant holds them: app/services/tenant_resources.py, the      *)
(* services under app/modules, app/services/http.py and the routes.        *)
(*                                                                         *)
(* A request checks the caller against the rows, calls the provider, which *)
(* acts at once, and writes its rows in a transaction that ends later or   *)
(* not at all.  Calls are sent up to three times: an answer that is lost   *)
(* says nothing about whether the provider acted.                          *)
(***************************************************************************)
EXTENDS Naturals, FiniteSets

CONSTANTS Tenants, Platform,    \* Platform: the tenant with is_platform_scope
          Resources,            \* names, and ids a provider may give
          Kind,                 \* the kind of each resource
          Under,                \* the domain of a mailbox, the zone of a paid service
                                \* or plan, else None
          BucketOf,             \* whose prefix a bucket's name has, else None
          Standing,             \* resources that exist before any request
          Requests,             \* requests that can be under way at once
          ProviderActions,      \* ENABLE_PROVIDER_ACTIONS
          MaxAttempts,          \* max_attempts of a call, 3 in the code
          MaxAsked,             \* bound on requests
          None

Kinds == {"site", "mail_domain", "mailbox", "dns_zone", "zone_service", "database", "bucket",
          "ai_key"}
\* The kind of what a resource is under.
Over == [mailbox |-> "mail_domain", zone_service |-> "dns_zone"]

HostingAssumption ==
    /\ Platform \in Tenants /\ None \notin Tenants \cup Resources
    /\ Kind \in [Resources -> Kinds]
    /\ \A x \in Resources :
          IF Kind[x] \in DOMAIN Over
          THEN Under[x] \in Resources /\ Kind[Under[x]] = Over[Kind[x]]
          ELSE Under[x] = None
    /\ BucketOf \in [Resources -> Tenants \cup {None}]
    /\ Standing \subseteq Resources
    /\ ProviderActions \in BOOLEAN /\ MaxAttempts \in Nat \ {0} /\ MaxAsked \in Nat
ASSUME HostingAssumption

VARIABLES exists,       \* what the providers have
          given,        \* ids a provider has given so far
          rows,         \* committed rows of tenant_resources: <<tenant, resource>>
          req,          \* the requests
          keeper,       \* who made a resource, or was assigned it, last
          doubtful,     \* resources a lost answer or transaction, two requests under
                        \* way at once or an untimely assignment were about, or a
                        \* deletion that left a row
          asked         \* requests so far

vars == <<exists, given, rows, req, keeper, doubtful, asked>>

(***************************************************************************)
(* What the routes offer, by the section of routes.py they stand in, and   *)
(* what each operation does to the resource it is about.                   *)
(***************************************************************************)
\* "read" stands for a route that only looks.
SiteOps == [list |-> "read", update |-> "change"]
SiteStorageOps == [list |-> "read", create |-> "change", delete |-> "change"]
SiteRunOps == [deploy |-> "change", start |-> "change", restart |-> "change",
               deployments |-> "read", stop |-> "change", logs |-> "read"]
SiteEnvOps == [list |-> "read", create |-> "change", delete |-> "change"]
SiteDeploymentOps == [show |-> "read", stream |-> "read", cancel |-> "change"]
\* The console's own pages offer the same, and more.
SitePageOps == [list |-> "read", show |-> "read"]
SitePageRunOps == [deploy |-> "change", start |-> "change", restart |-> "change",
                   stop |-> "change", logs |-> "read", cancel |-> "change"]
SitePageEditOps == [settings |-> "change", execute |-> "change", env |-> "change"]
SitePageDataOps == [storage |-> "change", task |-> "change"]
DomainOps == [list |-> "read", create |-> "create", delete |-> "delete"]
MailboxOps == [create |-> "create", edit |-> "change", delete |-> "delete"]
AppPasswordOps == [list |-> "read", create |-> "change", delete |-> "change"]
QuarantineOps == [list |-> "read", act |-> "sort", delete |-> "sort"]
AliasOps == [list |-> "read", create |-> "change", delete |-> "change", dkim |-> "read"]
ZoneRecordOps == [show |-> "read", create |-> "change", update |-> "change",
                  delete |-> "change"]
ZonePageOps == [create |-> "change", edit |-> "change", delete |-> "change"]
ZoneOps == [settings |-> "change", dnssec |-> "change", purge |-> "change",
            analytics |-> "read", export |-> "read", import |-> "change"]
ZonePlanOps == [services |-> "read", plans |-> "read", subscribe |-> "create",
                activate |-> "create"]
DatabaseOps == [list |-> "read", targets |-> "read", provision |-> "create",
                backups |-> "read", backup |-> "change"]
BucketOps == [list |-> "read", provision |-> "create", delete |-> "delete"]
KeyOps == [models |-> "read", list |-> "read", provision |-> "create",
           update |-> "change", revoke |-> "delete", status |-> "read"]

Does(ops) == {ops[o] : o \in DOMAIN ops}
Routes == [site         |-> {SiteOps, SiteStorageOps, SiteRunOps, SiteEnvOps, SiteDeploymentOps,
                             SitePageOps, SitePageRunOps, SitePageEditOps, SitePageDataOps},
           mail_domain  |-> {DomainOps, AliasOps},
           mailbox      |-> {MailboxOps, AppPasswordOps, QuarantineOps},
           dns_zone     |-> {ZoneRecordOps, ZonePageOps, ZoneOps},
           zone_service |-> {ZonePlanOps},
           database     |-> {DatabaseOps},
           bucket       |-> {BucketOps},
           ai_key       |-> {KeyOps}]
Verbs(kind) == (UNION {Does(ops) : ops \in Routes[kind]}) \ {"read"}

Of(k) == {x \in Resources : Kind[x] = k}
\* Kinds whose ids the provider gives; the others are named by the caller.
GivenIds == Of("site") \cup Of("database") \cup Of("ai_key") \cup Of("dns_zone")
Family(x) == {x} \cup {y \in Resources : Under[y] = x}
Related(x, y) == x \in Family(y) \/ y \in Family(x)

Request == [pc : {"idle", "call", "rows", "commit"}, verb : {"none", "create", "change", "sort", "delete", "assign", "release"},
            by : Tenants \cup {None}, res : Resources \cup {None}, tries : 1..MaxAttempts,
            add : SUBSET (Tenants \X Resources), drop : SUBSET (Tenants \X Resources)]
Idle == [pc |-> "idle", verb |-> "none", by |-> None, res |-> None, tries |-> 1,
         add |-> {}, drop |-> {}]

Init ==
    /\ exists = Standing /\ given = Standing
    /\ rows = {}
    /\ req = [r \in Requests |-> Idle]
    /\ keeper = [x \in Resources |-> None]
    /\ doubtful = {} /\ asked = 0

Is(r, pc) == req[r].pc = pc

(***************************************************************************)
(* Who may.                                                                *)
(***************************************************************************)
Mapped(t, x) == <<t, x>> \in rows

\* A tenant's own row, or platform scope.
Accessible(t, x) == Mapped(t, x) \/ t = Platform

\* The owner of a domain owns every mailbox under it.
MailboxAccessible(t, x) == Accessible(t, x) \/ Accessible(t, Under[x])

\* The gate: every write but those of sites and DNS records and zones.
Gate(x) == Kind[x] \in {"site", "dns_zone"} \/ ProviderActions

MayMakeMailbox(t, x) == Accessible(t, Under[x])

\* _ensure_zone_access; any number of tenants and times.
MayMakeService(t, x) == Accessible(t, Under[x])

\* Held mail is let through or dropped by the rows of its recipient or of the
\* recipient's domain: platform scope does not count.
MaySort(t, x) == Mapped(t, x) \/ Mapped(t, Under[x])

\* The name is the tenant's own prefix and what the caller asked for.
MayMakeBucket(t, x) == BucketOf[x] = t /\ ~Mapped(t, x)

MayCreate(t, x) == /\ Kind[x] = "mailbox" => MayMakeMailbox(t, x)
                   /\ Kind[x] = "zone_service" => MayMakeService(t, x)
                   /\ Kind[x] = "bucket" => MayMakeBucket(t, x)

MayTouch(t, x) == IF Kind[x] = "mailbox" THEN MailboxAccessible(t, x) ELSE Accessible(t, x)

\* Only what destroys is checked.
MayChangeAll(t, verb, x) ==
    /\ verb \in Verbs(Kind[x]) /\ Gate(x)
    /\ CASE verb = "create" -> MayCreate(t, x)
         [] verb = "delete" -> MayTouch(t, x)
         [] OTHER -> TRUE

May(t, verb, x) ==
    /\ verb \in Verbs(Kind[x]) /\ Gate(x)
    /\ CASE verb = "create" -> MayCreate(t, x)
         [] verb = "sort" -> MaySort(t, x)
         [] OTHER -> MayTouch(t, x)

Fresh(x) == x \in GivenIds => x \notin given

Asks(r, t, verb, x, pc, add, drop) ==
    /\ Is(r, "idle") /\ asked < MaxAsked
    /\ asked' = asked + 1
    /\ req' = [req EXCEPT ![r] = [pc |-> pc, verb |-> verb, by |-> t, res |-> x,
                                  tries |-> 1, add |-> add, drop |-> drop]]
    /\ doubtful' = IF \/ \E o \in Requests : ~Is(o, "idle") /\ Related(req[o].res, x)
                      \/ verb = "assign" /\ x \notin exists
                   THEN doubtful \cup {y \in Resources : Related(x, y)} ELSE doubtful
    /\ UNCHANGED <<exists, given, rows, keeper>>

Ask(r, t, verb, x) ==
    /\ May(t, verb, x) /\ (verb = "create" => Fresh(x))
    /\ Asks(r, t, verb, x, "call", {}, {})

\* Any tenant's row will do, or none.
AssignAgain(r, t, x) == Asks(r, t, "assign", x, "commit", {<<t, x>>}, {})

\* A platform admin hands a resource to a tenant, if no row names it yet.  That
\* there is such a thing is not looked at.
Assign(r, t, x) ==
    /\ \A u \in Tenants : ~Mapped(u, x)
    /\ Asks(r, t, "assign", x, "commit", {<<t, x>>}, {})

\* ... and takes a row away.
Release(r, t, x) == Mapped(t, x) /\ Asks(r, t, "release", x, "commit", {}, {<<t, x>>})

(***************************************************************************)
(* The call.                                                               *)
(***************************************************************************)
\* A taken name is refused, and what is not there is not found; a service that
\* is on is set again.
Accepts(r) ==
    LET x == req[r].res
    IN  IF req[r].verb = "create"
        THEN (x \notin exists \/ Kind[x] = "zone_service") /\ Fresh(x) /\ (Under[x] # None => Under[x] \in exists)
        ELSE x \in exists

Acts(r) ==
    LET x == req[r].res
    IN  CASE req[r].verb = "create" ->
               /\ exists' = exists \cup {x} /\ given' = given \cup {x}
               /\ keeper' = [keeper EXCEPT ![x] = req[r].by]
          [] req[r].verb = "delete" ->
               /\ exists' = exists \ Family(x) /\ given' = given
               /\ keeper' = [y \in Resources |-> IF y \in Family(x) THEN None ELSE keeper[y]]
          [] OTHER -> UNCHANGED <<exists, given, keeper>>

Answered(r) ==
    /\ Is(r, "call") /\ Accepts(r) /\ Acts(r)
    /\ req' = [req EXCEPT ![r].pc = "rows"]
    /\ UNCHANGED <<rows, doubtful, asked>>

\* 4xx, or a last attempt that got no answer.
Refused(r) ==
    /\ Is(r, "call")
    /\ req' = [req EXCEPT ![r] = Idle]
    /\ UNCHANGED <<exists, given, rows, keeper, doubtful, asked>>

\* _send_with_retries: a transport error, a 429 or a 5xx is sent again, twice.
Again(r, x) ==
    req' = [req EXCEPT ![r] = IF req[r].tries = MaxAttempts THEN Idle
                              ELSE [req[r] EXCEPT !.tries = @ + 1, !.res = x]]

LostBefore(r) ==
    /\ Is(r, "call") /\ Again(r, req[r].res)
    /\ UNCHANGED <<exists, given, rows, keeper, doubtful, asked>>

\* The provider acted.  The next attempt of a create gets another id.
LostAfter(r) ==
    LET x == req[r].res
        next == IF req[r].verb = "create" /\ x \in GivenIds /\ req[r].tries < MaxAttempts
                THEN Of(Kind[x]) \ (given \cup {x}) ELSE {x}
    IN  /\ Is(r, "call") /\ Accepts(r) /\ Acts(r)
        /\ \E y \in next : Again(r, y)
        /\ doubtful' = doubtful \cup Family(x)
        /\ UNCHANGED <<rows, asked>>

\* The provider acted, but its answer is not JSON: the request fails.
Garbled(r) ==
    /\ Is(r, "call") /\ Accepts(r) /\ Acts(r)
    /\ req' = [req EXCEPT ![r] = Idle]
    /\ doubtful' = doubtful \cup Family(req[r].res)
    /\ UNCHANGED <<rows, asked>>

(***************************************************************************)
(* The rows.                                                               *)
(***************************************************************************)
\* Mailcow's rows go across all tenants, a domain's with its mailboxes'.
DomainRows(x) == {p \in rows : p[2] \in Family(x)}

MailboxRows(x) == {p \in rows : p[2] = x}

\* The row of a bucket or a key outlives it.
RowKept(t, x) == {}

\* A bucket's or a key's is the caller's own.
OwnRow(t, x) == {<<t, x>>} \cap rows

\* One row, however often it is asked for.
NewRow(t, x) == {<<t, x>>}

RowsOf(t, x) ==
    CASE Kind[x] = "mail_domain" -> DomainRows(x)
      [] Kind[x] = "mailbox" -> MailboxRows(x)
      [] OTHER -> OwnRow(t, x)

\* Another tenant's row of a bucket that the platform's own tenant deletes.
LeftBehind(r) ==
    LET x == req[r].res
        t == req[r].by
    IN  {y \in {x} : /\ req[r].verb = "delete"
                     /\ \E p \in rows \ RowsOf(t, x) : p[1] # t /\ p[2] = x}

Record(r) ==
    /\ Is(r, "rows")
    /\ req' = IF req[r].verb \in {"change", "sort"} THEN [req EXCEPT ![r] = Idle] ELSE
              [req EXCEPT ![r].pc = "commit",
                 ![r].add = IF req[r].verb = "create" THEN NewRow(req[r].by, req[r].res) ELSE {},
                 ![r].drop = IF req[r].verb = "delete" THEN RowsOf(req[r].by, req[r].res) ELSE {}]
    /\ doubtful' = doubtful \cup LeftBehind(r)
    /\ UNCHANGED <<exists, given, rows, keeper, asked>>

Ends(r) == req' = [req EXCEPT ![r] = Idle]

Commit(r) ==
    LET x == req[r].res
    IN  /\ Is(r, "commit") /\ Ends(r)
        /\ rows' = (rows \ req[r].drop) \cup req[r].add
        /\ keeper' = CASE req[r].verb = "assign" -> [keeper EXCEPT ![x] = req[r].by]
                       [] req[r].verb = "release" -> [keeper EXCEPT ![x] = None]
                       [] OTHER -> keeper
        /\ UNCHANGED <<exists, given, doubtful, asked>>

\* The transaction is rolled back, but the provider has acted.
RollBack(r) ==
    /\ Ends(r)
    /\ doubtful' = IF req[r].verb \in {"create", "delete"} THEN doubtful \cup Family(req[r].res)
                 ELSE doubtful
    /\ UNCHANGED <<exists, given, rows, keeper, asked>>

\* The connection or the process is lost.
Cut(r) == req[r].pc \in {"rows", "commit"} /\ RollBack(r)

\* Minting a bucket's credentials fails, which is not forgiven; what follows
\* the row of a mail domain is.
CredentialsFail(r) ==
    /\ Is(r, "commit") /\ req[r].verb = "create" /\ Kind[req[r].res] = "bucket"
    /\ RollBack(r)

\* The answer names no id: a database's request fails, a key's leaves no row.
NoId(r) ==
    /\ Is(r, "rows") /\ req[r].verb = "create" /\ Kind[req[r].res] \in {"database", "ai_key"}
    /\ RollBack(r)

Steps(r) == \/ Answered(r) \/ Refused(r) \/ Garbled(r) \/ LostBefore(r) \/ LostAfter(r)
            \/ Record(r) \/ Commit(r) \/ CredentialsFail(r) \/ NoId(r)

Next ==
    \E r \in Requests :
       \/ Steps(r) \/ Cut(r)
       \/ \E t \in Tenants, x \in Resources :
             \/ \E verb \in {"create", "change", "sort", "delete"} : Ask(r, t, verb, x)
             \/ Assign(r, t, x) \/ Release(r, t, x)

Spec == Init /\ [][Next]_vars

-----------------------------------------------------------------------------
\* The state has the shape the code gives it.
TypeOK ==
    /\ exists \subseteq Resources /\ given \subseteq Resources
    /\ rows \subseteq Tenants \X Resources
    /\ req \in [Requests -> Request]
    /\ keeper \in [Resources -> Tenants \cup {None}]
    /\ doubtful \subseteq Resources /\ asked \in 0..MaxAsked

Quiet(x) == \A r \in Requests : Is(r, "idle") \/ x \notin Family(req[r].res)

\* No orphan: what a tenant made, or was assigned, and what still exists, it
\* still holds, unless it is doubtful.  "Leaving the owner's rows behind would
\* fake ownership of a nonexistent domain": on the same condition a row of a
\* mail domain, a mailbox or a bucket names something that exists, whoever
\* deleted it.
MadeIsHeld ==
    \A x \in exists \ doubtful : keeper[x] # None /\ Quiet(x) => Mapped(keeper[x], x)

HeldExists ==
    \A x \in (Of("mail_domain") \cup Of("mailbox") \cup Of("bucket")) \ doubtful :
       (\E t \in Tenants : Mapped(t, x)) /\ Quiet(x) => x \in exists
RowsMatchProviders == MadeIsHeld /\ HeldExists

\* A name can be made, deleted and made again by another tenant: on the same
\* condition no row of the earlier holder gives it the later one's resource.
\* Services of a zone are held by all who asked.
OneHolder ==
    \A x \in exists \ (doubtful \cup Of("zone_service")) :
       Quiet(x) => \A t \in Tenants : Mapped(t, x) => t = keeper[x]

\* The check is made once, before up to three calls: when the provider acts on
\* a resource the caller still holds it, unless requests met over it.
ActsForHolder ==
    [][\A r \in Requests :
         (Is(r, "call") /\ req'[r].pc = "rows" /\ req[r].verb # "create")
         => \/ req[r].res \in doubtful
            \/ MayTouch(req[r].by, req[r].res)]_vars
=============================================================================
