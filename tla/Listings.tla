------------------------------ MODULE Listings ------------------------------
(***************************************************************************)
(* The provider clients and their listings: app/services/coolify.py,       *)
(* mailcow.py, cloudflare.py, hetzner.py, openrouter.py, app_catalog.py.   *)
(*                                                                         *)
(* What a listing shows is a source, and a source has a version: it goes   *)
(* up when a write changes it (a change the provider makes by itself is    *)
(* seen like one whose answer was lost).  Reads of a listing go through    *)
(* the cache; a write clears keys once it is answered, and none when it    *)
(* fails or its answer is lost.                                            *)
(***************************************************************************)
EXTENDS TTLCache, FiniteSets

CONSTANTS Callers,     \* requests that use the clients
          TTL,         \* provider_cache_ttl_seconds
          CatalogTTL,  \* 3600 at least in the code
          Latency,     \* a call to a provider is answered or given up by then
          MaxCalls     \* bound on reads and writes

ListingsAssumption ==
    /\ TTL \in Nat \ {0} /\ CatalogTTL \in Nat \ {0} /\ Latency \in Nat
    /\ MaxCalls \in Nat
ASSUME ListingsAssumption

VARIABLES client,  \* the client this behaviour is about: no two share a key
          world,   \* each source's version
          known,   \* the version the last answered write of a source made
          call,    \* what each request is doing
          calls    \* reads and writes so far

listingVars == <<client, world, known, call, calls>>

(***************************************************************************)
(* Keys and the sources they show, by client.                              *)
(***************************************************************************)
Applications == {"applications", "projects"}
Databases == {"databases"}
Services == {"services"}
Mail == {"domains", "mailboxes", "aliases"}
Dns == {"zones", "records"}
Servers == {"servers"}
Models == {"models"}
Templates == {"templates"}
Clients == {Applications, Databases, Services, Mail, Dns, Servers, Models, Templates}
ListingKeys == UNION Clients

\* Each key shows one source; an application also its project's name, which
\* list_applications takes from environment_project_map, through the cache.
Inner(k) == IF k = "applications" THEN {"projects"} ELSE {}
TTLOf(k) == IF k = "templates" THEN CatalogTTL ELSE TTL

\* A write: the sources it changes and the keys it clears once answered.
Write(ss, ks) == [changes |-> ss, clears |-> ks]
\* What is on no listing: environment variables, tasks, storages, backups,
\* zone settings, app passwords.
Aside == {}

ApplicationWrites == {Write({"applications"}, {"applications"})}
ApplicationSideWrites == {Write(Aside, {})}
StorageWrites == {Write(Aside, {})}
DatabaseWrites == {Write({"databases"}, {"databases"})}
ServiceWrites == {Write({"services"}, {"services"})}
ServerWrites == {Write({"servers"}, {"servers"})}
RecordCreates == {Write({"records"}, {"records"})}
RecordChanges == {Write({"records"}, {"records"})}
ZoneWrites == {Write({"zones"}, {"zones"})}
ZoneSideWrites == {Write(Aside, {})}
HostnameWrites == {Write(Aside, {})}

\* The listing of what the path names.
ClearsPath(k) == {k}

\* _CACHE_KEYS: every listing of the mail server, whatever was written.
MailClears(k) == Mail

\* A domain goes with its mailboxes and aliases.
MailWrites ==
    {Write({"domains"}, MailClears("domains")), Write(Mail, MailClears("domains")),
     Write({"mailboxes"}, MailClears("mailboxes")), Write({"aliases"}, MailClears("aliases"))}
MailboxWrites == {Write({"mailboxes"}, MailClears("mailboxes")), Write(Aside, MailClears("mailboxes"))}

Writes ==
    CASE client = Applications -> ApplicationWrites \cup ApplicationSideWrites \cup StorageWrites
      [] client = Databases -> DatabaseWrites
      [] client = Services -> ServiceWrites
      [] client = Mail -> MailWrites \cup MailboxWrites
      [] client = Dns -> RecordCreates \cup RecordChanges \cup ZoneWrites \cup ZoneSideWrites \cup HostnameWrites
      [] client = Servers -> ServerWrites
      [] OTHER -> {}

\* key: the listing that is read, or none; seen: of each source the version,
\* when it was looked at, and whether a write was answered in the meantime.
NoCall == [stage |-> "idle", key |-> "none", seen |-> {}, sent |-> 0,
         changes |-> {}, clears |-> {}]

ListingsInit ==
    /\ client \in Clients
    /\ world = [s \in ListingKeys |-> 0] /\ known = [s \in ListingKeys |-> 0]
    /\ call = [r \in Callers |-> NoCall] /\ calls = 0

Begins(r) == call[r].stage = "idle" /\ calls < MaxCalls /\ calls' = calls + 1
Look(s) == [source |-> s, version |-> world[s], at |-> now, raced |-> FALSE]
Goes(r, c) == call' = [call EXCEPT ![r] = c]

(***************************************************************************)
(* Reading.                                                                *)
(***************************************************************************)
\* refresh deletes the key first: nothing comes between that and the get.
ReadListing(r, k, refresh) ==
    /\ Begins(r)
    /\ IF Live(k) /\ ~refresh
       THEN UNCHANGED <<call, cache>>
       ELSE /\ Goes(r, [NoCall EXCEPT !.stage = "sent", !.key = k, !.sent = now])
            /\ cache' = IF refresh THEN Delete({k}) ELSE AfterGet(k)
    /\ UNCHANGED <<now, client, world, known>>

\* The provider makes its answer.
Looked(r) ==
    /\ call[r].stage = "sent"
    /\ Goes(r, [call[r] EXCEPT !.stage = "read", !.seen = {Look(call[r].key)}])
    /\ UNCHANGED <<now, cache, client, world, known, calls>>

Stored(r) ==
    LET c == call[r] IN
    /\ c.stage = "read" /\ Inner(c.key) = {}
    /\ cache' = Set(c.key, c.seen, TTLOf(c.key))
    /\ Goes(r, NoCall)
    /\ UNCHANGED <<now, client, world, known, calls>>

\* The answer is there; the names of the projects are read before it is stored.
NeedsInner(r) ==
    LET c == call[r] IN
    /\ c.stage = "read"
    /\ \E i \in Inner(c.key) :
         IF Live(i)
         THEN /\ cache' = Set(c.key, c.seen \cup cache[i].val, TTLOf(c.key))
              /\ Goes(r, NoCall)
         ELSE Goes(r, [c EXCEPT !.stage = "inner", !.sent = now]) /\ cache' = AfterGet(i)
    /\ UNCHANGED <<now, client, world, known, calls>>

LookedInner(r) ==
    LET c == call[r] IN
    /\ c.stage = "inner"
    /\ Goes(r, [c EXCEPT !.stage = "innerread", !.seen = @ \cup {Look(i) : i \in Inner(c.key)}])
    /\ UNCHANGED <<now, cache, client, world, known, calls>>

StoredBoth(r) ==
    LET c == call[r]
        inner(k) == {e \in c.seen : e.source = k}
    IN  /\ c.stage = "innerread"
        /\ cache' = [k \in Keys |-> IF k = c.key THEN Set(k, c.seen, TTLOf(k))[k]
                                    ELSE IF k \in Inner(c.key) THEN Set(k, inner(k), TTLOf(k))[k]
                                    ELSE cache[k]]
        /\ Goes(r, NoCall)
        /\ UNCHANGED <<now, client, world, known, calls>>

(***************************************************************************)
(* Writing.                                                                *)
(***************************************************************************)
SendWrite(r, w) ==
    /\ Begins(r)
    /\ Goes(r, [NoCall EXCEPT !.stage = "write", !.sent = now, !.changes = w.changes, !.clears = w.clears])
    /\ UNCHANGED <<now, cache, client, world, known>>

Changed(ss) == [s \in ListingKeys |-> IF s \in ss THEN world[s] + 1 ELSE world[s]]

Acted(r) ==
    LET c == call[r] IN
    /\ c.stage = "write"
    /\ world' = Changed(c.changes)
    /\ Goes(r, [c EXCEPT !.stage = "acted",
                 !.seen = {[source |-> s, version |-> world[s] + 1] : s \in c.changes}])
    /\ UNCHANGED <<now, cache, client, known, calls>>

\* Answered: the keys are cleared.  Reads that are under way will store what
\* they saw before.
Answered(r) ==
    LET c == call[r]
        mark(e) == IF e.source \in c.changes THEN [e EXCEPT !.raced = TRUE] ELSE e
        made(s) == {e.version : e \in {x \in c.seen : x.source = s}} \cup {known[s]}
    IN  /\ c.stage = "acted"
        /\ cache' = Delete(c.clears)
        /\ known' = [s \in ListingKeys |-> CHOOSE v \in made(s) : \A u \in made(s) : u <= v]
        /\ call' = [q \in Callers |->
                       IF q = r THEN NoCall
                       ELSE IF call[q].stage \notin {"read", "inner", "innerread"} THEN call[q]
                       ELSE [call[q] EXCEPT !.seen = {mark(e) : e \in @}]]
        /\ UNCHANGED <<now, client, world, calls>>

\* Refused, failed, or the answer lost: nothing is stored and nothing cleared.
Raised(r) ==
    /\ call[r].stage # "idle"
    /\ Goes(r, NoCall)
    /\ UNCHANGED <<now, cache, client, world, known, calls>>

ListingsStep ==
    \E r \in Callers :
          \/ \E k \in client, refresh \in BOOLEAN : ReadListing(r, k, refresh)
          \/ \E w \in Writes : SendWrite(r, w)
          \/ Looked(r) \/ Stored(r) \/ NeedsInner(r) \/ LookedInner(r) \/ StoredBoth(r)
          \/ Acted(r) \/ Answered(r) \/ Raised(r)

\* A call does not outlast its timeout.
CallsInTime ==
    \A r \in Callers : call[r].stage # "idle" => now < call[r].sent + Latency

-----------------------------------------------------------------------------
\* What is cached shows every write that was answered, unless it was being
\* fetched while that write was made: a write clears all it changed.
ReadYourWrites ==
    \A k \in client : Live(k) =>
        \A e \in cache[k].val : e.version >= known[e.source] \/ e.raced

\* What is cached, for any read to be given, is no older than its time to live
\* and the calls it took; the project of an application, which was itself
\* cached, twice that.
Slack(k, s) == IF s = k THEN Cardinality({k} \cup Inner(k)) * Latency ELSE TTLOf(s) + Latency

RecentEnough ==
    \A k \in client : Live(k) => \A e \in cache[k].val : now - e.at < TTLOf(k) + Slack(k, e.source)
=============================================================================
