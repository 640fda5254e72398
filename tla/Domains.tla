------------------------------- MODULE Domains -------------------------------
(***************************************************************************)
(* Custom hostnames (app/modules/domains/service.py): a tenant claims one  *)
(* for an app, proves it with a TXT record and has it registered with      *)
(* Cloudflare, which issues the certificate.  Requests run concurrently:   *)
(* the row is read before DNS or Cloudflare is asked and written after.    *)
(***************************************************************************)
EXTENDS Naturals

CONSTANTS Projects,         \* apps, each of a tenant of its own
          Hosts,
          Callers,          \* requests about domains under way at once
          MaxClaims,        \* bound on the rows ever made
          None

Claims == 1..MaxClaims
NoClaim == 0

VARIABLES controls,     \* whose tenant can publish in each host's DNS
          claim,        \* the rows of `domains`, in the order they were made
          published,    \* rows whose token is in DNS
          registered,   \* the row each hostname was registered for at Cloudflare
          call          \* the requests

NoRow == [status |-> "none", host |-> None, project |-> None, cf |-> FALSE]
NoCall == [pc |-> "idle", claim |-> NoClaim, cf |-> FALSE]

DomainsInit ==
    /\ controls \in [Hosts -> Projects]
    /\ claim = [c \in Claims |-> NoRow]
    /\ published = {}
    /\ registered = [h \in Hosts |-> NoClaim]
    /\ call = [r \in Callers |-> NoCall]

Live(c) == claim[c].status \in {"pending", "verified"}
Verified(c) == claim[c].status = "verified"
HostOf(c) == claim[c].host

\* verified_hostnames_for_project
VerifiedHosts(p) == {HostOf(c) : c \in {x \in Claims : Verified(x) /\ claim[x].project = p}}

\* is_hostname_verified, what GET /edge/ask answers.
Vouched(h) == \E c \in Claims : Verified(c) /\ HostOf(c) = h

\* add_for_tenant: a hostname has one row, by the check or by the constraint.
Add(p, h) ==
    \E c \in Claims :
       /\ claim[c].status = "none" /\ \A b \in 1..(c - 1) : claim[b].status # "none"
       /\ \A b \in Claims : Live(b) => HostOf(b) # h
       /\ claim' = [claim EXCEPT ![c] = [status |-> "pending", host |-> h, project |-> p, cf |-> FALSE]]
       /\ UNCHANGED <<controls, published, registered, call>>

\* The tenant follows `instructions`.
Publish(c) ==
    /\ Live(c) /\ c \notin published /\ controls[HostOf(c)] = claim[c].project
    /\ published' = published \cup {c}
    /\ UNCHANGED <<controls, claim, registered, call>>

Begin(r, c, pc) ==
    /\ call[r].pc = "idle"
    /\ call' = [call EXCEPT ![r] = [pc |-> pc, claim |-> c, cf |-> FALSE]]
    /\ UNCHANGED <<controls, claim, published, registered>>

At(r, pc) == call[r].pc = pc
End(r) == call' = [call EXCEPT ![r] = NoCall]
Goto(r, pc, cf) == call' = [call EXCEPT ![r].pc = pc, ![r].cf = cf]

-----------------------------------------------------------------------------
(* verify_for_tenant *)

\* A verified row is returned as it is, whether Cloudflare knows it or not.
Verify(r, c) == claim[c].status = "pending" /\ Begin(r, c, "resolve")

\* The token is looked for in the TXT records; else 409.
Resolve(r) ==
    /\ At(r, "resolve")
    /\ IF call[r].claim \in published THEN Goto(r, "register", FALSE) ELSE End(r)
    /\ UNCHANGED <<controls, claim, published, registered>>

\* Cloudflare refuses a hostname it has.
Taken(r) == registered[HostOf(call[r].claim)] # NoClaim
Registers(r) == registered' = [registered EXCEPT ![HostOf(call[r].claim)] = call[r].claim]

Register(r) ==
    /\ At(r, "register") /\ ~Taken(r)
    /\ Registers(r) /\ Goto(r, "verified", TRUE)
    /\ UNCHANGED <<controls, claim, published>>

\* Any error is logged; the hostname may be registered all the same.
RegisterFails(r) ==
    /\ At(r, "register")
    /\ IF Taken(r) THEN UNCHANGED registered ELSE Registers(r) \/ UNCHANGED registered
    /\ Goto(r, "verified", FALSE)
    /\ UNCHANGED <<controls, claim, published>>

\* Faulty variant: whichever row has the hostname now.
VerifyCommitsByHost(r) ==
    LET mine == {c \in Claims : Live(c) /\ HostOf(c) = HostOf(call[r].claim)}
    IN  /\ At(r, "verified") /\ End(r)
        /\ claim' = [c \in Claims |-> IF c \in mine
                     THEN [claim[c] EXCEPT !.status = "verified", !.cf = @ \/ call[r].cf] ELSE claim[c]]
        /\ UNCHANGED <<controls, published, registered>>

\* The row is updated by its id; if it is gone by now, the request fails (500).
VerifyCommits(r) ==
    LET c == call[r].claim
    IN  /\ At(r, "verified") /\ End(r)
        /\ claim' = IF Live(c) THEN [claim EXCEPT ![c].status = "verified", ![c].cf = @ \/ call[r].cf]
                    ELSE claim
        /\ UNCHANGED <<controls, published, registered>>

-----------------------------------------------------------------------------
(* delete_for_tenant *)

\* Cloudflare is told if the row, as it was read, names a registration.
Delete(r, c) == Live(c) /\ Begin(r, c, IF claim[c].cf THEN "unregister" ELSE "delete")

Unregister(r) ==
    LET h == HostOf(call[r].claim)
    IN  /\ At(r, "unregister") /\ Goto(r, "delete", FALSE)
        /\ registered' = [registered EXCEPT ![h] = IF @ = call[r].claim THEN NoClaim ELSE @]
        /\ UNCHANGED <<controls, claim, published>>

\* "never block removal on provider errors"
UnregisterFails(r) ==
    /\ At(r, "unregister") /\ Goto(r, "delete", FALSE)
    /\ UNCHANGED <<controls, claim, published, registered>>

DeleteCommits(r) ==
    /\ At(r, "delete") /\ End(r)
    /\ claim' = [claim EXCEPT ![call[r].claim].status = "gone"]
    /\ UNCHANGED <<controls, published, registered>>

\* The connection or the process is lost before the commit.
Cut(r) ==
    /\ call[r].pc # "idle" /\ End(r)
    /\ UNCHANGED <<controls, claim, published, registered>>

DomainsAsked ==
    \E c \in Claims : Publish(c) \/ \E r \in Callers : Verify(r, c) \/ Delete(r, c)

DomainsStep ==
    \E r \in Callers :
       \/ Resolve(r) \/ Register(r) \/ RegisterFails(r) \/ VerifyCommits(r)
       \/ Unregister(r) \/ UnregisterFails(r) \/ DeleteCommits(r) \/ Cut(r)

-----------------------------------------------------------------------------
\* "ownership is proven by publishing a TXT record": a hostname the edge is told
\* to serve is its holder's, whatever becomes of rows while requests about them
\* wait for DNS or Cloudflare.
VouchedIsProven ==
    \A h \in Hosts : Vouched(h) => h \in VerifiedHosts(controls[h])
=============================================================================
