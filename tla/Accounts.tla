------------------------------ MODULE Accounts ------------------------------
(***************************************************************************)
(* Tenants, the people in them, invites, self-serve signup, the platform   *)
(* staff's review of tenants and single sign-on: app/modules/team,         *)
(* app/modules/auth (signup and profile), app/modules/sso and their routes *)
(* in app/api/routes.py.                                                   *)
(*                                                                         *)
(* A request runs in one database transaction at READ COMMITTED.  It reads *)
(* rows, decides, and writes at its end; an UPDATE carries only the        *)
(* columns the handler assigned and does not look again at what was read.  *)
(* Each operation is therefore two actions, one that asks (every guard of  *)
(* the handler, on what it reads) and one that commits (its writes, and    *)
(* the unique index on admin_users.email).  A request is "late" when a     *)
(* commit it may have depended on came between the two.                    *)
(***************************************************************************)
EXTENDS Naturals, FiniteSets

CONSTANTS Tenants,      \* tenants, existing or to be created
          People,       \* rows of admin_users, existing or to be created
          Emails,
          Invites,      \* rows of tenant_invites
          Requests,     \* requests, each made once
          None,         \* no tenant, no person, no invite
          Home,         \* the tenant of the initial state
          Founders,     \* its owners
          Address,      \* the e-mail address of each of them
          MaxPending    \* settings.max_pending_tenants

ASSUME AccountsAssumption ==
    /\ IsFiniteSet(People) /\ IsFiniteSet(Tenants)
    /\ None \notin Tenants \cup People \cup Invites \cup Emails
    /\ Invites \cap {"start", "signup", "staff", "sso"} = {}
    /\ Home \in Tenants
    /\ Founders \in SUBSET People /\ Founders # {}
    /\ Address \in [Founders -> Emails]
    /\ \A p, q \in Founders : Address[p] = Address[q] => p = q
    /\ MaxPending \in Nat

VARIABLES tenant,       \* status of each tenant, "none" before it exists
          account,      \* row of each person
          invite,       \* row of each invite
          sso,          \* tenants whose SSO configuration is enabled
          request,      \* what each request has read and will write
          late,         \* requests in flight that a commit may have overtaken
          races         \* operations that committed although they were late

stored == <<tenant, account, invite, sso>>
vars == <<stored, request, late, races>>

Invitable == {"admin", "member"}
Statuses == {"none", "active", "pending", "rejected", "suspended"}

\* What the staff's handlers require of a tenant's status and set it to.
Review == [approve    |-> [from |-> {"pending"},   to |-> "active"],
           reject     |-> [from |-> {"pending"},   to |-> "rejected"],
           suspend    |-> [from |-> {"active"},    to |-> "suspended"],
           reactivate |-> [from |-> {"suspended"}, to |-> "active"],
           activate   |-> [from |-> Statuses \ {"none"}, to |-> "active"],
           deactivate |-> [from |-> Statuses \ {"none"}, to |-> "suspended"]]
Reviews == DOMAIN Review

Ops == {"role", "remove", "invite", "revoke", "accept", "profile", "signup",
        "appoint", "callback"} \cup Reviews

\* The operations whose reads a commit of op can make stale.
Disturbs(op) ==
    CASE op \in {"role", "remove"}              -> {"role", "remove"}
      [] op \in {"invite", "revoke", "accept"}  -> {"invite", "revoke", "accept"}
      [] op \in Reviews                         -> Reviews \cup {"callback"}
      [] op = "signup"                          -> {"signup"}
      [] OTHER                                  -> {}

Account == [tenant : Tenants \cup {None}, email : Emails \cup {None},
            role : {"owner", "admin", "member"}, active : BOOLEAN,
            via : Invites \cup {"start", "signup", "staff", "sso"}]
InviteRow == [status : {"none", "pending", "expired", "revoked", "accepted"},
              tenant : Tenants \cup {None}, email : Emails \cup {None},
              role : Invitable]
Call == [op : Ops \cup {"idle", "over"},
         on : Tenants \cup People \cup Invites \cup {None},
         email : Emails \cup {None}, role : Invitable, prior : SUBSET Invites]

\* A request for op: the row it is about, and the values it will write.
Asked(op, on, e, role, prior) ==
    [op |-> op, on |-> on, email |-> e, role |-> role, prior |-> prior]
Idle == Asked("idle", None, None, "member", {})
Over == Asked("over", None, None, "member", {})
NoAccount == [tenant |-> None, email |-> None, role |-> "member",
              active |-> FALSE, via |-> "start"]
NoInvite == [status |-> "none", tenant |-> None, email |-> None,
             role |-> "member"]

(***************************************************************************)
(* What handlers read.                                                     *)
(***************************************************************************)
Exists(p) == account[p].tenant # None
Taken(e) == \E p \in People : account[p].email = e
ActiveOwners(t) == {p \in People : /\ account[p].tenant = t
                                   /\ account[p].role = "owner"
                                   /\ account[p].active}
Pending == {t \in Tenants : tenant[t] = "pending"}

\* get_current_api_admin on a request that changes state
MayWrite(p) == /\ Exists(p)
               /\ account[p].active
               /\ tenant[account[p].tenant] = "active"

\* require_tenant_owner
IsOwner(p) == MayWrite(p) /\ account[p].role = "owner"

\* The count takes deactivated owners too.
SparedAnyOwner(m) ==
    \/ account[m].role # "owner"
    \/ Cardinality({p \in People : /\ account[p].tenant = account[m].tenant
                                   /\ account[p].role = "owner"}) > 1

\* "A tenant must keep at least one owner."
Spared(m) == \/ account[m].role # "owner"
             \/ Cardinality(ActiveOwners(account[m].tenant)) > 1

Ask(r, call) ==
    /\ request[r] = Idle
    /\ request' = [request EXCEPT ![r] = call]
    /\ UNCHANGED <<stored, late, races>>

Ends(r) ==
    /\ request' = [request EXCEPT ![r] = Over]
    /\ late' = (late \cup {q \in Requests : request[q].op \in Disturbs(request[r].op)})
                 \ {r}
    /\ races' = IF r \in late THEN races \cup {request[r].op} ELSE races

\* INSERT into admin_users, or the unique index on email refuses it and the
\* transaction is rolled back.
Joins(p, t, e, role, via) ==
    /\ ~Exists(p)
    /\ account' = [account EXCEPT ![p] =
                      [tenant |-> t, email |-> e, role |-> role,
                       active |-> TRUE, via |-> via]]

EmailRefused(r) ==
    /\ request[r].op \in {"accept", "profile", "signup", "appoint", "callback"}
    /\ Taken(request[r].email)
    /\ request' = [request EXCEPT ![r] = Over]
    /\ late' = late \ {r}
    /\ UNCHANGED <<stored, races>>

(***************************************************************************)
(* The team: change_role and remove_member.                                *)
(***************************************************************************)
AskRole(r, p, m, role) ==
    /\ IsOwner(p)
    /\ account[m].tenant = account[p].tenant
    /\ Spared(m)
    /\ account[m].role # role
    /\ Ask(r, Asked("role", m, None, role, {}))

CommitRole(r) ==
    /\ request[r].op = "role"
    /\ account' = [account EXCEPT ![request[r].on].role = request[r].role]
    /\ Ends(r)
    /\ UNCHANGED <<tenant, invite, sso>>

AskRemove(r, p, m) ==
    /\ IsOwner(p)
    /\ m # p
    /\ account[m].tenant = account[p].tenant
    /\ Spared(m)
    /\ account[m].active
    /\ Ask(r, Asked("remove", m, None, "member", {}))

CommitRemove(r) ==
    /\ request[r].op = "remove"
    /\ account' = [account EXCEPT ![request[r].on].active = FALSE]
    /\ Ends(r)
    /\ UNCHANGED <<tenant, invite, sso>>

(***************************************************************************)
(* Invites: create_invite (which revokes the earlier invites it has read), *)
(* revoke_invite, accept_invite and the passage of their lifetime.         *)
(***************************************************************************)
Open(i) == invite[i].status \in {"pending", "expired"}
Outstanding(t, e) == {i \in Invites : /\ Open(i)
                                      /\ invite[i].tenant = t
                                      /\ invite[i].email = e}

AskInvite(r, p, e, role) ==
    /\ IsOwner(p)
    /\ ~\E q \in People : /\ account[q].email = e
                          /\ \/ account[q].tenant # account[p].tenant
                             \/ account[q].active
    /\ Ask(r, Asked("invite", account[p].tenant, e, role,
                    Outstanding(account[p].tenant, e)))

CommitInvite(r, i) ==
    /\ request[r].op = "invite"
    /\ invite[i].status = "none"
    /\ invite' = [j \in Invites |->
          IF j = i THEN [status |-> "pending", tenant |-> request[r].on,
                         email |-> request[r].email, role |-> request[r].role]
          ELSE IF j \in request[r].prior
               THEN [invite[j] EXCEPT !.status = "revoked"]
               ELSE invite[j]]
    /\ Ends(r)
    /\ UNCHANGED <<tenant, account, sso>>

AskRevoke(r, p, i) ==
    /\ IsOwner(p)
    /\ Open(i)
    /\ invite[i].tenant = account[p].tenant
    /\ Ask(r, Asked("revoke", i, None, "member", {}))

CommitRevoke(r) ==
    /\ request[r].op = "revoke"
    /\ invite' = [invite EXCEPT ![request[r].on].status = "revoked"]
    /\ Ends(r)
    /\ UNCHANGED <<tenant, account, sso>>

AskAccept(r, i) ==
    /\ invite[i].status = "pending"
    /\ ~Taken(invite[i].email)
    /\ Ask(r, Asked("accept", i, invite[i].email, invite[i].role, {}))

\* accept_invite forgets to mark the invite.
CommitAcceptUnmarked(r, p) ==
    /\ request[r].op = "accept"
    /\ ~Taken(request[r].email)
    /\ Joins(p, invite[request[r].on].tenant, request[r].email, request[r].role,
             request[r].on)
    /\ Ends(r)
    /\ UNCHANGED <<tenant, invite, sso>>

CommitAccept(r, p) ==
    /\ request[r].op = "accept"
    /\ ~Taken(request[r].email)
    /\ Joins(p, invite[request[r].on].tenant, request[r].email, request[r].role,
             request[r].on)
    /\ invite' = [invite EXCEPT ![request[r].on].status = "accepted"]
    /\ Ends(r)
    /\ UNCHANGED <<tenant, sso>>

InviteExpires(i) ==
    /\ invite[i].status = "pending"
    /\ invite' = [invite EXCEPT ![i].status = "expired"]
    /\ UNCHANGED <<tenant, account, sso, request, late, races>>

(***************************************************************************)
(* One's own profile, self-serve signup, and the staff's operations.       *)
(***************************************************************************)
AskProfile(r, p, e) ==
    /\ MayWrite(p)
    /\ ~Taken(e)
    /\ Ask(r, Asked("profile", p, e, "member", {}))

CommitProfile(r) ==
    /\ request[r].op = "profile"
    /\ ~Taken(request[r].email)
    /\ account' = [account EXCEPT ![request[r].on].email = request[r].email]
    /\ Ends(r)
    /\ UNCHANGED <<tenant, invite, sso>>

AskSignup(r, e) ==
    /\ Cardinality(Pending) < MaxPending
    /\ ~Taken(e)
    /\ Ask(r, Asked("signup", None, e, "member", {}))

CommitSignup(r, t, p) ==
    /\ request[r].op = "signup"
    /\ tenant[t] = "none"
    /\ ~Taken(request[r].email)
    /\ tenant' = [tenant EXCEPT ![t] = "pending"]
    /\ Joins(p, t, request[r].email, "owner", "signup")
    /\ Ends(r)
    /\ UNCHANGED <<invite, sso>>

AskReview(r, t, op) ==
    /\ tenant[t] \in Review[op].from
    /\ tenant[t] # Review[op].to
    /\ Ask(r, Asked(op, t, None, "member", {}))

CommitReview(r) ==
    /\ request[r].op \in Reviews
    /\ tenant' = [tenant EXCEPT ![request[r].on] = Review[request[r].op].to]
    /\ Ends(r)
    /\ UNCHANGED <<account, invite, sso>>

CreateTenant(r, t) ==
    /\ request[r] = Idle
    /\ tenant[t] = "none"
    /\ tenant' = [tenant EXCEPT ![t] = "active"]
    /\ request' = [request EXCEPT ![r] = Over]
    /\ UNCHANGED <<account, invite, sso, late, races>>

AskAppoint(r, t, e) ==
    /\ tenant[t] # "none"
    /\ ~Taken(e)
    /\ Ask(r, Asked("appoint", t, e, "member", {}))

CommitAppoint(r, p) ==
    /\ request[r].op = "appoint"
    /\ ~Taken(request[r].email)
    /\ Joins(p, request[r].on, request[r].email, "owner", "staff")
    /\ Ends(r)
    /\ UNCHANGED <<tenant, invite, sso>>

(***************************************************************************)
(* Single sign-on: an owner saves or deletes the configuration;            *)
(* handle_callback reads it and the tenant's status before its calls to    *)
(* the identity provider, and looks the account up after them.             *)
(***************************************************************************)
SetSSO(r, p) ==
    /\ request[r] = Idle
    /\ IsOwner(p)
    /\ sso' = LET t == account[p].tenant
              IN  IF t \in sso THEN sso \ {t} ELSE sso \cup {t}
    /\ request' = [request EXCEPT ![r] = Over]
    /\ late' = late \cup {q \in Requests : request[q].op = "callback"}
    /\ UNCHANGED <<tenant, account, invite, races>>

AskCallback(r, t, e, role) ==
    /\ t \in sso
    /\ tenant[t] = "active"
    /\ Ask(r, Asked("callback", t, e, role, {}))

CommitCallback(r, p) ==
    /\ request[r].op = "callback"
    /\ ~Taken(request[r].email)
    /\ Joins(p, request[r].on, request[r].email, request[r].role, "sso")
    /\ Ends(r)
    /\ UNCHANGED <<tenant, invite, sso>>

-----------------------------------------------------------------------------
Init ==
    /\ tenant = [t \in Tenants |-> IF t = Home THEN "active" ELSE "none"]
    /\ account = [p \in People |->
                     IF p \in Founders
                     THEN [tenant |-> Home, email |-> Address[p],
                           role |-> "owner", active |-> TRUE, via |-> "start"]
                     ELSE NoAccount]
    /\ \E i \in Invites \cup {None}, e \in Emails \ {Address[p] : p \in Founders},
          role \in Invitable :
          invite = [j \in Invites |->
                       IF j = i THEN [status |-> "pending", tenant |-> Home,
                                      email |-> e, role |-> role]
                       ELSE NoInvite]
    /\ sso \in SUBSET {Home}
    /\ request = [r \in Requests |-> Idle]
    /\ late = {}
    /\ races = {}

TeamNext(r) ==
    \/ \E p, m \in People :
          \/ \E role \in Invitable : AskRole(r, p, m, role)
          \/ AskRemove(r, p, m)
    \/ CommitRole(r)
    \/ CommitRemove(r)

InviteNext(r) ==
    \/ \E p \in People, e \in Emails, role \in Invitable : AskInvite(r, p, e, role)
    \/ \E i \in Invites :
          \/ CommitInvite(r, i)
          \/ \E p \in People : AskRevoke(r, p, i)
          \/ AskAccept(r, i)
    \/ CommitRevoke(r)
    \/ \E p \in People : CommitAccept(r, p)

AccountNext(r) ==
    \/ \E p \in People, e \in Emails : AskProfile(r, p, e)
    \/ CommitProfile(r)
    \/ \E e \in Emails : AskSignup(r, e)
    \/ \E t \in Tenants, p \in People : CommitSignup(r, t, p)
    \/ \E t \in Tenants, op \in Reviews : AskReview(r, t, op)
    \/ CommitReview(r)
    \/ \E t \in Tenants : CreateTenant(r, t)
    \/ \E t \in Tenants, e \in Emails : AskAppoint(r, t, e)
    \/ \E p \in People : CommitAppoint(r, p)

SSONext(r) ==
    \/ \E p \in People : SetSSO(r, p) \/ CommitCallback(r, p)
    \/ \E t \in Tenants, e \in Emails, role \in Invitable : AskCallback(r, t, e, role)

Next ==
    \/ \E r \in Requests : TeamNext(r) \/ InviteNext(r) \/ AccountNext(r)
                           \/ SSONext(r) \/ EmailRefused(r)
    \/ \E i \in Invites : InviteExpires(i)

Spec == Init /\ [][Next]_vars

-----------------------------------------------------------------------------
(***************************************************************************)
(* Properties.                                                             *)
(***************************************************************************)
TypeOK ==
    /\ tenant \in [Tenants -> Statuses]
    /\ account \in [People -> Account]
    /\ invite \in [Invites -> InviteRow]
    /\ sso \in SUBSET Tenants
    /\ request \in [Requests -> Call]
    /\ late \in SUBSET Requests
    /\ races \in SUBSET Ops

\* A tenant that has an active owner keeps one (change_role and remove_member
\* count the owners first), unless two such requests overlapped: each then
\* counted the other's owner.
KeepsAnOwner ==
    [][\A t \in Tenants :
          ActiveOwners(t) # {} => \/ ActiveOwners(t)' # {}
                                  \/ races' \cap {"role", "remove"} # {}]_vars

\* An invite is accepted exactly when one account came of it, and no account
\* comes of one that was revoked or replaced (accept_invite: "single use"),
\* unless operations on invites overlapped.
InviteJoinsOne ==
    \/ races \cap {"invite", "revoke", "accept"} # {}
    \/ \A i \in Invites :
          Cardinality({p \in People : account[p].via = i}) =
             IF invite[i].status = "accepted" THEN 1 ELSE 0

\* At most one invite of a tenant for an address is outstanding
\* (create_invite: "Dedupe"), unless two creations overlapped.
OneOutstandingInvite ==
    \/ "invite" \in races
    \/ \A t \in Tenants, e \in Emails : Cardinality(Outstanding(t, e)) <= 1

\* Signups never leave more tenants waiting for review than the cap of
\* api_signup, unless two signups overlapped.
PendingCapKept ==
    "signup" \notin races => Cardinality(Pending) <= MaxPending

\* A tenant is rejected only out of review: one that was already let in is
\* never turned away by a decision taken on its earlier status, unless two
\* decisions overlapped.
RejectsOnlyPending ==
    [][\A t \in Tenants :
          tenant'[t] = "rejected" => \/ tenant[t] \in {"pending", "rejected"}
                                     \/ "reject" \in races']_vars

\* Single sign-on makes accounts only in an active tenant whose configuration
\* is enabled, unless that changed while the identity provider answered.
SsoJoinsWhenOn ==
    [][\A p \in People :
          account'[p].via = "sso" /\ account[p].via # "sso"
             => \/ /\ account'[p].tenant \in sso
                   /\ tenant[account'[p].tenant] = "active"
                \/ "callback" \in races']_vars
=============================================================================
