-------------------------- MODULE Accounts_proofs --------------------------
(***************************************************************************)
(* Proofs about Accounts.  Every property that depends on a request having *)
(* read what is still true rests on one invariant, Fresh: a request that   *)
(* no commit has made late would pass its own guard again.                 *)
(***************************************************************************)
EXTENDS Accounts, FiniteSetTheorems, TLAPS

USE AccountsAssumption

\* What a request is about exists and has the kind its operation needs.
Aimed(r) ==
    /\ request[r].op \in {"role", "remove"} =>
          /\ request[r].on \in People
          /\ Exists(request[r].on)
    /\ request[r].op = "profile" => request[r].on \in People
    /\ request[r].op \in {"revoke", "accept"} =>
          /\ request[r].on \in Invites
          /\ invite[request[r].on].status # "none"
    /\ request[r].op \in Reviews \cup {"invite", "appoint", "callback"} =>
          request[r].on \in Tenants
    /\ \A i \in request[r].prior : invite[i].status # "none"

\* The guard request r passed still holds.
Fresh(r) ==
    /\ request[r].op \in {"role", "remove"} => Spared(request[r].on)
    /\ request[r].op = "signup" => Cardinality(Pending) < MaxPending
    /\ request[r].op = "reject" => tenant[request[r].on] = "pending"
    /\ request[r].op = "callback" => /\ request[r].on \in sso
                                     /\ tenant[request[r].on] = "active"

IInv ==
    /\ TypeOK
    /\ \A i \in Invites : invite[i].status # "none" => invite[i].tenant \in Tenants
    /\ \A r \in Requests : Aimed(r)
    /\ \A r \in Requests \ late : Fresh(r)
    /\ PendingCapKept

-----------------------------------------------------------------------------
(***************************************************************************)
(* Types.                                                                  *)
(***************************************************************************)
LEMMA AskedType ==
    ASSUME NEW op \in Ops, NEW on \in Tenants \cup People \cup Invites \cup {None},
           NEW e \in Emails \cup {None}, NEW role \in Invitable,
           NEW prior \in SUBSET Invites
    PROVE  Asked(op, on, e, role, prior) \in Call
  BY DEF Asked, Call

LEMMA EmptyType == Idle \in Call /\ Over \in Call
  BY DEF Asked, Call, Idle, Over, Invitable

\* The actions in which request r only reads.
Asks(r) ==
    \/ \E p, m \in People :
          \/ \E role \in Invitable : AskRole(r, p, m, role)
          \/ AskRemove(r, p, m)
    \/ \E p \in People, e \in Emails, role \in Invitable : AskInvite(r, p, e, role)
    \/ \E i \in Invites :
          \/ \E p \in People : AskRevoke(r, p, i)
          \/ AskAccept(r, i)
    \/ \E p \in People, e \in Emails : AskProfile(r, p, e)
    \/ \E e \in Emails : AskSignup(r, e)
    \/ \E t \in Tenants, op \in Reviews : AskReview(r, t, op)
    \/ \E t \in Tenants, e \in Emails : AskAppoint(r, t, e)
    \/ \E t \in Tenants, e \in Emails, role \in Invitable : AskCallback(r, t, e, role)

\* A request that asks changes nothing but its own record, which is aimed at
\* something and fresh.
AskedWell(r, call) ==
    /\ call \in Call
    /\ call.op \in Ops
    /\ Ask(r, call)
    /\ call.op \in {"role", "remove"} =>
          call.on \in People /\ Exists(call.on) /\ Spared(call.on)
    /\ call.op = "profile" => call.on \in People
    /\ call.op \in {"revoke", "accept"} =>
          call.on \in Invites /\ Open(call.on)
    /\ call.op \in Reviews \cup {"invite", "appoint", "callback"} => call.on \in Tenants
    /\ \A i \in call.prior : Open(i)
    /\ call.op = "invite" => Outstanding(call.on, call.email) \subseteq call.prior
    /\ call.op = "signup" => Cardinality(Pending) < MaxPending
    /\ call.op = "reject" => tenant[call.on] = "pending"
    /\ call.op = "callback" => call.on \in sso /\ tenant[call.on] = "active"

LEMMA ReviewOps ==
    /\ Reviews = {"approve", "reject", "suspend", "reactivate", "activate", "deactivate"}
    /\ \A op \in Reviews : Review[op].to \in {"active", "rejected", "suspended"}
    /\ \A op \in Reviews : Review[op].to = "rejected" <=> op = "reject"
    /\ Review["reject"].from = {"pending"}
  BY DEF Reviews, Review

LEMMA AsksWell ==
    ASSUME TypeOK, NEW r \in Requests, Asks(r)
    PROVE  \E call \in Call : AskedWell(r, call)
<1>. USE AskedType, ReviewOps DEF AskedWell
<1>0. \A p \in People : IsOwner(p) => account[p].tenant \in Tenants
  BY DEF TypeOK, Account, IsOwner, MayWrite, Exists
<1>1. ASSUME NEW p \in People, NEW m \in People, NEW role \in Invitable,
             AskRole(r, p, m, role)
      PROVE  \E call \in Call : AskedWell(r, call)
  <2>1. Asked("role", m, None, role, {}) \in Call
    BY DEF Ops
  <2>2. AskedWell(r, Asked("role", m, None, role, {}))
    BY <1>0, <1>1, <2>1 DEF AskRole, Asked, Ops, Exists
  <2>. QED  BY <2>1, <2>2
<1>2. ASSUME NEW p \in People, NEW m \in People, AskRemove(r, p, m)
      PROVE  \E call \in Call : AskedWell(r, call)
  <2>1. Asked("remove", m, None, "member", {}) \in Call
    BY DEF Ops, Invitable
  <2>2. AskedWell(r, Asked("remove", m, None, "member", {}))
    BY <1>0, <1>2, <2>1 DEF AskRemove, Asked, Ops, Exists
  <2>. QED  BY <2>1, <2>2
<1>3. ASSUME NEW p \in People, NEW e \in Emails, NEW role \in Invitable,
             AskInvite(r, p, e, role)
      PROVE  \E call \in Call : AskedWell(r, call)
  <2>. DEFINE t == account[p].tenant
  <2>1. t \in Tenants
    BY <1>0, <1>3 DEF AskInvite
  <2>2. Outstanding(t, e) \in SUBSET Invites
    BY DEF Outstanding
  <2>5. \A i \in Outstanding(t, e) : Open(i)
    BY DEF Outstanding
  <2>3. Asked("invite", t, e, role, Outstanding(t, e)) \in Call
    BY <2>1, <2>2 DEF Ops
  <2>4. AskedWell(r, Asked("invite", t, e, role, Outstanding(t, e)))
    BY <1>3, <2>1, <2>3, <2>5 DEF AskInvite, Asked, Ops
  <2>. QED  BY <2>3, <2>4
<1>4. ASSUME NEW p \in People, NEW i \in Invites, AskRevoke(r, p, i)
      PROVE  \E call \in Call : AskedWell(r, call)
  <2>1. Asked("revoke", i, None, "member", {}) \in Call
    BY DEF Ops, Invitable
  <2>2. AskedWell(r, Asked("revoke", i, None, "member", {}))
    BY <1>4, <2>1 DEF AskRevoke, Asked, Ops
  <2>. QED  BY <2>1, <2>2
<1>5. ASSUME NEW i \in Invites, AskAccept(r, i)
      PROVE  \E call \in Call : AskedWell(r, call)
  <2>1. invite[i].email \in Emails \cup {None} /\ invite[i].role \in Invitable
    BY DEF TypeOK, InviteRow
  <2>2. Asked("accept", i, invite[i].email, invite[i].role, {}) \in Call
    BY <2>1 DEF Ops
  <2>3. AskedWell(r, Asked("accept", i, invite[i].email, invite[i].role, {}))
    BY <1>5, <2>2 DEF AskAccept, Asked, Ops, Open
  <2>. QED  BY <2>2, <2>3
<1>6. ASSUME NEW p \in People, NEW e \in Emails, AskProfile(r, p, e)
      PROVE  \E call \in Call : AskedWell(r, call)
  <2>1. Asked("profile", p, e, "member", {}) \in Call
    BY DEF Ops, Invitable
  <2>2. AskedWell(r, Asked("profile", p, e, "member", {}))
    BY <1>6, <2>1 DEF AskProfile, Asked, Ops
  <2>. QED  BY <2>1, <2>2
<1>7. ASSUME NEW e \in Emails, AskSignup(r, e)
      PROVE  \E call \in Call : AskedWell(r, call)
  <2>1. Asked("signup", None, e, "member", {}) \in Call
    BY DEF Ops, Invitable
  <2>2. AskedWell(r, Asked("signup", None, e, "member", {}))
    BY <1>7, <2>1 DEF AskSignup, Asked, Ops
  <2>. QED  BY <2>1, <2>2
<1>8. ASSUME NEW t \in Tenants, NEW op \in Reviews, AskReview(r, t, op)
      PROVE  \E call \in Call : AskedWell(r, call)
  <2>1. Asked(op, t, None, "member", {}) \in Call
    BY DEF Ops, Invitable
  <2>2. op = "reject" => tenant[t] = "pending"
    BY <1>8 DEF AskReview
  <2>3. AskedWell(r, Asked(op, t, None, "member", {}))
    BY <1>8, <2>1, <2>2 DEF AskReview, Asked, Ops
  <2>. QED  BY <2>1, <2>3
<1>9. ASSUME NEW t \in Tenants, NEW e \in Emails, AskAppoint(r, t, e)
      PROVE  \E call \in Call : AskedWell(r, call)
  <2>1. Asked("appoint", t, e, "member", {}) \in Call
    BY DEF Ops, Invitable
  <2>2. AskedWell(r, Asked("appoint", t, e, "member", {}))
    BY <1>9, <2>1 DEF AskAppoint, Asked, Ops
  <2>. QED  BY <2>1, <2>2
<1>10. ASSUME NEW t \in Tenants, NEW e \in Emails, NEW role \in Invitable,
              AskCallback(r, t, e, role)
       PROVE  \E call \in Call : AskedWell(r, call)
  <2>1. Asked("callback", t, e, role, {}) \in Call
    BY DEF Ops
  <2>2. AskedWell(r, Asked("callback", t, e, role, {}))
    BY <1>10, <2>1 DEF AskCallback, Asked, Ops
  <2>. QED  BY <2>1, <2>2
<1>. QED  BY <1>1, <1>2, <1>3, <1>4, <1>5, <1>6, <1>7, <1>8, <1>9, <1>10 DEF Asks

-----------------------------------------------------------------------------
(***************************************************************************)
(* The effect of a request's end on the other requests.                    *)
(***************************************************************************)
LEMMA EndsEffect ==
    ASSUME TypeOK, NEW r \in Requests, Ends(r), request[r].op \in Ops
    PROVE  /\ request' \in [Requests -> Call]
           /\ late' \in SUBSET Requests
           /\ races' \in SUBSET Ops
           /\ races \subseteq races'
           /\ r \in late => request[r].op \in races'
           /\ request'[r] = Over
           /\ \A q \in Requests \ {r} : request'[q] = request[q]
           /\ \A q \in Requests \ ({r} \cup late') :
                 q \notin late /\ request[q].op \notin Disturbs(request[r].op)
  BY EmptyType DEF Ends, TypeOK

LEMMA OwnersFinite ==
    ASSUME NEW t
    PROVE  IsFiniteSet(ActiveOwners(t)) /\ Cardinality(ActiveOwners(t)) \in Nat
<1>1. ActiveOwners(t) \subseteq People
  BY DEF ActiveOwners
<1>. QED  BY <1>1, FS_Subset, FS_CardinalityType

LEMMA PendingFinite ==
    IsFiniteSet(Pending) /\ Cardinality(Pending) \in Nat
<1>1. Pending \subseteq Tenants
  BY DEF Pending
<1>. QED  BY <1>1, FS_Subset, FS_CardinalityType

\* An owner that may go may still go when its tenant has gained owners.
LEMMA SparedStays ==
    ASSUME NEW m \in People, Spared(m),
           account'[m].tenant = account[m].tenant,
           account'[m].role = account[m].role,
           ActiveOwners(account[m].tenant) \subseteq ActiveOwners(account[m].tenant)'
    PROVE  Spared(m)'
<1>. DEFINE t == account[m].tenant
<1>1. CASE account[m].role # "owner"
  BY <1>1 DEF Spared
<1>2. CASE Cardinality(ActiveOwners(t)) > 1
  <2>1. ActiveOwners(t)' \subseteq People
    BY DEF ActiveOwners
  <2>2. IsFiniteSet(ActiveOwners(t)')
    BY <2>1, FS_Subset
  <2>3. /\ Cardinality(ActiveOwners(t)) \in Nat
        /\ Cardinality(ActiveOwners(t)') \in Nat
        /\ Cardinality(ActiveOwners(t)) <= Cardinality(ActiveOwners(t)')
    BY <2>2, FS_Subset, FS_CardinalityType
  <2>4. Cardinality(ActiveOwners(t)') > 1
    BY <1>2, <2>3
  <2>. QED  BY <2>4 DEF Spared
<1>. QED  BY <1>1, <1>2 DEF Spared

LEMMA DisturbsFacts ==
    /\ \A op \in {"role", "remove"} : Disturbs(op) = {"role", "remove"}
    /\ \A op \in Reviews : Disturbs(op) = Reviews \cup {"callback"}
    /\ Disturbs("signup") = {"signup"}
    /\ \A op \in {"invite", "revoke", "accept"} :
          Disturbs(op) = {"invite", "revoke", "accept"}
  BY ReviewOps DEF Disturbs

\* A commit whose effect on owners, tenants and the number waiting for review
\* is the one its operation announces preserves the invariant.
LEMMA CommitKeeps ==
    ASSUME IInv, TypeOK', NEW r \in Requests, request[r].op \in Ops, Ends(r),
           \A p \in People : Exists(p) => Exists(p)',
           \/ request[r].op \in {"role", "remove"}
           \/ \A m \in People : Exists(m) /\ Spared(m) => Spared(m)',
           request[r].op = "signup" \/ Pending' \subseteq Pending,
           \/ request[r].op \in Reviews
           \/ \A t \in Tenants : tenant[t] # "none" => tenant'[t] = tenant[t],
           sso' = sso,
           \A i \in Invites :
              /\ invite[i].status # "none" => invite'[i].status # "none"
              /\ invite'[i].status # "none" => invite'[i].tenant \in Tenants,
           PendingCapKept'
    PROVE  IInv'
<1>. USE EndsEffect
<1>1. TypeOK
  BY DEF IInv
<1>2. ASSUME NEW q \in Requests
      PROVE  Aimed(q)'
  <2>1. CASE q = r
    BY <1>1, <2>1, ReviewOps DEF Aimed, Over, Asked
  <2>2. CASE q # r
    <3>1. Aimed(q) /\ request'[q] = request[q]
      BY <1>1, <2>2 DEF IInv
    <3>2. request[q].prior \subseteq Invites
      BY <1>1 DEF TypeOK, Call
    <3>. QED  BY <3>1, <3>2 DEF Aimed
  <2>. QED  BY <2>1, <2>2
<1>3. ASSUME NEW q \in Requests \ late'
      PROVE  Fresh(q)'
  <2>1. CASE q = r
    BY <1>1, <2>1 DEF Fresh, Over, Asked
  <2>2. CASE q # r
    <3>1. /\ Aimed(q) /\ Fresh(q)
          /\ request'[q] = request[q]
          /\ request[q].op \notin Disturbs(request[r].op)
      BY <1>1, <2>2 DEF IInv
    <3>2. request'[q].op \in {"role", "remove"} => Spared(request[q].on)'
      BY <3>1, DisturbsFacts DEF Aimed, Fresh
    <3>3. request'[q].op = "signup" => Cardinality(Pending') < MaxPending
      <4>. SUFFICES ASSUME request'[q].op = "signup"
                    PROVE  Cardinality(Pending') < MaxPending
        OBVIOUS
      <4>1. Pending' \subseteq Pending
        BY <3>1, DisturbsFacts
      <4>2. /\ Cardinality(Pending') <= Cardinality(Pending)
            /\ Cardinality(Pending') \in Nat
        BY <4>1, PendingFinite, FS_Subset, FS_CardinalityType
      <4>3. Cardinality(Pending) < MaxPending
        BY <3>1 DEF Fresh
      <4>. QED  BY <4>2, <4>3, PendingFinite
    <3>4. request'[q].op = "reject" => tenant'[request'[q].on] = "pending"
      BY <3>1, DisturbsFacts, ReviewOps DEF Aimed, Fresh
    <3>5. request'[q].op = "callback" => /\ request'[q].on \in sso'
                                         /\ tenant'[request'[q].on] = "active"
      BY <3>1, DisturbsFacts, ReviewOps DEF Aimed, Fresh
    <3>. QED  BY <3>2, <3>3, <3>4, <3>5 DEF Fresh
  <2>. QED  BY <2>1, <2>2
<1>. QED  BY <1>2, <1>3 DEF IInv

-----------------------------------------------------------------------------
(***************************************************************************)
(* Every action preserves the invariant.                                   *)
(***************************************************************************)
LEMMA AskKeeps ==
    ASSUME IInv, NEW r \in Requests, Asks(r)
    PROVE  IInv'
<1>1. TypeOK
  BY DEF IInv
<1>2. PICK call \in Call : AskedWell(r, call)
  BY <1>1, AsksWell
<1>3. /\ UNCHANGED <<tenant, account, invite, sso, late, races>>
      /\ request[r] = Idle
      /\ request' = [request EXCEPT ![r] = call]
  BY <1>2 DEF AskedWell, Ask, stored
<1>4. TypeOK'
  BY <1>1, <1>3 DEF TypeOK
<1>5. /\ request'[r] = call
      /\ \A q \in Requests \ {r} : request'[q] = request[q]
  BY <1>1, <1>3 DEF TypeOK
<1>6. ASSUME NEW q \in Requests
      PROVE  Aimed(q)'
  <2>1. CASE q = r
    BY <1>2, <1>3, <1>5, <2>1 DEF AskedWell, Aimed, Exists, Open
  <2>2. CASE q # r
    BY <1>3, <1>5, <2>2 DEF IInv, Aimed, Exists
  <2>. QED  BY <2>1, <2>2
<1>7. ASSUME NEW q \in Requests \ late'
      PROVE  Fresh(q)'
  <2>1. Pending' = Pending /\ (\A m : Spared(m)' <=> Spared(m))
    BY <1>3 DEF Pending, Spared, ActiveOwners
  <2>2. CASE q = r
    BY <1>2, <1>3, <1>5, <2>1, <2>2 DEF AskedWell, Fresh
  <2>3. CASE q # r
    BY <1>3, <1>5, <2>1, <2>3 DEF IInv, Fresh
  <2>. QED  BY <2>2, <2>3
<1>8. PendingCapKept'
  BY <1>3 DEF IInv, PendingCapKept, Pending
<1>9. \A i \in Invites : invite'[i].status # "none" => invite'[i].tenant \in Tenants
  BY <1>3 DEF IInv
<1>. QED  BY <1>4, <1>6, <1>7, <1>8, <1>9 DEF IInv

LEMMA JoinsEffect ==
    ASSUME TypeOK, NEW p \in People, NEW t \in Tenants, NEW e \in Emails \cup {None},
           NEW role \in {"owner", "admin", "member"},
           NEW via \in Invites \cup {"start", "signup", "staff", "sso"},
           Joins(p, t, e, role, via)
    PROVE  /\ account' \in [People -> Account]
           /\ \A q \in People : Exists(q) => account'[q] = account[q]
           /\ \A u \in Tenants : ActiveOwners(u) \subseteq ActiveOwners(u)'
<1>1. /\ account' \in [People -> Account]
      /\ \A q \in People : Exists(q) => account'[q] = account[q]
  BY DEF Joins, TypeOK, Account, Exists
<1>2. ASSUME NEW u \in Tenants, NEW q \in ActiveOwners(u)
      PROVE  q \in ActiveOwners(u)'
  <2>1. Exists(q) /\ q \in People
    BY DEF ActiveOwners, Exists
  <2>. QED  BY <1>1, <2>1 DEF ActiveOwners
<1>. QED  BY <1>1, <1>2

\* When rows that exist keep their tenant, role and activity, nobody who may
\* go loses that.
LEMMA KeptRows ==
    ASSUME TypeOK,
           \A q \in People : Exists(q) =>
              /\ account'[q].tenant = account[q].tenant
              /\ account'[q].role = account[q].role
              /\ account'[q].active = account[q].active
    PROVE  /\ \A q \in People : Exists(q) => Exists(q)'
           /\ \A m \in People : Exists(m) /\ Spared(m) => Spared(m)'
           /\ \A u \in Tenants : ActiveOwners(u) \subseteq ActiveOwners(u)'
<1>1. \A q \in People : Exists(q) => Exists(q)'
  BY DEF Exists
<1>2. \A u \in Tenants : ActiveOwners(u) \subseteq ActiveOwners(u)'
  BY DEF ActiveOwners, Exists
<1>3. ASSUME NEW m \in People, Exists(m), Spared(m)
      PROVE  Spared(m)'
  <2>1. account[m].tenant \in Tenants
    BY <1>3 DEF TypeOK, Account, Exists
  <2>2. account'[m].tenant = account[m].tenant
    BY <1>3
  <2>3. ActiveOwners(account[m].tenant) \subseteq ActiveOwners(account[m].tenant)'
    BY <1>2, <2>1, <2>2 DEF ActiveOwners
  <2>. QED  BY <1>3, <2>2, <2>3, SparedStays
<1>. QED  BY <1>1, <1>2, <1>3

\* Commits that write accounts only.
LEMMA AccountCommitKeeps ==
    ASSUME IInv, NEW r \in Requests, request[r].op \in Ops, Ends(r),
           account' \in [People -> Account],
           \A q \in People : Exists(q) => Exists(q)',
           \/ request[r].op \in {"role", "remove"}
           \/ \A m \in People : Exists(m) /\ Spared(m) => Spared(m)',
           invite' \in [Invites -> InviteRow],
           \A i \in Invites :
              /\ invite[i].status # "none" => invite'[i].status # "none"
              /\ invite'[i].status # "none" => invite'[i].tenant \in Tenants,
           UNCHANGED <<tenant, sso>>
    PROVE  IInv'
<1>1. TypeOK
  BY DEF IInv
<1>2. TypeOK'
  BY <1>1, EndsEffect DEF TypeOK
<1>3. Pending' = Pending
  BY DEF Pending
<1>4. PendingCapKept'
  BY <1>1, <1>3, EndsEffect DEF IInv, PendingCapKept
<1>. QED  BY <1>1, <1>2, <1>3, <1>4, CommitKeeps

LEMMA TeamKeeps ==
    ASSUME IInv, NEW r \in Requests, CommitRole(r) \/ CommitRemove(r)
    PROVE  IInv'
<1>1. TypeOK /\ Aimed(r)
  BY DEF IInv
<1>2. /\ Ends(r)
      /\ request[r].op \in {"role", "remove"}
      /\ UNCHANGED <<tenant, invite, sso>>
  BY DEF CommitRole, CommitRemove
<1>3. request[r] \in Call
  BY <1>1 DEF TypeOK
<1>4. account' \in [People -> Account]
  <2>1. request[r].on \in People /\ request[r].role \in {"admin", "member"}
    BY <1>1, <1>2, <1>3 DEF Aimed, Call, Invitable
  <2>2. account[request[r].on] \in Account
    BY <1>1, <2>1 DEF TypeOK
  <2>3. CASE CommitRole(r)
    <3>1. [account[request[r].on] EXCEPT !.role = request[r].role] \in Account
      BY <2>1, <2>2 DEF Account
    <3>. QED  BY <1>1, <2>1, <2>3, <3>1 DEF CommitRole, TypeOK
  <2>4. CASE CommitRemove(r)
    <3>1. [account[request[r].on] EXCEPT !.active = FALSE] \in Account
      BY <2>2 DEF Account
    <3>. QED  BY <1>1, <2>1, <2>4, <3>1 DEF CommitRemove, TypeOK
  <2>. QED  BY <2>3, <2>4
<1>5. \A q \in People : account'[q].tenant = account[q].tenant
  BY <1>1, <1>2, <1>3 DEF CommitRole, CommitRemove, TypeOK, Account
<1>6. \A q \in People : Exists(q) => Exists(q)'
  BY <1>5 DEF Exists
<1>7. request[r].op \in Ops /\ invite' \in [Invites -> InviteRow]
  BY <1>1, <1>2 DEF Ops, TypeOK
<1>8. \A i \in Invites :
         /\ invite[i].status # "none" => invite'[i].status # "none"
         /\ invite'[i].status # "none" => invite'[i].tenant \in Tenants
  BY <1>2 DEF IInv
<1>. QED  BY <1>2, <1>4, <1>6, <1>7, <1>8, AccountCommitKeeps

LEMMA InviteKeeps ==
    ASSUME IInv, NEW r \in Requests,
           \/ \E i \in Invites : CommitInvite(r, i)
           \/ CommitRevoke(r)
    PROVE  IInv'
<1>1. TypeOK /\ Aimed(r)
  BY DEF IInv
<1>2. /\ Ends(r)
      /\ request[r].op \in {"invite", "revoke"}
      /\ UNCHANGED <<tenant, account, sso>>
  BY DEF CommitInvite, CommitRevoke
<1>3. request[r] \in Call
  BY <1>1 DEF TypeOK
<1>4. invite' \in [Invites -> InviteRow]
  <2>0. ASSUME NEW j \in Invites
        PROVE  [invite[j] EXCEPT !.status = "revoked"] \in InviteRow
    <3>1. invite[j] \in InviteRow
      BY <1>1 DEF TypeOK
    <3>. QED  BY <3>1 DEF InviteRow
  <2>1. CASE CommitRevoke(r)
    BY <1>1, <2>0, <2>1 DEF CommitRevoke, TypeOK, Aimed
  <2>2. ASSUME NEW i \in Invites, CommitInvite(r, i)
        PROVE  invite' \in [Invites -> InviteRow]
    <3>1. [status |-> "pending", tenant |-> request[r].on,
           email |-> request[r].email, role |-> request[r].role] \in InviteRow
      BY <1>1, <1>3, <2>2 DEF InviteRow, Call, Aimed, CommitInvite
    <3>. QED  BY <1>1, <2>0, <2>2, <3>1 DEF CommitInvite, TypeOK
  <2>. QED  BY <2>1, <2>2
<1>5. request[r].op \in Ops /\ account' \in [People -> Account]
  BY <1>1, <1>2 DEF Ops, TypeOK
<1>6. /\ \A q \in People : Exists(q) => Exists(q)'
      /\ \A m \in People : Exists(m) /\ Spared(m) => Spared(m)'
  BY <1>1, <1>2, KeptRows
<1>7. \A i \in Invites :
         /\ invite[i].status # "none" => invite'[i].status # "none"
         /\ invite'[i].status # "none" => invite'[i].tenant \in Tenants
  <2>1. CASE CommitRevoke(r)
    <3>1. request[r].on \in Invites /\ invite[request[r].on].status # "none"
      BY <1>1, <2>1 DEF CommitRevoke, Aimed
    <3>2. \A j \in Invites : invite[j] \in InviteRow
      BY <1>1 DEF TypeOK
    <3>3. \A j \in Invites :
             /\ invite'[j].tenant = invite[j].tenant
             /\ invite'[j].status \in {invite[j].status, "revoked"}
             /\ j # request[r].on => invite'[j].status = invite[j].status
      BY <1>1, <2>1, <3>1, <3>2 DEF CommitRevoke, TypeOK, InviteRow
    <3>. QED  BY <3>1, <3>3 DEF IInv
  <2>2. ASSUME NEW i \in Invites, CommitInvite(r, i), NEW j \in Invites
        PROVE  /\ invite[j].status # "none" => invite'[j].status # "none"
               /\ invite'[j].status # "none" => invite'[j].tenant \in Tenants
    <3>1. invite[j] \in InviteRow /\ request[r].on \in Tenants
      BY <1>1, <2>2 DEF TypeOK, Aimed, CommitInvite
    <3>2. CASE j = i
      BY <2>2, <3>1, <3>2 DEF CommitInvite
    <3>3. CASE j # i /\ j \in request[r].prior
      <4>1. invite'[j].tenant = invite[j].tenant /\ invite'[j].status = "revoked"
        BY <2>2, <3>1, <3>3 DEF CommitInvite, InviteRow
      <4>2. j \in request[r].prior => invite[j].status # "none"
        BY <1>1, <2>2 DEF CommitInvite, Aimed
      <4>. QED  BY <3>3, <4>1, <4>2 DEF IInv
    <3>4. CASE j # i /\ j \notin request[r].prior
      BY <2>2, <3>4 DEF CommitInvite, IInv
    <3>. QED  BY <3>2, <3>3, <3>4
  <2>. QED  BY <2>1, <2>2
<1>. QED  BY <1>2, <1>4, <1>5, <1>6, <1>7, AccountCommitKeeps

LEMMA ProfileKeeps ==
    ASSUME IInv, NEW r \in Requests, CommitProfile(r)
    PROVE  IInv'
<1>1. TypeOK /\ Aimed(r)
  BY DEF IInv
<1>2. /\ Ends(r)
      /\ request[r].op = "profile"
      /\ UNCHANGED <<tenant, invite, sso>>
  BY DEF CommitProfile
<1>3. request[r] \in Call
  BY <1>1 DEF TypeOK
<1>4. account' \in [People -> Account]
  <2>1. request[r].on \in People /\ request[r].email \in Emails \cup {None}
    BY <1>1, <1>2, <1>3 DEF Aimed, Call
  <2>2. account[request[r].on] \in Account
    BY <1>1, <2>1 DEF TypeOK
  <2>3. [account[request[r].on] EXCEPT !.email = request[r].email] \in Account
    BY <2>1, <2>2 DEF Account
  <2>. QED  BY <1>1, <2>1, <2>3 DEF CommitProfile, TypeOK
<1>5. \A q \in People : /\ account'[q].tenant = account[q].tenant
                        /\ account'[q].role = account[q].role
                        /\ account'[q].active = account[q].active
  BY <1>1, <1>2, <1>3 DEF CommitProfile, TypeOK, Account
<1>6. /\ \A q \in People : Exists(q) => Exists(q)'
      /\ \A m \in People : Exists(m) /\ Spared(m) => Spared(m)'
  BY <1>1, <1>5, KeptRows
<1>7. request[r].op \in Ops /\ invite' \in [Invites -> InviteRow]
  BY <1>1, <1>2 DEF Ops, TypeOK
<1>8. \A i \in Invites :
         /\ invite[i].status # "none" => invite'[i].status # "none"
         /\ invite'[i].status # "none" => invite'[i].tenant \in Tenants
  BY <1>2 DEF IInv
<1>. QED  BY <1>2, <1>4, <1>6, <1>7, <1>8, AccountCommitKeeps

\* The operations other than signup that insert an account.
LEMMA JoinKeeps ==
    ASSUME IInv, NEW r \in Requests, NEW p \in People,
           \/ CommitAccept(r, p)
           \/ CommitAppoint(r, p)
           \/ CommitCallback(r, p)
    PROVE  /\ IInv'
           /\ \A q \in People : Exists(q) => account'[q] = account[q]
           /\ \A u \in Tenants : ActiveOwners(u) \subseteq ActiveOwners(u)'
<1>1. TypeOK /\ Aimed(r) /\ request[r] \in Call
  BY DEF IInv, TypeOK
<1>2. /\ Ends(r)
      /\ request[r].op \in {"accept", "appoint", "callback"}
      /\ request[r].op \in Ops
      /\ UNCHANGED <<tenant, sso>>
  BY DEF CommitAccept, CommitAppoint, CommitCallback, Ops
<1>3. invite' \in [Invites -> InviteRow]
  BY <1>1 DEF CommitAccept, CommitAppoint, CommitCallback, TypeOK, InviteRow
<1>4. \E t \in Tenants, e \in Emails \cup {None},
         role \in {"owner", "admin", "member"},
         via \in Invites \cup {"start", "signup", "staff", "sso"} :
            Joins(p, t, e, role, via)
  <2>1. /\ request[r].email \in Emails \cup {None}
        /\ request[r].role \in {"owner", "admin", "member"}
    BY <1>1 DEF Call, Invitable
  <2>2. CASE CommitAccept(r, p)
    <3>1. request[r].on \in Invites
      BY <1>1, <2>2 DEF CommitAccept, Aimed
    <3>2. invite[request[r].on].tenant \in Tenants
      BY <1>1, <2>2, <3>1 DEF IInv, CommitAccept, Aimed
    <3>. QED  BY <2>1, <2>2, <3>1, <3>2 DEF CommitAccept
  <2>3. CASE CommitAppoint(r, p)
    BY <1>1, <2>1, <2>3 DEF CommitAppoint, Aimed
  <2>4. CASE CommitCallback(r, p)
    BY <1>1, <2>1, <2>4 DEF CommitCallback, Aimed
  <2>. QED  BY <2>2, <2>3, <2>4
<1>5. /\ account' \in [People -> Account]
      /\ \A q \in People : Exists(q) => account'[q] = account[q]
      /\ \A u \in Tenants : ActiveOwners(u) \subseteq ActiveOwners(u)'
  BY <1>1, <1>4, JoinsEffect
<1>6. /\ \A q \in People : Exists(q) => Exists(q)'
      /\ \A m \in People : Exists(m) /\ Spared(m) => Spared(m)'
  BY <1>1, <1>5, KeptRows
<1>7. \A i \in Invites :
         /\ invite[i].status # "none" => invite'[i].status # "none"
         /\ invite'[i].status # "none" => invite'[i].tenant \in Tenants
  BY <1>1 DEF IInv, TypeOK, InviteRow, CommitAccept, CommitAppoint, CommitCallback,
              Aimed
<1>. QED  BY <1>2, <1>3, <1>5, <1>6, <1>7, AccountCommitKeeps

LEMMA SignupKeeps ==
    ASSUME IInv, NEW r \in Requests, NEW t \in Tenants, NEW p \in People,
           CommitSignup(r, t, p)
    PROVE  /\ IInv'
           /\ \A q \in People : Exists(q) => account'[q] = account[q]
           /\ \A u \in Tenants : ActiveOwners(u) \subseteq ActiveOwners(u)'
<1>1. TypeOK /\ request[r] \in Call
  BY DEF IInv, TypeOK
<1>2. /\ Ends(r)
      /\ request[r].op = "signup"
      /\ request[r].op \in Ops
      /\ UNCHANGED <<invite, sso>>
      /\ tenant[t] = "none"
      /\ tenant' = [tenant EXCEPT ![t] = "pending"]
  BY DEF CommitSignup, Ops
<1>3. /\ account' \in [People -> Account]
      /\ \A q \in People : Exists(q) => account'[q] = account[q]
      /\ \A u \in Tenants : ActiveOwners(u) \subseteq ActiveOwners(u)'
  <2>1. request[r].email \in Emails \cup {None}
    BY <1>1 DEF Call
  <2>2. Joins(p, t, request[r].email, "owner", "signup")
    BY DEF CommitSignup
  <2>. QED  BY <1>1, <2>1, <2>2, JoinsEffect
<1>4. /\ \A q \in People : Exists(q) => Exists(q)'
      /\ \A m \in People : Exists(m) /\ Spared(m) => Spared(m)'
  BY <1>1, <1>3, KeptRows
<1>5. TypeOK'
  BY <1>1, <1>2, <1>3, EndsEffect DEF TypeOK, Statuses
<1>6. PendingCapKept'
  <2>1. CASE r \in late
    BY <1>1, <1>2, <2>1, EndsEffect DEF PendingCapKept
  <2>2. CASE r \notin late
    <3>1. Cardinality(Pending) < MaxPending
      BY <1>2, <2>2 DEF IInv, Fresh
    <3>2. Pending' = Pending \cup {t} /\ t \notin Pending
      BY <1>1, <1>2 DEF Pending, TypeOK
    <3>3. Cardinality(Pending') = Cardinality(Pending) + 1
      BY <3>2, PendingFinite, FS_AddElement
    <3>4. Cardinality(Pending') <= MaxPending
      BY <3>1, <3>3, PendingFinite
    <3>. QED  BY <3>4 DEF PendingCapKept
  <2>. QED  BY <2>1, <2>2
<1>7. \A u \in Tenants : tenant[u] # "none" => tenant'[u] = tenant[u]
  BY <1>1, <1>2 DEF TypeOK
<1>8. \A i \in Invites :
         /\ invite[i].status # "none" => invite'[i].status # "none"
         /\ invite'[i].status # "none" => invite'[i].tenant \in Tenants
  BY <1>2 DEF IInv
<1>. QED  BY <1>1, <1>2, <1>3, <1>4, <1>5, <1>6, <1>7, <1>8, CommitKeeps

LEMMA ReviewKeeps ==
    ASSUME IInv, NEW r \in Requests, CommitReview(r)
    PROVE  IInv'
<1>1. TypeOK /\ Aimed(r) /\ request[r] \in Call
  BY DEF IInv, TypeOK
<1>2. /\ Ends(r)
      /\ request[r].op \in Reviews
      /\ request[r].op \in Ops
      /\ UNCHANGED <<account, invite, sso>>
      /\ request[r].on \in Tenants
      /\ tenant' = [tenant EXCEPT ![request[r].on] = Review[request[r].op].to]
  BY <1>1 DEF CommitReview, Ops, Aimed
<1>3. TypeOK'
  BY <1>1, <1>2, EndsEffect, ReviewOps DEF TypeOK, Statuses
<1>4. Pending' \subseteq Pending
  BY <1>1, <1>2, ReviewOps DEF Pending, TypeOK
<1>5. PendingCapKept'
  <2>1. Cardinality(Pending') <= Cardinality(Pending) /\ Cardinality(Pending') \in Nat
    BY <1>4, PendingFinite, FS_Subset, FS_CardinalityType
  <2>2. "signup" \notin races' => Cardinality(Pending) <= MaxPending
    BY <1>1, <1>2, EndsEffect DEF IInv, PendingCapKept
  <2>. QED  BY <2>1, <2>2, PendingFinite DEF PendingCapKept
<1>6. /\ \A q \in People : Exists(q) => Exists(q)'
      /\ \A m \in People : Exists(m) /\ Spared(m) => Spared(m)'
  BY <1>1, <1>2, KeptRows
<1>7. \A i \in Invites :
         /\ invite[i].status # "none" => invite'[i].status # "none"
         /\ invite'[i].status # "none" => invite'[i].tenant \in Tenants
  BY <1>2 DEF IInv
<1>. QED  BY <1>1, <1>2, <1>3, <1>4, <1>5, <1>6, <1>7, CommitKeeps

\* Steps that touch no account and create no tenant to review.
LEMMA QuietKeeps ==
    ASSUME IInv, TypeOK', UNCHANGED <<account, races>>,
           \A q \in Requests : request'[q] = request[q] \/ request'[q] = Over,
           \A q \in Requests \ late' : request'[q] = Over \/ q \notin late,
           \A t \in Tenants : tenant[t] # "none" => tenant'[t] = tenant[t],
           Pending' = Pending,
           \A q \in Requests \ late' :
              request'[q].op = "callback" /\ request[q].on \in sso
                 => request[q].on \in sso',
           \A i \in Invites :
              /\ invite[i].status # "none" => invite'[i].status # "none"
              /\ invite'[i].status # "none" => invite'[i].tenant \in Tenants
    PROVE  IInv'
<1>1. TypeOK
  BY DEF IInv
<1>2. ASSUME NEW q \in Requests
      PROVE  Aimed(q)'
  <2>1. CASE request'[q] = Over
    BY <2>1, ReviewOps DEF Aimed, Over, Asked
  <2>2. CASE request'[q] = request[q]
    <3>1. Aimed(q) /\ request[q].prior \subseteq Invites
      BY <1>1 DEF IInv, TypeOK, Call
    <3>. QED  BY <2>2, <3>1 DEF Aimed, Exists
  <2>. QED  BY <2>1, <2>2
<1>3. ASSUME NEW q \in Requests \ late'
      PROVE  Fresh(q)'
  <2>1. CASE request'[q] = Over
    BY <2>1 DEF Fresh, Over, Asked
  <2>2. CASE request'[q] = request[q] /\ q \notin late
    <3>1. Aimed(q) /\ Fresh(q)
      BY <2>2 DEF IInv
    <3>2. \A m : Spared(m)' <=> Spared(m)
      BY DEF Spared, ActiveOwners
    <3>. QED  BY <2>2, <3>1, <3>2, ReviewOps DEF Aimed, Fresh
  <2>. QED  BY <2>1, <2>2
<1>4. PendingCapKept'
  BY DEF IInv, PendingCapKept
<1>. QED  BY <1>2, <1>3, <1>4 DEF IInv

LEMMA OtherKeeps ==
    ASSUME IInv,
           \/ \E r \in Requests :
                 \/ EmailRefused(r)
                 \/ \E t \in Tenants : CreateTenant(r, t)
                 \/ \E p \in People : SetSSO(r, p)
           \/ \E i \in Invites : InviteExpires(i)
    PROVE  IInv' /\ UNCHANGED account
<1>1. TypeOK /\ \A i \in Invites : invite[i] \in InviteRow
  BY DEF IInv, TypeOK
<1>2. CASE \E r \in Requests : EmailRefused(r)
  <2>. PICK r \in Requests : EmailRefused(r)
    BY <1>2
  <2>1. TypeOK' /\ UNCHANGED <<stored, races>>
    BY <1>1, EmptyType DEF EmailRefused, TypeOK, stored
  <2>2. /\ request' = [request EXCEPT ![r] = Over]
        /\ late' = late \ {r}
    BY DEF EmailRefused
  <2>3. Pending' = Pending
    BY <2>1 DEF Pending, stored
  <2>. QED  BY <1>1, <2>1, <2>2, <2>3, QuietKeeps DEF IInv, stored, TypeOK
<1>3. CASE \E r \in Requests, t \in Tenants : CreateTenant(r, t)
  <2>. PICK r \in Requests, t \in Tenants : CreateTenant(r, t)
    BY <1>3
  <2>1. /\ UNCHANGED <<account, invite, sso, late, races>>
        /\ request' = [request EXCEPT ![r] = Over]
        /\ tenant[t] = "none"
        /\ tenant' = [tenant EXCEPT ![t] = "active"]
    BY DEF CreateTenant
  <2>2. TypeOK'
    BY <1>1, <2>1, EmptyType DEF TypeOK, Statuses
  <2>3. Pending' = Pending
    BY <1>1, <2>1 DEF Pending, TypeOK
  <2>. QED  BY <1>1, <2>1, <2>2, <2>3, QuietKeeps DEF IInv, TypeOK
<1>4. CASE \E r \in Requests, p \in People : SetSSO(r, p)
  <2>. PICK r \in Requests, p \in People : SetSSO(r, p)
    BY <1>4
  <2>1. /\ UNCHANGED <<tenant, account, invite, races>>
        /\ request' = [request EXCEPT ![r] = Over]
        /\ late' = late \cup {q \in Requests : request[q].op = "callback"}
    BY DEF SetSSO
  <2>2. sso' \in SUBSET Tenants
    BY <1>1 DEF SetSSO, IsOwner, MayWrite, Exists, TypeOK, Account
  <2>3. TypeOK'
    BY <1>1, <2>1, <2>2, EmptyType DEF TypeOK
  <2>4. Pending' = Pending
    BY <2>1 DEF Pending
  <2>5. \A q \in Requests \ late' :
           request'[q].op = "callback" /\ request[q].on \in sso
              => request[q].on \in sso'
    BY <1>1, <2>1 DEF TypeOK, Over, Asked
  <2>. QED  BY <1>1, <2>1, <2>3, <2>4, <2>5, QuietKeeps DEF IInv, TypeOK
<1>5. CASE \E i \in Invites : InviteExpires(i)
  <2>. PICK i \in Invites : InviteExpires(i)
    BY <1>5
  <2>1. /\ UNCHANGED <<tenant, account, sso, request, late, races>>
        /\ invite' = [invite EXCEPT ![i].status = "expired"]
        /\ invite[i].status = "pending"
    BY DEF InviteExpires
  <2>2. [invite[i] EXCEPT !.status = "expired"] \in InviteRow
    BY <1>1 DEF InviteRow
  <2>3. TypeOK'
    BY <1>1, <2>1, <2>2 DEF TypeOK
  <2>4. \A j \in Invites :
           /\ invite'[j].tenant = invite[j].tenant
           /\ invite[j].status # "none" => invite'[j].status # "none"
           /\ invite'[j].status # "none" => invite[j].status # "none"
    <3>1. \A j \in Invites \ {i} : invite'[j] = invite[j]
      BY <1>1, <2>1 DEF TypeOK
    <3>2. invite'[i] = [invite[i] EXCEPT !.status = "expired"]
      BY <1>1, <2>1 DEF TypeOK
    <3>3. invite'[i].tenant = invite[i].tenant /\ invite'[i].status = "expired"
      BY <1>1, <3>2 DEF InviteRow
    <3>. QED  BY <2>1, <3>1, <3>3
  <2>5. Pending' = Pending
    BY <2>1 DEF Pending
  <2>. QED  BY <2>1, <2>3, <2>4, <2>5, QuietKeeps DEF IInv
<1>. QED  BY <1>2, <1>3, <1>4, <1>5

LEMMA InitEstablishes == Init => IInv
<1>. SUFFICES ASSUME Init PROVE IInv
  OBVIOUS
<1>1. \A p \in People : account[p] \in Account
  BY DEF Init, Account, NoAccount
<1>2. PICK i \in Invites \cup {None}, e \in Emails, role \in Invitable :
        invite = [j \in Invites |->
                     IF j = i THEN [status |-> "pending", tenant |-> Home,
                                    email |-> e, role |-> role]
                     ELSE NoInvite]
  BY DEF Init
<1>3. \A j \in Invites : /\ invite[j] \in InviteRow
                         /\ invite[j].status # "none" => invite[j].tenant \in Tenants
  BY <1>2 DEF InviteRow, NoInvite, Invitable
<1>4. TypeOK
  BY <1>1, <1>2, <1>3, EmptyType DEF Init, TypeOK, Statuses
<1>5. \A r \in Requests : Aimed(r) /\ Fresh(r)
  BY ReviewOps DEF Init, Idle, Asked, Aimed, Fresh
<1>6. PendingCapKept
  <2>1. Pending = {}
    BY DEF Init, Pending
  <2>. QED  BY <2>1, FS_EmptySet DEF PendingCapKept
<1>. QED  BY <1>3, <1>4, <1>5, <1>6 DEF IInv

Others ==
    \/ \E r \in Requests :
          \/ EmailRefused(r)
          \/ \E t \in Tenants : CreateTenant(r, t)
          \/ \E p \in People : SetSSO(r, p)
    \/ \E i \in Invites : InviteExpires(i)

LEMMA NextSplit ==
    Next => \/ \E r \in Requests :
                  \/ Asks(r)
                  \/ CommitRole(r) \/ CommitRemove(r)
                  \/ (\E i \in Invites : CommitInvite(r, i)) \/ CommitRevoke(r)
                  \/ CommitProfile(r)
                  \/ \E p \in People : \/ CommitAccept(r, p)
                                       \/ CommitAppoint(r, p)
                                       \/ CommitCallback(r, p)
                  \/ \E t \in Tenants, p \in People : CommitSignup(r, t, p)
                  \/ CommitReview(r)
            \/ Others
<1>. SUFFICES ASSUME NEW r \in Requests, ~Asks(r), ~Others,
                     TeamNext(r) \/ InviteNext(r) \/ AccountNext(r) \/ SSONext(r)
              PROVE  \/ CommitRole(r) \/ CommitRemove(r)
                     \/ (\E i \in Invites : CommitInvite(r, i)) \/ CommitRevoke(r)
                     \/ CommitProfile(r)
                     \/ \E p \in People : \/ CommitAccept(r, p)
                                          \/ CommitAppoint(r, p)
                                          \/ CommitCallback(r, p)
                     \/ \E t \in Tenants, p \in People : CommitSignup(r, t, p)
                     \/ CommitReview(r)
  BY DEF Next, Others
<1>1. CASE TeamNext(r)
  BY <1>1 DEF TeamNext, Asks
<1>2. CASE InviteNext(r)
  BY <1>2 DEF InviteNext, Asks
<1>3. CASE AccountNext(r)
  BY <1>3 DEF AccountNext, Asks, Others
<1>4. CASE SSONext(r)
  BY <1>4 DEF SSONext, Asks, Others
<1>. QED  BY <1>1, <1>2, <1>3, <1>4

LEMMA StepKeeps ==
    ASSUME IInv, [Next]_vars
    PROVE  IInv'
<1>1. CASE Next
  <2>1. CASE \E r \in Requests : Asks(r)
    BY <2>1, AskKeeps
  <2>2. CASE \E r \in Requests : CommitRole(r) \/ CommitRemove(r)
    BY <2>2, TeamKeeps
  <2>3. CASE \E r \in Requests : \/ \E i \in Invites : CommitInvite(r, i)
                                 \/ CommitRevoke(r)
    BY <2>3, InviteKeeps
  <2>4. CASE \E r \in Requests : CommitProfile(r)
    BY <2>4, ProfileKeeps
  <2>5. CASE \E r \in Requests, p \in People : \/ CommitAccept(r, p)
                                               \/ CommitAppoint(r, p)
                                               \/ CommitCallback(r, p)
    BY <2>5, JoinKeeps
  <2>6. CASE \E r \in Requests, t \in Tenants, p \in People : CommitSignup(r, t, p)
    BY <2>6, SignupKeeps
  <2>7. CASE \E r \in Requests : CommitReview(r)
    BY <2>7, ReviewKeeps
  <2>8. CASE Others
    BY <2>8, OtherKeeps DEF Others
  <2>. QED  BY <1>1, <2>1, <2>2, <2>3, <2>4, <2>5, <2>6, <2>7, <2>8, NextSplit
<1>2. CASE UNCHANGED vars
  <2>1. UNCHANGED <<tenant, account, invite, sso, request, late, races>>
    BY <1>2 DEF vars, stored
  <2>2. TypeOK' /\ Pending' = Pending
    BY <2>1 DEF IInv, TypeOK, Pending
  <2>. QED  BY <2>1, <2>2, QuietKeeps DEF IInv
<1>. QED  BY <1>1, <1>2

THEOREM Invariance == Spec => []IInv
  BY InitEstablishes, StepKeeps, PTL DEF Spec

\* Type correctness of the tenants, accounts, invites and requests.
THEOREM TypeCorrect == Spec => []TypeOK
<1>1. IInv => TypeOK
  BY DEF IInv
<1>. QED  BY Invariance, <1>1, PTL

\* The cap on tenants waiting for review (api_signup), for any number of
\* tenants, people and requests.
THEOREM CapHolds == Spec => []PendingCapKept
<1>1. IInv => PendingCapKept
  BY DEF IInv
<1>. QED  BY Invariance, <1>1, PTL

-----------------------------------------------------------------------------
(***************************************************************************)
(* Invites.  A request on invites that no commit has made late still finds *)
(* open the invites it read, and no invite but those for the address; so,  *)
(* while no such request has committed late, an invite is accepted by the  *)
(* one account that names it.                                              *)
(***************************************************************************)
InviteOps == {"invite", "revoke", "accept"}
Joined(i) == {p \in People : account[p].via = i}

OpenToIt(r) ==
    /\ request[r].op \in {"revoke", "accept"} => Open(request[r].on)
    /\ request[r].op = "invite" =>
          /\ \A i \in request[r].prior : Open(i)
          /\ Outstanding(request[r].on, request[r].email) \subseteq request[r].prior

JoinedByOne ==
    races \cap InviteOps = {} =>
       \A i \in Invites :
          /\ invite[i].status = "accepted" => \E p \in People : Joined(i) = {p}
          /\ invite[i].status # "accepted" => Joined(i) = {}

OneIsOpen ==
    "invite" \notin races =>
       \A t \in Tenants, e \in Emails :
          \A i, j \in Outstanding(t, e) : i = j

InviteInv ==
    /\ \A p \in People : account[p].via \in Invites => Exists(p)
    /\ \A r \in Requests \ late : OpenToIt(r)
    /\ JoinedByOne
    /\ OneIsOpen

\* A step that opens and accepts no invite, and lets nobody join by one.
LEMMA QuietInvites ==
    ASSUME IInv, InviteInv, TypeOK',
           \A q \in Requests \ late' : \/ request'[q] = Over
                                       \/ q \notin late /\ request'[q] = request[q],
           races \subseteq races',
           \A i \in Invites : /\ Open(i)' <=> Open(i)
                              /\ invite'[i].tenant = invite[i].tenant
                              /\ invite'[i].email = invite[i].email
                              /\ invite'[i].status = "accepted" <=> invite[i].status = "accepted",
           \A p \in People : \/ account'[p].via = account[p].via
                             \/ ~Exists(p) /\ account'[p].via \notin Invites,
           \A p \in People : Exists(p) => Exists(p)'
    PROVE  InviteInv'
<1>1. \A p \in People : account'[p].via \in Invites => Exists(p)'
  BY DEF InviteInv
<1>2. \A t, e : Outstanding(t, e)' = Outstanding(t, e)
  BY DEF Outstanding
<1>3. ASSUME NEW q \in Requests \ late'
      PROVE  OpenToIt(q)'
  <2>1. CASE request'[q] = Over
    BY <2>1 DEF OpenToIt, Over, Asked
  <2>2. CASE q \notin late /\ request'[q] = request[q]
    <3>1. OpenToIt(q) /\ Aimed(q) /\ request[q].prior \subseteq Invites
      BY <2>2 DEF InviteInv, IInv, TypeOK, Call
    <3>. QED  BY <1>2, <2>2, <3>1 DEF OpenToIt, Aimed
  <2>. QED  BY <2>1, <2>2
<1>4. \A i \in Invites : Joined(i)' = Joined(i)
  BY DEF Joined, InviteInv
<1>5. JoinedByOne'
  BY <1>4 DEF InviteInv, JoinedByOne
<1>6. OneIsOpen'
  BY <1>2 DEF InviteInv, OneIsOpen
<1>. QED  BY <1>1, <1>3, <1>5, <1>6 DEF InviteInv

LEMMA AskInvites ==
    ASSUME IInv, InviteInv, NEW r \in Requests, Asks(r)
    PROVE  InviteInv'
<1>1. TypeOK
  BY DEF IInv
<1>2. PICK call \in Call : AskedWell(r, call)
  BY <1>1, AsksWell
<1>3. /\ UNCHANGED <<tenant, account, invite, sso, late, races>>
      /\ request' = [request EXCEPT ![r] = call]
  BY <1>2 DEF AskedWell, Ask, stored
<1>4. /\ request'[r] = call
      /\ \A q \in Requests \ {r} : request'[q] = request[q]
  BY <1>1, <1>3 DEF TypeOK
<1>5. ASSUME NEW q \in Requests \ late'
      PROVE  OpenToIt(q)'
  <2>1. CASE q = r
    BY <1>2, <1>3, <1>4, <2>1 DEF AskedWell, OpenToIt, Open, Outstanding
  <2>2. CASE q # r
    BY <1>3, <1>4, <2>2 DEF InviteInv, OpenToIt, Open, Outstanding
  <2>. QED  BY <2>1, <2>2
<1>6. /\ (\A p \in People : account[p].via \in Invites => Exists(p))'
      /\ JoinedByOne' /\ OneIsOpen'
  BY <1>3 DEF InviteInv, Exists, JoinedByOne, Joined, OneIsOpen, Outstanding, Open
<1>. QED  BY <1>5, <1>6 DEF InviteInv

\* The end of an operation on invites leaves no other such request in time.
LEMMA InviteOpEnds ==
    ASSUME IInv, InviteInv, NEW r \in Requests, request[r].op \in InviteOps, Ends(r)
    PROVE  /\ \A q \in Requests \ late' : OpenToIt(q)'
           /\ races \subseteq races'
           /\ races' \cap InviteOps = {} => r \notin late /\ races \cap InviteOps = {}
           /\ request[r].op \notin races' => r \notin late
<1>1. TypeOK /\ request[r].op \in Ops
  BY DEF IInv, InviteOps, Ops
<1>2. ASSUME NEW q \in Requests \ late'
      PROVE  OpenToIt(q)'
  <2>1. CASE q = r
    BY <1>1, <2>1, EndsEffect DEF OpenToIt, Over, Asked
  <2>2. CASE q # r
    <3>1. request'[q] = request[q] /\ request[q].op \notin InviteOps
      BY <1>1, <2>2, EndsEffect, DisturbsFacts DEF InviteOps
    <3>. QED  BY <3>1 DEF OpenToIt, InviteOps
  <2>. QED  BY <2>1, <2>2
<1>. QED  BY <1>1, <1>2, EndsEffect

LEMMA RevokeInvites ==
    ASSUME IInv, InviteInv, NEW r \in Requests, CommitRevoke(r)
    PROVE  InviteInv'
<1>1. /\ TypeOK /\ Aimed(r) /\ Ends(r)
      /\ request[r].op \in InviteOps
      /\ UNCHANGED account
      /\ invite' = [invite EXCEPT ![request[r].on].status = "revoked"]
  BY DEF IInv, CommitRevoke, InviteOps
<1>. DEFINE k == request[r].on
<1>2. k \in Invites /\ (r \notin late => Open(k))
  BY <1>1 DEF CommitRevoke, Aimed, InviteInv, OpenToIt
<1>3. /\ \A i \in Invites \ {k} : invite'[i] = invite[i]
      /\ invite'[k].status = "revoked"
  BY <1>1, <1>2 DEF TypeOK, InviteRow
<1>4. \A t, e : Outstanding(t, e)' \subseteq Outstanding(t, e)
  BY <1>3 DEF Outstanding, Open
<1>5. \A i : Joined(i)' = Joined(i)
  BY <1>1 DEF Joined
<1>6. JoinedByOne'
  <2>. SUFFICES ASSUME races' \cap InviteOps = {}, NEW i \in Invites
                PROVE  /\ invite'[i].status = "accepted" => \E p \in People : Joined(i) = {p}
                       /\ invite'[i].status # "accepted" => Joined(i) = {}
    BY <1>5 DEF JoinedByOne
  <2>1. Open(k) /\ races \cap InviteOps = {}
    BY <1>1, <1>2, InviteOpEnds
  <2>2. invite'[i].status = "accepted" <=> invite[i].status = "accepted"
    BY <1>3, <2>1 DEF Open
  <2>. QED  BY <2>1, <2>2 DEF InviteInv, JoinedByOne
<1>7. OneIsOpen'
  BY <1>1, <1>4, InviteOpEnds DEF InviteInv, OneIsOpen
<1>8. (\A p \in People : account[p].via \in Invites => Exists(p))'
  BY <1>1 DEF InviteInv, Exists
<1>. QED  BY <1>1, <1>6, <1>7, <1>8, InviteOpEnds DEF InviteInv

LEMMA CreateInvites ==
    ASSUME IInv, InviteInv, NEW r \in Requests, NEW k \in Invites, CommitInvite(r, k)
    PROVE  InviteInv'
<1>1. /\ TypeOK /\ Ends(r)
      /\ request[r].op \in InviteOps
      /\ request[r].op = "invite"
      /\ UNCHANGED account
      /\ invite[k].status = "none"
      /\ request[r].prior \subseteq Invites
  BY DEF IInv, CommitInvite, InviteOps, TypeOK, Call
<1>. DEFINE t == request[r].on
            e == request[r].email
<1>2. r \notin late => /\ \A i \in request[r].prior : Open(i)
                       /\ Outstanding(t, e) \subseteq request[r].prior
  BY <1>1 DEF InviteInv, OpenToIt
<1>3. /\ invite'[k].status = "pending" /\ invite'[k].tenant = t /\ invite'[k].email = e
      /\ \A i \in request[r].prior \ {k} : invite'[i].status = "revoked"
      /\ \A i \in Invites \ (request[r].prior \cup {k}) : invite'[i] = invite[i]
  BY <1>1 DEF CommitInvite, TypeOK, InviteRow
<1>4. \A i : Joined(i)' = Joined(i)
  BY <1>1 DEF Joined
<1>5. JoinedByOne'
  <2>. SUFFICES ASSUME races' \cap InviteOps = {}, NEW i \in Invites
                PROVE  /\ invite'[i].status = "accepted" => \E p \in People : Joined(i) = {p}
                       /\ invite'[i].status # "accepted" => Joined(i) = {}
    BY <1>4 DEF JoinedByOne
  <2>1. (\A j \in request[r].prior : Open(j)) /\ races \cap InviteOps = {}
    BY <1>1, <1>2, InviteOpEnds
  <2>2. invite'[i].status = "accepted" <=> invite[i].status = "accepted"
    BY <1>1, <1>3, <2>1 DEF Open
  <2>. QED  BY <2>1, <2>2 DEF InviteInv, JoinedByOne
<1>6. OneIsOpen'
  <2>. SUFFICES ASSUME "invite" \notin races', NEW u \in Tenants, NEW f \in Emails,
                       NEW i \in Outstanding(u, f)', NEW j \in Outstanding(u, f)'
                PROVE  i = j
    BY DEF OneIsOpen
  <2>1. r \notin late /\ "invite" \notin races
    BY <1>1, InviteOpEnds
  <2>2. ASSUME NEW h \in Outstanding(u, f)', h # k
        PROVE  h \in Outstanding(u, f) /\ h \notin request[r].prior
    BY <1>3, <2>2 DEF Outstanding, Open
  <2>3. k \in Outstanding(u, f)' => u = t /\ f = e
    BY <1>3 DEF Outstanding
  <2>4. k \in Outstanding(u, f)' => Outstanding(u, f)' \subseteq {k}
    BY <1>2, <2>1, <2>2, <2>3
  <2>. QED  BY <2>1, <2>2, <2>4 DEF InviteInv, OneIsOpen
<1>7. (\A p \in People : account[p].via \in Invites => Exists(p))'
  BY <1>1 DEF InviteInv, Exists
<1>. QED  BY <1>1, <1>5, <1>6, <1>7, InviteOpEnds DEF InviteInv

LEMMA AcceptInvites ==
    ASSUME IInv, InviteInv, NEW r \in Requests, NEW p \in People, CommitAccept(r, p)
    PROVE  InviteInv'
<1>0. /\ TypeOK /\ Aimed(r)
      /\ request[r].op \in InviteOps
      /\ request[r].on \in Invites
  BY DEF IInv, CommitAccept, InviteOps, Aimed
<1>. PICK k \in Invites : k = request[r].on
  BY <1>0
<1>1. /\ Ends(r)
      /\ invite' = [invite EXCEPT ![k].status = "accepted"]
      /\ Joins(p, invite[k].tenant, request[r].email, request[r].role, k)
  BY DEF CommitAccept
<1>2. invite[k].tenant \in Tenants /\ (r \notin late => Open(k))
  BY <1>0 DEF CommitAccept, Aimed, InviteInv, OpenToIt, IInv
<1>3. /\ \A i \in Invites \ {k} : invite'[i] = invite[i]
      /\ invite'[k].status = "accepted"
  BY <1>0, <1>1 DEF TypeOK, InviteRow
<1>4. /\ ~Exists(p) /\ account[p].via \notin Invites
      /\ \A q \in People \ {p} : account'[q] = account[q]
      /\ account'[p].via = k /\ account'[p].tenant # None
  BY <1>0, <1>1, <1>2 DEF Joins, TypeOK, InviteInv
<1>5. /\ \A i \in Invites \ {k} : Joined(i)' = Joined(i)
      /\ Joined(k)' = Joined(k) \cup {p}
  BY <1>4 DEF Joined
<1>6. JoinedByOne'
  <2>. SUFFICES ASSUME races' \cap InviteOps = {}
                PROVE  \A i \in Invites :
                          /\ (invite[i].status = "accepted")' => \E q \in People : Joined(i)' = {q}
                          /\ (invite[i].status # "accepted")' => Joined(i)' = {}
    BY DEF JoinedByOne
  <2>1. Open(k) /\ races \cap InviteOps = {}
    BY <1>0, <1>1, <1>2, InviteOpEnds
  <2>2. \A i \in Invites :
           /\ invite[i].status = "accepted" => \E q \in People : Joined(i) = {q}
           /\ invite[i].status # "accepted" => Joined(i) = {}
    BY <2>1 DEF InviteInv, JoinedByOne
  <2>3. Joined(k)' = {p}
    BY <1>2, <1>5, <2>1, <2>2 DEF Open
  <2>. QED  BY <1>3, <1>5, <2>2, <2>3
<1>7. OneIsOpen'
  <2>1. \A t, e : Outstanding(t, e)' \subseteq Outstanding(t, e)
    BY <1>3 DEF Outstanding, Open
  <2>. QED  BY <1>0, <1>1, <2>1, InviteOpEnds DEF InviteInv, OneIsOpen
<1>8. (\A q \in People : account[q].via \in Invites => Exists(q))'
  BY <1>4 DEF InviteInv, Exists
<1>. QED  BY <1>0, <1>1, <1>6, <1>7, <1>8, InviteOpEnds DEF InviteInv

\* The other commits write no invite, and whoever joins by them joins
\* otherwise.
LEMMA OtherCommitInvites ==
    ASSUME IInv, InviteInv, IInv', NEW r \in Requests,
           \/ CommitRole(r) \/ CommitRemove(r) \/ CommitProfile(r) \/ CommitReview(r)
           \/ \E p \in People : CommitAppoint(r, p) \/ CommitCallback(r, p)
           \/ \E t \in Tenants, p \in People : CommitSignup(r, t, p)
    PROVE  InviteInv'
<1>1. TypeOK /\ TypeOK' /\ Aimed(r)
  BY DEF IInv
<1>2. Ends(r) /\ UNCHANGED invite
  BY DEF CommitRole, CommitRemove, CommitProfile, CommitReview, CommitAppoint,
         CommitCallback, CommitSignup
<1>3. request[r].op \in Ops
  BY DEF CommitRole, CommitRemove, CommitProfile, CommitReview, CommitAppoint,
         CommitCallback, CommitSignup, Ops
<1>4. /\ \A q \in Requests \ late' : \/ request'[q] = Over
                                     \/ q \notin late /\ request'[q] = request[q]
      /\ races \subseteq races'
  BY <1>1, <1>2, <1>3, EndsEffect
<1>5. \A i \in Invites : /\ Open(i)' <=> Open(i)
                         /\ invite'[i].tenant = invite[i].tenant
                         /\ invite'[i].email = invite[i].email
                         /\ invite'[i].status = "accepted" <=> invite[i].status = "accepted"
  BY <1>2 DEF Open
<1>6. /\ \A p \in People : \/ account'[p].via = account[p].via
                           \/ ~Exists(p) /\ account'[p].via \notin Invites
      /\ \A p \in People : Exists(p) => Exists(p)'
  <2>1. CASE CommitRole(r) \/ CommitRemove(r) \/ CommitProfile(r)
    <3>1. \A p \in People : account'[p].via = account[p].via
                            /\ account'[p].tenant = account[p].tenant
      BY <1>1, <2>1 DEF CommitRole, CommitRemove, CommitProfile, TypeOK, Account
    <3>. QED  BY <3>1 DEF Exists
  <2>2. CASE CommitReview(r)
    BY <2>2 DEF CommitReview, Exists
  <2>3. ASSUME NEW p \in People, NEW t \in Tenants, NEW e, NEW role,
               NEW via \in {"staff", "sso", "signup"}, Joins(p, t, e, role, via)
        PROVE  /\ \A q \in People : \/ account'[q].via = account[q].via
                                    \/ ~Exists(q) /\ account'[q].via \notin Invites
               /\ \A q \in People : Exists(q) => Exists(q)'
    <3>1. /\ \A q \in People \ {p} : account'[q] = account[q]
          /\ account'[p].via = via /\ ~Exists(p)
      BY <1>1, <2>3 DEF Joins, TypeOK
    <3>2. via \notin Invites
      OBVIOUS
    <3>. QED  BY <3>1, <3>2 DEF Exists
  <2>4. ASSUME NEW p \in People, CommitAppoint(r, p)
        PROVE  /\ \A q \in People : \/ account'[q].via = account[q].via
                                    \/ ~Exists(q) /\ account'[q].via \notin Invites
               /\ \A q \in People : Exists(q) => Exists(q)'
    BY <1>1, <2>3, <2>4 DEF CommitAppoint, Aimed
  <2>5. ASSUME NEW p \in People, CommitCallback(r, p)
        PROVE  /\ \A q \in People : \/ account'[q].via = account[q].via
                                    \/ ~Exists(q) /\ account'[q].via \notin Invites
               /\ \A q \in People : Exists(q) => Exists(q)'
    BY <1>1, <2>3, <2>5 DEF CommitCallback, Aimed
  <2>6. ASSUME NEW t \in Tenants, NEW p \in People, CommitSignup(r, t, p)
        PROVE  /\ \A q \in People : \/ account'[q].via = account[q].via
                                    \/ ~Exists(q) /\ account'[q].via \notin Invites
               /\ \A q \in People : Exists(q) => Exists(q)'
    BY <2>3, <2>6 DEF CommitSignup
  <2>. QED  BY <2>1, <2>2, <2>4, <2>5, <2>6
<1>. QED  BY <1>1, <1>4, <1>5, <1>6, QuietInvites

LEMMA OtherInvites ==
    ASSUME IInv, InviteInv, IInv', Others
    PROVE  InviteInv'
<1>1. TypeOK /\ TypeOK'
  BY DEF IInv
<1>2. UNCHANGED account
  BY OtherKeeps DEF Others
<1>3. /\ \A q \in Requests \ late' : \/ request'[q] = Over
                                     \/ q \notin late /\ request'[q] = request[q]
      /\ races \subseteq races'
  <2>1. CASE \E r \in Requests : EmailRefused(r)
    BY <1>1, <2>1 DEF EmailRefused, TypeOK
  <2>2. CASE \E r \in Requests, t \in Tenants : CreateTenant(r, t)
    BY <1>1, <2>2 DEF CreateTenant, TypeOK
  <2>3. CASE \E r \in Requests, p \in People : SetSSO(r, p)
    BY <1>1, <2>3 DEF SetSSO, TypeOK
  <2>4. CASE \E i \in Invites : InviteExpires(i)
    BY <2>4 DEF InviteExpires
  <2>. QED  BY <2>1, <2>2, <2>3, <2>4 DEF Others
<1>4. \A i \in Invites : /\ Open(i)' <=> Open(i)
                         /\ invite'[i].tenant = invite[i].tenant
                         /\ invite'[i].email = invite[i].email
                         /\ invite'[i].status = "accepted" <=> invite[i].status = "accepted"
  <2>1. CASE UNCHANGED invite
    BY <2>1 DEF Open
  <2>2. ASSUME NEW k \in Invites, InviteExpires(k)
        PROVE  \A i \in Invites :
                  /\ Open(i)' <=> Open(i)
                  /\ invite'[i].tenant = invite[i].tenant
                  /\ invite'[i].email = invite[i].email
                  /\ invite'[i].status = "accepted" <=> invite[i].status = "accepted"
    <3>1. /\ \A i \in Invites \ {k} : invite'[i] = invite[i]
          /\ invite[k].status = "pending" /\ invite'[k].status = "expired"
          /\ invite'[k].tenant = invite[k].tenant /\ invite'[k].email = invite[k].email
      BY <1>1, <2>2 DEF InviteExpires, TypeOK, InviteRow
    <3>. QED  BY <3>1 DEF Open
  <2>. QED  BY <2>1, <2>2 DEF Others, EmailRefused, CreateTenant, SetSSO, stored
<1>5. \A p \in People : Exists(p) => Exists(p)'
  BY <1>2 DEF Exists
<1>. QED  BY <1>1, <1>2, <1>3, <1>4, <1>5, QuietInvites

LEMMA InviteInit == Init => InviteInv
<1>. SUFFICES ASSUME Init PROVE InviteInv
  OBVIOUS
<1>1. PICK k \in Invites \cup {None}, e \in Emails, role \in Invitable :
        invite = [j \in Invites |->
                     IF j = k THEN [status |-> "pending", tenant |-> Home,
                                    email |-> e, role |-> role]
                     ELSE NoInvite]
  BY DEF Init
<1>2. \A p \in People : account[p].via = "start"
  BY DEF Init, NoAccount
<1>3. \A i \in Invites : Joined(i) = {} /\ invite[i].status # "accepted"
  BY <1>1, <1>2 DEF Joined, NoInvite
<1>4. \A i \in Invites : Open(i) => i = k
  BY <1>1 DEF Open, NoInvite
<1>5. \A r \in Requests : OpenToIt(r)
  BY DEF Init, OpenToIt, Idle, Asked
<1>. QED  BY <1>2, <1>3, <1>4, <1>5 DEF InviteInv, JoinedByOne, OneIsOpen, Outstanding

LEMMA InviteSteps ==
    ASSUME IInv, InviteInv, [Next]_vars
    PROVE  InviteInv'
<1>0. IInv'
  BY StepKeeps
<1>1. CASE Next
  <2>1. CASE \E r \in Requests : Asks(r)
    BY <2>1, AskInvites
  <2>2. CASE \E r \in Requests, i \in Invites : CommitInvite(r, i)
    BY <2>2, CreateInvites
  <2>3. CASE \E r \in Requests : CommitRevoke(r)
    BY <2>3, RevokeInvites
  <2>4. CASE \E r \in Requests, p \in People : CommitAccept(r, p)
    BY <2>4, AcceptInvites
  <2>5. ASSUME NEW r \in Requests,
               \/ CommitRole(r) \/ CommitRemove(r) \/ CommitProfile(r) \/ CommitReview(r)
               \/ \E p \in People : CommitAppoint(r, p) \/ CommitCallback(r, p)
               \/ \E t \in Tenants, p \in People : CommitSignup(r, t, p)
        PROVE  InviteInv'
    BY <1>0, <2>5, OtherCommitInvites
  <2>6. CASE Others
    BY <1>0, <2>6, OtherInvites
  <2>. QED  BY <1>1, <2>1, <2>2, <2>3, <2>4, <2>5, <2>6, NextSplit
<1>2. CASE UNCHANGED vars
  BY <1>2 DEF vars, stored, InviteInv, Exists, OpenToIt, Open, Outstanding, JoinedByOne,
              Joined, OneIsOpen
<1>. QED  BY <1>1, <1>2

THEOREM InviteInvariance == Spec => []InviteInv
  BY Invariance, InviteInit, InviteSteps, PTL DEF Spec

\* Single use of an invite (accept_invite, revoke_invite, create_invite), for
\* any number of invites, people and overlapping requests.
THEOREM InvitesJoinOne == Spec => []InviteJoinsOne
<1>1. ASSUME InviteInv, races \cap InviteOps = {}, NEW i \in Invites
      PROVE  Cardinality(Joined(i)) = IF invite[i].status = "accepted" THEN 1 ELSE 0
  <2>1. CASE invite[i].status = "accepted"
    <3>1. PICK p \in People : Joined(i) = {p}
      BY <1>1, <2>1 DEF InviteInv, JoinedByOne
    <3>2. Cardinality({p}) = 1
      BY FS_Singleton
    <3>. QED  BY <2>1, <3>1, <3>2
  <2>2. CASE invite[i].status # "accepted"
    BY <1>1, <2>2, FS_EmptySet DEF InviteInv, JoinedByOne
  <2>. QED  BY <2>1, <2>2
<1>2. InviteInv => InviteJoinsOne
  BY <1>1 DEF InviteJoinsOne, InviteOps, Joined
<1>. QED  BY InviteInvariance, <1>2, PTL

\* The deduplication of create_invite, on the condition that no two creations
\* overlapped.
THEOREM OneInviteIsOpen == Spec => []OneOutstandingInvite
<1>1. ASSUME InviteInv, "invite" \notin races, NEW t \in Tenants, NEW e \in Emails
      PROVE  Cardinality(Outstanding(t, e)) <= 1
  <2>1. CASE Outstanding(t, e) = {}
    BY <2>1, FS_EmptySet
  <2>2. ASSUME NEW i \in Outstanding(t, e)
        PROVE  Cardinality(Outstanding(t, e)) <= 1
    <3>1. Outstanding(t, e) = {i}
      BY <1>1, <2>2 DEF InviteInv, OneIsOpen
    <3>2. Cardinality(Outstanding(t, e)) = 1
      BY <3>1, FS_Singleton
    <3>. QED  BY <3>2
  <2>. QED  BY <2>1, <2>2
<1>2. InviteInv => OneOutstandingInvite
  BY <1>1 DEF OneOutstandingInvite
<1>. QED  BY InviteInvariance, <1>2, PTL

-----------------------------------------------------------------------------
(***************************************************************************)
(* What no step does.                                                      *)
(***************************************************************************)
KeepsAnOwnerStep ==
    \A t \in Tenants :
       ActiveOwners(t) # {} => \/ ActiveOwners(t)' # {}
                               \/ races' \cap {"role", "remove"} # {}
RejectsStep ==
    \A t \in Tenants :
       tenant'[t] = "rejected" => \/ tenant[t] \in {"pending", "rejected"}
                                  \/ "reject" \in races'
SsoStep ==
    \A p \in People :
       account'[p].via = "sso" /\ account[p].via # "sso"
          => \/ /\ account'[p].tenant \in sso
                /\ tenant[account'[p].tenant] = "active"
             \/ "callback" \in races'

\* A team commit that read what is still true leaves another owner.
LEMMA TeamSteps ==
    ASSUME IInv, NEW r \in Requests, CommitRole(r) \/ CommitRemove(r)
    PROVE  KeepsAnOwnerStep
<1>1. TypeOK /\ Aimed(r)
  BY DEF IInv
<1>2. /\ Ends(r)
      /\ request[r].op \in {"role", "remove"}
      /\ request[r].op \in Ops
      /\ request[r].on \in People
  BY <1>1 DEF CommitRole, CommitRemove, Ops, Aimed
<1>. DEFINE m == request[r].on
<1>3. \A q \in People \ {m} : account'[q] = account[q]
  BY <1>1 DEF CommitRole, CommitRemove, TypeOK
<1>4. CASE r \in late
  BY <1>1, <1>2, <1>4, EndsEffect DEF KeepsAnOwnerStep
<1>5. CASE r \notin late
  <2>1. Spared(m)
    BY <1>2, <1>5 DEF IInv, Fresh
  <2>2. ASSUME NEW t \in Tenants, ActiveOwners(t) # {}
        PROVE  ActiveOwners(t)' # {}
    <3>1. \E q \in ActiveOwners(t) : q # m
      <4>1. CASE m \notin ActiveOwners(t)
        BY <2>2, <4>1
      <4>2. CASE m \in ActiveOwners(t)
        <5>1. Cardinality(ActiveOwners(t)) > 1
          <6>1. account[m].tenant = t /\ account[m].role = "owner"
            BY <4>2 DEF ActiveOwners
          <6>. QED  BY <2>1, <6>1 DEF Spared
        <5>2. Cardinality({m}) = 1
          BY FS_Singleton
        <5>3. ActiveOwners(t) # {m}
          <6>1. SUFFICES ASSUME ActiveOwners(t) = {m} PROVE FALSE
            OBVIOUS
          <6>2. Cardinality(ActiveOwners(t)) = 1
            BY <5>2, <6>1, Zenon
          <6>. QED  BY <5>1, <6>2
        <5>. QED  BY <4>2, <5>3
      <4>. QED  BY <4>1, <4>2
    <3>2. PICK q \in ActiveOwners(t) : q # m
      BY <3>1
    <3>3. q \in People /\ account'[q] = account[q]
      BY <1>3, <3>2 DEF ActiveOwners
    <3>4. q \in ActiveOwners(t)'
      BY <3>2, <3>3 DEF ActiveOwners
    <3>. QED  BY <3>4
  <2>. QED  BY <2>2 DEF KeepsAnOwnerStep
<1>. QED  BY <1>4, <1>5

\* Steps that leave every account as it was, or only add some.
LEMMA GrowingSteps ==
    ASSUME \A t \in Tenants : ActiveOwners(t) \subseteq ActiveOwners(t)'
    PROVE  KeepsAnOwnerStep
  BY DEF KeepsAnOwnerStep

LEMMA OwnerSteps ==
    ASSUME IInv, [Next]_vars
    PROVE  KeepsAnOwnerStep
<1>1. TypeOK
  BY DEF IInv
<1>2. ASSUME UNCHANGED account
      PROVE  KeepsAnOwnerStep
  <2>1. \A t \in Tenants : ActiveOwners(t)' = ActiveOwners(t)
    BY <1>2 DEF ActiveOwners
  <2>. QED  BY <2>1, GrowingSteps
<1>3. CASE Next
  <2>1. CASE \E r \in Requests : Asks(r)
    <3>1. UNCHANGED account
      BY <1>1, <2>1, AsksWell DEF AskedWell, Ask, stored
    <3>. QED  BY <1>2, <3>1
  <2>2. CASE \E r \in Requests : CommitRole(r) \/ CommitRemove(r)
    BY <2>2, TeamSteps
  <2>3. CASE \E r \in Requests : \/ \E i \in Invites : CommitInvite(r, i)
                                 \/ CommitRevoke(r)
                                 \/ CommitReview(r)
    BY <1>2, <2>3 DEF CommitInvite, CommitRevoke, CommitReview
  <2>4. ASSUME NEW r \in Requests, CommitProfile(r)
        PROVE  KeepsAnOwnerStep
    <3>1. Aimed(r) /\ request[r].on \in People
      BY <2>4 DEF IInv, Aimed, CommitProfile
    <3>2. \A q \in People : account[q] \in Account
      BY <1>1 DEF TypeOK
    <3>3. \A q \in People : /\ account'[q].tenant = account[q].tenant
                            /\ account'[q].role = account[q].role
                            /\ account'[q].active = account[q].active
      BY <1>1, <2>4, <3>1, <3>2 DEF CommitProfile, TypeOK, Account
    <3>4. \A t \in Tenants : ActiveOwners(t) \subseteq ActiveOwners(t)'
      BY <1>1, <3>3, KeptRows
    <3>. QED  BY <3>4, GrowingSteps
  <2>5. CASE \E r \in Requests, p \in People : \/ CommitAccept(r, p)
                                               \/ CommitAppoint(r, p)
                                               \/ CommitCallback(r, p)
    BY <2>5, JoinKeeps, GrowingSteps
  <2>6. CASE \E r \in Requests, t \in Tenants, p \in People : CommitSignup(r, t, p)
    BY <2>6, SignupKeeps, GrowingSteps
  <2>7. CASE Others
    BY <1>2, <2>7, OtherKeeps DEF Others
  <2>. QED  BY <1>3, <2>1, <2>2, <2>3, <2>4, <2>5, <2>6, <2>7, NextSplit
<1>4. CASE UNCHANGED vars
  BY <1>2, <1>4 DEF vars, stored
<1>. QED  BY <1>3, <1>4

\* A tenant keeps an active owner (change_role, remove_member), whatever the
\* number of owners and requests, unless two of those requests overlap.
THEOREM OwnersKept == Spec => KeepsAnOwner
<1>1. IInv /\ [Next]_vars => [KeepsAnOwnerStep]_vars
  BY OwnerSteps
<1>2. [][KeepsAnOwnerStep]_vars => KeepsAnOwner
  BY PTL DEF KeepsAnOwner, KeepsAnOwnerStep
<1>. QED  BY Invariance, <1>1, <1>2, PTL DEF Spec

LEMMA RejectSteps ==
    ASSUME IInv, [Next]_vars
    PROVE  RejectsStep
<1>1. TypeOK
  BY DEF IInv
<1>2. ASSUME NEW r \in Requests, CommitReview(r)
      PROVE  RejectsStep
  <2>1. /\ Ends(r)
        /\ request[r].op \in Reviews
        /\ request[r].op \in Ops
        /\ request[r].on \in Tenants
        /\ tenant' = [tenant EXCEPT ![request[r].on] = Review[request[r].op].to]
    BY <1>2 DEF CommitReview, Ops, IInv, Aimed
  <2>2. CASE request[r].op # "reject"
    BY <1>1, <2>1, <2>2, ReviewOps DEF RejectsStep, TypeOK
  <2>3. CASE request[r].op = "reject" /\ r \in late
    BY <1>1, <2>1, <2>3, EndsEffect DEF RejectsStep
  <2>4. CASE request[r].op = "reject" /\ r \notin late
    BY <1>1, <2>1, <2>4 DEF RejectsStep, TypeOK, IInv, Fresh
  <2>. QED  BY <2>2, <2>3, <2>4
<1>3. ASSUME NEW r \in Requests, NEW t \in Tenants,
             CreateTenant(r, t) \/ \E p \in People : CommitSignup(r, t, p)
      PROVE  RejectsStep
  BY <1>1, <1>3 DEF RejectsStep, CreateTenant, CommitSignup, TypeOK
<1>4. ASSUME UNCHANGED tenant
      PROVE  RejectsStep
  BY <1>4 DEF RejectsStep
<1>5. CASE Next
  <2>1. CASE \E r \in Requests : Asks(r)
    <3>1. UNCHANGED tenant
      BY <1>1, <2>1, AsksWell DEF AskedWell, Ask, stored
    <3>. QED  BY <1>4, <3>1
  <2>2. CASE \E r \in Requests : \/ CommitRole(r) \/ CommitRemove(r)
                                 \/ (\E i \in Invites : CommitInvite(r, i))
                                 \/ CommitRevoke(r) \/ CommitProfile(r)
                                 \/ \E p \in People : \/ CommitAccept(r, p)
                                                      \/ CommitAppoint(r, p)
                                                      \/ CommitCallback(r, p)
    BY <1>4, <2>2 DEF CommitRole, CommitRemove, CommitInvite, CommitRevoke,
       CommitProfile, CommitAccept, CommitAppoint, CommitCallback
  <2>3. CASE Others
    BY <1>3, <1>4, <2>3 DEF Others, EmailRefused, stored, SetSSO, InviteExpires
  <2>. QED  BY <1>2, <1>3, <1>5, <2>1, <2>2, <2>3, NextSplit
<1>6. CASE UNCHANGED vars
  BY <1>4, <1>6 DEF vars, stored
<1>. QED  BY <1>5, <1>6

\* A tenant is rejected only out of review (api_reject_tenant), unless the
\* decision overlapped another.
THEOREM RejectsFromReview == Spec => RejectsOnlyPending
<1>1. IInv /\ [Next]_vars
        => [\A t \in Tenants :
               tenant'[t] = "rejected" => \/ tenant[t] \in {"pending", "rejected"}
                                          \/ "reject" \in races']_vars
  BY RejectSteps DEF RejectsStep
<1>. QED  BY Invariance, <1>1, PTL DEF Spec, RejectsOnlyPending

\* What an account came from never changes once it exists, and only the
\* callback of single sign-on writes "sso".
LEMMA SsoSteps ==
    ASSUME IInv, [Next]_vars
    PROVE  SsoStep
<1>1. TypeOK /\ \A p \in People : account[p] \in Account
  BY DEF IInv, TypeOK
<1>2. ASSUME \A p \in People : account'[p].via = account[p].via
      PROVE  SsoStep
  BY <1>2 DEF SsoStep
<1>3. ASSUME NEW p \in People, NEW t, NEW e, NEW role, NEW via,
             Joins(p, t, e, role, via), via # "sso"
      PROVE  SsoStep
  BY <1>1, <1>3 DEF Joins, SsoStep, TypeOK
<1>4. ASSUME NEW r \in Requests, NEW p \in People, CommitCallback(r, p)
      PROVE  SsoStep
  <2>1. /\ Ends(r)
        /\ request[r].op = "callback"
        /\ request[r].op \in Ops
        /\ Joins(p, request[r].on, request[r].email, request[r].role, "sso")
    BY <1>4 DEF CommitCallback, Ops
  <2>2. /\ account'[p].tenant = request[r].on
        /\ \A q \in People \ {p} : account'[q] = account[q]
    BY <1>1, <2>1 DEF Joins, TypeOK
  <2>3. CASE r \in late
    BY <1>1, <2>1, <2>3, EndsEffect DEF SsoStep
  <2>4. CASE r \notin late
    <3>1. request[r].on \in sso /\ tenant[request[r].on] = "active"
      BY <2>1, <2>4 DEF IInv, Fresh
    <3>. QED  BY <2>2, <3>1 DEF SsoStep
  <2>. QED  BY <2>3, <2>4
<1>5. CASE Next
  <2>1. CASE \E r \in Requests : Asks(r)
    <3>1. UNCHANGED account
      BY <1>1, <2>1, AsksWell DEF AskedWell, Ask, stored
    <3>. QED  BY <1>2, <3>1
  <2>2. ASSUME NEW r \in Requests,
               \/ CommitRole(r) \/ CommitRemove(r) \/ CommitProfile(r)
        PROVE  SsoStep
    <3>1. CASE CommitRole(r)
      BY <1>1, <1>2, <3>1 DEF CommitRole, TypeOK, Account
    <3>2. CASE CommitRemove(r)
      BY <1>1, <1>2, <3>2 DEF CommitRemove, TypeOK, Account
    <3>3. CASE CommitProfile(r)
      BY <1>1, <1>2, <3>3 DEF CommitProfile, TypeOK, Account
    <3>. QED  BY <2>2, <3>1, <3>2, <3>3
  <2>3. ASSUME NEW r \in Requests, NEW p \in People,
               CommitAppoint(r, p) \/ \E t \in Tenants : CommitSignup(r, t, p)
        PROVE  SsoStep
    BY <1>3, <2>3 DEF CommitAppoint, CommitSignup
  <2>4. ASSUME NEW r \in Requests, NEW p \in People, CommitAccept(r, p)
        PROVE  SsoStep
    <3>1. Joins(p, invite[request[r].on].tenant, request[r].email, request[r].role,
                request[r].on)
      BY <2>4 DEF CommitAccept
    <3>2. request[r].on \in Invites
      BY <2>4 DEF IInv, Aimed, CommitAccept
    <3>3. request[r].on # "sso"
      BY <3>2, AccountsAssumption
    <3>. QED  BY <1>3, <3>1, <3>3
  <2>5. CASE \E r \in Requests : \/ (\E i \in Invites : CommitInvite(r, i))
                                 \/ CommitRevoke(r)
                                 \/ CommitReview(r)
    BY <1>2, <2>5 DEF CommitInvite, CommitRevoke, CommitReview
  <2>6. CASE Others
    BY <1>2, <2>6, OtherKeeps DEF Others
  <2>. QED  BY <1>4, <1>5, <2>1, <2>2, <2>3, <2>4, <2>5, <2>6, NextSplit
<1>6. CASE UNCHANGED vars
  BY <1>2, <1>6 DEF vars, stored
<1>. QED  BY <1>5, <1>6

\* Single sign-on makes accounts only where it is enabled and the tenant is
\* active (handle_callback), unless that changed during the callback.
THEOREM SsoJoins == Spec => SsoJoinsWhenOn
<1>1. IInv /\ [Next]_vars
        => [\A p \in People :
               account'[p].via = "sso" /\ account[p].via # "sso"
                  => \/ /\ account'[p].tenant \in sso
                        /\ tenant[account'[p].tenant] = "active"
                     \/ "callback" \in races']_vars
  BY SsoSteps DEF SsoStep
<1>. QED  BY Invariance, <1>1, PTL DEF Spec, SsoJoinsWhenOn
=============================================================================
