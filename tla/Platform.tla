------------------------------ MODULE Platform ------------------------------
(***************************************************************************)
(* What the platform's operator owns: the tenants' standing, the plan that *)
(* sizes them, and what every start of the process makes of the database:  *)
(* lifespan in app/main.py, app/db/session.py, app/modules/plans,          *)
(* QuotaService.plan_allocation and ensure_bootstrap_admin.                *)
(*                                                                         *)
(* A start first brings the tables up to date, in statements that commit   *)
(* one by one, then seeds and backfills rows in one transaction, then sees *)
(* to the operator's account in another.  It may be cut anywhere.  No      *)
(* route changes a tenant's plan, so there is one plan here, "free".       *)
(***************************************************************************)
EXTENDS Naturals, Sequences, FiniteSetsExt, SequencesExt

CONSTANTS Tenants,
          Addresses,
          Offers,       \* what staff may ask the plan to be
          Share,        \* default_app_cpu_millicores
          MaxPeople,    \* bound on admin_users
          Budgets,      \* bounds <<starts, requests about people, about the plan>>
          Nobody,       \* no tenant
          NoPlan        \* no row of the plan

PlatformAssumption ==
    /\ Offers \subseteq [apps : Nat, cpu : Nat] /\ Share \in Nat \ {0}
    /\ MaxPeople \in Nat
    /\ Nobody \notin Tenants /\ NoPlan \notin [apps : Nat, cpu : Nat]
ASSUME PlatformAssumption

VARIABLES tenants,    \* rows of tenants
          slugged,    \* the tenant whose slug is "default", or Nobody
          people,     \* rows of admin_users, oldest first
          free,       \* the row of the plan
          shares,     \* for each tenant the CPU of its app rows, 0 for NULL
          column,     \* admin_users has tenant_id
          start,      \* the process
          edits,      \* updates of the plan under way
          bookings,   \* reservations of an app under way
          unlike,     \* tenants with an app row sized by an earlier plan
          cut,        \* a start was cut between the tables and the rows
          raced,      \* two updates of the plan overlapped
          left        \* of the bounds

platformVars == <<tenants, slugged, people, free, shares, column, start, edits,
                  bookings, unlike, cut, raced, left>>
plans == <<free, edits, raced>>

NoTenant == [status |-> "none", scope |-> FALSE, lapsed |-> FALSE]
TenantRow(status, scope) ==
    [status |-> status, scope |-> scope, lapsed |-> FALSE]
Person(t, e, role) == [tenant |-> t, email |-> e, role |-> role]
Seed == [apps |-> 1, cpu |-> Share]
Editors == {"a", "b"}
NoEdit == [fields |-> {}, row |-> NoPlan]
Askers == {"x", "y"}
NoBooking == [pc |-> "idle", tenant |-> Nobody, share |-> 0, old |-> FALSE]
Down == [pc |-> "down", email |-> "none", password |-> FALSE, added |-> FALSE]

Spend(i) == left[i] > 0 /\ left' = [left EXCEPT ![i] = @ - 1]

There(t) == tenants[t].status # "none"
Unmade == {t \in Tenants : ~There(t)}
Held(e) == \E i \in DOMAIN people : people[i].email = e
Admins(ps) == {i \in DOMAIN ps : ps[i].role = "platform_admin"}

\* A database nobody used, one from before there were tenants, or one from
\* before they had a status, whose tenant may have been switched off.
PlatformInit ==
    /\ slugged = Nobody /\ free = NoPlan /\ start = Down
    /\ edits = [r \in Editors |-> NoEdit] /\ bookings = [k \in Askers |-> NoBooking]
    /\ cut = FALSE /\ raced = FALSE /\ left \in Budgets
    /\ LET none == [t \in Tenants |-> NoTenant]
           empty == [t \in Tenants |-> <<>>]
       IN  \/ tenants = none /\ people = <<>> /\ shares = empty /\ unlike = {} /\ column = TRUE
           \/ \E e \in Addresses :
                /\ tenants = none /\ people = <<Person(Nobody, e, "owner")>>
                /\ shares = empty /\ unlike = {} /\ column = FALSE
           \/ \E t \in Tenants, e \in Addresses, off \in BOOLEAN :
                /\ tenants = [none EXCEPT ![t] = [TenantRow("active", FALSE)
                                                    EXCEPT !.lapsed = off]]
                /\ people = <<Person(t, e, "owner")>>
                /\ shares = [empty EXCEPT ![t] = <<0>>] /\ unlike = {t} /\ column = TRUE

(***************************************************************************)
(* A start.                                                                *)
(***************************************************************************)
StartProcess(e, password) ==
    /\ start = Down /\ Spend(1)
    /\ start' = [pc |-> "tables", email |-> e, password |-> password, added |-> FALSE]
    /\ UNCHANGED <<tenants, slugged, people, plans, shares, bookings, column, unlike, cut>>

\* create_all and the ALTERs.
UpgradeSchema ==
    /\ start.pc = "tables"
    /\ column' = TRUE /\ start' = [start EXCEPT !.pc = "rows", !.added = ~column]
    /\ UNCHANGED <<tenants, slugged, people, plans, shares, bookings, unlike, cut, left>>

\* Only the start that adds the column gives people without a tenant one: the
\* first there is, or a new one.
Adopters == IF ~start.added \/ people = <<>> THEN {Nobody}
            ELSE IF Unmade # Tenants THEN Tenants \ Unmade ELSE Unmade

Adopted(t) == [i \in DOMAIN people |->
                 IF people[i].tenant = Nobody THEN [people[i] EXCEPT !.tenant = t] ELSE people[i]]

\* By address; if nobody is, the oldest.
Promoted(ps) ==
    LET named == [i \in DOMAIN ps |-> IF ps[i].email = start.email
                                      THEN [ps[i] EXCEPT !.role = "platform_admin"] ELSE ps[i]]
    IN  IF Admins(named) = {} /\ named # <<>>
        THEN [named EXCEPT ![1].role = "platform_admin"] ELSE named

\* The scope is given before the promotions.
ScopedBefore(ps) == {slugged} \cup {people[i].tenant : i \in Admins(people)}

Scoped(ps) == {slugged} \cup {ps[i].tenant : i \in Admins(ps)}

\* The built-in plan is written over.
SeededOver == Seed

SeededPlan == IF free = NoPlan THEN Seed ELSE free

\* NULL columns only.
BackfilledShares == [t \in Tenants |-> [i \in DOMAIN shares[t] |->
                       IF shares[t][i] = 0 THEN Share ELSE shares[t][i]]]

\* What a switched-off tenant of old times stands at is reset at every start.
BackfilledStatus(row) ==
    IF row.lapsed /\ row.status = "active" THEN "suspended" ELSE row.status

BackfillRows ==
    /\ start.pc = "rows" /\ start' = [start EXCEPT !.pc = "admin"]
    /\ free' = SeededPlan /\ shares' = BackfilledShares
    /\ \E t \in Adopters :
         LET ps == Promoted(Adopted(t))
             rows == IF t \in Unmade
                     THEN [tenants EXCEPT ![t] = TenantRow("active", TRUE)] ELSE tenants
         IN  /\ people' = ps
             /\ tenants' = [u \in Tenants |->
                   [rows[u] EXCEPT !.status = BackfilledStatus(rows[u]),
                                   !.scope = @ \/ u \in Scoped(ps)]]
    /\ UNCHANGED <<slugged, column, edits, bookings, unlike, cut, raced, left>>

\* ensure_bootstrap_admin
NewDefault(t) ==
    /\ slugged = Nobody /\ t \in Unmade /\ slugged' = t
    /\ tenants' = [tenants EXCEPT ![t] = TenantRow("active", TRUE)]

EnsureAdmin(t) ==
    /\ start.pc = "admin" /\ start.password
    /\ start' = [start EXCEPT !.pc = "up"]
    /\ NewDefault(t) \/ (t = slugged /\ UNCHANGED <<slugged, tenants>>)
    /\ people' =
         IF Held(start.email)
         THEN [i \in DOMAIN people |->
                 IF people[i].email = start.email /\ people[i].tenant = Nobody
                 THEN [people[i] EXCEPT !.tenant = t] ELSE people[i]]
         ELSE Append(people, Person(t, start.email, "platform_admin"))
    /\ UNCHANGED <<plans, shares, bookings, column, unlike, cut, left>>

NoAdmin ==
    /\ start.pc = "admin" /\ ~start.password /\ start' = [start EXCEPT !.pc = "up"]
    /\ UNCHANGED <<tenants, slugged, people, plans, shares, bookings, column, unlike, cut, left>>

\* The process goes down; what was not committed is lost.
Stop ==
    /\ start # Down /\ start' = Down
    /\ edits' = [r \in Editors |-> NoEdit] /\ bookings' = [k \in Askers |-> NoBooking]
    /\ cut' = (cut \/ (start.pc = "rows" /\ start.added))
    /\ UNCHANGED <<tenants, slugged, people, free, shares, column, unlike, raced, left>>

(***************************************************************************)
(* Requests.  Ids of tenants are kept back for what a start creates.       *)
(***************************************************************************)
Requested(i) == start.pc = "up" /\ Spend(i)
MayJoin(t, e) == t \in Unmade /\ Cardinality(Unmade) > 1 /\ ~Held(e) /\ Len(people) + 1 < MaxPeople
Staffed == \E i \in Admins(people) : people[i].tenant # Nobody

\* _unique_slug: the first to ask for a slug gets it.
Named(t) == slugged' \in {slugged, IF slugged = Nobody THEN t ELSE slugged}

SignUp(t, e) ==
    /\ Requested(2) /\ MayJoin(t, e) /\ Named(t)
    /\ tenants' = [tenants EXCEPT ![t] = TenantRow("pending", FALSE)]
    /\ people' = Append(people, Person(t, e, "owner"))
    /\ UNCHANGED <<plans, shares, bookings, column, start, unlike, cut>>

CreateTenant(t) ==
    /\ Requested(2) /\ Staffed /\ t \in Unmade /\ Cardinality(Unmade) > 1 /\ Named(t)
    /\ tenants' = [tenants EXCEPT ![t] = TenantRow("active", FALSE)]
    /\ UNCHANGED <<people, plans, shares, bookings, column, start, unlike, cut>>

SetStatus(t, status) ==
    /\ Requested(2) /\ Staffed /\ There(t) /\ tenants[t].status # status
    /\ tenants' = [tenants EXCEPT ![t].status = status]
    /\ UNCHANGED <<slugged, people, plans, shares, bookings, column, start, unlike, cut>>

ChangeEmail(i, e) ==
    /\ Requested(2) /\ ~Held(e) /\ people' = [people EXCEPT ![i].email = e]
    /\ UNCHANGED <<tenants, slugged, plans, shares, bookings, column, start, unlike, cut>>

(***************************************************************************)
(* The plan: what is validated is what was read with the fields asked for  *)
(* put over it, and what is written are those fields.                      *)
(***************************************************************************)
Coherent(p) == p.apps * Share <= p.cpu

AskUpdate(r, fields, p) ==
    LET row == [f \in DOMAIN free |-> IF f \in fields THEN p[f] ELSE free[f]]
    IN  /\ Requested(3) /\ Staffed /\ edits[r] = NoEdit
        /\ Coherent(row) /\ row # free
        /\ edits' = [edits EXCEPT ![r] = [fields |-> {f \in fields : row[f] # free[f]}, row |-> row]]
        /\ raced' = (raced \/ \E o \in Editors : edits[o] # NoEdit)
        /\ UNCHANGED <<tenants, slugged, people, free, shares, bookings, column, start, unlike, cut>>

CommitUpdate(r) ==
    /\ start.pc = "up" /\ edits[r] # NoEdit
    /\ free' = [f \in DOMAIN free |-> IF f \in edits[r].fields THEN edits[r].row[f] ELSE free[f]]
    /\ edits' = [edits EXCEPT ![r] = NoEdit]
    /\ bookings' = [k \in Askers |-> IF bookings[k] = NoBooking THEN NoBooking
                                     ELSE [bookings[k] EXCEPT !.old = TRUE]]
    /\ unlike' = {t \in Tenants : shares[t] # <<>>}
    /\ UNCHANGED <<tenants, slugged, people, shares, column, start, cut, raced, left>>

\* plan_allocation
Allocation == Max({Share, free.cpu \div Max({free.apps, 1})})

\* check_and_reserve, which QuotaReserve has in full.  The share is read from
\* the plan before the lock of the tenant is asked for, the apps are counted
\* under it against the plan as it is by then, and the row is committed later,
\* an install's once its stack is up.
ReadShare(k, t) ==
    /\ Requested(3) /\ tenants[t].status = "active" /\ bookings[k] = NoBooking
    /\ bookings' = [bookings EXCEPT
                      ![k] = [pc |-> "share", tenant |-> t, share |-> Allocation, old |-> FALSE]]
    /\ UNCHANGED <<tenants, slugged, people, plans, shares, column, start, unlike, cut>>

\* The lock does not outlast the statement that takes it.
UnlockedAtOnce(t) == FALSE

Locked(t) == \E k \in Askers : bookings[k].pc = "counted" /\ bookings[k].tenant = t

CountApps(k) ==
    /\ start.pc = "up" /\ bookings[k].pc = "share" /\ ~Locked(bookings[k].tenant)
    /\ LET t == bookings[k].tenant
       IN  tenants[t].scope \/ Len(shares[t]) + 1 <= free.apps
    /\ bookings' = [bookings EXCEPT ![k].pc = "counted"]
    /\ UNCHANGED <<tenants, slugged, people, plans, shares, column, start, unlike, cut, left>>

CommitReservation(k) ==
    /\ start.pc = "up" /\ bookings[k].pc = "counted"
    /\ shares' = [shares EXCEPT ![bookings[k].tenant] = Append(@, bookings[k].share)]
    /\ unlike' = unlike \cup {t \in {bookings[k].tenant} : bookings[k].old}
    /\ bookings' = [bookings EXCEPT ![k] = NoBooking]
    /\ UNCHANGED <<tenants, slugged, people, plans, column, start, cut, left>>

\* No slot is left, or what follows in the same transaction fails.
GiveUp(k) ==
    /\ start.pc = "up" /\ bookings[k] # NoBooking /\ bookings' = [bookings EXCEPT ![k] = NoBooking]
    /\ UNCHANGED <<tenants, slugged, people, plans, shares, column, start, unlike, cut, left>>

Release(t, i) ==
    /\ Requested(3)
    /\ shares' = [shares EXCEPT ![t] = RemoveAt(@, i)]
    /\ unlike' = IF Len(shares[t]) = 1 THEN unlike \ {t} ELSE unlike
    /\ UNCHANGED <<tenants, slugged, people, plans, bookings, column, start, cut>>

\* usage: a row without its figures counts the default.
Charge(c) == IF c = 0 THEN Share ELSE c
Total(q) ==
    LET sum[n \in 0..Len(q)] == IF n = 0 THEN 0 ELSE sum[n - 1] + Charge(q[n])
    IN  sum[Len(q)]
Used(t) == Total(shares[t])

PlatformStep ==
    \/ \E e \in Addresses, password \in BOOLEAN : StartProcess(e, password)
    \/ UpgradeSchema \/ BackfillRows \/ NoAdmin \/ Stop
    \/ \E t \in Tenants :
          \/ EnsureAdmin(t)
          \/ \E e \in Addresses : SignUp(t, e)
          \/ \E status \in {"active", "suspended"} : SetStatus(t, status)
          \/ CreateTenant(t)
          \/ \E i \in DOMAIN shares[t] : Release(t, i)
    \/ \E i \in DOMAIN people, e \in Addresses : ChangeEmail(i, e)
    \/ \E k \in Askers :
          \/ CountApps(k) \/ CommitReservation(k) \/ GiveUp(k)
          \/ \E t \in Tenants : ReadShare(k, t)
    \/ \E r \in Editors :
          \/ CommitUpdate(r)
          \/ \E fields \in {{"apps"}, {"cpu"}, {"apps", "cpu"}}, p \in Offers : AskUpdate(r, fields, p)

-----------------------------------------------------------------------------
\* "Or its admin would see an empty panel": whenever requests are served every
\* platform admin is of a tenant in platform scope, unless a start on a
\* database from before there were tenants was cut after its tables.
OperatorsSeeAll ==
    start.pc = "up" =>
       \A i \in Admins(people) :
          \/ people[i].tenant # Nobody /\ tenants[people[i].tenant].scope
          \/ cut

\* "(idempotent)": a start leaves the plan as staff last set it and the
\* recorded shares as they were reserved, and suspends no tenant but one that
\* was switched off before tenants had a status.
StartsKeepEdits ==
    [][start.pc # "up" =>
         /\ free # NoPlan => free' = free
         /\ \A t \in Tenants :
               /\ tenants'[t].status # tenants[t].status => tenants[t].lapsed \/ ~There(t)
               /\ \A i \in DOMAIN shares[t] : shares[t][i] \in {0, shares'[t][i]}]_platformVars

\* "Total / max_apps": what a tenant's apps were given fits what the plan has,
\* unless one of them was sized by the plan as it was before it last changed,
\* be its row committed before the change or after it, or two updates of the
\* plan overlapped.
SharesFit ==
    free # NoPlan /\ ~raced =>
       \A t \in Tenants \ unlike : ~tenants[t].scope => Used(t) <= free.cpu
=============================================================================
