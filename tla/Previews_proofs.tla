--------------------------- MODULE Previews_proofs ---------------------------
(***************************************************************************)
(* For any branches, stacks, cap, events and faults: the cap holds unless  *)
(* two pushes race, the rows follow GitHub's branches when webhooks are    *)
(* handled in order, and no stack is left without a row unless a preview   *)
(* was torn down while it was being built.  PreviewsInv is inductive.      *)
(***************************************************************************)
EXTENDS Previews, FiniteSetTheorems, TLAPS

Begun(n) == request[n] \notin {"none", "sent"}
IsPush(n) == event[n].kind = "push"

\* Events are told in the order of their numbers, and about branches.
EventsTold ==
    \A n \in Events :
        /\ n > sent => request[n] = "none" /\ build[n] = "absent"
        /\ n <= sent => BranchOf(n) \in Branches

\* What a request can be at, and a build belong to, by the kind of the event.
KindsFit ==
    \A n \in Events :
        /\ request[n] = "checked" => IsPush(n)
        /\ request[n] \in {"found", "removing"} => ~IsPush(n)
        /\ build[n] # "absent" => IsPush(n) /\ request[n] = "done"

\* A row was made by a push of its branch.
RowsFromPushes ==
    \A b \in Branches :
        preview[b] # None => /\ preview[b] \in 1..sent
                             /\ BranchOf(preview[b]) = b /\ IsPush(preview[b])

Basics == TypeOK /\ EventsTold /\ KindsFit /\ RowsFromPushes

\* A push that counted has room as long as none raced it.
RoomAtCommit ==
    ~raced =>
        /\ Cardinality(Held) <= MaxPreviews
        /\ \A n \in Events : request[n] = "checked" /\ seen[n] = None =>
              Cardinality(Held) < MaxPreviews

\* What is being built has a row ...
BuiltIsHeld ==
    ~overtaken => \A n \in Events : build[n] \in InFlight => preview[BranchOf(n)] # None

\* ... and what runs has one, or is about to be taken down.
StacksHeld ==
    ~overtaken /\ faults = 0 =>
        \A s \in Stacks : stack[s] # None =>
            \/ \E b \in Held : Slug[b] = s
            \/ \E n \in Events : request[n] = "removing" /\ n <= sent /\ StackOf(n) = s

\* A webhook whose handling has begun found the branch's earlier ones handled.
Ordered ==
    ~disordered => \A n \in 1..sent : Begun(n) /\ Webhook(n) => InTurn(n)

NoPushAfter(d) ==
    \A m \in (d + 1)..sent : IsPush(m) /\ BranchOf(m) = BranchOf(d) => ~Begun(m)

\* A deletion takes the row away, and it stays away until another push.
Torn ==
    ~disordered /\ faults = 0 =>
        \A d \in 1..sent : event[d].kind = "delete" /\ NoPushAfter(d) =>
            /\ request[d] = "found" => preview[BranchOf(d)] \in {seen[d], None}
            /\ Handled(d) => preview[BranchOf(d)] = None

\* What GitHub told last of a branch it no longer has is its deletion.
LastDeleted(b) ==
    \/ \A n \in 1..sent : BranchOf(n) = b => ~IsPush(n)
    \/ \E d \in 1..sent : /\ BranchOf(d) = b /\ event[d].kind = "delete"
                          /\ \A m \in (d + 1)..sent : BranchOf(m) = b => ~IsPush(m)
DeletedLast == \A b \in Branches \ exists : LastDeleted(b)

\* An accepted push that is the branch's last event has its row.
LastHolds ==
    ~disordered =>
        \A n \in 1..sent :
            /\ IsPush(n) /\ build[n] # "absent"
            /\ \A m \in 1..sent : BranchOf(m) = BranchOf(n) => Webhook(m) /\ m <= n
            => preview[BranchOf(n)] # None

PreviewsInv ==
    /\ Basics /\ RoomAtCommit /\ BuiltIsHeld /\ StacksHeld
    /\ Ordered /\ Torn /\ DeletedLast /\ LastHolds

-----------------------------------------------------------------------------
LEMMA Numbers ==
    ASSUME TypeOK
    PROVE  /\ sent \in Nat /\ sent <= MaxEvents /\ MaxEvents \in Nat /\ faults \in Nat
           /\ \A n : n \in Events <=> n \in Nat /\ 1 <= n /\ n <= MaxEvents
           /\ \A n : n \in 1..sent <=> n \in Events /\ n <= sent
<1>1. sent \in Nat /\ sent <= MaxEvents /\ MaxEvents \in Nat /\ faults \in Nat
  BY PreviewsAssumption DEF TypeOK
<1> QED
  BY <1>1 DEF Events

\* Sets of branches have sizes.
LEMMA BranchSets ==
    ASSUME NEW T \in SUBSET Branches, NEW S \in SUBSET T
    PROVE  /\ Cardinality(S) \in Nat /\ Cardinality(T) \in Nat
           /\ Cardinality(S) <= Cardinality(T)
<1>1. IsFiniteSet(T)
  BY PreviewsAssumption, FS_Subset
<1>2. IsFiniteSet(S) /\ Cardinality(S) <= Cardinality(T)
  BY <1>1, FS_Subset
<1> QED
  BY <1>1, <1>2, FS_CardinalityType

LEMMA OneMoreBranch ==
    ASSUME NEW S \in SUBSET Branches, NEW b \in Branches, NEW n \in Nat, Cardinality(S) < n
    PROVE  Cardinality(S \cup {b}) <= n
<1> DEFINE size == Cardinality(S)
           grown == Cardinality(S \cup {b})
<1>1. IsFiniteSet(S)
  BY PreviewsAssumption, FS_Subset, Zenon
<1>2. size \in Nat
  BY <1>1, FS_CardinalityType, Zenon
<1>3. grown = size \/ grown = size + 1
  BY <1>1, FS_AddElement, Zenon
<1>4. size < n
  OBVIOUS
<1> HIDE DEF size, grown
<1>5. grown <= n
  BY <1>2, <1>3, <1>4
<1> QED
  BY <1>5 DEF grown

LEMMA FewerHeld ==
    ASSUME TypeOK, TypeOK', \A b \in Branches : preview[b] = None => preview'[b] = None
    PROVE  /\ Cardinality(Held) \in Nat /\ Cardinality(Held)' \in Nat
           /\ Cardinality(Held)' <= Cardinality(Held)
<1>1. Held \in SUBSET Branches /\ Held' \in SUBSET Held
  BY DEF Held
<1> QED
  BY <1>1, BranchSets

\* Where a request has begun, its going on keeps the order.
LEMMA OrderedMove ==
    ASSUME Basics, Ordered, NEW n \in Events, NEW x \in Handling \cup {"done"}, Begun(n),
           Goto(n, x), x # "sent", Handled(n) => x \in {"removing", "done"},
           UNCHANGED <<webhooks, disordered>>
    PROVE  Ordered'
<1>1. \A m \in Events : request'[m] = IF m = n THEN x ELSE request[m]
  BY DEF Basics, TypeOK, Goto
<1>2. sent' = sent /\ event' = event /\ disordered' = disordered
  BY DEF webhooks
<1>3. \A m \in Events : Begun(m)' <=> Begun(m)
  BY <1>1 DEF Begun, Handling
<1>4. \A m \in Events : Handled(m) => Handled(m)'
  BY <1>1 DEF Handled
<1>5. \A m \in 1..sent : m \in Events /\ 1..(m - 1) \subseteq Events
  BY Numbers DEF Basics
<1>6. \A m \in 1..sent : InTurn(m) => InTurn(m)'
  BY <1>2, <1>4, <1>5 DEF InTurn, Webhook, BranchOf
<1> QED
  BY <1>2, <1>3, <1>5, <1>6 DEF Ordered, Webhook

\* A request that begins records whether it is in turn.
LEMMA OrderedBegins ==
    ASSUME Basics, Ordered, NEW n \in Events, NEW x \in {"checked", "found", "done"},
           Begins(n), Goto(n, x), UNCHANGED webhooks
    PROVE  Ordered'
<1>1. \A m \in Events : request'[m] = IF m = n THEN x ELSE request[m]
  BY DEF Basics, TypeOK, Goto
<1>2. sent' = sent /\ event' = event /\ disordered' = (disordered \/ ~InTurn(n))
  BY DEF webhooks, Begins
<1>3. \A m \in Events : Begun(m)' => Begun(m) \/ m = n
  BY <1>1 DEF Begun
<1>4. \A m \in Events : Handled(m) => Handled(m)'
  BY <1>1 DEF Handled, Begins
<1>5. \A m \in 1..sent : m \in Events /\ 1..(m - 1) \subseteq Events
  BY Numbers DEF Basics
<1>6. \A m \in 1..sent : InTurn(m) => InTurn(m)'
  BY <1>2, <1>4, <1>5 DEF InTurn, Webhook, BranchOf
<1> QED
  BY <1>2, <1>3, <1>5, <1>6 DEF Ordered, Webhook

-----------------------------------------------------------------------------
LEMMA InitInv == Init => PreviewsInv
<1> SUFFICES ASSUME Init PROVE PreviewsInv
  OBVIOUS
<1>1. TypeOK
  <2>1. 0 \in 0..MaxEvents /\ 0 \in 0..MaxFaults
    BY PreviewsAssumption
  <2>2. event \in [Events -> [branch : Branches \cup {None}, kind : {"push", "delete", "discard"}]]
    BY DEF Init, NoEvent
  <2> QED
    BY <2>1, <2>2 DEF Init, TypeOK, Builds, InFlight, Handling
<1>2. \A n \in Events : n > 0
  BY DEF Events
<1>3. Basics
  BY <1>1, <1>2, Numbers DEF Init, Basics, EventsTold, KindsFit, RowsFromPushes
<1>4. RoomAtCommit
  <2>1. Held = {}
    BY DEF Init, Held
  <2> QED
    BY <2>1, FS_EmptySet, PreviewsAssumption DEF Init, RoomAtCommit
<1>5. BuiltIsHeld /\ StacksHeld
  BY DEF Init, BuiltIsHeld, StacksHeld, InFlight
<1>6. 1..sent = {}
  BY DEF Init
<1>7. Ordered /\ Torn /\ DeletedLast /\ LastHolds
  BY <1>6 DEF Ordered, Torn, DeletedLast, LastDeleted, LastHolds
<1> QED
  BY <1>3, <1>4, <1>5, <1>7 DEF PreviewsInv

-----------------------------------------------------------------------------
(* GitHub and the console *)

LEMMA TellInv ==
    ASSUME PreviewsInv, NEW b \in Branches, NEW kind \in {"push", "delete", "discard"},
           NEW count \in {1, 2}, NEW r \in Events \cup {None}, Tell(b, kind, count, r),
           exists' \subseteq Branches, DeletedLast'
    PROVE  PreviewsInv'
<1>1. TypeOK
  BY DEF PreviewsInv, Basics
<1>2. sent' = sent + count /\ sent' <= MaxEvents /\ sent' \in 0..MaxEvents
  BY <1>1, Numbers DEF Tell
<1>3. \A n \in Events :
         /\ n <= sent => event'[n] = event[n] /\ request'[n] = request[n] /\ seen'[n] = seen[n]
         /\ n > sent /\ n <= sent' =>
               event'[n] = [branch |-> b, kind |-> kind] /\ request'[n] = "sent"
         /\ n > sent' => request'[n] = request[n]
  BY <1>1, <1>2, Numbers DEF Tell, TypeOK
<1>4. UNCHANGED <<preview, build, stack, raced, disordered, overtaken, faults>>
  BY DEF Tell, history
<1>5. TypeOK'
  BY <1>1, <1>2, <1>4 DEF Tell, TypeOK, Handling
<1>6. \A n \in Events : n <= sent \/ n > sent
  BY <1>1, Numbers
<1>7. EventsTold'
  BY <1>1, <1>2, <1>3, <1>4, Numbers DEF PreviewsInv, Basics, EventsTold, BranchOf
<1>8. KindsFit'
  BY <1>1, <1>2, <1>3, <1>4, <1>6, Numbers DEF PreviewsInv, Basics, KindsFit, EventsTold, IsPush
<1>9. RowsFromPushes'
  BY <1>1, <1>2, <1>3, <1>4, Numbers DEF PreviewsInv, Basics, RowsFromPushes, IsPush, BranchOf
<1>10. RoomAtCommit'
  <2>1. Held' = Held
    BY <1>4 DEF Held
  <2>2. \A n \in Events : request'[n] = "checked" => n <= sent
    BY <1>1, <1>2, <1>3, Numbers DEF PreviewsInv, Basics, EventsTold
  <2> QED
    BY <1>3, <1>4, <2>1, <2>2 DEF PreviewsInv, RoomAtCommit
<1>11. BuiltIsHeld'
  <2>1. \A n \in Events : build[n] \in InFlight => n <= sent
    BY <1>6 DEF PreviewsInv, Basics, EventsTold, InFlight
  <2> QED
    BY <1>3, <1>4, <2>1 DEF PreviewsInv, BuiltIsHeld, BranchOf
<1>12. StacksHeld'
  <2>1. Held' = Held
    BY <1>4 DEF Held
  <2>2. \A n \in Events : n <= sent => n <= sent'
    BY <1>1, <1>2, Numbers
  <2> QED
    BY <1>3, <1>4, <2>1, <2>2 DEF PreviewsInv, StacksHeld, StackOf, BranchOf
<1>13. Ordered'
  <2> SUFFICES ASSUME ~disordered, NEW n \in 1..sent', Begun(n)', Webhook(n)'
               PROVE  InTurn(n)'
    BY <1>4 DEF Ordered
  <2>1. n \in Events /\ n <= sent /\ n \in 1..sent
    BY <1>1, <1>2, <1>3, Numbers DEF Begun
  <2>2. Begun(n) /\ Webhook(n) /\ InTurn(n)
    BY <1>3, <2>1 DEF PreviewsInv, Ordered, Begun, Webhook
  <2>3. \A m \in 1..(n - 1) : m \in Events /\ m <= sent
    BY <1>1, <2>1, Numbers
  <2> QED
    BY <1>3, <2>1, <2>2, <2>3 DEF InTurn, Webhook, BranchOf, Handled
<1>14. Torn'
  <2> SUFFICES ASSUME ~disordered, faults = 0, NEW d \in 1..sent', event'[d].kind = "delete",
                      NoPushAfter(d)', request'[d] = "found" \/ Handled(d)'
               PROVE  /\ request'[d] = "found" => preview'[BranchOf(d)'] \in {seen'[d], None}
                      /\ Handled(d)' => preview'[BranchOf(d)'] = None
    BY <1>4 DEF Torn
  <2>1. d \in Events /\ d <= sent /\ d \in 1..sent
    BY <1>1, <1>2, <1>3, Numbers DEF Handled
  <2>2. \A m \in (d + 1)..sent : m \in Events /\ m <= sent /\ m \in (d + 1)..sent'
    BY <1>1, <1>2, <2>1, Numbers
  <2>3. NoPushAfter(d)
    BY <1>3, <2>1, <2>2 DEF NoPushAfter, IsPush, BranchOf, Begun
  <2> QED
    BY <1>3, <1>4, <2>1, <2>3 DEF PreviewsInv, Torn, Handled, BranchOf
<1>15. LastHolds'
  <2> SUFFICES ASSUME ~disordered, NEW n \in 1..sent', IsPush(n)', build[n] # "absent",
                      \A m \in 1..sent' : BranchOf(m)' = BranchOf(n)' => Webhook(m)' /\ m <= n
               PROVE  preview[BranchOf(n)'] # None
    BY <1>4 DEF LastHolds
  <2>1. n \in Events /\ n <= sent /\ n \in 1..sent
    BY <1>1, <1>2, <1>6, Numbers DEF PreviewsInv, Basics, EventsTold
  <2>2. \A m \in 1..sent : m \in Events /\ m <= sent /\ m \in 1..sent'
    BY <1>1, <1>2, Numbers
  <2>3. \A m \in 1..sent : BranchOf(m) = BranchOf(n) => Webhook(m) /\ m <= n
    BY <1>3, <2>1, <2>2 DEF BranchOf, Webhook
  <2> QED
    BY <1>3, <2>1, <2>3 DEF PreviewsInv, LastHolds, BranchOf, IsPush
<1> QED
  BY <1>5, <1>7, <1>8, <1>9, <1>10, <1>11, <1>12, <1>13, <1>14, <1>15 DEF PreviewsInv, Basics

LEMMA TellEvents ==
    ASSUME TypeOK, NEW b \in Branches, NEW kind \in {"push", "delete", "discard"},
           NEW count \in {1, 2}, NEW r, Tell(b, kind, count, r)
    PROVE  /\ sent' = sent + count /\ sent \in Nat /\ sent' <= MaxEvents
           /\ \A n : n \in 1..sent' <=> n \in 1..sent \/ n \in (sent + 1)..(sent + count)
           /\ \A n \in 1..sent : event'[n] = event[n]
           /\ \A n \in (sent + 1)..(sent + count) : event'[n] = [branch |-> b, kind |-> kind]
<1>1. sent' = sent + count /\ sent \in Nat /\ sent' <= MaxEvents /\ MaxEvents \in Nat
  BY Numbers DEF Tell
<1>2. \A n : n \in 1..sent' <=> n \in 1..sent \/ n \in (sent + 1)..(sent + count)
  BY <1>1
<1>3. \A n \in (sent + 1)..(sent + count) : n \in Events /\ n \notin 1..sent
  BY <1>1 DEF Events
<1>4. \A n \in 1..sent : n \in Events /\ n \notin (sent + 1)..(sent + count)
  BY <1>1 DEF Events
<1> QED
  BY <1>1, <1>2, <1>3, <1>4 DEF Tell

\* What is told now leaves a branch deleted unless it is a push of it.
LEMMA StaysDeleted ==
    ASSUME TypeOK, NEW b \in Branches, NEW kind \in {"push", "delete", "discard"},
           NEW count \in {1, 2}, NEW r, Tell(b, kind, count, r),
           NEW c, LastDeleted(c), kind # "push" \/ c # b
    PROVE  LastDeleted(c)'
<1>1. /\ sent' = sent + count /\ sent \in Nat
      /\ \A n : n \in 1..sent' <=> n \in 1..sent \/ n \in (sent + 1)..(sent + count)
      /\ \A n \in 1..sent : event'[n] = event[n]
      /\ \A n \in (sent + 1)..(sent + count) : event'[n] = [branch |-> b, kind |-> kind]
  BY TellEvents
<1>2. \A n \in (sent + 1)..(sent + count) : BranchOf(n)' = c => ~IsPush(n)'
  BY <1>1 DEF BranchOf, IsPush
<1>3. CASE \A n \in 1..sent : BranchOf(n) = c => ~IsPush(n)
  BY <1>1, <1>2, <1>3 DEF LastDeleted, BranchOf, IsPush
<1>4. ASSUME NEW d \in 1..sent, BranchOf(d) = c, event[d].kind = "delete",
             \A m \in (d + 1)..sent : BranchOf(m) = c => ~IsPush(m)
      PROVE  LastDeleted(c)'
  <2>1. d \in 1..sent' /\ BranchOf(d)' = c /\ event'[d].kind = "delete"
    BY <1>1, <1>4 DEF BranchOf
  <2>2. ASSUME NEW m \in (d + 1)..sent', BranchOf(m)' = c PROVE ~IsPush(m)'
    <3>1. \/ m \in (d + 1)..sent /\ m \in 1..sent
          \/ m \in (sent + 1)..(sent + count)
      BY <1>1
    <3> QED
      BY <1>1, <1>2, <1>4, <2>2, <3>1 DEF BranchOf, IsPush
  <2> QED
    BY <2>1, <2>2 DEF LastDeleted
<1> QED
  BY <1>3, <1>4 DEF LastDeleted

LEMMA GitHubInv ==
    ASSUME PreviewsInv, NEW b \in Branches, PushBranch(b) \/ DeleteBranch(b) \/ DiscardPreview(b)
    PROVE  PreviewsInv'
<1>1. TypeOK /\ DeletedLast
  BY DEF PreviewsInv, Basics
<1>2. CASE PushBranch(b)
  <2>1. Tell(b, "push", 1, None) /\ exists' = exists \cup {b}
    BY <1>2 DEF PushBranch
  <2>2. exists' \subseteq Branches
    BY <1>1, <2>1 DEF TypeOK
  <2>3. DeletedLast'
    BY <1>1, <2>1, StaysDeleted DEF DeletedLast
  <2> QED
    BY <2>1, <2>2, <2>3, TellInv
<1>3. CASE DeleteBranch(b)
  <2>1. Tell(b, "delete", 2, None) /\ exists' = exists \ {b}
    BY <1>3 DEF DeleteBranch
  <2>2. exists' \subseteq Branches
    BY <1>1, <2>1 DEF TypeOK
  <2>3. LastDeleted(b)'
    <3>1. /\ sent' = sent + 2 /\ sent \in Nat
          /\ \A n \in (sent + 1)..(sent + 2) : event'[n] = [branch |-> b, kind |-> "delete"]
      BY <1>1, <2>1, TellEvents
    <3>2. sent + 1 \in 1..sent' /\ sent + 1 \in (sent + 1)..(sent + 2)
      BY <3>1
    <3>3. \A m \in (sent + 1 + 1)..sent' : m \in (sent + 1)..(sent + 2)
      BY <3>1
    <3> QED
      BY <3>1, <3>2, <3>3 DEF LastDeleted, BranchOf, IsPush
  <2>4. \A c \in Branches \ exists : LastDeleted(c)'
    BY <1>1, <2>1, StaysDeleted DEF DeletedLast
  <2>5. DeletedLast'
    BY <2>1, <2>3, <2>4 DEF DeletedLast
  <2> QED
    BY <2>1, <2>2, <2>5, TellInv
<1>4. CASE DiscardPreview(b)
  <2>1. Tell(b, "discard", 1, preview[b]) /\ exists' = exists
    BY <1>4 DEF DiscardPreview
  <2>2. exists' \subseteq Branches /\ preview[b] \in Events \cup {None}
    BY <1>1, <2>1 DEF TypeOK
  <2>3. DeletedLast'
    BY <1>1, <2>1, StaysDeleted DEF DeletedLast
  <2> QED
    BY <2>1, <2>2, <2>3, TellInv
<1> QED
  BY <1>2, <1>3, <1>4

-----------------------------------------------------------------------------
(* Requests *)

\* A step of request n, which tells nothing.
LEMMA GotoFacts ==
    ASSUME Basics, NEW n \in Events, NEW x \in Handling \cup {"none", "done"}, Goto(n, x),
           UNCHANGED webhooks
    PROVE  /\ \A m \in Events : request'[m] = IF m = n THEN x ELSE request[m]
           /\ request' \in [Events -> Handling \cup {"none", "done"}]
           /\ sent' = sent /\ event' = event /\ exists' = exists
           /\ \A m \in 1..sent : m \in Events /\ m <= sent
           /\ DeletedLast => DeletedLast'
<1>1. /\ \A m \in Events : request'[m] = IF m = n THEN x ELSE request[m]
      /\ request' \in [Events -> Handling \cup {"none", "done"}]
  BY DEF Basics, TypeOK, Goto
<1>2. sent' = sent /\ event' = event /\ exists' = exists
  BY DEF webhooks
<1>3. \A m \in 1..sent : m \in Events /\ m <= sent
  BY Numbers DEF Basics
<1>4. DeletedLast => DeletedLast'
  BY <1>2 DEF DeletedLast, LastDeleted, BranchOf, IsPush
<1> QED
  BY <1>1, <1>2, <1>3, <1>4

\* A request that begins: a push is checked or refused, a teardown finds its
\* row or none.
LEMMA BeginsInv ==
    ASSUME PreviewsInv, NEW n \in Events, PushReads(n) \/ TeardownReads(n)
    PROVE  PreviewsInv'
<1>1. PICK x \in {"checked", "found", "done"}, row \in Events \cup {None} :
         /\ Begins(n) /\ Goto(n, x) /\ seen' = [seen EXCEPT ![n] = row]
         /\ row = None \/ row = preview[BranchOf(n)]
         /\ UNCHANGED <<webhooks, preview, build, stack, faults, raced, overtaken>>
         /\ x = "checked" => /\ IsPush(n) /\ row = preview[BranchOf(n)]
                             /\ row = None => Cardinality(Held) < MaxPreviews
         /\ x = "found" => ~IsPush(n) /\ row = preview[BranchOf(n)]
         /\ event[n].kind = "delete" =>
               x \in {"found", "done"} /\ (x = "done" => preview[BranchOf(n)] = None)
  <2>1. n <= sent /\ BranchOf(n) \in Branches
    BY Numbers DEF PreviewsInv, Basics, EventsTold, PushReads, TeardownReads, Begins
  <2>2. preview[BranchOf(n)] \in Events \cup {None}
    BY <2>1 DEF PreviewsInv, Basics, TypeOK
  <2>3. CASE PushReads(n)
    BY <2>2, <2>3 DEF PushReads, Begins, IsPush
  <2>4. CASE TeardownReads(n)
    <3> DEFINE row == IF event[n].kind = "discard" /\ preview[BranchOf(n)] # seen[n]
                      THEN None ELSE preview[BranchOf(n)]
               x == IF row = None THEN "done" ELSE "found"
    <3>1. /\ Begins(n) /\ ~IsPush(n) /\ Goto(n, x) /\ seen' = [seen EXCEPT ![n] = row]
          /\ UNCHANGED <<webhooks, preview, build, stack, faults>>
      BY <2>4 DEF TeardownReads, IsPush
    <3>2. row \in Events \cup {None} /\ (row = None \/ row = preview[BranchOf(n)])
      BY <2>2
    <3>3. x \in {"found", "done"} /\ (x = "found" => row = preview[BranchOf(n)])
      BY <3>2
    <3>4. event[n].kind = "delete" /\ x = "done" => preview[BranchOf(n)] = None
      OBVIOUS
    <3> HIDE DEF row, x
    <3> QED
      BY <3>1, <3>2, <3>3, <3>4 DEF Begins
  <2> QED
    BY <2>3, <2>4
<1>2. /\ Basics /\ TypeOK /\ request[n] = "sent" /\ x \in Handling \cup {"none", "done"}
      /\ UNCHANGED webhooks
  BY <1>1 DEF PreviewsInv, Basics, Begins, Handling
<1>3. /\ \A m \in Events : request'[m] = IF m = n THEN x ELSE request[m]
      /\ request' \in [Events -> Handling \cup {"none", "done"}]
      /\ sent' = sent /\ event' = event /\ exists' = exists
      /\ \A m \in 1..sent : m \in Events /\ m <= sent
      /\ DeletedLast'
  BY <1>1, <1>2, GotoFacts DEF PreviewsInv
<1>4. \A m \in Events : seen'[m] = IF m = n THEN row ELSE seen[m]
  BY <1>1, <1>2 DEF TypeOK
<1>5. preview' = preview /\ build' = build /\ stack' = stack /\ faults' = faults
      /\ raced' = raced /\ overtaken' = overtaken /\ Held' = Held
      /\ disordered' = (disordered \/ ~InTurn(n))
  BY <1>1 DEF Held, Begins
<1>6. TypeOK'
  BY <1>1, <1>2, <1>3, <1>5 DEF TypeOK
<1>7. n <= sent /\ n \in 1..sent
  BY <1>2, Numbers DEF Basics, EventsTold
<1>8. EventsTold' /\ KindsFit' /\ RowsFromPushes'
  <2>1. EventsTold'
    BY <1>2, <1>3, <1>5, <1>7, Numbers DEF Basics, EventsTold, BranchOf
  <2>2. KindsFit'
    BY <1>1, <1>2, <1>3, <1>5 DEF Basics, KindsFit, IsPush
  <2>3. RowsFromPushes'
    BY <1>2, <1>3, <1>5 DEF Basics, RowsFromPushes, IsPush, BranchOf
  <2> QED
    BY <2>1, <2>2, <2>3
<1>9. RoomAtCommit' /\ BuiltIsHeld' /\ StacksHeld'
  <2>1. RoomAtCommit'
    BY <1>1, <1>3, <1>4, <1>5 DEF PreviewsInv, RoomAtCommit
  <2>2. BuiltIsHeld'
    BY <1>3, <1>5 DEF PreviewsInv, BuiltIsHeld, BranchOf
  <2>3. StacksHeld'
    BY <1>2, <1>3, <1>5 DEF PreviewsInv, StacksHeld, StackOf, BranchOf
  <2> QED
    BY <2>1, <2>2, <2>3
<1>10. Ordered'
  BY <1>1, <1>2, OrderedBegins DEF PreviewsInv
<1>11. Torn'
  <2> SUFFICES ASSUME ~disordered', faults = 0, NEW d \in 1..sent, event[d].kind = "delete",
                      NoPushAfter(d)'
               PROVE  /\ request'[d] = "found" => preview[BranchOf(d)] \in {seen'[d], None}
                      /\ Handled(d)' => preview[BranchOf(d)] = None
    BY <1>3, <1>5 DEF Torn, BranchOf
  <2>1. ~disordered
    BY <1>2, <1>5 DEF TypeOK
  <2>2. CASE d = n
    BY <1>1, <1>3, <1>4, <2>2 DEF Handled
  <2>3. CASE d # n
    <3>1. NoPushAfter(d)
      <4>1. \A m \in (d + 1)..sent : m \in Events
        BY <1>2, <1>3, Numbers
      <4> QED
        BY <1>2, <1>3, <4>1 DEF NoPushAfter, IsPush, BranchOf, Begun
    <3> QED
      BY <1>3, <1>4, <2>1, <2>3, <3>1 DEF PreviewsInv, Torn, Handled
  <2> QED
    BY <2>2, <2>3
<1>12. LastHolds'
  BY <1>2, <1>3, <1>5 DEF PreviewsInv, LastHolds, IsPush, BranchOf, Webhook, TypeOK
<1> QED
  BY <1>3, <1>6, <1>8, <1>9, <1>10, <1>11, <1>12 DEF PreviewsInv, Basics

\* A push that fails is done with.
LEMMA PushFailsInv ==
    ASSUME PreviewsInv, NEW n \in Events, PushFails(n)
    PROVE  PreviewsInv'
<1>1. /\ Basics /\ TypeOK /\ request[n] = "checked" /\ IsPush(n) /\ Goto(n, "done")
      /\ UNCHANGED webhooks
  BY DEF PreviewsInv, Basics, KindsFit, PushFails
<1>2. /\ \A m \in Events : request'[m] = IF m = n THEN "done" ELSE request[m]
      /\ request' \in [Events -> Handling \cup {"none", "done"}]
      /\ sent' = sent /\ event' = event /\ exists' = exists
      /\ \A m \in 1..sent : m \in Events /\ m <= sent
      /\ DeletedLast'
  BY <1>1, GotoFacts DEF PreviewsInv
<1>3. UNCHANGED <<seen, preview, build, stack, raced, disordered, overtaken, faults, Held>>
  BY DEF PushFails, history, Held
<1>4. TypeOK'
  BY <1>1, <1>2, <1>3 DEF TypeOK
<1>5. EventsTold'
  BY <1>1, <1>2, <1>3 DEF Basics, EventsTold, BranchOf
<1>6. KindsFit' /\ RowsFromPushes'
  BY <1>1, <1>2, <1>3 DEF Basics, KindsFit, RowsFromPushes, IsPush, BranchOf
<1>7. RoomAtCommit' /\ BuiltIsHeld' /\ StacksHeld'
  BY <1>1, <1>2, <1>3 DEF PreviewsInv, RoomAtCommit, BuiltIsHeld, StacksHeld, StackOf, BranchOf
<1>8. Ordered'
  BY <1>1, <1>3, OrderedMove DEF PreviewsInv, Begun
<1>9. Torn'
  <2> SUFFICES ASSUME ~disordered, faults = 0, NEW d \in 1..sent, event[d].kind = "delete",
                      NoPushAfter(d)'
               PROVE  /\ request'[d] = "found" => preview[BranchOf(d)] \in {seen[d], None}
                      /\ Handled(d)' => preview[BranchOf(d)] = None
    BY <1>2, <1>3 DEF Torn, BranchOf
  <2>1. d # n
    BY <1>1 DEF IsPush
  <2>2. NoPushAfter(d)
    <3>1. \A m \in (d + 1)..sent : m \in Events
      BY <1>1, <1>2, Numbers
    <3> QED
      BY <1>1, <1>2, <3>1 DEF NoPushAfter, IsPush, BranchOf, Begun
  <2> QED
    BY <1>2, <2>1, <2>2 DEF PreviewsInv, Torn, Handled
<1>10. LastHolds'
  BY <1>1, <1>2, <1>3 DEF PreviewsInv, LastHolds, IsPush, BranchOf, Webhook
<1> QED
  BY <1>2, <1>4, <1>5, <1>6, <1>7, <1>8, <1>9, <1>10 DEF PreviewsInv, Basics

\* A push that commits: its branch has a row and a build.
LEMMA PushCommitsInv ==
    ASSUME PreviewsInv, NEW n \in Events, PushCommits(n)
    PROVE  PreviewsInv'
<1> DEFINE b == BranchOf(n)
<1>1. /\ Basics /\ TypeOK /\ request[n] = "checked" /\ IsPush(n) /\ Goto(n, "done")
      /\ preview[b] = seen[n] /\ UNCHANGED webhooks
  BY DEF PreviewsInv, Basics, KindsFit, PushCommits
<1>2. /\ \A m \in Events : request'[m] = IF m = n THEN "done" ELSE request[m]
      /\ request' \in [Events -> Handling \cup {"none", "done"}]
      /\ sent' = sent /\ event' = event /\ exists' = exists
      /\ \A m \in 1..sent : m \in Events /\ m <= sent
      /\ DeletedLast'
  BY <1>1, GotoFacts DEF PreviewsInv
<1>3. n \in 1..sent /\ n <= sent /\ b \in Branches /\ n # None
  BY <1>1, Numbers DEF Basics, EventsTold, None
<1>4. /\ \A m \in Events : build'[m] = IF m = n THEN "queued" ELSE build[m]
      /\ build' \in [Events -> Builds]
  BY <1>1 DEF PushCommits, BuildIs, TypeOK, Builds, InFlight
<1>5. /\ preview' \in [Branches -> Events \cup {None}]
      /\ preview'[b] = IF seen[n] = None THEN n ELSE preview[b]
      /\ \A c \in Branches : c # b => preview'[c] = preview[c]
  BY <1>1, <1>3 DEF PushCommits, TypeOK
<1>6. UNCHANGED <<seen, stack, disordered, overtaken, faults>>
  BY DEF PushCommits
<1>7. TypeOK'
  BY <1>1, <1>2, <1>4, <1>5, <1>6 DEF PushCommits, TypeOK
<1>8. EventsTold'
  BY <1>1, <1>2, <1>3, <1>4 DEF Basics, EventsTold, BranchOf
<1>9. KindsFit'
  BY <1>1, <1>2, <1>4 DEF Basics, KindsFit, IsPush
<1>10. RowsFromPushes'
  BY <1>1, <1>2, <1>3, <1>5 DEF Basics, RowsFromPushes, IsPush, BranchOf
<1>11. preview'[b] # None /\ \A c \in Branches : preview[c] # None => preview'[c] # None
  BY <1>1, <1>3, <1>5
<1>12. RoomAtCommit'
  <2>1. CASE seen[n] # None
    <3>1. Held' = Held
      BY <1>1, <1>5, <2>1 DEF Held
    <3>2. raced' = raced
      BY <1>1, <2>1 DEF PushCommits, TypeOK
    <3> QED
      BY <1>2, <1>6, <3>1, <3>2 DEF PreviewsInv, RoomAtCommit
  <2>2. CASE seen[n] = None
    <3> SUFFICES ASSUME ~raced'
                 PROVE  /\ Cardinality(Held') <= MaxPreviews
                        /\ \A m \in Events : ~ (request'[m] = "checked" /\ seen[m] = None)
      BY <1>6 DEF RoomAtCommit, Held
    <3>1. ~raced /\ \A m \in Events \ {n} : ~ (request[m] = "checked" /\ seen[m] = None)
      BY <1>1, <2>2 DEF PushCommits, TypeOK
    <3>2. Cardinality(Held) < MaxPreviews
      BY <1>1, <2>2, <3>1 DEF PreviewsInv, RoomAtCommit
    <3>3. Held' = Held \cup {b} /\ Held \in SUBSET Branches
      BY <1>3, <1>5, <2>2 DEF Held
    <3>4. Cardinality(Held') <= MaxPreviews
      BY <1>3, <3>2, <3>3, OneMoreBranch, PreviewsAssumption
    <3> QED
      BY <1>2, <3>1, <3>4
  <2> QED
    BY <2>1, <2>2
<1>13. BuiltIsHeld'
  <2> SUFFICES ASSUME ~overtaken, NEW m \in Events, build'[m] \in InFlight
               PROVE  preview'[BranchOf(m)] # None
    BY <1>2, <1>6 DEF BuiltIsHeld, BranchOf
  <2>1. CASE m = n
    BY <1>11, <2>1
  <2>2. CASE m # n
    <3>1. build[m] \in InFlight /\ preview[BranchOf(m)] # None
      BY <1>4, <2>2 DEF PreviewsInv, BuiltIsHeld
    <3>2. BranchOf(m) \in Branches
      BY <1>1, <3>1, Numbers DEF Basics, EventsTold, InFlight
    <3> QED
      BY <1>11, <3>1, <3>2
  <2> QED
    BY <2>1, <2>2
<1>14. StacksHeld'
  <2>1. \A c \in Held : c \in Held'
    BY <1>11 DEF Held
  <2> QED
    BY <1>1, <1>2, <1>6, <2>1 DEF PreviewsInv, StacksHeld, StackOf, BranchOf
<1>15. Ordered'
  BY <1>1, <1>6, OrderedMove DEF PreviewsInv, Begun
<1>16. Torn'
  <2> SUFFICES ASSUME ~disordered, faults = 0, NEW d \in 1..sent, event[d].kind = "delete",
                      NoPushAfter(d)', request'[d] = "found" \/ Handled(d)'
               PROVE  /\ request'[d] = "found" => preview'[BranchOf(d)] \in {seen[d], None}
                      /\ Handled(d)' => preview'[BranchOf(d)] = None
    BY <1>2, <1>6 DEF Torn, BranchOf
  <2>0. d # n /\ d \in Events /\ BranchOf(d) \in Branches /\ Webhook(d) /\ Webhook(n)
    BY <1>1, <1>2 DEF IsPush, Basics, EventsTold, Webhook
  <2>1. Begun(d)
    BY <1>2, <2>0 DEF Begun, Handled
  <2>2. InTurn(d)
    BY <2>0, <2>1 DEF PreviewsInv, Ordered
  <2>3. BranchOf(d) # b
    <3> SUFFICES ASSUME BranchOf(d) = b PROVE FALSE
      OBVIOUS
    <3>1. CASE n < d
      <4>1. n \in 1..(d - 1)
        BY <1>1, <1>3, <2>0, <3>1, Numbers
      <4> QED
        BY <1>1, <2>0, <2>2, <4>1 DEF InTurn, Handled
    <3>2. CASE n > d
      <4>1. n \in (d + 1)..sent
        BY <1>1, <1>3, <2>0, <3>2, Numbers
      <4>2. Begun(n)'
        BY <1>2 DEF Begun
      <4> QED
        BY <1>1, <1>2, <4>1, <4>2 DEF NoPushAfter, IsPush, BranchOf
    <3> QED
      BY <1>1, <2>0, <3>1, <3>2, Numbers
  <2>4. NoPushAfter(d)
    <3>1. \A m \in (d + 1)..sent : m \in Events
      BY <1>1, <1>2, Numbers
    <3> QED
      BY <1>1, <1>2, <3>1 DEF NoPushAfter, IsPush, BranchOf, Begun
  <2> QED
    BY <1>2, <1>5, <2>0, <2>3, <2>4 DEF PreviewsInv, Torn, Handled
<1>17. LastHolds'
  <2> SUFFICES ASSUME ~disordered, NEW m \in 1..sent, IsPush(m), build'[m] # "absent",
                      \A k \in 1..sent : BranchOf(k) = BranchOf(m) => Webhook(k) /\ k <= m
               PROVE  preview'[BranchOf(m)] # None
    BY <1>2, <1>6 DEF LastHolds, IsPush, BranchOf, Webhook
  <2>1. CASE m = n
    BY <1>11, <2>1
  <2>2. CASE m # n
    <3>1. BranchOf(m) \in Branches
      BY <1>1, <1>2 DEF Basics, EventsTold
    <3>2. preview[BranchOf(m)] # None
      BY <1>2, <1>4, <2>2 DEF PreviewsInv, LastHolds
    <3> QED
      BY <1>11, <3>1, <3>2
  <2> QED
    BY <2>1, <2>2
<1> QED
  BY <1>2, <1>7, <1>8, <1>9, <1>10, <1>12, <1>13, <1>14, <1>15, <1>16, <1>17
     DEF PreviewsInv, Basics

\* A teardown that commits: the row is gone, and the stack is next.
LEMMA TeardownCommitsInv ==
    ASSUME PreviewsInv, NEW n \in Events, TeardownCommits(n)
    PROVE  PreviewsInv'
<1> DEFINE b == BranchOf(n)
<1>1. /\ Basics /\ TypeOK /\ request[n] = "found" /\ ~IsPush(n) /\ Goto(n, "removing")
      /\ UNCHANGED webhooks
  BY DEF PreviewsInv, Basics, KindsFit, TeardownCommits
<1>2. /\ \A m \in Events : request'[m] = IF m = n THEN "removing" ELSE request[m]
      /\ request' \in [Events -> Handling \cup {"none", "done"}]
      /\ sent' = sent /\ event' = event /\ exists' = exists
      /\ \A m \in 1..sent : m \in Events /\ m <= sent
      /\ DeletedLast'
  BY <1>1, GotoFacts DEF PreviewsInv, Handling
<1>3. n \in 1..sent /\ n <= sent /\ b \in Branches
  BY <1>1, Numbers DEF Basics, EventsTold
<1>4. /\ preview' \in [Branches -> Events \cup {None}]
      /\ preview'[b] = IF preview[b] = seen[n] THEN None ELSE preview[b]
      /\ \A c \in Branches : c # b => preview'[c] = preview[c]
  BY <1>1, <1>3 DEF TeardownCommits, TypeOK
<1>5. UNCHANGED <<seen, build, stack, raced, disordered, faults>>
  BY DEF TeardownCommits
<1>6. TypeOK'
  BY <1>1, <1>2, <1>4, <1>5 DEF TeardownCommits, TypeOK
<1>7. EventsTold'
  BY <1>1, <1>2, <1>3, <1>5 DEF Basics, EventsTold, BranchOf
<1>8. KindsFit'
  BY <1>1, <1>2, <1>5 DEF Basics, KindsFit, IsPush
<1>9. RowsFromPushes'
  BY <1>1, <1>2, <1>4 DEF Basics, RowsFromPushes, IsPush, BranchOf
<1>10. RoomAtCommit'
  <2>1. \A c \in Branches : preview[c] = None => preview'[c] = None
    BY <1>4
  <2>2. /\ Cardinality(Held) \in Nat /\ Cardinality(Held)' \in Nat
        /\ Cardinality(Held)' <= Cardinality(Held)
    BY <1>1, <1>6, <2>1, FewerHeld
  <2>3. MaxPreviews \in Nat
    BY PreviewsAssumption
  <2> QED
    BY <1>2, <1>5, <2>2, <2>3 DEF PreviewsInv, RoomAtCommit
<1>11. BuiltIsHeld'
  <2> SUFFICES ASSUME ~overtaken', NEW m \in Events, build[m] \in InFlight
               PROVE  preview'[BranchOf(m)] # None
    BY <1>2, <1>5 DEF BuiltIsHeld, BranchOf
  <2>1. ~overtaken /\ ~BeingBuilt(b)
    BY <1>1 DEF TeardownCommits, TypeOK
  <2>2. BranchOf(m) # b /\ preview[BranchOf(m)] # None
    BY <2>1 DEF BeingBuilt, PreviewsInv, BuiltIsHeld
  <2>3. BranchOf(m) \in Branches
    BY <1>1, Numbers DEF Basics, EventsTold, InFlight
  <2> QED
    BY <1>4, <2>2, <2>3
<1>12. StacksHeld'
  <2> SUFFICES ASSUME ~overtaken', faults = 0, NEW s \in Stacks, stack[s] # None
               PROVE  \/ \E c \in Held' : Slug[c] = s
                      \/ \E m \in Events : request'[m] = "removing" /\ m <= sent /\ StackOf(m) = s
    BY <1>2, <1>5 DEF StacksHeld, StackOf, BranchOf
  <2>1. ~overtaken
    BY <1>1 DEF TeardownCommits, TypeOK
  <2>2. CASE \E m \in Events : request[m] = "removing" /\ m <= sent /\ StackOf(m) = s
    BY <1>2, <2>2
  <2>3. ASSUME NEW c \in Held, Slug[c] = s
        PROVE  \/ \E k \in Held' : Slug[k] = s
               \/ \E m \in Events : request'[m] = "removing" /\ m <= sent /\ StackOf(m) = s
    <3>1. CASE c = b
      BY <1>2, <1>3, <2>3, <3>1 DEF StackOf
    <3>2. CASE c # b
      BY <1>4, <2>3, <3>2 DEF Held
    <3> QED
      BY <3>1, <3>2
  <2> QED
    BY <2>1, <2>2, <2>3 DEF PreviewsInv, StacksHeld
<1>13. Ordered'
  BY <1>1, <1>5, OrderedMove DEF PreviewsInv, Begun, Handling
<1>14. Torn'
  <2> SUFFICES ASSUME ~disordered, faults = 0, NEW d \in 1..sent, event[d].kind = "delete",
                      NoPushAfter(d)'
               PROVE  /\ request'[d] = "found" => preview'[BranchOf(d)] \in {seen[d], None}
                      /\ Handled(d)' => preview'[BranchOf(d)] = None
    BY <1>2, <1>5 DEF Torn, BranchOf
  <2>1. d \in Events /\ BranchOf(d) \in Branches
    BY <1>1, <1>2 DEF Basics, EventsTold
  <2>2. NoPushAfter(d)
    <3>1. \A m \in (d + 1)..sent : m \in Events
      BY <1>1, <1>2, Numbers
    <3> QED
      BY <1>1, <1>2, <3>1 DEF NoPushAfter, IsPush, BranchOf, Begun
  <2>3. /\ request[d] = "found" => preview[BranchOf(d)] \in {seen[d], None}
        /\ Handled(d) => preview[BranchOf(d)] = None
    BY <2>2 DEF PreviewsInv, Torn
  <2>4. preview'[BranchOf(d)] \in {preview[BranchOf(d)], None}
    BY <1>4, <2>1
  <2>5. CASE d = n
    BY <1>1, <1>2, <1>3, <1>4, <2>3, <2>5
  <2>6. CASE d # n
    BY <1>2, <2>1, <2>3, <2>4, <2>6 DEF Handled
  <2> QED
    BY <2>5, <2>6
<1>15. LastHolds'
  <2> SUFFICES ASSUME ~disordered, NEW m \in 1..sent, IsPush(m), build[m] # "absent",
                      \A k \in 1..sent : BranchOf(k) = BranchOf(m) => Webhook(k) /\ k <= m
               PROVE  preview'[BranchOf(m)] # None
    BY <1>2, <1>5 DEF LastHolds, IsPush, BranchOf, Webhook
  <2>1. m \in Events /\ BranchOf(m) \in Branches /\ request[m] = "done" /\ Webhook(m)
    BY <1>1, <1>2 DEF Basics, EventsTold, KindsFit, Webhook, IsPush
  <2>2. preview[BranchOf(m)] # None
    BY DEF PreviewsInv, LastHolds
  <2>3. InTurn(m)
    BY <2>1 DEF PreviewsInv, Ordered, Begun
  <2>4. BranchOf(m) # b
    <3> SUFFICES ASSUME BranchOf(m) = b PROVE FALSE
      OBVIOUS
    <3>1. Webhook(n) /\ n <= m /\ n # m
      BY <1>1, <1>3, <2>1
    <3>2. n \in 1..(m - 1)
      BY <1>1, <1>3, <2>1, <3>1, Numbers
    <3> QED
      BY <1>1, <2>1, <2>3, <3>1, <3>2 DEF InTurn, Handled
  <2> QED
    BY <1>4, <2>1, <2>2, <2>4
<1> QED
  BY <1>2, <1>6, <1>7, <1>8, <1>9, <1>10, <1>11, <1>12, <1>13, <1>14, <1>15
     DEF PreviewsInv, Basics

\* Taking the stack down.
LEMMA RemoveStackInv ==
    ASSUME PreviewsInv, NEW n \in Events, RemoveStack(n) \/ RemoveStackFails(n)
    PROVE  PreviewsInv'
<1>1. /\ Basics /\ TypeOK /\ request[n] = "removing" /\ Goto(n, "done") /\ ~IsPush(n)
      /\ UNCHANGED webhooks
  BY DEF PreviewsInv, Basics, KindsFit, RemoveStack, RemoveStackFails
<1>2. /\ \A m \in Events : request'[m] = IF m = n THEN "done" ELSE request[m]
      /\ request' \in [Events -> Handling \cup {"none", "done"}]
      /\ sent' = sent /\ event' = event /\ exists' = exists
      /\ \A m \in 1..sent : m \in Events /\ m <= sent
      /\ DeletedLast'
  BY <1>1, GotoFacts DEF PreviewsInv
<1>3. UNCHANGED <<seen, preview, build, raced, disordered, overtaken, Held>>
  BY DEF RemoveStack, RemoveStackFails, history, Held
<1>4. n \in 1..sent /\ n <= sent /\ BranchOf(n) \in Branches /\ StackOf(n) \in Stacks
  BY <1>1, Numbers, PreviewsAssumption DEF Basics, EventsTold, StackOf
<1>5. \/ faults' = faults /\ stack' = [stack EXCEPT ![StackOf(n)] = None]
      \/ faults' = faults + 1 /\ faults < MaxFaults /\ stack' = stack
  BY DEF RemoveStack, RemoveStackFails
<1>6. faults \in Nat /\ MaxFaults \in Nat
  BY <1>1, Numbers, PreviewsAssumption
<1>7. TypeOK'
  <2>1. stack' \in [Stacks -> Events \cup {None}] /\ faults' \in 0..MaxFaults
    BY <1>1, <1>5, <1>6 DEF TypeOK
  <2> QED
    BY <1>1, <1>2, <1>3, <2>1 DEF TypeOK
<1>8. EventsTold' /\ KindsFit' /\ RowsFromPushes'
  <2>1. EventsTold'
    BY <1>1, <1>2, <1>3, <1>4 DEF Basics, EventsTold, BranchOf
  <2> QED
    BY <1>1, <1>2, <1>3, <2>1 DEF Basics, KindsFit, RowsFromPushes, IsPush, BranchOf
<1>9. RoomAtCommit' /\ BuiltIsHeld'
  BY <1>2, <1>3 DEF PreviewsInv, RoomAtCommit, BuiltIsHeld, BranchOf
<1>10. faults' = 0 => faults = 0 /\ stack' = [stack EXCEPT ![StackOf(n)] = None]
  BY <1>5, <1>6
<1>11. StacksHeld'
  <2> SUFFICES ASSUME ~overtaken, faults' = 0, NEW s \in Stacks, stack'[s] # None
               PROVE  \/ \E c \in Held : Slug[c] = s
                      \/ \E m \in Events : request'[m] = "removing" /\ m <= sent /\ StackOf(m) = s
    BY <1>2, <1>3 DEF StacksHeld, StackOf, BranchOf
  <2>1. s # StackOf(n) /\ stack[s] # None
    BY <1>1, <1>10 DEF TypeOK
  <2> QED
    BY <1>2, <1>10, <2>1 DEF PreviewsInv, StacksHeld
<1>12. Ordered'
  BY <1>1, <1>3, OrderedMove DEF PreviewsInv, Begun
<1>13. Torn'
  <2> SUFFICES ASSUME ~disordered, faults' = 0, NEW d \in 1..sent, event[d].kind = "delete",
                      NoPushAfter(d)'
               PROVE  /\ request'[d] = "found" => preview[BranchOf(d)] \in {seen[d], None}
                      /\ Handled(d)' => preview[BranchOf(d)] = None
    BY <1>2, <1>3 DEF Torn, BranchOf
  <2>1. NoPushAfter(d)
    <3>1. \A m \in (d + 1)..sent : m \in Events
      BY <1>1, <1>2, Numbers
    <3> QED
      BY <1>1, <1>2, <3>1 DEF NoPushAfter, IsPush, BranchOf, Begun
  <2> QED
    BY <1>1, <1>2, <1>10, <2>1 DEF PreviewsInv, Torn, Handled
<1>14. LastHolds'
  BY <1>1, <1>2, <1>3 DEF PreviewsInv, LastHolds, IsPush, BranchOf, Webhook
<1> QED
  BY <1>2, <1>7, <1>8, <1>9, <1>11, <1>12, <1>13, <1>14 DEF PreviewsInv, Basics

-----------------------------------------------------------------------------
(* Builds and the process *)

\* The requests and the rows stay as they are; builds stay or become none.
LEMMA QuietFacts ==
    ASSUME PreviewsInv, UNCHANGED <<webhooks, request, seen, preview, history>>,
           build' \in [Events -> Builds], \A m \in Events : build[m] = "absent" <=> build'[m] = "absent",
           stack' \in [Stacks -> Events \cup {None}], faults' \in {faults, faults + 1},
           faults' \in 0..MaxFaults
    PROVE  /\ Basics' /\ RoomAtCommit' /\ Ordered' /\ Torn' /\ DeletedLast' /\ LastHolds'
<1>1. /\ sent' = sent /\ event' = event /\ exists' = exists /\ raced' = raced
      /\ disordered' = disordered /\ overtaken' = overtaken
  BY DEF webhooks, history
<1>2. TypeOK /\ Basics /\ \A m \in 1..sent : m \in Events /\ m <= sent
  BY Numbers DEF PreviewsInv, Basics
<1>3. faults' = 0 => faults = 0
  BY <1>2, Numbers
<1>4. TypeOK'
  BY <1>1, <1>2 DEF TypeOK
<1>5. EventsTold' /\ KindsFit' /\ RowsFromPushes'
  BY <1>1, <1>2 DEF Basics, EventsTold, KindsFit, RowsFromPushes, IsPush, BranchOf
<1>6. RoomAtCommit'
  <2>1. Held' = Held
    BY DEF Held
  <2> QED
    BY <1>1, <2>1 DEF PreviewsInv, RoomAtCommit
<1>7. Ordered'
  BY <1>1 DEF PreviewsInv, Ordered, InTurn, Webhook, BranchOf, Handled, Begun
<1>8. Torn'
  BY <1>1, <1>3 DEF PreviewsInv, Torn, NoPushAfter, IsPush, BranchOf, Handled, Begun
<1>9. DeletedLast'
  BY <1>1 DEF PreviewsInv, DeletedLast, LastDeleted, IsPush, BranchOf
<1>10. LastHolds'
  BY <1>1, <1>2 DEF PreviewsInv, LastHolds, IsPush, BranchOf, Webhook
<1> QED
  BY <1>4, <1>5, <1>6, <1>7, <1>8, <1>9, <1>10 DEF Basics

\* A step of the background task, which may start the stack.
LEMMA BackgroundInv ==
    ASSUME PreviewsInv, NEW n \in Events, Background(n)
    PROVE  PreviewsInv'
<1>1. PICK y \in Builds \ {"absent"} :
         /\ build[n] \in InFlight /\ BuildIs(n, y)
         /\ stack' = stack \/ stack' = [stack EXCEPT ![StackOf(n)] = n]
         /\ UNCHANGED <<webhooks, request, seen, preview, history, faults>>
  BY DEF Background, TaskBegins, StackUp, RecordReady, TaskRaises, RecordError, Builds, InFlight
<1>2. TypeOK /\ Basics
  BY DEF PreviewsInv, Basics
<1>3. /\ \A m \in Events : build'[m] = IF m = n THEN y ELSE build[m]
      /\ build' \in [Events -> Builds]
  BY <1>1, <1>2 DEF BuildIs, TypeOK
<1>4. /\ sent' = sent /\ event' = event /\ overtaken' = overtaken /\ faults' = faults
      /\ preview' = preview /\ request' = request /\ Held' = Held
  BY <1>1 DEF webhooks, history, Held
<1>5. n <= sent /\ BranchOf(n) \in Branches
  BY <1>1, <1>2, Numbers DEF Basics, EventsTold, InFlight
<1>6. /\ stack' \in [Stacks -> Events \cup {None}]
      /\ \A s \in Stacks : stack'[s] = stack[s] \/ s = StackOf(n)
  BY <1>1, <1>2 DEF TypeOK
<1>7. Basics' /\ RoomAtCommit' /\ Ordered' /\ Torn' /\ DeletedLast' /\ LastHolds'
  <2>1. \A m \in Events : build[m] = "absent" <=> build'[m] = "absent"
    BY <1>1, <1>3 DEF InFlight
  <2>2. faults' \in {faults, faults + 1} /\ faults' \in 0..MaxFaults
    BY <1>2, <1>4 DEF TypeOK
  <2> QED
    BY <1>1, <1>3, <1>6, <2>1, <2>2, QuietFacts
<1>8. BuiltIsHeld'
  BY <1>1, <1>3, <1>4 DEF PreviewsInv, BuiltIsHeld, BranchOf
<1>9. StacksHeld'
  <2> SUFFICES ASSUME ~overtaken, faults = 0, NEW s \in Stacks, stack'[s] # None
               PROVE  \/ \E c \in Held : Slug[c] = s
                      \/ \E m \in Events : request[m] = "removing" /\ m <= sent /\ StackOf(m) = s
    BY <1>4 DEF StacksHeld, StackOf, BranchOf
  <2>1. CASE s = StackOf(n)
    <3>1. BranchOf(n) \in Held
      BY <1>1, <1>5 DEF PreviewsInv, BuiltIsHeld, Held
    <3> QED
      BY <2>1, <3>1 DEF StackOf
  <2>2. CASE s # StackOf(n)
    BY <1>6, <2>2 DEF PreviewsInv, StacksHeld
  <2> QED
    BY <2>1, <2>2
<1> QED
  BY <1>7, <1>8, <1>9 DEF PreviewsInv

LEMMA RestartInv == ASSUME PreviewsInv, Restart PROVE PreviewsInv'
<1>1. TypeOK /\ Basics /\ \A m \in 1..sent : m \in Events /\ m <= sent /\ 1..(m - 1) \subseteq Events
  BY Numbers DEF PreviewsInv, Basics
<1>2. /\ sent' = sent /\ event' = event /\ exists' = exists /\ raced' = raced /\ seen' = seen
      /\ disordered' = disordered /\ overtaken' = overtaken /\ preview' = preview
      /\ stack' = stack /\ Held' = Held
  BY DEF Restart, webhooks, history, Held
<1>3. /\ request' \in [Events -> Handling \cup {"none", "done"}]
      /\ \A m \in Events :
            /\ request[m] \in {"none", "sent", "done"} => request'[m] = request[m]
            /\ request[m] \notin {"none", "sent", "done"} => request'[m] = "done"
  BY <1>1 DEF Restart, TypeOK, Handling
<1>4. /\ build' \in [Events -> Builds]
      /\ \A m \in Events :
            /\ build'[m] = "absent" <=> build[m] = "absent"
            /\ build'[m] \in InFlight <=> build[m] \in InFlight
  BY <1>1 DEF Restart, TypeOK, Builds, InFlight
<1>5. faults' # 0 /\ faults' \in 0..MaxFaults
  BY <1>1, Numbers, PreviewsAssumption DEF Restart
<1>6. TypeOK'
  BY <1>1, <1>2, <1>3, <1>4, <1>5 DEF TypeOK
<1>7. EventsTold'
  BY <1>1, <1>2, <1>3, <1>4 DEF Basics, EventsTold, BranchOf
<1>8. KindsFit' /\ RowsFromPushes'
  <2>1. KindsFit'
    BY <1>1, <1>2, <1>3, <1>4 DEF Basics, KindsFit, IsPush
  <2> QED
    BY <1>1, <1>2, <2>1 DEF Basics, RowsFromPushes, IsPush, BranchOf
<1>9. RoomAtCommit' /\ BuiltIsHeld'
  BY <1>2, <1>3, <1>4 DEF PreviewsInv, RoomAtCommit, BuiltIsHeld, BranchOf
<1>10. StacksHeld' /\ Torn'
  BY <1>5 DEF StacksHeld, Torn
<1>11. Ordered'
  <2>1. \A m \in Events : (Begun(m)' <=> Begun(m)) /\ (Handled(m) => Handled(m)')
    BY <1>3 DEF Begun, Handled
  <2>2. \A m \in 1..sent : InTurn(m) => InTurn(m)'
    BY <1>1, <1>2, <2>1 DEF InTurn, Webhook, BranchOf
  <2> QED
    BY <1>1, <1>2, <2>1, <2>2 DEF PreviewsInv, Ordered, Webhook
<1>12. DeletedLast'
  BY <1>2 DEF PreviewsInv, DeletedLast, LastDeleted, IsPush, BranchOf
<1>13. LastHolds'
  BY <1>1, <1>2, <1>4 DEF PreviewsInv, LastHolds, IsPush, BranchOf, Webhook
<1> QED
  BY <1>6, <1>7, <1>8, <1>9, <1>10, <1>11, <1>12, <1>13 DEF PreviewsInv, Basics

LEMMA NextInv == PreviewsInv /\ [Next]_vars => PreviewsInv'
<1> SUFFICES ASSUME PreviewsInv, [Next]_vars PROVE PreviewsInv'
  OBVIOUS
<1>1. CASE UNCHANGED vars
  <2>1. TypeOK
    BY DEF PreviewsInv, Basics
  <2>2. UNCHANGED <<webhooks, request, seen, preview, build, stack, history, faults>>
    BY <1>1 DEF vars
  <2>3. Basics' /\ RoomAtCommit' /\ Ordered' /\ Torn' /\ DeletedLast' /\ LastHolds'
    BY <2>1, <2>2, QuietFacts DEF TypeOK
  <2>4. BuiltIsHeld' /\ StacksHeld'
    BY <2>2 DEF PreviewsInv, BuiltIsHeld, StacksHeld, Held, StackOf, BranchOf, webhooks, history
  <2> QED
    BY <2>3, <2>4 DEF PreviewsInv
<1>2. ASSUME NEW n \in Events, Handle(n) PROVE PreviewsInv'
  BY <1>2, BeginsInv, PushCommitsInv, PushFailsInv, TeardownCommitsInv, RemoveStackInv DEF Handle
<1> QED
  BY <1>1, <1>2, GitHubInv, BackgroundInv, RemoveStackInv, RestartInv DEF Next

-----------------------------------------------------------------------------
\* PreviewsInv holds of every reachable state, restarts and docker failures
\* included.
THEOREM Invariance == Spec => []PreviewsInv
BY InitInv, NextInv, PTL DEF Spec

\* "capped per project instead (max_previews_per_project)" (PreviewEnv): the
\* count in deploy_preview_for_tenant keeps the cap for any number of branches
\* and events, unless two pushes of new branches overlap.
THEOREM CapHolds == Spec => []CapUnlessRaced
<1>1. PreviewsInv => CapUnlessRaced
  BY DEF PreviewsInv, RoomAtCommit, CapUnlessRaced, PreviewCap
<1> QED
  BY <1>1, Invariance, PTL

\* "handling both is safe" (api_github_webhook): with a branch's webhooks
\* handled in the order they were sent, a deleted branch ends without a row
\* and a branch whose last event is an accepted push ends with one.
THEOREM RowsAgree == Spec => []RowsFollowBranches
<1>1. PreviewsInv => RowsFollowBranches
  <2> SUFFICES ASSUME PreviewsInv, ~disordered, faults = 0
               PROVE  DeletedBranchHasNoRow /\ LastPushHasPreview
    BY DEF RowsFollowBranches
  <2>0. TypeOK /\ Basics /\ \A m \in 1..sent : m \in Events /\ m <= sent
    BY Numbers DEF PreviewsInv, Basics
  <2>1. ASSUME NEW b \in Branches \ exists, AllHandled(b) PROVE preview[b] = None
    <3>1. CASE \A n \in 1..sent : BranchOf(n) = b => ~IsPush(n)
      BY <2>0, <3>1 DEF Basics, RowsFromPushes
    <3>2. ASSUME NEW d \in 1..sent, BranchOf(d) = b, event[d].kind = "delete",
                 \A m \in (d + 1)..sent : BranchOf(m) = b => ~IsPush(m)
          PROVE  preview[b] = None
      <4>1. NoPushAfter(d) /\ Handled(d)
        BY <2>1, <3>2 DEF NoPushAfter, AllHandled
      <4> QED
        BY <3>2, <4>1 DEF PreviewsInv, Torn
    <3> QED
      BY <2>1, <3>1, <3>2 DEF PreviewsInv, DeletedLast, LastDeleted
  <2>2. LastPushHasPreview
    BY <2>0 DEF PreviewsInv, LastHolds, LastPushHasPreview, IsPush
  <2> QED
    BY <2>1, <2>2 DEF DeletedBranchHasNoRow
<1> QED
  BY <1>1, Invariance, PTL

\* "deleting the branch tears it down" (PreviewEnv): no stack is left running
\* without a row, unless a preview was torn down while it was being built.
THEOREM StacksAreHeld == Spec => []NoOrphanUnlessOvertaken
<1>1. PreviewsInv => NoOrphanUnlessOvertaken
  BY DEF PreviewsInv, StacksHeld, NoOrphanUnlessOvertaken, NoOrphanPreview, Idle
<1> QED
  BY <1>1, Invariance, PTL
=============================================================================
