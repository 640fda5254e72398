---------------------------- MODULE Limits_proofs ----------------------------
(***************************************************************************)
(* What a tenant may use up: slots for apps, and prepaid credit.           *)
(*                                                                         *)
(* For every set of requests, every plan and every interleaving: the quota *)
(* is respected, no failed build keeps a slot, and the transactions of     *)
(* QuotaReserve implement SlotLedger.  QuotaInv is inductive.              *)
(*                                                                         *)
(* For every set of calls and top-ups, every price list and any number of  *)
(* restarts: the balance is the sum of the log unless two updates          *)
(* overlapped, and it stays above minus one call unless two calls did.     *)
(* WalletInv says why: whoever has read the row still has its committed    *)
(* value, and a call under way was admitted on a balance that can only     *)
(* have grown since.                                                       *)
(***************************************************************************)
EXTENDS QuotaReserve, CreditWallet, FiniteSetTheorems, TLAPS

\* A part of a set of requests is finite and no larger, so its Cardinality
\* is a number.
LEMMA RequestSets ==
    ASSUME NEW T \in SUBSET Requests, NEW S \in SUBSET T
    PROVE  /\ Cardinality(S) \in Nat
           /\ Cardinality(T) \in Nat
           /\ Cardinality(S) <= Cardinality(T)
<1>1. IsFiniteSet(Requests)
  BY QuotaAssumption
<1>2. IsFiniteSet(T)
  BY <1>1, FS_Subset
<1>3. IsFiniteSet(S) /\ Cardinality(S) <= Cardinality(T)
  BY <1>2, FS_Subset
<1> QED
  BY <1>2, <1>3, FS_CardinalityType

\* Adding one row adds at most one to the number of rows.
LEMMA OneMoreRow ==
    ASSUME NEW S \in SUBSET Requests, NEW r \in Requests
    PROVE  Cardinality(S \cup {r}) <= Cardinality(S) + 1
<1>1. IsFiniteSet(S)
  BY QuotaAssumption, FS_Subset
<1>2. Cardinality(S) \in Nat
  BY <1>1, FS_CardinalityType
<1> QED
  BY <1>1, <1>2, FS_AddElement

\* Init establishes the invariant: there are no rows.
LEMMA InitInv == Init => QuotaInv
<1> SUFFICES ASSUME Init PROVE QuotaInv
  OBVIOUS
<1>1. TypeOK
  BY DEF Init, TypeOK, Stages, Kinds
<1>2. Cardinality(rows) = 0
  BY FS_EmptySet DEF Init
<1>3. QuotaRespected
  BY <1>2, QuotaAssumption DEF QuotaRespected
<1> QED
  BY <1>1, <1>3 DEF Init, QuotaInv, LockHeld, RowsSeen, CountCovers, RowStage,
     RoomAtInsert, Locked

\* Every step keeps variables in their types.
LEMMA StepTypeOK == TypeOK /\ [Next]_vars => TypeOK'
<1> SUFFICES ASSUME TypeOK, [Next]_vars PROVE TypeOK'
  OBVIOUS
<1> USE DEF TypeOK, Stages, Locked, Ended, Goto
<1>1. ASSUME NEW r \in Requests, CheckExisting(r) PROVE TypeOK'
  BY <1>1 DEF CheckExisting
<1>2. ASSUME NEW r \in Requests, StartRedeploy(r) PROVE TypeOK'
  BY <1>2 DEF StartRedeploy
<1>3. ASSUME NEW r \in Requests, AcquireTenantLock(r) PROVE TypeOK'
  BY <1>3 DEF AcquireTenantLock
<1>4. ASSUME NEW r \in Requests, ReadRows(r) PROVE TypeOK'
  BY <1>4 DEF ReadRows
<1>5. ASSUME NEW r \in Requests, ReadInflight(r) PROVE TypeOK'
  <2>1. /\ Cardinality(seen[r]) \in Nat
        /\ Cardinality(Uncovered(r)) \in Nat
    BY RequestSets DEF Uncovered
  <2> QED
    BY <1>5, <2>1 DEF ReadInflight
<1>6. ASSUME NEW r \in Requests, Decide(r) PROVE TypeOK'
  BY <1>6 DEF Decide
<1>7. ASSUME NEW r \in Requests, CommitReservation(r) PROVE TypeOK'
  BY <1>7 DEF CommitReservation
<1>8. ASSUME NEW r \in Requests, AbortReservation(r) PROVE TypeOK'
  BY <1>8 DEF AbortReservation
<1>9. ASSUME NEW r \in Requests, BuildReady(r) PROVE TypeOK'
  BY <1>9 DEF BuildReady
<1>10. ASSUME NEW r \in Requests, BuildFailed(r) PROVE TypeOK'
  BY <1>10 DEF BuildFailed
<1>11. ASSUME NEW r \in Requests, Release(r) PROVE TypeOK'
  BY <1>11 DEF Release
<1>12. ASSUME NEW p \in Projects, RemoveApp(p) PROVE TypeOK'
  BY <1>12 DEF RemoveApp
<1>13. CASE UNCHANGED vars
  BY <1>13 DEF vars
<1> QED
  BY <1>1, <1>2, <1>3, <1>4, <1>5, <1>6, <1>7, <1>8, <1>9, <1>10, <1>11,
     <1>12, <1>13 DEF Next, HoldLock, Background

-----------------------------------------------------------------------------
\* A step that adds no row and moves no request into the locked section
\* except, freely, along it: what is left to show for it is the count.
LEMMA RowsShrink ==
    ASSUME TypeOK, TypeOK', QuotaRespected, rows' \subseteq rows
    PROVE  /\ QuotaRespected'
           /\ Cardinality(rows') \in Nat
           /\ Cardinality(rows) \in Nat
           /\ Cardinality(rows') <= Cardinality(rows)
<1>1. /\ Cardinality(rows') \in Nat
      /\ Cardinality(rows) \in Nat
      /\ Cardinality(rows') <= Cardinality(rows)
  BY RequestSets DEF TypeOK
<1> QED
  BY <1>1, QuotaAssumption DEF QuotaRespected

\* Steps of a request that is not in the locked section, before or after.
LEMMA OutsideStep ==
    ASSUME QuotaInv, TypeOK', NEW r \in Requests,
           pc[r] \notin Locked, pc'[r] \notin Locked,
           \A q \in Requests \ {r} : pc'[q] = pc[q],
           rows' \subseteq rows,
           r \in rows' => pc'[r] \in {"build", "release", "ready"},
           lock' = lock, seen' = seen, count' = count
    PROVE  QuotaInv'
<1> USE DEF QuotaInv
<1>1. /\ QuotaRespected'
      /\ Cardinality(rows') \in Nat
      /\ Cardinality(rows) \in Nat
      /\ Cardinality(rows') <= Cardinality(rows)
  BY RowsShrink
<1>2. LockHeld'
  BY DEF LockHeld
<1>3. RowsSeen'
  BY DEF RowsSeen, Locked
<1>4. CountCovers'
  <2> SUFFICES ASSUME NEW q \in Requests, pc'[q] = "decide"
               PROVE  Cardinality(rows') <= count[q]
    BY DEF CountCovers
  <2>1. pc[q] = "decide"
    BY DEF Locked
  <2> QED
    BY <2>1, <1>1 DEF CountCovers, TypeOK
<1>5. RowStage'
  BY DEF RowStage, TypeOK
<1>6. RoomAtInsert'
  <2> SUFFICES ASSUME NEW q \in Requests, pc'[q] = "insert", ~PlatformScope
               PROVE  Cardinality(rows') < MaxApps
    BY DEF RoomAtInsert
  <2>1. pc[q] = "insert"
    BY DEF Locked
  <2> QED
    BY <2>1, <1>1, QuotaAssumption DEF RoomAtInsert
<1> QED
  BY <1>1, <1>2, <1>3, <1>4, <1>5, <1>6

\* Every step keeps the invariant.
LEMMA StepInv == QuotaInv /\ [Next]_vars => QuotaInv'
<1> SUFFICES ASSUME QuotaInv, [Next]_vars PROVE QuotaInv'
  OBVIOUS
<1>0. TypeOK /\ TypeOK'
  BY StepTypeOK DEF QuotaInv
<1>1. ASSUME NEW r \in Requests, CheckExisting(r) PROVE QuotaInv'
  <2>1. r \notin rows
    BY <1>1 DEF QuotaInv, RowStage, CheckExisting
  <2> QED
    BY <1>0, <1>1, <2>1, OutsideStep
       DEF CheckExisting, Goto, TypeOK, Locked
<1>2. ASSUME NEW r \in Requests, StartRedeploy(r) PROVE QuotaInv'
  <2>1. r \notin rows
    BY <1>2 DEF QuotaInv, RowStage, StartRedeploy
  <2> QED
    BY <1>0, <1>2, <2>1, OutsideStep
       DEF StartRedeploy, Goto, TypeOK, Locked
<1>3. ASSUME NEW r \in Requests, AcquireTenantLock(r) PROVE QuotaInv'
  <2>1. \A q \in Requests : pc[q] \notin Locked
    BY <1>3, QuotaAssumption DEF QuotaInv, LockHeld, AcquireTenantLock
  <2> QED
    BY <1>0, <1>3, <2>1
       DEF QuotaInv, AcquireTenantLock, Goto, TypeOK, Locked, LockHeld,
           RowsSeen, CountCovers, RowStage, RoomAtInsert, QuotaRespected
<1>4. ASSUME NEW r \in Requests, ReadRows(r) PROVE QuotaInv'
  BY <1>0, <1>4
     DEF QuotaInv, ReadRows, Goto, TypeOK, Locked, LockHeld,
         RowsSeen, CountCovers, RowStage, RoomAtInsert, QuotaRespected
<1>5. ASSUME NEW r \in Requests, ReadInflight(r) PROVE QuotaInv'
  <2>1. rows \subseteq seen[r] /\ seen[r] \subseteq Requests
    BY <1>0, <1>5 DEF QuotaInv, RowsSeen, ReadInflight, TypeOK
  <2>2. /\ Cardinality(rows) \in Nat
        /\ Cardinality(seen[r]) \in Nat
        /\ Cardinality(rows) <= Cardinality(seen[r])
    BY <2>1, RequestSets
  <2>3. Cardinality(Uncovered(r)) \in Nat
    BY <1>0, RequestSets DEF Uncovered, TypeOK
  <2>4. count'[r] = Cardinality(seen[r]) + Cardinality(Uncovered(r))
    BY <1>0, <1>5 DEF ReadInflight, TypeOK
  <2>5. Cardinality(rows) <= count'[r]
    BY <2>2, <2>3, <2>4
  <2>6. CountCovers'
    BY <1>0, <1>5, <2>5 DEF QuotaInv, CountCovers, ReadInflight, Goto, TypeOK
  <2> QED
    BY <1>0, <1>5, <2>6
       DEF QuotaInv, ReadInflight, Goto, TypeOK, Locked, LockHeld,
           RowsSeen, RowStage, RoomAtInsert, QuotaRespected
<1>6. ASSUME NEW r \in Requests, Decide(r) PROVE QuotaInv'
  <2>1. \A q \in Requests \ {r} : pc[q] \notin Locked
    BY <1>6 DEF QuotaInv, LockHeld, Decide, Locked
  <2>2. Cardinality(rows) <= count[r]
    BY <1>6 DEF QuotaInv, CountCovers, Decide
  <2>3. Cardinality(rows) \in Nat /\ count[r] \in Nat
    BY <1>0, RequestSets DEF TypeOK
  <2>4. RoomAtInsert'
    <3> SUFFICES ASSUME NEW q \in Requests, pc'[q] = "insert", ~PlatformScope
                 PROVE  Cardinality(rows) < MaxApps
      BY <1>6 DEF RoomAtInsert, Decide
    <3>1. q = r /\ ~OverQuota(r)
      BY <1>0, <1>6, <2>1 DEF Decide, Goto, TypeOK, Locked
    <3> QED
      BY <2>2, <2>3, <3>1, QuotaAssumption DEF OverQuota
  <2>5. LockHeld'
    BY <1>0, <1>6, <2>1 DEF QuotaInv, LockHeld, Decide, Goto, TypeOK, Locked
  <2> QED
    BY <1>0, <1>6, <2>1, <2>4, <2>5
       DEF QuotaInv, Decide, Goto, TypeOK, Locked,
           RowsSeen, CountCovers, RowStage, QuotaRespected
<1>7. ASSUME NEW r \in Requests, CommitReservation(r) PROVE QuotaInv'
  <2>1. \A q \in Requests \ {r} : pc[q] \notin Locked
    BY <1>7 DEF QuotaInv, LockHeld, CommitReservation, Locked
  <2>2. /\ pc'[r] \in {"build", "ready"}
        /\ \A q \in Requests \ {r} : pc'[q] = pc[q]
    BY <1>0, <1>7 DEF CommitReservation, Goto, TypeOK
  <2>3. \A q \in Requests : pc'[q] \notin Locked
    BY <2>1, <2>2 DEF Locked
  <2>4. QuotaRespected'
    <3> SUFFICES ASSUME ~PlatformScope
                 PROVE  Cardinality(rows \cup {r}) <= MaxApps
      BY <1>7 DEF QuotaRespected, CommitReservation
    <3>1. Cardinality(rows) < MaxApps
      BY <1>7 DEF QuotaInv, RoomAtInsert, CommitReservation
    <3>2. Cardinality(rows \cup {r}) <= Cardinality(rows) + 1
      BY <1>0, OneMoreRow DEF TypeOK
    <3>3. Cardinality(rows) \in Nat /\ Cardinality(rows \cup {r}) \in Nat
      BY <1>0, RequestSets DEF TypeOK
    <3> QED
      BY <3>1, <3>2, <3>3, QuotaAssumption
  <2>5. RowStage'
    BY <1>0, <1>7, <2>2 DEF QuotaInv, RowStage, CommitReservation, TypeOK
  <2> QED
    BY <1>0, <2>3, <2>4, <2>5
       DEF QuotaInv, Locked, LockHeld, RowsSeen, CountCovers, RoomAtInsert
<1>8. ASSUME NEW r \in Requests, AbortReservation(r) PROVE QuotaInv'
  <2>1. \A q \in Requests \ {r} : pc[q] \notin Locked
    BY <1>8 DEF QuotaInv, LockHeld, AbortReservation, Locked
  <2> QED
    BY <1>0, <1>8, <2>1
       DEF QuotaInv, AbortReservation, Goto, TypeOK, Locked, LockHeld,
           RowsSeen, CountCovers, RowStage, RoomAtInsert, QuotaRespected
<1>9. ASSUME NEW r \in Requests, BuildReady(r) PROVE QuotaInv'
  BY <1>0, <1>9, OutsideStep DEF BuildReady, Goto, TypeOK, Locked
<1>10. ASSUME NEW r \in Requests, BuildFailed(r) PROVE QuotaInv'
  BY <1>0, <1>10, OutsideStep DEF BuildFailed, Goto, TypeOK, Locked
<1>11. ASSUME NEW r \in Requests, Release(r) PROVE QuotaInv'
  <2>1. rows' \subseteq rows /\ r \notin rows'
    BY <1>11 DEF Release, RowsOf
  <2> QED
    BY <1>0, <1>11, <2>1, OutsideStep DEF Release, Goto, TypeOK, Locked
<1>12. ASSUME NEW p \in Projects, RemoveApp(p) PROVE QuotaInv'
  <2>1. rows' \subseteq rows
    BY <1>12 DEF RemoveApp
  <2>2. /\ QuotaRespected'
        /\ Cardinality(rows') \in Nat
        /\ Cardinality(rows) \in Nat
        /\ Cardinality(rows') <= Cardinality(rows)
    BY <1>0, <2>1, RowsShrink DEF QuotaInv
  <2>3. CountCovers'
    BY <1>0, <1>12, <2>2 DEF QuotaInv, CountCovers, RemoveApp, TypeOK
  <2>4. RoomAtInsert'
    BY <1>12, <2>2, QuotaAssumption DEF QuotaInv, RoomAtInsert, RemoveApp
  <2> QED
    BY <1>0, <1>12, <2>1, <2>2, <2>3, <2>4
       DEF QuotaInv, RemoveApp, LockHeld, RowsSeen, RowStage
<1>13. CASE UNCHANGED vars
  BY <1>0, <1>13
     DEF vars, QuotaInv, LockHeld, RowsSeen, CountCovers, RowStage,
         RoomAtInsert, QuotaRespected
<1> QED
  BY <1>1, <1>2, <1>3, <1>4, <1>5, <1>6, <1>7, <1>8, <1>9, <1>10, <1>11,
     <1>12, <1>13 DEF Next, HoldLock, Background

-----------------------------------------------------------------------------
\* The invariant holds in every reachable state.
THEOREM Invariance == Spec => []QuotaInv
  BY InitInv, StepInv, PTL DEF Spec

\* Type correctness of the reservation transactions.
THEOREM TypeCorrect == Spec => []TypeOK
<1>1. QuotaInv => TypeOK
  BY DEF QuotaInv
<1> QED
  BY <1>1, Invariance, PTL

\* check_and_reserve never lets a tenant above its plan, for any number of
\* concurrent requests and any plan.
THEOREM NeverOverQuota == Spec => []QuotaRespected
<1>1. QuotaInv => QuotaRespected
  BY DEF QuotaInv
<1> QED
  BY <1>1, Invariance, PTL

\* A build that failed has given its slot back when its task ends.
THEOREM FailedBuildFreesSlot == Spec => []NoOrphanSlot
<1>1. QuotaInv => NoOrphanSlot
  BY DEF QuotaInv, RowStage, NoOrphanSlot
<1> QED
  BY <1>1, Invariance, PTL

\* Every step of the transactions is a step of the ledger or leaves it alone.
LEMMA StepRefines == QuotaInv /\ [Next]_vars => [Ledger!LedgerNext]_rows
<1> SUFFICES ASSUME QuotaInv, [Next]_vars, rows' # rows
             PROVE  Ledger!LedgerNext
  OBVIOUS
<1>1. ASSUME NEW r \in Requests, CommitReservation(r) PROVE Ledger!LedgerNext
  <2>1. r \notin rows
    BY <1>1 DEF QuotaInv, RowStage, CommitReservation
  <2>2. PlatformScope \/ Cardinality(rows) < MaxApps
    BY <1>1 DEF QuotaInv, RoomAtInsert, CommitReservation
  <2>3. Ledger!Cardinality(rows) = Cardinality(rows)
    BY DEF Ledger!Cardinality, Cardinality
  <2>4. Ledger!Take(r)
    BY <1>1, <2>1, <2>2, <2>3 DEF Ledger!Take, CommitReservation
  <2> QED
    BY <2>4 DEF Ledger!LedgerNext
<1>2. ASSUME rows' \subseteq rows PROVE Ledger!LedgerNext
  BY <1>2 DEF Ledger!LedgerNext, Ledger!GiveBack
<1>3. ASSUME NEW r \in Requests,
             CheckExisting(r) \/ StartRedeploy(r) \/ AcquireTenantLock(r)
      PROVE  FALSE
  BY <1>3 DEF CheckExisting, StartRedeploy, AcquireTenantLock
<1>4. ASSUME NEW r \in Requests,
             ReadRows(r) \/ ReadInflight(r) \/ Decide(r) \/ AbortReservation(r)
      PROVE  FALSE
  BY <1>4 DEF ReadRows, ReadInflight, Decide, AbortReservation
<1>5. ASSUME NEW r \in Requests, Background(r) PROVE rows' \subseteq rows
  BY <1>5 DEF Background, BuildReady, BuildFailed, Release
<1>6. ASSUME NEW p \in Projects, RemoveApp(p) PROVE rows' \subseteq rows
  BY <1>6 DEF RemoveApp
<1> QED
  BY <1>1, <1>2, <1>3, <1>4, <1>5, <1>6 DEF Next, HoldLock, vars

\* The reservation transactions implement the abstract ledger of slots.
THEOREM Refinement == Spec => ImplementsLedger
<1>1. Init => Ledger!LedgerInit
  BY DEF Init, Ledger!LedgerInit
<1> QED
  BY <1>1, Invariance, StepRefines, PTL
     DEF Spec, ImplementsLedger, Ledger!LedgerSpec

-----------------------------------------------------------------------------
\* Every step keeps the types.
LEMMA WalletStepTypeOK == WalletTypeOK /\ [WalletNext]_walletVars => WalletTypeOK'
<1> SUFFICES ASSUME WalletTypeOK, [WalletNext]_walletVars PROVE WalletTypeOK'
  OBVIOUS
<1> USE DEF WalletTypeOK, Proceed, Sees, UnderWay, Ops, row
<1>1. ASSUME NEW c \in Calls, StartCall(c) PROVE WalletTypeOK'
  BY <1>1 DEF StartCall
<1>2. ASSUME NEW c \in Calls, Answered(c) PROVE WalletTypeOK'
  <2>1. PICK cost \in Costs : delta' = [delta EXCEPT ![c] = -cost]
    BY <1>2 DEF Answered
  <2>2. -cost \in Int
    BY WalletAssumption
  <2> QED
    BY <1>2, <2>1, <2>2 DEF Answered
<1>3. ASSUME NEW c \in Calls, CallFails(c) PROVE WalletTypeOK'
  BY <1>3 DEF CallFails
<1>4. ASSUME NEW t \in Topups, StartTopup(t) PROVE WalletTypeOK'
  <2>1. PICK amount \in Amounts : delta' = [delta EXCEPT ![t] = amount]
    BY <1>4 DEF StartTopup
  <2>2. amount \in Int
    BY WalletAssumption
  <2> QED
    BY <1>4, <2>1, <2>2 DEF StartTopup
<1>5. ASSUME NEW o \in Ops, ReadWallet(o) PROVE WalletTypeOK'
  BY <1>5 DEF ReadWallet
<1>6. ASSUME NEW o \in Ops, Write(o) PROVE WalletTypeOK'
  BY <1>6 DEF Write
<1>7. ASSUME NEW o \in Ops, Commit(o) PROVE WalletTypeOK'
  BY <1>7 DEF Commit
<1>8. CASE Restart
  BY <1>8, WalletAssumption DEF Restart
<1>9. CASE UNCHANGED walletVars
  BY <1>9 DEF walletVars
<1> HIDE DEF Ops
<1> QED
  BY <1>1, <1>2, <1>3, <1>4, <1>5, <1>6, <1>7, <1>8, <1>9 DEF WalletNext, Apply

-----------------------------------------------------------------------------
\* Init establishes the invariant.
LEMMA WalletInitInv == WalletInit => WalletInv
<1> SUFFICES ASSUME WalletInit PROVE WalletInv
  OBVIOUS
<1>1. WalletTypeOK
  <2>1. MaxFaults \in Nat
    BY WalletAssumption
  <2>2. [balance |-> 0, row |-> FALSE] \in [balance : Int, row : BOOLEAN]
    OBVIOUS
  <2>3. read \in [Ops -> [balance : Int, row : BOOLEAN]]
    BY <2>2 DEF WalletInit
  <2>4. faults \in 0..MaxFaults /\ balance \in Int /\ logged \in Int
    BY <2>1 DEF WalletInit
  <2>5. /\ stage \in [Ops -> UnderWay \cup {"idle", "refused", "billed", "failed", "lost"}]
        /\ delta \in [Ops -> Int]
    BY DEF WalletInit
  <2>6. writer \in Ops \cup {Nobody} /\ wallet \in BOOLEAN
        /\ overlapped \in BOOLEAN /\ raced \in BOOLEAN
    BY DEF WalletInit
  <2> QED
    BY <2>3, <2>4, <2>5, <2>6 DEF WalletTypeOK
<1>2. ReadersAreCurrent /\ DeltasAreSigned /\ OneCallInCredit
  BY DEF WalletInit, ReadersAreCurrent, DeltasAreSigned, OneCallInCredit, UnderWay, Ops
<1>3. BalanceUnlessRaced
  BY DEF WalletInit, BalanceUnlessRaced, BalanceMatchesLog
<1>4. SoftCap
  <2>1. MaxCost \in Nat /\ MaxCost # 0
    BY WalletAssumption
  <2> QED
    BY <2>1 DEF WalletInit, SoftCap
<1> QED
  BY <1>1, <1>2, <1>3, <1>4 DEF WalletInv, SoftCapUnlessOverlapped

\* A debit is at most one call and a top-up is positive, at every stage.
LEMMA WalletStepSigned == WalletTypeOK /\ DeltasAreSigned /\ [WalletNext]_walletVars => DeltasAreSigned'
<1> SUFFICES ASSUME WalletTypeOK, DeltasAreSigned, [WalletNext]_walletVars PROVE DeltasAreSigned'
  OBVIOUS
<1> USE DEF WalletTypeOK, DeltasAreSigned, Proceed, Ops, row
<1>1. ASSUME NEW c \in Calls, StartCall(c) PROVE DeltasAreSigned'
  BY <1>1 DEF StartCall
<1>2. ASSUME NEW c \in Calls, Answered(c) PROVE DeltasAreSigned'
  <2>1. PICK cost \in Costs : delta' = [delta EXCEPT ![c] = -cost]
    BY <1>2 DEF Answered
  <2>2. cost \in Nat /\ MaxCost \in Nat /\ cost <= MaxCost
    BY WalletAssumption
  <2>3. -MaxCost <= -cost /\ -cost <= 0
    BY <2>2
  <2> QED
    BY <1>2, <2>1, <2>3 DEF Answered
<1>3. ASSUME NEW c \in Calls, CallFails(c) PROVE DeltasAreSigned'
  BY <1>3 DEF CallFails
<1>4. ASSUME NEW t \in Topups, StartTopup(t) PROVE DeltasAreSigned'
  <2>1. PICK amount \in Amounts : delta' = [delta EXCEPT ![t] = amount]
    BY <1>4 DEF StartTopup
  <2>2. amount > 0 /\ t \notin Calls
    BY WalletAssumption
  <2> QED
    BY <1>4, <2>1, <2>2 DEF StartTopup
<1>5. ASSUME NEW o \in Ops, ReadWallet(o) PROVE DeltasAreSigned'
  BY <1>5 DEF ReadWallet
<1>6. ASSUME NEW o \in Ops, Write(o) PROVE DeltasAreSigned'
  BY <1>6 DEF Write
<1>7. ASSUME NEW o \in Ops, Commit(o) PROVE DeltasAreSigned'
  BY <1>7 DEF Commit
<1>8. CASE Restart
  BY <1>8 DEF Restart, UnderWay
<1>9. CASE UNCHANGED walletVars
  BY <1>9 DEF walletVars
<1> HIDE DEF Ops
<1> QED
  BY <1>1, <1>2, <1>3, <1>4, <1>5, <1>6, <1>7, <1>8, <1>9 DEF WalletNext, Apply

\* A read stays current: a commit that would make it stale is a race.
LEMMA WalletStepReaders == WalletTypeOK /\ ReadersAreCurrent /\ [WalletNext]_walletVars => ReadersAreCurrent'
<1> SUFFICES ASSUME WalletTypeOK, ReadersAreCurrent, [WalletNext]_walletVars PROVE ReadersAreCurrent'
  OBVIOUS
<1> USE DEF WalletTypeOK, ReadersAreCurrent, Proceed, Sees, row
<1>1. ASSUME NEW c \in Calls, StartCall(c) PROVE ReadersAreCurrent'
  BY <1>1 DEF StartCall, Ops
<1>2. ASSUME NEW c \in Calls, Answered(c) \/ CallFails(c) PROVE ReadersAreCurrent'
  BY <1>2 DEF Answered, CallFails, Ops
<1>3. ASSUME NEW t \in Topups, StartTopup(t) PROVE ReadersAreCurrent'
  BY <1>3 DEF StartTopup, Ops
<1>4. ASSUME NEW o \in Ops, ReadWallet(o) PROVE ReadersAreCurrent'
  BY <1>4 DEF ReadWallet
<1>5. ASSUME NEW o \in Ops, Write(o) PROVE ReadersAreCurrent'
  BY <1>5 DEF Write
<1>6. ASSUME NEW o \in Ops, Commit(o) PROVE ReadersAreCurrent'
  BY <1>6 DEF Commit
<1>7. CASE Restart
  BY <1>7 DEF Restart, UnderWay
<1>8. CASE UNCHANGED walletVars
  BY <1>8 DEF walletVars
<1> QED
  BY <1>1, <1>2, <1>3, <1>4, <1>5, <1>6, <1>7, <1>8 DEF WalletNext, Apply

\* What a commit does to the balance when nobody raced.
LEMMA WalletCommitAdds ==
    ASSUME WalletInv, NEW o \in Ops, Commit(o), ~raced
    PROVE  balance' = balance + delta[o]
<1>1. read[o].balance = balance
  BY DEF WalletInv, ReadersAreCurrent, Commit
<1>2. balance \in Int /\ delta[o] \in Int
  BY DEF WalletInv, WalletTypeOK
<1> QED
  BY <1>1, <1>2 DEF Commit

\* The balance keeps to the log.
LEMMA WalletStepBalance == WalletInv /\ [WalletNext]_walletVars => BalanceUnlessRaced'
<1> SUFFICES ASSUME WalletInv, [WalletNext]_walletVars, ~raced' PROVE balance' = logged'
  BY DEF BalanceUnlessRaced, BalanceMatchesLog
<1>1. ASSUME NEW o \in Ops, Commit(o) PROVE balance' = logged'
  <2>1. ~raced /\ logged' = logged + delta[o]
    BY <1>1 DEF Commit
  <2>2. balance = logged
    BY <2>1 DEF WalletInv, BalanceUnlessRaced, BalanceMatchesLog
  <2> QED
    BY <1>1, <2>1, <2>2, WalletCommitAdds
<1>2. ASSUME UNCHANGED <<row, raced>> PROVE balance' = logged'
  BY <1>2 DEF WalletInv, BalanceUnlessRaced, BalanceMatchesLog, row
<1> QED
  BY <1>1, <1>2 DEF WalletNext, Apply, StartCall, Answered, CallFails, StartTopup,
     ReadWallet, Write, Restart, walletVars

\* Only calls that are admitted on credit are under way, one by one.
LEMMA WalletStepOneCall == WalletInv /\ [WalletNext]_walletVars => OneCallInCredit'
<1> SUFFICES ASSUME WalletInv, [WalletNext]_walletVars PROVE OneCallInCredit'
  OBVIOUS
<1>0. WalletTypeOK /\ OneCallInCredit
  BY DEF WalletInv
<1> USE DEF OneCallInCredit, Proceed, UnderWay, Ops
\* Steps that start no call and leave the balance alone.
<1>1. ASSUME UNCHANGED <<row, raced, overlapped>>,
             \A c \in Calls : stage'[c] \in UnderWay => stage[c] \in UnderWay
      PROVE  OneCallInCredit'
  BY <1>0, <1>1 DEF row
<1>2. ASSUME NEW c \in Calls, StartCall(c) PROVE OneCallInCredit'
  BY <1>0, <1>2 DEF StartCall, WalletTypeOK, row
<1>3. ASSUME NEW c \in Calls, Answered(c) \/ CallFails(c) PROVE OneCallInCredit'
  BY <1>0, <1>1, <1>3 DEF Answered, CallFails, WalletTypeOK
<1>4. ASSUME NEW t \in Topups, StartTopup(t) PROVE OneCallInCredit'
  <2>1. t \notin Calls
    BY WalletAssumption
  <2> QED
    BY <1>0, <1>1, <1>4, <2>1 DEF StartTopup, WalletTypeOK
<1>5. ASSUME NEW o \in Ops, ReadWallet(o) \/ Write(o) PROVE OneCallInCredit'
  BY <1>0, <1>1, <1>5 DEF ReadWallet, Write, WalletTypeOK
<1>6. ASSUME NEW o \in Ops, Commit(o) PROVE OneCallInCredit'
  <2> SUFFICES ASSUME ~overlapped', NEW c \in Calls, stage'[c] \in UnderWay
               PROVE  /\ \A d \in Calls : stage'[d] \in UnderWay => d = c
                      /\ ~raced' => balance' > 0
    OBVIOUS
  <2>1. ~overlapped /\ stage[c] \in UnderWay /\ c # o
    BY <1>0, <1>6 DEF Commit, WalletTypeOK
  <2>2. \A d \in Calls : stage'[d] \in UnderWay => d = c
    BY <1>0, <1>6, <2>1 DEF Commit, WalletTypeOK
  <2>3. ASSUME ~raced' PROVE balance' > 0
    <3>1. ~raced
      BY <1>6, <2>3 DEF Commit
    <3>2. o \notin Calls
      BY <1>0, <1>6, <2>1 DEF Commit
    <3>3. delta[o] > 0
      BY <1>6, <3>2 DEF WalletInv, DeltasAreSigned, Commit
    <3>4. balance > 0 /\ balance' = balance + delta[o]
      BY <1>0, <1>6, <2>1, <3>1, WalletCommitAdds
    <3>5. balance \in Int /\ delta[o] \in Int
      BY <1>0 DEF WalletTypeOK
    <3> QED
      BY <3>3, <3>4, <3>5
  <2> QED
    BY <2>2, <2>3
<1>7. CASE Restart
  BY <1>0, <1>1, <1>7 DEF Restart, WalletTypeOK
<1>8. CASE UNCHANGED walletVars
  BY <1>0, <1>1, <1>8 DEF walletVars, row
<1> HIDE DEF OneCallInCredit, Ops
<1> QED
  BY <1>2, <1>3, <1>4, <1>5, <1>6, <1>7, <1>8 DEF WalletNext, Apply

\* A call that was admitted on credit overdraws by less than its price.
LEMMA WalletStepSoftCap == WalletInv /\ [WalletNext]_walletVars => SoftCapUnlessOverlapped'
<1> SUFFICES ASSUME WalletInv, [WalletNext]_walletVars, ~overlapped', ~raced'
             PROVE  balance' > -MaxCost
  BY DEF SoftCapUnlessOverlapped, SoftCap
<1>1. MaxCost \in Nat /\ balance \in Int
  BY WalletAssumption DEF WalletInv, WalletTypeOK
<1>2. ASSUME NEW o \in Ops, Commit(o) PROVE balance' > -MaxCost
  <2>1. ~raced /\ ~overlapped /\ stage[o] \in UnderWay
    BY <1>2 DEF Commit, UnderWay
  <2>2. balance' = balance + delta[o] /\ delta[o] \in Int
    BY <1>2, <2>1, WalletCommitAdds DEF WalletInv, WalletTypeOK
  <2>3. CASE o \in Calls
    <3>1. balance > 0 /\ -MaxCost <= delta[o]
      BY <1>2, <2>1, <2>3 DEF WalletInv, OneCallInCredit, DeltasAreSigned, Commit
    <3> QED
      BY <1>1, <2>2, <3>1
  <2>4. CASE o \notin Calls
    <3>1. balance > -MaxCost /\ delta[o] > 0
      BY <1>2, <2>1, <2>4
         DEF WalletInv, SoftCapUnlessOverlapped, SoftCap, DeltasAreSigned, Commit
    <3> QED
      BY <1>1, <2>2, <3>1
  <2> QED
    BY <2>3, <2>4
<1>3. ASSUME UNCHANGED <<row, raced>>, overlapped => overlapped'
      PROVE  balance' > -MaxCost
  BY <1>3 DEF WalletInv, SoftCapUnlessOverlapped, SoftCap, row
<1>4. ASSUME NEW c \in Calls, StartCall(c) PROVE balance' > -MaxCost
  <2>1. UNCHANGED <<row, raced>> /\ (overlapped => overlapped')
    BY <1>4 DEF StartCall
  <2> QED
    BY <1>3, <2>1
<1> QED
  BY <1>2, <1>3, <1>4 DEF WalletNext, Apply, Answered, CallFails, StartTopup,
     ReadWallet, Write, Restart, walletVars

-----------------------------------------------------------------------------
\* WalletInv holds in every reachable state.
THEOREM WalletInvariance == WalletSpec => []WalletInv
<1>1. WalletInv /\ [WalletNext]_walletVars => WalletInv'
  BY WalletStepTypeOK, WalletStepReaders, WalletStepSigned, WalletStepOneCall, WalletStepBalance, WalletStepSoftCap
     DEF WalletInv
<1> QED
  BY <1>1, WalletInitInv, PTL DEF WalletSpec

\* The balance is the sum of the log as long as no two read-modify-writes of
\* the wallet overlap (CreditService._apply), restarts included.
THEOREM WalletBalanceIsLog == WalletSpec => []BalanceUnlessRaced
<1>1. WalletInv => BalanceUnlessRaced
  BY DEF WalletInv
<1> QED
  BY <1>1, WalletInvariance, PTL

\* The soft cap is off by less than one call as long as calls do not overlap
\* (chat_for_tenant's check before and debit after).
THEOREM WalletSoftCapHolds == WalletSpec => []SoftCapUnlessOverlapped
<1>1. WalletInv => SoftCapUnlessOverlapped
  BY DEF WalletInv
<1> QED
  BY <1>1, WalletInvariance, PTL
=============================================================================
