------------------------- MODULE AppDeploys_proofs --------------------------
(***************************************************************************)
(* For every set of deployments, every set of projects, every plan and any *)
(* number of faults: DeploysInv is an invariant of AppDeploys, and         *)
(* AppDeploys implements both the life of a Deployment row (DeployLife)    *)
(* and the ledger of slots (SlotLedger).                                   *)
(***************************************************************************)
EXTENDS AppDeploys, FiniteSetTheorems, TLAPS

\* Sizes of sets of ids are numbers, and parts are no larger.
LEMMA IdSets ==
    ASSUME NEW T \in SUBSET Ids, NEW S \in SUBSET T
    PROVE  /\ Cardinality(S) \in Nat
           /\ Cardinality(T) \in Nat
           /\ Cardinality(S) <= Cardinality(T)
<1>1. IsFiniteSet(Ids)
  BY DeploysAssumption
<1>2. IsFiniteSet(T)
  BY <1>1, FS_Subset
<1>3. IsFiniteSet(S) /\ Cardinality(S) <= Cardinality(T)
  BY <1>2, FS_Subset
<1> QED
  BY <1>2, <1>3, FS_CardinalityType

\* One more row is at most one more.
LEMMA OneMoreRow ==
    ASSUME NEW S \in SUBSET Ids, NEW d \in Ids
    PROVE  Cardinality(S \cup {d}) <= Cardinality(S) + 1
<1> DEFINE size == Cardinality(S)
           grown == Cardinality(S \cup {d})
<1>1. IsFiniteSet(S)
  BY DeploysAssumption, FS_Subset, Zenon
<1>2. size \in Nat
  BY <1>1, FS_CardinalityType, Zenon
<1>3. grown = size \/ grown = size + 1
  BY <1>1, FS_AddElement, Zenon
<1> HIDE DEF size, grown
<1>4. grown <= size + 1
  BY <1>2, <1>3
<1> QED
  BY <1>4 DEF size, grown

\* A count that leaves room for one more app leaves room for one more row.
LEMMA CountBoundsRows ==
    ASSUME TypeOK, CountApps + 1 <= MaxApps
    PROVE  Cardinality(rows) < MaxApps
<1> DEFINE uncovered == {d \in Ids : status[d] \in InFlight /\ RowsOf(job[d].project) = {}}
<1>1. Cardinality(rows) \in Nat /\ Cardinality(uncovered) \in Nat
  BY IdSets DEF TypeOK
<1>2. CountApps = Cardinality(rows) + Cardinality(uncovered)
  BY DEF CountApps
<1> HIDE DEF uncovered
<1> QED
  BY <1>1, <1>2, DeploysAssumption

-----------------------------------------------------------------------------
\* Init establishes the invariant.
LEMMA InitInv == Init => DeploysInv
<1> SUFFICES ASSUME Init PROVE DeploysInv
  OBVIOUS
<1>1. TypeOK
  BY DeploysAssumption
     DEF Init, TypeOK, NoJob, Kinds, Statuses, Tasks, Live, Waiting, Running
<1>2. QuotaRespected
  BY FS_EmptySet, DeploysAssumption DEF Init, QuotaRespected
<1>3. StatusFollowsTask /\ InstallsRunInRequest /\ RowsAreReservations
  BY DEF Init, StatusFollowsTask, InstallsRunInRequest, RowsAreReservations,
     NoJob, Waiting, Running, InFlight
<1>4. InstallHoldsLock /\ NoOrphanSlot /\ InFlightIsOwned
  BY DEF Init, InstallHoldsLock, NoOrphanSlot, InFlightIsOwned, InFlight
<1> QED
  BY <1>1, <1>2, <1>3, <1>4 DEF DeploysInv

\* Every step keeps the types.
LEMMA StepTypeOK == TypeOK /\ [Next]_vars => TypeOK'
<1> SUFFICES ASSUME TypeOK, [Next]_vars PROVE TypeOK'
  OBVIOUS
<1> USE DEF TypeOK, Goto, SetStatus, CreateRow, Kinds, Statuses, Tasks, Live, Waiting, Running
<1>1. ASSUME NEW d \in Ids, Request(d) PROVE TypeOK'
  <2>1. ASSUME NEW p \in Projects, NEW k \in {"deploy", "install"}, StartNew(d, k, p)
        PROVE  TypeOK'
    <3>1. (k = "install") \in BOOLEAN
      OBVIOUS
    <3>2. [kind |-> k, project |-> p, target |-> NoId, app |-> k = "install"]
            \in [kind : Kinds, project : Projects \cup {NoId},
                 target : Ids \cup {NoId}, app : BOOLEAN]
      BY <3>1
    <3> QED
      BY <2>1, <3>2 DEF StartNew, Accept
  <2>2. ASSUME NEW p \in Projects, StartRedeploy(d, p) PROVE TypeOK'
    BY <2>2 DEF StartRedeploy, Accept
  <2>3. ASSUME NEW t \in Ids, StartRollback(d, t) PROVE TypeOK'
    BY <2>3 DEF StartRollback, Accept
  <2> QED
    BY <1>1, <2>1, <2>2, <2>3 DEF Request
<1>2. ASSUME NEW d \in Ids, Reserve(d) PROVE TypeOK'
  BY <1>2 DEF Reserve
<1>3. ASSUME NEW d \in Ids, Install(d) PROVE TypeOK'
  BY <1>3 DEF Install, InstallUp, InstallCommit, InstallFails, Disturb, CreateRow
<1>4. ASSUME NEW d \in Ids, Background(d) PROVE TypeOK'
  BY <1>4 DEF Background, TaskBegins, ImageReady, StackUp, RecordReady,
     StepRaises, RecordError, ReleaseSlot, Disturb
<1>5. ASSUME NEW d \in Ids, HandlerRaises(d) PROVE TypeOK'
  BY <1>5, DeploysAssumption DEF HandlerRaises
<1>6. ASSUME NEW x \in Removers, Remove(x) PROVE TypeOK'
  BY <1>6 DEF Remove, RemoveStack, RemoveRows
<1>7. CASE Restart
  BY <1>7, DeploysAssumption DEF Restart
<1>8. CASE UNCHANGED vars
  BY <1>8 DEF vars
<1> QED
  BY <1>1, <1>2, <1>3, <1>4, <1>5, <1>6, <1>7, <1>8 DEF Next

\* A row's status keeps to where its task is, through failures and restarts.
LEMMA StepStatus == DeploysInv /\ [Next]_vars => StatusFollowsTask'
<1> SUFFICES ASSUME DeploysInv, [Next]_vars PROVE StatusFollowsTask'
  OBVIOUS
<1>0. TypeOK'
  BY StepTypeOK DEF DeploysInv
<1> USE DEF DeploysInv, TypeOK, StatusFollowsTask, InstallsRunInRequest, InFlight, Waiting, Running, Live, Tasks, Statuses
<1>1. ASSUME NEW d \in Ids, NEW p \in Projects, NEW k \in {"deploy", "install"}, StartNew(d, k, p) PROVE StatusFollowsTask'
  BY <1>0, <1>1 DEF StartNew, Accept, Goto
<1>2. ASSUME NEW d \in Ids, NEW p \in Projects, StartRedeploy(d, p) PROVE StatusFollowsTask'
  BY <1>0, <1>2 DEF StartRedeploy, Accept, Goto, CreateRow, RowsOf
<1>3. ASSUME NEW d \in Ids, NEW t \in Ids, StartRollback(d, t) PROVE StatusFollowsTask'
  BY <1>0, <1>3 DEF StartRollback, Accept, Goto, CreateRow, RowsOf
<1>4. ASSUME NEW d \in Ids, Reserve(d) PROVE StatusFollowsTask'
  BY <1>0, <1>4 DEF Reserve, Goto, CreateRow
<1>5. ASSUME NEW d \in Ids, InstallUp(d) PROVE StatusFollowsTask'
  BY <1>0, <1>5 DEF InstallUp, Goto
<1>6. ASSUME NEW d \in Ids, InstallCommit(d) PROVE StatusFollowsTask'
  BY <1>0, <1>6 DEF InstallCommit, Goto, CreateRow
<1>7. ASSUME NEW d \in Ids, InstallFails(d) PROVE StatusFollowsTask'
  BY <1>0, <1>7 DEF InstallFails, Goto
<1>8. ASSUME NEW d \in Ids, TaskBegins(d) PROVE StatusFollowsTask'
  BY <1>0, <1>8 DEF TaskBegins, Goto, SetStatus
<1>9. ASSUME NEW d \in Ids, ImageReady(d) PROVE StatusFollowsTask'
  BY <1>0, <1>9 DEF ImageReady, Goto
<1>10. ASSUME NEW d \in Ids, StackUp(d) PROVE StatusFollowsTask'
  BY <1>0, <1>10 DEF StackUp, Goto
<1>11. ASSUME NEW d \in Ids, RecordReady(d) PROVE StatusFollowsTask'
  BY <1>0, <1>11 DEF RecordReady, Goto, SetStatus
<1>12. ASSUME NEW d \in Ids, StepRaises(d) PROVE StatusFollowsTask'
  BY <1>0, <1>12 DEF StepRaises, Goto
<1>13. ASSUME NEW d \in Ids, RecordError(d) PROVE StatusFollowsTask'
  BY <1>0, <1>13 DEF RecordError, Goto, SetStatus
<1>14. ASSUME NEW d \in Ids, ReleaseSlot(d) PROVE StatusFollowsTask'
  BY <1>0, <1>14 DEF ReleaseSlot, Goto, RowsOf
<1>15. ASSUME NEW d \in Ids, HandlerRaises(d) PROVE StatusFollowsTask'
  BY <1>0, <1>15 DEF HandlerRaises, Goto
<1>16. ASSUME NEW x \in Removers, NEW p \in Projects, RemoveStack(x, p) PROVE StatusFollowsTask'
  BY <1>0, <1>16 DEF RemoveStack
<1>17. ASSUME NEW x \in Removers, RemoveRows(x) PROVE StatusFollowsTask'
  BY <1>0, <1>17 DEF RemoveRows, RowsOf
<1>18. CASE Restart
  BY <1>0, <1>18 DEF Restart
<1>19. CASE UNCHANGED vars
  BY <1>0, <1>19 DEF vars
<1> HIDE DEF DeploysInv, TypeOK, StatusFollowsTask, InstallsRunInRequest, InFlight, Waiting, Running, Live, Tasks, Statuses
<1> QED
  BY <1>1, <1>2, <1>3, <1>4, <1>5, <1>6, <1>7, <1>8, <1>9, <1>10, <1>11, <1>12, <1>13, <1>14, <1>15, <1>16, <1>17, <1>18, <1>19
     DEF Next, Request, Install, Background, Remove

\* No install ever becomes a background task.
LEMMA StepInstalls == DeploysInv /\ [Next]_vars => InstallsRunInRequest'
<1> SUFFICES ASSUME DeploysInv, [Next]_vars PROVE InstallsRunInRequest'
  OBVIOUS
<1>0. TypeOK'
  BY StepTypeOK DEF DeploysInv
<1> USE DEF DeploysInv, TypeOK, StatusFollowsTask, InstallsRunInRequest, InFlight, Waiting, Running, Live, Tasks, Statuses
<1>1. ASSUME NEW d \in Ids, NEW p \in Projects, NEW k \in {"deploy", "install"}, StartNew(d, k, p) PROVE InstallsRunInRequest'
  <2>1. /\ task[d] = "idle"
        /\ job' = [job EXCEPT ![d] = [kind |-> k, project |-> p, target |-> NoId,
                                      app |-> k = "install"]]
        /\ task' = [task EXCEPT ![d] = "reserve"]
        /\ status' = status
    BY <1>1 DEF StartNew, Accept, Goto
  <2>2. /\ status[d] = "absent"
        /\ job'[d] = [kind |-> k, project |-> p, target |-> NoId, app |-> k = "install"]
        /\ task'[d] = "reserve"
        /\ \A e \in Ids \ {d} : job'[e] = job[e] /\ task'[e] = task[e]
    BY <2>1
  <2>3. /\ job'[d].kind = "install" =>
              status'[d] \in {"absent", "ready"} /\ task'[d] \notin Running \cup {"releasing"}
        /\ job'[d].kind \in {"deploy", "redeploy"} => ~job'[d].app
    BY <2>1, <2>2
  <2>4. ASSUME NEW e \in Ids
        PROVE  /\ job'[e].kind = "install" =>
                     status'[e] \in {"absent", "ready"} /\ task'[e] \notin Running \cup {"releasing"}
               /\ job'[e].kind \in {"deploy", "redeploy"} => ~job'[e].app
    <3>1. CASE e = d
      BY <2>3, <3>1
    <3>2. CASE e # d
      <4>1. job'[e] = job[e] /\ task'[e] = task[e] /\ status'[e] = status[e]
        BY <2>1, <2>2, <3>2
      <4> QED
        BY <4>1
    <3> QED
      BY <3>1, <3>2
  <2> HIDE DEF DeploysInv, TypeOK, Running
  <2> QED
    BY <2>4
<1>2. ASSUME NEW d \in Ids, NEW p \in Projects, StartRedeploy(d, p) PROVE InstallsRunInRequest'
  BY <1>0, <1>2 DEF StartRedeploy, Accept, Goto, CreateRow, RowsOf
<1>3. ASSUME NEW d \in Ids, NEW t \in Ids, StartRollback(d, t) PROVE InstallsRunInRequest'
  BY <1>0, <1>3 DEF StartRollback, Accept, Goto, CreateRow, RowsOf
<1>4. ASSUME NEW d \in Ids, Reserve(d) PROVE InstallsRunInRequest'
  BY <1>0, <1>4 DEF Reserve, Goto, CreateRow
<1>5. ASSUME NEW d \in Ids, InstallUp(d) PROVE InstallsRunInRequest'
  BY <1>0, <1>5 DEF InstallUp, Goto
<1>6. ASSUME NEW d \in Ids, InstallCommit(d) PROVE InstallsRunInRequest'
  BY <1>0, <1>6 DEF InstallCommit, Goto, CreateRow
<1>7. ASSUME NEW d \in Ids, InstallFails(d) PROVE InstallsRunInRequest'
  BY <1>0, <1>7 DEF InstallFails, Goto
<1>8. ASSUME NEW d \in Ids, TaskBegins(d) PROVE InstallsRunInRequest'
  BY <1>0, <1>8 DEF TaskBegins, Goto, SetStatus
<1>9. ASSUME NEW d \in Ids, ImageReady(d) PROVE InstallsRunInRequest'
  BY <1>0, <1>9 DEF ImageReady, Goto
<1>10. ASSUME NEW d \in Ids, StackUp(d) PROVE InstallsRunInRequest'
  BY <1>0, <1>10 DEF StackUp, Goto
<1>11. ASSUME NEW d \in Ids, RecordReady(d) PROVE InstallsRunInRequest'
  BY <1>0, <1>11 DEF RecordReady, Goto, SetStatus
<1>12. ASSUME NEW d \in Ids, StepRaises(d) PROVE InstallsRunInRequest'
  BY <1>0, <1>12 DEF StepRaises, Goto
<1>13. ASSUME NEW d \in Ids, RecordError(d) PROVE InstallsRunInRequest'
  BY <1>0, <1>13 DEF RecordError, Goto, SetStatus
<1>14. ASSUME NEW d \in Ids, ReleaseSlot(d) PROVE InstallsRunInRequest'
  BY <1>0, <1>14 DEF ReleaseSlot, Goto, RowsOf
<1>15. ASSUME NEW d \in Ids, HandlerRaises(d) PROVE InstallsRunInRequest'
  BY <1>0, <1>15 DEF HandlerRaises, Goto
<1>16. ASSUME NEW x \in Removers, NEW p \in Projects, RemoveStack(x, p) PROVE InstallsRunInRequest'
  BY <1>0, <1>16 DEF RemoveStack
<1>17. ASSUME NEW x \in Removers, RemoveRows(x) PROVE InstallsRunInRequest'
  BY <1>0, <1>17 DEF RemoveRows, RowsOf
<1>18. CASE Restart
  BY <1>0, <1>18 DEF Restart
<1>19. CASE UNCHANGED vars
  BY <1>0, <1>19 DEF vars
<1> HIDE DEF DeploysInv, TypeOK, StatusFollowsTask, InstallsRunInRequest, InFlight, Waiting, Running, Live, Tasks, Statuses
<1> QED
  BY <1>1, <1>2, <1>3, <1>4, <1>5, <1>6, <1>7, <1>8, <1>9, <1>10, <1>11, <1>12, <1>13, <1>14, <1>15, <1>16, <1>17, <1>18, <1>19
     DEF Next, Request, Install, Background, Remove

\* Only deploys and installs past their request own rows.
LEMMA StepRows == DeploysInv /\ [Next]_vars => RowsAreReservations'
<1> SUFFICES ASSUME DeploysInv, [Next]_vars PROVE RowsAreReservations'
  OBVIOUS
<1>0. TypeOK'
  BY StepTypeOK DEF DeploysInv
<1> USE DEF DeploysInv, TypeOK, RowsAreReservations, InstallsRunInRequest, StatusFollowsTask, InstallHoldsLock, Statuses, InFlight, Waiting, Running, Live, Tasks
<1>1. ASSUME NEW d \in Ids, NEW p \in Projects, NEW k \in {"deploy", "install"}, StartNew(d, k, p) PROVE RowsAreReservations'
  BY <1>0, <1>1 DEF StartNew, Accept, Goto
<1>2. ASSUME NEW d \in Ids, NEW p \in Projects, StartRedeploy(d, p) PROVE RowsAreReservations'
  BY <1>0, <1>2 DEF StartRedeploy, Accept, Goto, CreateRow, RowsOf
<1>3. ASSUME NEW d \in Ids, NEW t \in Ids, StartRollback(d, t) PROVE RowsAreReservations'
  BY <1>0, <1>3 DEF StartRollback, Accept, Goto, CreateRow, RowsOf
<1>4. ASSUME NEW d \in Ids, Reserve(d) PROVE RowsAreReservations'
  BY <1>0, <1>4 DEF Reserve, Goto, CreateRow
<1>5. ASSUME NEW d \in Ids, InstallUp(d) PROVE RowsAreReservations'
  BY <1>0, <1>5 DEF InstallUp, Goto
<1>6. ASSUME NEW d \in Ids, InstallCommit(d) PROVE RowsAreReservations'
  BY <1>0, <1>6 DEF InstallCommit, Goto, CreateRow
<1>7. ASSUME NEW d \in Ids, InstallFails(d) PROVE RowsAreReservations'
  BY <1>0, <1>7 DEF InstallFails, Goto
<1>8. ASSUME NEW d \in Ids, TaskBegins(d) PROVE RowsAreReservations'
  BY <1>0, <1>8 DEF TaskBegins, Goto, SetStatus
<1>9. ASSUME NEW d \in Ids, ImageReady(d) PROVE RowsAreReservations'
  BY <1>0, <1>9 DEF ImageReady, Goto
<1>10. ASSUME NEW d \in Ids, StackUp(d) PROVE RowsAreReservations'
  BY <1>0, <1>10 DEF StackUp, Goto
<1>11. ASSUME NEW d \in Ids, RecordReady(d) PROVE RowsAreReservations'
  BY <1>0, <1>11 DEF RecordReady, Goto, SetStatus
<1>12. ASSUME NEW d \in Ids, StepRaises(d) PROVE RowsAreReservations'
  BY <1>0, <1>12 DEF StepRaises, Goto
<1>13. ASSUME NEW d \in Ids, RecordError(d) PROVE RowsAreReservations'
  BY <1>0, <1>13 DEF RecordError, Goto, SetStatus
<1>14. ASSUME NEW d \in Ids, ReleaseSlot(d) PROVE RowsAreReservations'
  BY <1>0, <1>14 DEF ReleaseSlot, Goto, RowsOf
<1>15. ASSUME NEW d \in Ids, HandlerRaises(d) PROVE RowsAreReservations'
  BY <1>0, <1>15 DEF HandlerRaises, Goto
<1>16. ASSUME NEW x \in Removers, NEW p \in Projects, RemoveStack(x, p) PROVE RowsAreReservations'
  BY <1>0, <1>16 DEF RemoveStack
<1>17. ASSUME NEW x \in Removers, RemoveRows(x) PROVE RowsAreReservations'
  BY <1>0, <1>17 DEF RemoveRows, RowsOf
<1>18. CASE Restart
  BY <1>0, <1>18 DEF Restart
<1>19. CASE UNCHANGED vars
  BY <1>0, <1>19 DEF vars
<1> HIDE DEF DeploysInv, TypeOK, RowsAreReservations, InstallsRunInRequest, StatusFollowsTask, InstallHoldsLock, Statuses, InFlight, Waiting, Running, Live, Tasks
<1> QED
  BY <1>1, <1>2, <1>3, <1>4, <1>5, <1>6, <1>7, <1>8, <1>9, <1>10, <1>11, <1>12, <1>13, <1>14, <1>15, <1>16, <1>17, <1>18, <1>19
     DEF Next, Request, Install, Background, Remove

\* No step leaves a row to a deployment that is over in ERROR.
LEMMA StepOrphan == DeploysInv /\ [Next]_vars => NoOrphanSlot'
<1> SUFFICES ASSUME DeploysInv, [Next]_vars PROVE NoOrphanSlot'
  OBVIOUS
<1>0. TypeOK'
  BY StepTypeOK DEF DeploysInv
<1> USE DEF DeploysInv, TypeOK, NoOrphanSlot, RowsAreReservations, StatusFollowsTask, InstallsRunInRequest, Waiting, Running, Live, Tasks, Statuses, InFlight
<1>1. ASSUME NEW d \in Ids, NEW p \in Projects, NEW k \in {"deploy", "install"}, StartNew(d, k, p) PROVE NoOrphanSlot'
  BY <1>0, <1>1 DEF StartNew, Accept, Goto
<1>2. ASSUME NEW d \in Ids, NEW p \in Projects, StartRedeploy(d, p) PROVE NoOrphanSlot'
  BY <1>0, <1>2 DEF StartRedeploy, Accept, Goto, CreateRow, RowsOf
<1>3. ASSUME NEW d \in Ids, NEW t \in Ids, StartRollback(d, t) PROVE NoOrphanSlot'
  BY <1>0, <1>3 DEF StartRollback, Accept, Goto, CreateRow, RowsOf
<1>4. ASSUME NEW d \in Ids, Reserve(d) PROVE NoOrphanSlot'
  BY <1>0, <1>4 DEF Reserve, Goto, CreateRow
<1>5. ASSUME NEW d \in Ids, InstallUp(d) PROVE NoOrphanSlot'
  BY <1>0, <1>5 DEF InstallUp, Goto
<1>6. ASSUME NEW d \in Ids, InstallCommit(d) PROVE NoOrphanSlot'
  BY <1>0, <1>6 DEF InstallCommit, Goto, CreateRow
<1>7. ASSUME NEW d \in Ids, InstallFails(d) PROVE NoOrphanSlot'
  BY <1>0, <1>7 DEF InstallFails, Goto
<1>8. ASSUME NEW d \in Ids, TaskBegins(d) PROVE NoOrphanSlot'
  BY <1>0, <1>8 DEF TaskBegins, Goto, SetStatus
<1>9. ASSUME NEW d \in Ids, ImageReady(d) PROVE NoOrphanSlot'
  BY <1>0, <1>9 DEF ImageReady, Goto
<1>10. ASSUME NEW d \in Ids, StackUp(d) PROVE NoOrphanSlot'
  BY <1>0, <1>10 DEF StackUp, Goto
<1>11. ASSUME NEW d \in Ids, RecordReady(d) PROVE NoOrphanSlot'
  BY <1>0, <1>11 DEF RecordReady, Goto, SetStatus
<1>12. ASSUME NEW d \in Ids, StepRaises(d) PROVE NoOrphanSlot'
  BY <1>0, <1>12 DEF StepRaises, Goto
<1>13. ASSUME NEW d \in Ids, RecordError(d) PROVE NoOrphanSlot'
  BY <1>0, <1>13 DEF RecordError, Goto, SetStatus
<1>14. ASSUME NEW d \in Ids, ReleaseSlot(d) PROVE NoOrphanSlot'
  BY <1>0, <1>14 DEF ReleaseSlot, Goto, RowsOf
<1>15. ASSUME NEW d \in Ids, HandlerRaises(d) PROVE NoOrphanSlot'
  BY <1>0, <1>15 DEF HandlerRaises, Goto
<1>16. ASSUME NEW x \in Removers, NEW p \in Projects, RemoveStack(x, p) PROVE NoOrphanSlot'
  BY <1>0, <1>16 DEF RemoveStack
<1>17. ASSUME NEW x \in Removers, RemoveRows(x) PROVE NoOrphanSlot'
  BY <1>0, <1>17 DEF RemoveRows, RowsOf
<1>18. CASE Restart
  BY <1>0, <1>18 DEF Restart
<1>19. CASE UNCHANGED vars
  BY <1>0, <1>19 DEF vars
<1> HIDE DEF DeploysInv, TypeOK, NoOrphanSlot, RowsAreReservations, StatusFollowsTask, InstallsRunInRequest, Waiting, Running, Live, Tasks, Statuses, InFlight
<1> QED
  BY <1>1, <1>2, <1>3, <1>4, <1>5, <1>6, <1>7, <1>8, <1>9, <1>10, <1>11, <1>12, <1>13, <1>14, <1>15, <1>16, <1>17, <1>18, <1>19
     DEF Next, Request, Install, Background, Remove

\* No step leaves an in-flight row without its task.
LEMMA StepOwned == DeploysInv /\ [Next]_vars => InFlightIsOwned'
<1> SUFFICES ASSUME DeploysInv, [Next]_vars PROVE InFlightIsOwned'
  OBVIOUS
<1>0. TypeOK'
  BY StepTypeOK DEF DeploysInv
<1> USE DEF DeploysInv, TypeOK, InFlightIsOwned, StatusFollowsTask, Waiting, Running, Live, Tasks, Statuses, InFlight
<1>1. ASSUME NEW d \in Ids, NEW p \in Projects, NEW k \in {"deploy", "install"}, StartNew(d, k, p) PROVE InFlightIsOwned'
  BY <1>0, <1>1 DEF StartNew, Accept, Goto
<1>2. ASSUME NEW d \in Ids, NEW p \in Projects, StartRedeploy(d, p) PROVE InFlightIsOwned'
  BY <1>0, <1>2 DEF StartRedeploy, Accept, Goto, CreateRow, RowsOf
<1>3. ASSUME NEW d \in Ids, NEW t \in Ids, StartRollback(d, t) PROVE InFlightIsOwned'
  BY <1>0, <1>3 DEF StartRollback, Accept, Goto, CreateRow, RowsOf
<1>4. ASSUME NEW d \in Ids, Reserve(d) PROVE InFlightIsOwned'
  BY <1>0, <1>4 DEF Reserve, Goto, CreateRow
<1>5. ASSUME NEW d \in Ids, InstallUp(d) PROVE InFlightIsOwned'
  BY <1>0, <1>5 DEF InstallUp, Goto
<1>6. ASSUME NEW d \in Ids, InstallCommit(d) PROVE InFlightIsOwned'
  BY <1>0, <1>6 DEF InstallCommit, Goto, CreateRow
<1>7. ASSUME NEW d \in Ids, InstallFails(d) PROVE InFlightIsOwned'
  BY <1>0, <1>7 DEF InstallFails, Goto
<1>8. ASSUME NEW d \in Ids, TaskBegins(d) PROVE InFlightIsOwned'
  BY <1>0, <1>8 DEF TaskBegins, Goto, SetStatus
<1>9. ASSUME NEW d \in Ids, ImageReady(d) PROVE InFlightIsOwned'
  BY <1>0, <1>9 DEF ImageReady, Goto
<1>10. ASSUME NEW d \in Ids, StackUp(d) PROVE InFlightIsOwned'
  BY <1>0, <1>10 DEF StackUp, Goto
<1>11. ASSUME NEW d \in Ids, RecordReady(d) PROVE InFlightIsOwned'
  BY <1>0, <1>11 DEF RecordReady, Goto, SetStatus
<1>12. ASSUME NEW d \in Ids, StepRaises(d) PROVE InFlightIsOwned'
  BY <1>0, <1>12 DEF StepRaises, Goto
<1>13. ASSUME NEW d \in Ids, RecordError(d) PROVE InFlightIsOwned'
  BY <1>0, <1>13 DEF RecordError, Goto, SetStatus
<1>14. ASSUME NEW d \in Ids, ReleaseSlot(d) PROVE InFlightIsOwned'
  BY <1>0, <1>14 DEF ReleaseSlot, Goto, RowsOf
<1>15. ASSUME NEW d \in Ids, HandlerRaises(d) PROVE InFlightIsOwned'
  BY <1>0, <1>15 DEF HandlerRaises, Goto
<1>16. ASSUME NEW x \in Removers, NEW p \in Projects, RemoveStack(x, p) PROVE InFlightIsOwned'
  BY <1>0, <1>16 DEF RemoveStack
<1>17. ASSUME NEW x \in Removers, RemoveRows(x) PROVE InFlightIsOwned'
  BY <1>0, <1>17 DEF RemoveRows, RowsOf
<1>18. CASE Restart
  BY <1>0, <1>18 DEF Restart
<1>19. CASE UNCHANGED vars
  BY <1>0, <1>19 DEF vars
<1> HIDE DEF DeploysInv, TypeOK, InFlightIsOwned, StatusFollowsTask, Waiting, Running, Live, Tasks, Statuses, InFlight
<1> QED
  BY <1>1, <1>2, <1>3, <1>4, <1>5, <1>6, <1>7, <1>8, <1>9, <1>10, <1>11, <1>12, <1>13, <1>14, <1>15, <1>16, <1>17, <1>18, <1>19
     DEF Next, Request, Install, Background, Remove

-----------------------------------------------------------------------------
\* Rows that only go leave the quota, and the room below it, as they were.
LEMMA FewerRows ==
    ASSUME TypeOK, TypeOK', rows' \subseteq rows
    PROVE  /\ QuotaRespected => QuotaRespected'
           /\ Cardinality(rows) < MaxApps => Cardinality(rows') < MaxApps
<1>1. /\ Cardinality(rows') \in Nat
      /\ Cardinality(rows) \in Nat
      /\ Cardinality(rows') <= Cardinality(rows)
  BY IdSets DEF TypeOK
<1> QED
  BY <1>1, DeploysAssumption DEF QuotaRespected

\* One row more than fits below the limit is still within the limit.
LEMMA RowFits ==
    ASSUME TypeOK, TypeOK', NEW d \in Ids, rows' = rows \cup {d},
           Cardinality(rows) < MaxApps
    PROVE  QuotaRespected'
<1>1. /\ Cardinality(rows') \in Nat
      /\ Cardinality(rows) \in Nat
  BY IdSets DEF TypeOK
<1>2. Cardinality(rows \cup {d}) <= Cardinality(rows) + 1
  BY OneMoreRow DEF TypeOK
<1> QED
  BY <1>1, <1>2, DeploysAssumption DEF QuotaRespected

\* The steps that add a row, and all others, in one glance.
LEMMA RowsGrowByReservation ==
    ASSUME DeploysInv, [Next]_vars
    PROVE  \/ rows' \subseteq rows
           \/ \E d \in Ids : /\ d \notin rows /\ rows' = rows \cup {d}
                            /\ Cardinality(rows) < MaxApps
<1>1. ASSUME NEW d \in Ids, Reserve(d)
      PROVE  \/ rows' \subseteq rows
             \/ /\ d \notin rows /\ rows' = rows \cup {d}
                /\ Cardinality(rows) < MaxApps
  <2>1. d \notin rows
    BY <1>1 DEF DeploysInv, RowsAreReservations, Reserve, Waiting
  <2>2. CountApps + 1 <= MaxApps => Cardinality(rows) < MaxApps
    BY CountBoundsRows DEF DeploysInv
  <2> QED
    BY <1>1, <2>1, <2>2 DEF Reserve
<1>2. ASSUME NEW d \in Ids, InstallCommit(d)
      PROVE  /\ d \notin rows /\ rows' = rows \cup {d}
             /\ Cardinality(rows) < MaxApps
  BY <1>2
     DEF DeploysInv, RowsAreReservations, InstallHoldsLock, InstallCommit, Waiting
<1>3. ASSUME NEW d \in Ids, Request(d) PROVE rows' = rows
  BY <1>3 DEF Request, StartNew, StartRedeploy, StartRollback
<1>4. ASSUME NEW d \in Ids, InstallUp(d) \/ InstallFails(d) PROVE rows' = rows
  BY <1>4 DEF InstallUp, InstallFails
<1>5. ASSUME NEW d \in Ids, Background(d) PROVE rows' \subseteq rows
  BY <1>5 DEF Background, TaskBegins, ImageReady, StackUp, RecordReady,
     StepRaises, RecordError, ReleaseSlot
<1>6. ASSUME NEW d \in Ids, HandlerRaises(d) PROVE rows' = rows
  BY <1>6 DEF HandlerRaises
<1>7. ASSUME NEW x \in Removers, Remove(x) PROVE rows' \subseteq rows
  BY <1>7 DEF Remove, RemoveStack, RemoveRows
<1>8. CASE Restart
  BY <1>8 DEF Restart
<1>9. CASE UNCHANGED vars
  BY <1>9 DEF vars
<1> QED
  BY <1>1, <1>2, <1>3, <1>4, <1>5, <1>6, <1>7, <1>8, <1>9 DEF Next, Install

\* The quota is kept by every step.
LEMMA StepQuota == DeploysInv /\ [Next]_vars => QuotaRespected'
<1> SUFFICES ASSUME DeploysInv, [Next]_vars PROVE QuotaRespected'
  OBVIOUS
<1>1. TypeOK /\ TypeOK'
  BY StepTypeOK DEF DeploysInv
<1>2. CASE rows' \subseteq rows
  BY <1>1, <1>2, FewerRows DEF DeploysInv
<1>3. CASE \E d \in Ids : /\ rows' = rows \cup {d}
                         /\ Cardinality(rows) < MaxApps
  BY <1>1, <1>3, RowFits
<1> QED
  BY <1>2, <1>3, RowsGrowByReservation

\* While an install holds the lock nobody else inserts, so the room it found
\* is still there.
LEMMA StepLock == DeploysInv /\ [Next]_vars => InstallHoldsLock'
<1> SUFFICES ASSUME DeploysInv, [Next]_vars PROVE InstallHoldsLock'
  OBVIOUS
<1>0. TypeOK /\ TypeOK'
  BY StepTypeOK DEF DeploysInv
<1>1. ASSUME rows' \subseteq rows, lock' = lock, NEW d \in Ids,
             task'[d] \notin {"installing", "committing"}
                \/ task[d] \in {"installing", "committing"},
             \A e \in Ids \ {d} : task'[e] = task[e],
             \A e \in Ids : task[e] # "idle" => job'[e] = job[e]
      PROVE  InstallHoldsLock'
  <2> SUFFICES ASSUME NEW e \in Ids, task'[e] \in {"installing", "committing"}
               PROVE  /\ job'[e].kind = "install" /\ lock' = e
                      /\ Cardinality(rows') < MaxApps
    BY DEF InstallHoldsLock
  <2>1. task[e] \in {"installing", "committing"}
    BY <1>1
  <2>2. job'[e] = job[e]
    BY <1>1, <2>1
  <2> QED
    BY <1>0, <1>1, <2>1, <2>2, FewerRows DEF DeploysInv, InstallHoldsLock
<1>2. ASSUME NEW d \in Ids, Request(d) PROVE InstallHoldsLock'
  <2>1. /\ rows' = rows /\ lock' = lock
        /\ task'[d] \in {"reserve", "queued"}
        /\ \A e \in Ids \ {d} : task'[e] = task[e]
        /\ \A e \in Ids : task[e] # "idle" => job'[e] = job[e]
    BY <1>0, <1>2
       DEF Request, StartNew, StartRedeploy, StartRollback, Accept, Goto, TypeOK
  <2> QED
    BY <1>1, <2>1
<1>3. ASSUME NEW d \in Ids, Reserve(d) PROVE InstallHoldsLock'
  <2>1. \A e \in Ids : task[e] \notin {"installing", "committing"}
    BY <1>0, <1>3, DeploysAssumption DEF DeploysInv, InstallHoldsLock, Reserve
  <2>2. CountApps + 1 <= MaxApps => Cardinality(rows) < MaxApps
    BY <1>0, CountBoundsRows
  <2> QED
    BY <1>0, <1>3, <2>1, <2>2 DEF InstallHoldsLock, Reserve, Goto, TypeOK
<1>4. ASSUME NEW d \in Ids, InstallUp(d) PROVE InstallHoldsLock'
  <2>1. /\ rows' = rows /\ lock' = lock /\ job' = job
        /\ task[d] = "installing"
        /\ \A e \in Ids \ {d} : task'[e] = task[e]
    BY <1>0, <1>4 DEF InstallUp, Goto, TypeOK
  <2> QED
    BY <1>1, <2>1
<1>5. ASSUME NEW d \in Ids, InstallCommit(d) \/ InstallFails(d)
      PROVE  InstallHoldsLock'
  <2>1. \A e \in Ids \ {d} : task[e] \notin {"installing", "committing"}
    BY <1>0, <1>5 DEF DeploysInv, InstallHoldsLock, InstallCommit, InstallFails
  <2>2. /\ task'[d] = "done"
        /\ \A e \in Ids \ {d} : task'[e] = task[e]
    BY <1>0, <1>5 DEF InstallCommit, InstallFails, Goto, TypeOK
  <2> QED
    BY <2>1, <2>2 DEF InstallHoldsLock
<1>6. ASSUME NEW d \in Ids, Background(d) \/ HandlerRaises(d)
      PROVE  InstallHoldsLock'
  <2>1. /\ rows' \subseteq rows /\ lock' = lock /\ job' = job
        /\ task'[d] \notin {"installing", "committing"}
        /\ \A e \in Ids \ {d} : task'[e] = task[e]
    BY <1>0, <1>6
       DEF Background, TaskBegins, ImageReady, StackUp, RecordReady,
           StepRaises, RecordError, ReleaseSlot, HandlerRaises, Goto, TypeOK
  <2> QED
    BY <1>1, <2>1
<1>7. ASSUME NEW x \in Removers, Remove(x) PROVE InstallHoldsLock'
  <2>1. /\ rows' \subseteq rows /\ lock' = lock /\ job' = job /\ task' = task
    BY <1>7 DEF Remove, RemoveStack, RemoveRows
  <2> QED
    BY <1>0, <2>1, FewerRows DEF DeploysInv, InstallHoldsLock
<1>8. CASE Restart
  <2>1. \A e \in Ids : task'[e] \notin {"installing", "committing"}
    BY <1>0, <1>8 DEF Restart, Live, Waiting, TypeOK
  <2> QED
    BY <2>1 DEF InstallHoldsLock
<1>9. CASE UNCHANGED vars
  BY <1>9 DEF vars, DeploysInv, InstallHoldsLock
<1> QED
  BY <1>2, <1>3, <1>4, <1>5, <1>6, <1>7, <1>8, <1>9 DEF Next, Install

-----------------------------------------------------------------------------
\* DeploysInv holds in every reachable state.
THEOREM Invariance == Spec => []DeploysInv
<1>1. DeploysInv /\ [Next]_vars => DeploysInv'
  <2> SUFFICES ASSUME DeploysInv, [Next]_vars PROVE DeploysInv'
    OBVIOUS
  <2>1. TypeOK'
    BY StepTypeOK DEF DeploysInv
  <2> QED
    BY <2>1, StepStatus, StepInstalls, StepRows, StepLock, StepQuota,
       StepOrphan, StepOwned DEF DeploysInv
<1> QED
  BY <1>1, InitInv, PTL DEF Spec

\* Types of the deployment system.
THEOREM TypeCorrect == Spec => []TypeOK
<1>1. DeploysInv => TypeOK
  BY DEF DeploysInv
<1> QED
  BY <1>1, Invariance, PTL

\* The quota survives deploys, installs, redeploys, failures, removals and
\* restarts (check_and_reserve, release).
THEOREM NeverOverQuota == Spec => []QuotaRespected
<1>1. DeploysInv => QuotaRespected
  BY DEF DeploysInv
<1> QED
  BY <1>1, Invariance, PTL

\* No deployment that is over in ERROR, and no failed install, keeps a slot,
\* unless the process was lost before the release (_run_deploy's handlers).
THEOREM NoSlotIsOrphaned == Spec => []NoOrphanSlot
<1>1. DeploysInv => NoOrphanSlot
  BY DEF DeploysInv
<1> QED
  BY <1>1, Invariance, PTL

\* An in-flight row has a running task, or had one the process lost
\* ("never leave a deployment stuck in building", short of a restart).
THEOREM InFlightOwned == Spec => []InFlightIsOwned
<1>1. DeploysInv => InFlightIsOwned
  BY DEF DeploysInv
<1> QED
  BY <1>1, Invariance, PTL

-----------------------------------------------------------------------------
\* The deployments implement the ledger of slots, restarts included.
THEOREM SlotRefinement == Spec => ImplementsLedger
<1>1. Init => Ledger!LedgerInit
  BY DEF Init, Ledger!LedgerInit
<1>2. DeploysInv /\ [Next]_vars => [Ledger!LedgerNext]_rows
  <2> SUFFICES ASSUME DeploysInv, [Next]_vars PROVE Ledger!LedgerNext
    OBVIOUS
  <2>1. CASE rows' \subseteq rows
    BY <2>1 DEF Ledger!LedgerNext, Ledger!GiveBack
  <2>2. ASSUME NEW d \in Ids, d \notin rows, rows' = rows \cup {d},
               Cardinality(rows) < MaxApps
        PROVE  Ledger!LedgerNext
    <3>1. Ledger!Cardinality(rows) = Cardinality(rows)
      BY DEF Ledger!Cardinality, Cardinality
    <3> QED
      BY <2>2, <3>1 DEF Ledger!LedgerNext, Ledger!Take
  <2> QED
    BY <2>1, <2>2, RowsGrowByReservation
<1> QED
  BY <1>1, <1>2, Invariance, PTL DEF Spec, ImplementsLedger, Ledger!LedgerSpec

\* A deployment's row lives the life its readers expect: statuses only move
\* forward, READY and ERROR are final, and only marketplace rows disappear,
\* through failures, removals and restarts.
THEOREM LifeRefinement == Spec => ImplementsLife
<1>1. Init => Life!LifeInit
  BY DEF Init, Life!LifeInit
<1>2. DeploysInv /\ [Next]_vars => [Life!LifeNext]_status
  <2> SUFFICES ASSUME DeploysInv, [Next]_vars, status' # status
               PROVE  Life!LifeNext
    OBVIOUS
  <2> USE DEF DeploysInv
  <2>1. ASSUME NEW d \in Ids, Request(d) PROVE Life!Move(d)
    BY <2>1 DEF Request, StartNew, StartRedeploy, StartRollback, Accept,
       CreateRow, StatusFollowsTask, Life!Move, Life!Becomes
  <2>2. ASSUME NEW d \in Ids, Reserve(d) PROVE Life!Move(d)
    BY <2>2 DEF Reserve, CreateRow, StatusFollowsTask, Waiting,
       Life!Move, Life!Becomes
  <2>3. ASSUME NEW d \in Ids, Install(d) PROVE Life!Move(d)
    BY <2>3 DEF Install, InstallUp, InstallCommit, InstallFails, CreateRow,
       StatusFollowsTask, Waiting, Life!Move, Life!Becomes
  <2>4. ASSUME NEW d \in Ids, Background(d) PROVE Life!Move(d)
    BY <2>4 DEF Background, TaskBegins, ImageReady, StackUp, RecordReady,
       StepRaises, RecordError, ReleaseSlot, SetStatus, StatusFollowsTask,
       InFlight, Life!InFlight, Life!Move, Life!Becomes
  <2>5. ASSUME NEW x \in Removers, Remove(x) PROVE Life!Drop
    <3>1. RemoveRows(x)
      BY <2>5 DEF Remove, RemoveStack
    <3> DEFINE gone == {d \in Ids : job[d].project = removing[x] /\ job[d].app}
    <3>2. status' = [d \in Ids |-> IF d \in gone THEN "absent" ELSE status[d]]
      BY <3>1 DEF RemoveRows
    <3>3. gone \in SUBSET Ids
      OBVIOUS
    <3> HIDE DEF gone
    <3> QED
      BY <3>2, <3>3 DEF Life!Drop
  <2>6. ASSUME NEW d \in Ids, HandlerRaises(d) PROVE FALSE
    BY <2>6 DEF HandlerRaises
  <2>7. CASE Restart
    BY <2>7 DEF Restart
  <2> HIDE DEF DeploysInv
  <2> QED
    BY <2>1, <2>2, <2>3, <2>4, <2>5, <2>6, <2>7 DEF Next, vars, Life!LifeNext
<1> QED
  BY <1>1, <1>2, Invariance, PTL DEF Spec, ImplementsLife, Life!LifeSpec
=============================================================================
