------------------------- MODULE AnonymousGcProofs -------------------------
(***************************************************************************)
(* Proofs about the collection of anonymous objects, for any tasks, object *)
(* graphs, programs and bounds.                                            *)
(***************************************************************************)
EXTENDS AnonymousGc, TLAPS

-----------------------------------------------------------------------------
\* The inductive invariant, in parts

\* Where a task's record is, what its worker does and what its state holds agree: only
\* a task that is still to start has a start, and then nothing else
RecordAgrees ==
  \A t \in Tasks :
    /\ where[t] = "none" <=> pc[t] = "none"
    /\ where[t] = "suspended" => pc[t] \in {"suspend", "retry", "pending"}
    /\ where[t] = "active" => pc[t] \notin {"retry", "pending"}
    /\ start[t] # {} => pc[t] \in {"pending", "limited"}
    /\ pc[t] = "pending" => locals[t] = {} /\ saved[t] = {}
    /\ pc[t] \in {"none", "limited", "ended"} => writes[t] = {} /\ locals[t] = {} /\ saved[t] = {}

\* What a task refers to that sleeps since the roots were gathered is a root of the
\* mark, and later not among what the mark condemned
SleepersRooted ==
  /\ sleepers \subseteq Suspended
  /\ phase \in {"Preparing", "Marking"} =>
       \A t \in sleepers : locals[t] \cup saved[t] \subseteq roots
  /\ phase \in {"Sweeping", "Deleting"} =>
       \A t \in sleepers : (locals[t] \cup saved[t]) \cap doomed = {}

\* Nothing is active while objects are deleted, and nothing was recorded before
DeletesAlone == phase = "Deleting" => valid /\ Active = {}

SleepInv == TypeOK /\ RecordAgrees /\ SleepersRooted /\ DeletesAlone

\* Programs that run to their end leave nothing behind for a later task but the stack of
\* one that met a limit
NothingCarried ==
  /\ schedules = {}
  /\ \A t \in Tasks : /\ effects[t] = {}
                      /\ pc[t] \notin {"suspend", "renew", "fork", "forking", "exception", "kill"}

\* Every property of d refers to an object of d
Intact(d) == \A h \in d.exists \cup {Root} : d.prop[h] \in d.exists \cup {None}

\* A running transaction sees an intact world, of which it has created what the
\* database does not hold; a task that was given nothing refers to objects it sees
ViewsIntact ==
  \A t \in Tasks : pc[t] = "run" =>
    /\ Intact(view[t])
    /\ GivenNothing(t) => locals[t] \subseteq view[t].exists
    /\ writes[t] \subseteq view[t].exists \cup {Root}
    /\ view[t].exists \subseteq db.exists \cup writes[t]

\* A commit whose handler has not taken the lock yet
Unrecorded ==
  \E t \in Tasks : pc[t] \in {"success", "limit"} /\ where[t] = "active" /\ writes[t] # {}

\* As long as no mutation was recorded the database is the one that was marked, and
\* no object that stays refers to a condemned one, unless a commit is still unrecorded
MarkCurrent ==
  valid =>
    /\ phase = "Marking" => db = snapshot \/ Unrecorded
    /\ phase \in {"Sweeping", "Deleting"} =>
         \/ Unrecorded
         \/ \A h \in (db.exists \ doomed) \cup {Root} : db.prop[h] \notin doomed

EndInv == NothingCarried /\ Intact(db) /\ ViewsIntact /\ OwnHandlesExist /\ MarkCurrent

\* An id that was not given out yet names nothing, and no property was ever written
\* under it
Blank(d) == d.exists \subseteq used /\ \A x \in Anons \ used : d.prop[x] = None

UnusedBlank ==
  Blank(db) /\ \A t \in Tasks : Blank(view[t]) /\ writes[t] \subseteq used \cup {Root}

GcInv == SleepInv /\ UnusedBlank /\ (RunToEnd => EndInv)

-----------------------------------------------------------------------------
\* The mark

\* What is reachable is closed under the references of existing objects
LEMMA ReachableClosed ==
  ASSUME NEW d \in Dbs, NEW S \in SUBSET Anons, NEW h \in (Reachable(d, S) \cap d.exists) \cup {Root}
  PROVE  d.prop[h] \in Reachable(d, S) \cup {None}
BY DEF Dbs, Reachable, Closed, Property, Holders

\* ... and contains the roots
LEMMA ReachableRoots ==
  ASSUME NEW d \in Dbs, NEW S \in SUBSET Anons
  PROVE  S \subseteq Reachable(d, S)
BY DEF Reachable, Closed

-----------------------------------------------------------------------------
\* The actions, as one disjunction
LEMMA StepCases ==
  ASSUME [Next]_vars
  PROVE  /\ UNCHANGED scenario
         /\ \/ \E t \in Tasks, S \in SUBSET Anons, place \in Places : Start(t, S, place)
            \/ \E t, u \in Tasks, S \in SUBSET Anons, place \in Places : Fork(t, u, S, place)
            \/ \E t \in Tasks, S \in SUBSET Anons : Reserve(t, S)
            \/ \E t \in Tasks, place \in Places : FinishLimit(t, place)
            \/ \E t \in Tasks, x \in Anons : Create(t, x) \/ Drop(t, x)
            \/ \E t \in Tasks, h \in Holders : Read(t, h)
            \/ \E t \in Tasks, h \in Holders, v \in Anons \cup {None} : Write(t, h, v)
            \/ \E t, u \in Tasks, kind \in {"send", "schedule"}, x \in Anons : Buffer(t, kind, u, x)
            \/ \E x \in Anons : Unschedule(x)
            \/ \E t \in Tasks, e \in EndingKinds \cup {"success"} : Commit(t, e)
            \/ \E t \in Tasks : \/ Conflict(t) \/ LimitRollback(t) \/ Finish(t) \/ Rollback(t)
                                \/ Suspend(t) \/ Renew(t) \/ Wake(t)
            \/ GatherRoots \/ OpenSnapshot \/ FinishMark \/ AwaitTasks \/ Delete
            \/ UNCHANGED vars
BY DEF Next, Step, vars

\* The empty database has the type of a database
LEMMA EmptyDbType == EmptyDb \in Dbs
BY DEF EmptyDb, Dbs

\* Every step keeps the types
LEMMA TypeStep ==
  ASSUME TypeOK, [Next]_vars
  PROVE  TypeOK'
<1> USE GcAssumption, EmptyDbType DEF TypeOK, Pcs, Places, EndingKinds, Holders, gcVars, txVars, vmVars, outVars
<1>0. UNCHANGED scenario  BY StepCases
<1>1. ASSUME NEW t \in Tasks, NEW S \in SUBSET Anons, NEW place \in Places, Submit(t, S, place)
       PROVE  /\ where' \in [Tasks -> {"none", "active", "suspended"}]
              /\ locals' \in [Tasks -> SUBSET Anons] /\ saved' \in [Tasks -> SUBSET Anons]
              /\ start' \in [Tasks -> SUBSET Anons] /\ view' \in [Tasks -> Dbs]
              /\ writes' \in [Tasks -> SUBSET Holders] /\ stale' \in [Tasks -> SUBSET Holders]
  BY <1>1 DEF Submit, BeginTx
<1>2. ASSUME NEW t \in Tasks, NEW S \in SUBSET Anons, NEW place \in Places, Start(t, S, place)
      PROVE  TypeOK'
  BY <1>0, <1>2, <1>1 DEF Start, Submitted
<1>3. ASSUME NEW t \in Tasks, NEW u \in Tasks, NEW S \in SUBSET Anons, NEW place \in Places,
              Fork(t, u, S, place)
       PROVE  TypeOK'
  BY <1>0, <1>1, <1>3 DEF Fork, Submitted
<1>4. ASSUME NEW t \in Tasks, NEW x \in Anons, Create(t, x) PROVE TypeOK'
  <2>1. [view[t] EXCEPT !.exists = @ \cup {x}] \in Dbs  BY DEF Dbs
  <2>2. view' = [view EXCEPT ![t] = [view[t] EXCEPT !.exists = @ \cup {x}]]  BY <1>4 DEF Create
  <2> QED BY <1>0, <1>4, <2>1, <2>2 DEF Create
<1>5. ASSUME NEW t \in Tasks, NEW x \in Anons, Drop(t, x) PROVE TypeOK'
  BY <1>0, <1>5 DEF Drop
<1>6. ASSUME NEW t \in Tasks, NEW h \in Holders, Read(t, h) PROVE TypeOK'
  <2>1. view[t].prop[h] \in Anons  BY <1>6 DEF Read, Dbs
  <2> QED BY <1>0, <1>6, <2>1 DEF Read
<1>7. ASSUME NEW t \in Tasks, NEW h \in Holders, NEW v \in Anons \cup {None}, Write(t, h, v) PROVE TypeOK'
  <2>1. [view[t] EXCEPT !.prop = [@ EXCEPT ![h] = v]] \in Dbs  BY DEF Dbs
  <2>2. view' = [view EXCEPT ![t] = [view[t] EXCEPT !.prop = [@ EXCEPT ![h] = v]]]  BY <1>7 DEF Write
  <2> QED BY <1>0, <1>7, <2>1, <2>2 DEF Write
<1>8. ASSUME NEW t \in Tasks, NEW u \in Tasks, NEW kind \in {"send", "schedule"}, NEW x \in Anons,
             Buffer(t, kind, u, x)
      PROVE  TypeOK'
  BY <1>0, <1>8 DEF Buffer
<1>9. ASSUME NEW x \in Anons, Unschedule(x) PROVE TypeOK'
  BY <1>0, <1>9 DEF Unschedule
<1>10. ASSUME NEW t \in Tasks, NEW e \in EndingKinds \cup {"success"}, Commit(t, e) PROVE TypeOK'
  <2>1. db' \in Dbs  BY <1>10 DEF Commit, Apply, Dbs
  <2>2. stale' \in [Tasks -> SUBSET Holders] /\ view' \in [Tasks -> Dbs] /\ pc' \in [Tasks -> Pcs]
    BY <1>10 DEF Commit, Apply
  <2> QED BY <1>0, <1>10, <2>1, <2>2 DEF Commit
<1>11. ASSUME NEW t \in Tasks, Conflict(t) PROVE TypeOK'
  BY <1>0, <1>11 DEF Conflict, EndTx
<1>12. ASSUME NEW t \in Tasks, LimitRollback(t) PROVE TypeOK'
  BY <1>0, <1>12 DEF LimitRollback, EndTx
<1>13. ASSUME NEW t \in Tasks, NEW S \in SUBSET Anons, Reserve(t, S) PROVE TypeOK'
  BY <1>0, <1>13 DEF Reserve, DropVm, EndTx
<1>14. ASSUME NEW t \in Tasks, Publish(t)
       PROVE  /\ mail' \in [Tasks -> SUBSET Anons] /\ schedules' \subseteq Anons
              /\ effects' \in [Tasks -> SUBSET ({"send", "schedule"} \X Tasks \X Anons)]
  BY <1>14 DEF Publish
<1>15. ASSUME NEW t \in Tasks, Finish(t) PROVE TypeOK'
  BY <1>0, <1>14, <1>15 DEF Finish
<1>16. ASSUME NEW t \in Tasks, NEW place \in Places, FinishLimit(t, place) PROVE TypeOK'
  <2>1. start[t] \in SUBSET Anons  OBVIOUS
  <2> QED BY <1>0, <1>14, <1>1, <1>16, <2>1 DEF FinishLimit, Submitted
<1>17. ASSUME NEW t \in Tasks, Rollback(t) PROVE TypeOK'
  BY <1>0, <1>17 DEF Rollback, DropVm, EndTx
<1>18. ASSUME NEW t \in Tasks, Suspend(t) PROVE TypeOK'
  BY <1>0, <1>14, <1>18 DEF Suspend, EndTx
<1>19. ASSUME NEW t \in Tasks, Renew(t) PROVE TypeOK'
  BY <1>0, <1>14, <1>19 DEF Renew, BeginTx
<1>20. ASSUME NEW t \in Tasks, Wake(t) PROVE TypeOK'
  BY <1>0, <1>20 DEF Wake, BeginTx
<1>21. CASE GatherRoots
  BY <1>0, <1>21 DEF GatherRoots, others, TaskRoots, Suspended
<1>22. CASE OpenSnapshot
  BY <1>0, <1>22 DEF OpenSnapshot, others
<1>23. CASE FinishMark
  <2>1. Unreachable \subseteq Anons  BY DEF Unreachable, Dbs
  <2> QED BY <1>0, <1>23, <2>1 DEF FinishMark, others, EndCycle
<1>24. CASE AwaitTasks
  BY <1>0, <1>24 DEF AwaitTasks, others, EndCycle
<1>25. CASE Delete
  <2>1. db' \in Dbs  BY <1>25 DEF Delete, Dbs
  <2> QED BY <1>0, <1>25, <2>1 DEF Delete, EndCycle
<1>26. CASE UNCHANGED vars
  BY <1>26 DEF vars
<1> HIDE DEF TypeOK, Pcs, Places, EndingKinds, Holders
<1> QED BY <1>2, <1>4, <1>5, <1>6, <1>7, <1>8, <1>9, <1>10, <1>11, <1>13, <1>15, <1>17, <1>18, <1>19,
           <1>20, <1>21, <1>22, <1>23, <1>24, <1>25, <1>26, <1>3, <1>12, <1>16, StepCases

-----------------------------------------------------------------------------
\* Suspended tasks

\* Every step keeps the agreement of the records
LEMMA RecordStep ==
  ASSUME TypeOK, RecordAgrees, [Next]_vars
  PROVE  RecordAgrees'
<1> USE DEF TypeOK, RecordAgrees, Pcs, Places, EndingKinds, vmVars, txVars
<1>1. ASSUME NEW t \in Tasks, NEW S, NEW place \in Places, Start(t, S, place) PROVE RecordAgrees'
  BY <1>1 DEF Start, Submit, Submitted, BeginTx
<1>2. ASSUME NEW t \in Tasks, NEW u \in Tasks, NEW S, NEW place \in Places, Fork(t, u, S, place)
      PROVE  RecordAgrees'
  BY <1>2 DEF Fork, Submit, Submitted, BeginTx
<1>3. ASSUME NEW t \in Tasks, NEW e \in EndingKinds \cup {"success"}, Commit(t, e) PROVE RecordAgrees'
  BY <1>3 DEF Commit
<1>4. ASSUME NEW t \in Tasks, Conflict(t) \/ LimitRollback(t) PROVE RecordAgrees'
  BY <1>4 DEF Conflict, LimitRollback, EndTx
<1>5. ASSUME NEW t \in Tasks, NEW S, Reserve(t, S) PROVE RecordAgrees'
  BY <1>5 DEF Reserve, DropVm, EndTx
<1>6. ASSUME NEW t \in Tasks, Finish(t) PROVE RecordAgrees'
  BY <1>6 DEF Finish
<1>7. ASSUME NEW t \in Tasks, NEW place \in Places, FinishLimit(t, place) PROVE RecordAgrees'
  BY <1>7 DEF FinishLimit, Submit, Submitted, BeginTx
<1>8. ASSUME NEW t \in Tasks, Rollback(t) PROVE RecordAgrees'
  BY <1>8 DEF Rollback, DropVm, EndTx
<1>9. ASSUME NEW t \in Tasks, Suspend(t) \/ Renew(t) PROVE RecordAgrees'
  BY <1>9 DEF Suspend, Renew, BeginTx, EndTx
<1>10. ASSUME NEW t \in Tasks, Wake(t) PROVE RecordAgrees'
  BY <1>10 DEF Wake, BeginTx
<1>11. ASSUME NEW t \in Tasks, NEW x, Create(t, x) \/ Drop(t, x) \/ Read(t, x) PROVE RecordAgrees'
  BY <1>11 DEF Create, Drop, Read
<1>12. ASSUME NEW t \in Tasks, NEW x, NEW v, Write(t, x, v) PROVE RecordAgrees'
  BY <1>12 DEF Write
<1>13. CASE UNCHANGED <<where, pc, vmVars, writes>>
  BY <1>13
<1> HIDE DEF TypeOK, RecordAgrees, Pcs, Places, EndingKinds
<1> QED
  BY <1>1, <1>2, <1>3, <1>4, <1>5, <1>6, <1>7, <1>8, <1>9, <1>10, <1>11, <1>13, <1>12, StepCases
  DEF Buffer, Unschedule, GatherRoots, OpenSnapshot, FinishMark, AwaitTasks, Delete, others, vars

\* Every step of a task keeps what sleeping tasks refer to, and the cycle
LEMMA SleepersStep ==
  ASSUME SleepInv, [Next]_vars
  PROVE  SleepersRooted' /\ DeletesAlone'
<1> USE DEF SleepInv, TypeOK, RecordAgrees, SleepersRooted, DeletesAlone, Suspended, Active, gcVars
<1>1. ASSUME NEW t \in Tasks, NEW S, NEW place \in Places, Start(t, S, place)
      PROVE  SleepersRooted' /\ DeletesAlone'
  BY <1>1 DEF Start, Submit, BlocksAdmission
<1>2. ASSUME NEW t \in Tasks, NEW u \in Tasks, NEW S, NEW place \in Places, Fork(t, u, S, place)
       PROVE  SleepersRooted' /\ DeletesAlone'
  BY <1>2 DEF Fork, Submit, BlocksAdmission
<1>3. ASSUME NEW t \in Tasks, NEW place \in Places, FinishLimit(t, place)
       PROVE  SleepersRooted' /\ DeletesAlone'
  BY <1>3 DEF FinishLimit, Submit, BlocksAdmission
<1>4. ASSUME NEW t \in Tasks, LimitRollback(t) PROVE SleepersRooted' /\ DeletesAlone'
  BY <1>4 DEF LimitRollback
<1>5. ASSUME NEW t \in Tasks, NEW x, Create(t, x) \/ Drop(t, x) \/ Read(t, x)
      PROVE  SleepersRooted' /\ DeletesAlone'
  BY <1>5 DEF Create, Drop, Read
<1>6. ASSUME NEW t \in Tasks, NEW e, Commit(t, e) PROVE SleepersRooted' /\ DeletesAlone'
  BY <1>6 DEF Commit, vmVars
<1>7. ASSUME NEW t \in Tasks, Conflict(t) PROVE SleepersRooted' /\ DeletesAlone'
  BY <1>7 DEF Conflict, vmVars
<1>8. ASSUME NEW t \in Tasks, NEW S, Reserve(t, S) PROVE SleepersRooted' /\ DeletesAlone'
  BY <1>8 DEF Reserve, DropVm
<1>9. ASSUME NEW t \in Tasks, Finish(t) PROVE SleepersRooted' /\ DeletesAlone'
  BY <1>9 DEF Finish, vmVars
<1>10. ASSUME NEW t \in Tasks, Rollback(t) PROVE SleepersRooted' /\ DeletesAlone'
  BY <1>10 DEF Rollback, DropVm
<1>11. ASSUME NEW t \in Tasks, Suspend(t) PROVE SleepersRooted' /\ DeletesAlone'
  BY <1>11 DEF Suspend
<1>12. ASSUME NEW t \in Tasks, Renew(t) PROVE SleepersRooted' /\ DeletesAlone'
  BY <1>12 DEF Renew
<1>13. ASSUME NEW t \in Tasks, Wake(t) PROVE SleepersRooted' /\ DeletesAlone'
  BY <1>13 DEF Wake, BlocksAdmission
<1>14. CASE GatherRoots
  BY <1>14 DEF GatherRoots, others, vmVars, TaskRoots
<1>15. CASE OpenSnapshot
  BY <1>15 DEF OpenSnapshot, others, vmVars
<1>16. CASE FinishMark
  <2>1. roots \cap Unreachable = {}  BY ReachableRoots DEF Unreachable
  <2> QED BY <1>16, <2>1 DEF FinishMark, EndCycle, others, vmVars
<1>17. CASE AwaitTasks
  BY <1>17 DEF AwaitTasks, EndCycle, others, vmVars
<1>18. CASE Delete
  BY <1>18 DEF Delete, EndCycle
<1>19. CASE UNCHANGED <<gcVars, where, vmVars, sleepers>>
  BY <1>19 DEF vmVars
<1> QED
  BY <1>1, <1>5, <1>6, <1>7, <1>8, <1>9, <1>10, <1>11, <1>12, <1>13, <1>14, <1>15, <1>16, <1>17,
     <1>18, <1>19, <1>2, <1>3, <1>4, StepCases
  DEF Write, Buffer, Unschedule, vars

\* Types, records and sleeping tasks are as they should be in every state
THEOREM SleepingTasksRooted == Spec => []SleepInv
<1>1. Init => SleepInv
  <2> SUFFICES ASSUME Init PROVE SleepInv  OBVIOUS
  <2>1. PICK prop \in [Holders -> scenario.existing \cup {None}] :
          db = [exists |-> scenario.existing, prop |-> prop]
    BY DEF Init
  <2>2. scenario.existing \in SUBSET Anons /\ scenario.gone \in SUBSET Anons
    BY GcAssumption DEF Init, ScenarioType
  <2>3. db \in Dbs  BY <2>1, <2>2 DEF Dbs
  <2>4. TypeOK  BY <2>2, <2>3, EmptyDbType DEF Init, TypeOK, Pcs
  <2> QED BY <2>4 DEF Init, SleepInv, RecordAgrees, SleepersRooted, DeletesAlone
<1>2. SleepInv /\ [Next]_vars => SleepInv'
  BY TypeStep, RecordStep, SleepersStep DEF SleepInv
<1> QED BY <1>1, <1>2, PTL DEF Spec

\* Type correctness
THEOREM TypeCorrect == Spec => []TypeOK
<1>1. SleepInv => TypeOK  BY DEF SleepInv
<1> QED BY <1>1, SleepingTasksRooted, PTL

\* A task that has run and stays suspended while a cycle runs keeps every object it
\* refers to, whatever other tasks do: the roots hold what it had, the mark starts from
\* there.  It says nothing of a task that still waits to be started.
THEOREM SleepersKeepTheirObjects == Spec => SleepersKeep
<1>1. SleepInv /\ [Next]_vars =>
        [\A t \in sleepers \cap Suspended :
           pc[t] # "pending" => Handles(t) \cap db.exists \subseteq db'.exists]_vars
  <2> SUFFICES ASSUME SleepInv, [Next]_vars, NEW t \in sleepers \cap Suspended, pc[t] # "pending"
               PROVE  Handles(t) \cap db.exists \subseteq db'.exists
    OBVIOUS
  <2>1. ASSUME NEW u \in Tasks, NEW e, Commit(u, e) PROVE db.exists \subseteq db'.exists
    BY <2>1 DEF Commit, Apply
  <2>2. CASE Delete
    <3>1. Handles(t) \subseteq locals[t] \cup saved[t]  BY DEF Handles
    <3>2. Handles(t) \cap doomed = {}
      BY <2>2, <3>1 DEF Delete, SleepInv, SleepersRooted
    <3> QED BY <2>2, <3>2 DEF Delete
  <2>3. CASE UNCHANGED db  BY <2>3
  <2> QED
    BY <2>1, <2>2, <2>3, StepCases
    DEF Start, Fork, Create, Drop, Read, Write, Buffer, Unschedule, Conflict, LimitRollback, Reserve,
        Finish, FinishLimit, Rollback, Suspend, Renew, Wake, GatherRoots, OpenSnapshot, FinishMark,
        AwaitTasks, others, vars
<1> QED BY <1>1, SleepingTasksRooted, PTL DEF Spec, SleepersKeep

-----------------------------------------------------------------------------
\* Programs that run to their end

\* Ids that were not given out stay unused
LEMMA BlankStep ==
  ASSUME TypeOK, UnusedBlank, [Next]_vars
  PROVE  UnusedBlank'
<1> USE GcAssumption DEF TypeOK, UnusedBlank, Dbs, Holders, txVars
<1>1. Blank(EmptyDb)  BY DEF Blank, EmptyDb
<1>2. ASSUME NEW t \in Tasks, BeginTx(t), db' = db, used' = used PROVE UnusedBlank'
  BY <1>2 DEF BeginTx, Blank
<1>3. ASSUME NEW t \in Tasks, EndTx(t), db' = db, used' = used PROVE UnusedBlank'
  BY <1>1, <1>3 DEF EndTx, Blank
<1>4. ASSUME NEW t \in Tasks, NEW x \in Anons, Create(t, x) PROVE UnusedBlank'
  BY <1>4 DEF Create, Blank
<1>5. ASSUME NEW t \in Tasks, NEW h \in Holders, NEW v \in Anons \cup {None}, Write(t, h, v)
      PROVE  UnusedBlank'
  BY <1>5 DEF Write, Names, Blank
<1>6. ASSUME NEW t \in Tasks, NEW e, Commit(t, e) PROVE UnusedBlank'
  BY <1>1, <1>6 DEF Commit, Apply, Blank
<1>7. CASE Delete
  BY <1>7 DEF Delete, Blank
<1>8. CASE UNCHANGED <<db, used, view, writes>>
  BY <1>8 DEF Blank
<1>9. ASSUME NEW t \in Tasks, NEW S, NEW place \in Places, Submit(t, S, place), db' = db, used' = used
      PROVE  UnusedBlank'
  BY <1>2, <1>8, <1>9 DEF Submit
<1> QED
  BY <1>2, <1>3, <1>4, <1>5, <1>6, <1>7, <1>8, <1>9, StepCases
  DEF Start, Fork, FinishLimit, Drop, Read, Buffer, Unschedule, Conflict, LimitRollback, Reserve,
      DropVm, Finish, Rollback, Suspend,
      Renew, Wake, GatherRoots, OpenSnapshot, FinishMark, AwaitTasks, others, vars

\* What programs leave behind stays nothing
LEMMA CarriedStep ==
  ASSUME SleepInv, RunToEnd, NothingCarried, [Next]_vars
  PROVE  NothingCarried'
<1> USE DEF SleepInv, TypeOK, NothingCarried, vmVars, outVars
<1>1. ASSUME NEW t \in Tasks, NEW S, NEW place \in Places, Start(t, S, place) PROVE NothingCarried'
  BY <1>1 DEF Start, Submitted
<1>2. ASSUME NEW t \in Tasks, NEW e, Commit(t, e) PROVE NothingCarried'
  BY <1>2 DEF Commit, RunToEnd
<1>3. ASSUME NEW t \in Tasks, Conflict(t) \/ LimitRollback(t) PROVE NothingCarried'
  BY <1>3 DEF Conflict, LimitRollback
<1>4. ASSUME NEW t \in Tasks, NEW S, Reserve(t, S) PROVE NothingCarried'
  BY <1>4 DEF Reserve, DropVm
<1>5. ASSUME NEW t \in Tasks, NEW place \in Places, FinishLimit(t, place) PROVE NothingCarried'
  BY <1>5 DEF FinishLimit, Submitted, Publish
<1>6. ASSUME NEW t \in Tasks, Finish(t) PROVE NothingCarried'
  BY <1>6 DEF Finish, Publish
<1>7. ASSUME NEW t \in Tasks, Rollback(t) PROVE NothingCarried'
  BY <1>7 DEF Rollback, DropVm
<1>8. ASSUME NEW t \in Tasks, Wake(t) PROVE NothingCarried'
  BY <1>8 DEF Wake
<1>9. CASE UNCHANGED <<schedules, effects, pc>>
  BY <1>9
<1> QED
  BY <1>1, <1>2, <1>3, <1>4, <1>6, <1>7, <1>8, <1>9, <1>5, StepCases
  DEF Fork, Create, Drop, Read, Write, Buffer, RunToEnd, Unschedule, Suspend, Renew, GatherRoots,
      OpenSnapshot, FinishMark, AwaitTasks, Delete, others, vars

\* The database stays intact, with the transactions that see it and the tasks that
\* refer to its objects
LEMMA IntactStep ==
  ASSUME SleepInv, UnusedBlank, RunToEnd, EndInv, [Next]_vars
  PROVE  Intact(db)' /\ ViewsIntact' /\ OwnHandlesExist'
<1> USE GcAssumption
    DEF SleepInv, TypeOK, RecordAgrees, EndInv, NothingCarried, ViewsIntact, OwnHandlesExist, Handles,
        GivenNothing, Holders, vmVars, txVars, outVars
<1> DEFINE Good == Intact(db)' /\ ViewsIntact' /\ OwnHandlesExist'
<1>1. ASSUME NEW t \in Tasks, NEW S, NEW place \in Places, Submit(t, S, place), db' = db,
             pc' = [pc EXCEPT ![t] = Submitted(place)]
      PROVE  Good
  <2>1. CASE place = "suspended"  BY <1>1, <2>1 DEF Submit, Submitted
  <2>2. CASE place = "active"  BY <1>1, <2>2 DEF Submit, Submitted, BeginTx
  <2> QED BY <2>1, <2>2 DEF Places
<1>2. ASSUME NEW t \in Tasks, NEW x \in Anons, Create(t, x) PROVE Good
  <2>1. /\ view[t] \in Dbs /\ Intact(view[t]) /\ view[t].prop[x] = None
        /\ view'[t].prop = view[t].prop /\ view'[t].exists = view[t].exists \cup {x}
    <3>1. view[t] \in Dbs /\ pc[t] = "run" /\ x \notin used  BY <1>2 DEF Create
    <3>2. view[t].prop[x] = None  BY <3>1 DEF UnusedBlank, Blank
    <3>3. Intact(view[t])  BY <3>1
    <3>4. view'[t] = [view[t] EXCEPT !.exists = @ \cup {x}]  BY <1>2, <3>1 DEF Create
    <3> QED BY <3>1, <3>2, <3>3, <3>4 DEF Dbs
  <2>2. Intact(view[t])'  BY <2>1 DEF Intact
  <2>3. \A u \in Tasks \ {t} : view'[u] = view[u] /\ (Intact(view[u]) => Intact(view[u])')
    BY <1>2 DEF Create, Intact
  <2>4. ViewsIntact'  BY <1>2, <2>1, <2>2, <2>3 DEF Create
  <2>5. OwnHandlesExist'  BY <1>2 DEF Create
  <2> QED BY <1>2, <2>4, <2>5 DEF Create, Intact
<1>3. ASSUME NEW t \in Tasks, NEW h \in Holders, Read(t, h) PROVE Good
  <2>1. view[t].prop[h] \in view[t].exists  BY <1>3 DEF Read, Dbs, Intact, Names
  <2>2. ViewsIntact'  BY <1>3, <2>1 DEF Read
  <2>3. OwnHandlesExist'  BY <1>3, <2>1 DEF Read
  <2> QED BY <1>3, <2>2, <2>3 DEF Read, Intact
<1>4. ASSUME NEW t \in Tasks, NEW h \in Holders, NEW v \in Anons \cup {None}, Write(t, h, v) PROVE Good
  <2>1. /\ view[t] \in Dbs /\ Intact(view[t]) /\ v \in view[t].exists \cup {None}
        /\ view'[t].prop = [view[t].prop EXCEPT ![h] = v] /\ view'[t].exists = view[t].exists
    BY <1>4 DEF Write, Dbs, Names
  <2>2. Intact(view[t])'  BY <2>1 DEF Intact, Dbs
  <2>3. \A u \in Tasks \ {t} : view'[u] = view[u] /\ (Intact(view[u]) => Intact(view[u])')
    BY <1>4 DEF Write, Intact
  <2>4. ViewsIntact'  BY <1>4, <2>1, <2>2, <2>3 DEF Write, Names
  <2>5. OwnHandlesExist'  BY <1>4 DEF Write
  <2> QED BY <1>4, <2>4, <2>5 DEF Write, Intact
<1>5. ASSUME NEW t \in Tasks, NEW e, Commit(t, e) PROVE Good
  <2>1. db.exists \subseteq db'.exists  BY <1>5 DEF Commit, Apply
  <2>2. Intact(db)'  BY <1>5 DEF Commit, Apply, Dbs, Intact
  <2>3. ViewsIntact'  BY <1>5, <2>1 DEF Commit, Apply, RunToEnd
  <2>4. OwnHandlesExist'  BY <1>5, <2>1 DEF Commit, RunToEnd
  <2> QED BY <2>2, <2>3, <2>4
<1>6. ASSUME NEW t \in Tasks, Conflict(t) PROVE Good
  BY <1>6 DEF Conflict, EndTx
<1>7. ASSUME NEW t \in Tasks, LimitRollback(t) PROVE Good
  BY <1>7 DEF LimitRollback, EndTx
<1>8. ASSUME NEW t \in Tasks, NEW S, Reserve(t, S) PROVE Good
  BY <1>8 DEF Reserve, DropVm, EndTx
<1>9. ASSUME NEW t \in Tasks, Finish(t) PROVE Good
  BY <1>9 DEF Finish
<1>10. ASSUME NEW t \in Tasks, Rollback(t) PROVE Good
  BY <1>10 DEF Rollback, DropVm, EndTx
<1>11. ASSUME NEW t \in Tasks, Wake(t) PROVE Good
  BY <1>11 DEF Wake, BeginTx
<1>12. CASE Delete
  <2>1. /\ \A t \in Tasks : where[t] # "active" /\ pc[t] \in {"none", "retry", "pending"}
        /\ \A h \in (db.exists \ doomed) \cup {Root} : db.prop[h] \notin doomed
    BY <1>12 DEF Delete, MarkCurrent, DeletesAlone, Active, Unrecorded
  <2>2. Intact(db)'  BY <1>12, <2>1 DEF Delete, Dbs, Intact
  <2>3. ViewsIntact'  BY <1>12, <2>1 DEF Delete
  <2>4. OwnHandlesExist'
    <3> SUFFICES ASSUME NEW t \in Tasks, GivenNothing(t)', where'[t] \in {"active", "suspended"}
                 PROVE  Handles(t)' = {}
      OBVIOUS
    <3> QED BY <1>12, <2>1 DEF Delete
  <2> QED BY <2>2, <2>3, <2>4
<1>13. CASE UNCHANGED <<db, pc, where, vmVars, view, writes>>
  BY <1>13
<1> HIDE DEF SleepInv, TypeOK, RecordAgrees, ViewsIntact, OwnHandlesExist, Handles, GivenNothing
<1> QED
  BY <1>1, <1>2, <1>3, <1>4, <1>5, <1>6, <1>8, <1>9, <1>10, <1>11, <1>12, <1>13, <1>7, StepCases
  DEF Start, Fork, FinishLimit, Drop, Buffer, RunToEnd, Unschedule, Suspend, Renew, GatherRoots,
      OpenSnapshot, FinishMark, AwaitTasks, others, vars

\* As long as nothing was recorded the marked database is the one that is swept
LEMMA MarkStep ==
  ASSUME SleepInv, RunToEnd, EndInv, [Next]_vars
  PROVE  MarkCurrent'
<1> USE GcAssumption
    DEF SleepInv, TypeOK, RecordAgrees, EndInv, NothingCarried, Holders, gcVars, vmVars, txVars
<1>1. ASSUME db' = db, UNCHANGED gcVars, Unrecorded => Unrecorded' PROVE MarkCurrent'
  BY <1>1 DEF MarkCurrent
<1>2. ASSUME NEW t \in Tasks, pc[t] \notin {"success", "limit"} \/ where[t] # "active",
             \A u \in Tasks \ {t} : pc'[u] = pc[u] /\ where'[u] = where[u] /\ writes'[u] = writes[u]
      PROVE  Unrecorded => Unrecorded'
  BY <1>2 DEF Unrecorded
<1>3. ASSUME NEW t \in Tasks, NEW S, NEW place \in Places, Submit(t, S, place), db' = db,
             UNCHANGED gcVars, pc' = [pc EXCEPT ![t] = Submitted(place)],
             pc[t] \notin {"success", "limit"}
      PROVE  MarkCurrent'
  BY <1>1, <1>2, <1>3 DEF Submit, BeginTx
<1>4. ASSUME NEW t \in Tasks, NEW x \in Anons, Create(t, x) PROVE MarkCurrent'
  BY <1>1, <1>2, <1>4 DEF Create
<1>5. ASSUME NEW t \in Tasks, NEW h \in Holders, NEW v, Write(t, h, v) PROVE MarkCurrent'
  BY <1>1, <1>2, <1>5 DEF Write
<1>6. ASSUME NEW t \in Tasks, NEW e, Commit(t, e) PROVE MarkCurrent'
  <2>1. CASE writes[t] = {}
    <3>1. db' = db  BY <1>6, <2>1 DEF Commit, Apply, Dbs
    <3> QED BY <1>1, <1>2, <1>6, <3>1 DEF Commit
  <2>2. CASE writes[t] # {}
    <3>1. Unrecorded'  BY <1>6, <2>2 DEF Commit, Unrecorded, RunToEnd
    <3> QED BY <1>6, <3>1 DEF Commit, MarkCurrent
  <2> QED BY <2>1, <2>2
<1>7. ASSUME NEW t \in Tasks, Conflict(t) PROVE MarkCurrent'
  BY <1>1, <1>2, <1>7 DEF Conflict, EndTx
<1>8. ASSUME NEW t \in Tasks, LimitRollback(t) PROVE MarkCurrent'
  BY <1>1, <1>2, <1>8 DEF LimitRollback, EndTx
<1>9. ASSUME NEW t \in Tasks, NEW S, Reserve(t, S) PROVE MarkCurrent'
  <2>1. SUFFICES ASSUME valid' PROVE MarkCurrent'  BY DEF MarkCurrent
  <2>2. valid /\ (pc[t] \in {"success", "limit"} => writes[t] = {})  BY <1>9, <2>1 DEF Reserve
  <2>3. Unrecorded => Unrecorded'
    BY <1>9, <2>2 DEF Reserve, DropVm, EndTx, Unrecorded
  <2> QED BY <1>9, <2>2, <2>3 DEF Reserve, MarkCurrent
<1>10. ASSUME NEW t \in Tasks, Finish(t) PROVE MarkCurrent'
  BY <1>1, <1>2, <1>10 DEF Finish
<1>11. ASSUME NEW t \in Tasks, Rollback(t) PROVE MarkCurrent'
  BY <1>1, <1>2, <1>11 DEF Rollback, DropVm, EndTx
<1>12. ASSUME NEW t \in Tasks, Wake(t) PROVE MarkCurrent'
  BY <1>1, <1>2, <1>12 DEF Wake, BeginTx
<1>13. CASE GatherRoots
  BY <1>13 DEF GatherRoots, others, MarkCurrent
<1>14. CASE OpenSnapshot
  BY <1>14 DEF OpenSnapshot, others, MarkCurrent
<1>15. CASE FinishMark
  <2>1. CASE Unreachable # {} /\ valid
    <3>1. CASE Unrecorded
      <4>1. Unrecorded'  BY <1>15, <3>1 DEF FinishMark, others, Unrecorded
      <4> QED BY <1>15, <2>1, <4>1 DEF FinishMark, MarkCurrent
    <3>2. CASE db = snapshot
      <4>1. \A h \in (db.exists \ Unreachable) \cup {Root} : db.prop[h] \notin Unreachable
        <5> SUFFICES ASSUME NEW h \in (db.exists \ Unreachable) \cup {Root} PROVE db.prop[h] \notin Unreachable
          OBVIOUS
        <5>1. h \in (Reachable(db, roots) \cap db.exists) \cup {Root}
          BY <3>2 DEF Unreachable
        <5>2. db.prop[h] \in Reachable(db, roots) \cup {None}
          BY <5>1, ReachableClosed
        <5>3. db.exists \subseteq Anons  BY DEF Dbs
        <5> QED BY <3>2, <5>2, <5>3 DEF Unreachable
      <4> QED BY <1>15, <2>1, <4>1 DEF FinishMark, others, MarkCurrent
    <3> QED BY <1>15, <2>1, <3>1, <3>2 DEF FinishMark, MarkCurrent
  <2>2. CASE ~(Unreachable # {} /\ valid)
    BY <1>15, <2>2 DEF FinishMark, EndCycle, MarkCurrent
  <2> QED BY <2>1, <2>2
<1>16. CASE AwaitTasks
  <2>1. Unrecorded => Unrecorded'  BY <1>16 DEF AwaitTasks, others, Unrecorded
  <2> QED BY <1>16, <2>1 DEF AwaitTasks, EndCycle, others, MarkCurrent
<1>17. CASE Delete
  BY <1>17 DEF Delete, EndCycle, MarkCurrent
<1>18. CASE UNCHANGED <<gcVars, db, pc, where, writes>>
  BY <1>1, <1>18 DEF Unrecorded
<1> QED
  BY <1>3, <1>4, <1>5, <1>6, <1>7, <1>9, <1>10, <1>11, <1>12, <1>13, <1>14, <1>15, <1>16, <1>17,
     <1>18, <1>8, StepCases
  DEF Start, Fork, FinishLimit, Drop, Read, Buffer, RunToEnd, Unschedule, Suspend, Renew, vars

\* The invariant holds in every state
THEOREM CollectionInvariant == Spec => []GcInv
<1>1. Init => UnusedBlank /\ EndInv
  <2> SUFFICES ASSUME Init PROVE UnusedBlank /\ EndInv  OBVIOUS
  <2>1. PICK prop \in [Holders -> scenario.existing \cup {None}] :
          /\ \A h \in Anons \ scenario.existing : prop[h] = None
          /\ db = [exists |-> scenario.existing, prop |-> prop]
    BY DEF Init
  <2>2. scenario.existing \in SUBSET Anons
    BY GcAssumption DEF Init, ScenarioType
  <2>3. Intact(db)  BY <2>1, <2>2 DEF Intact, Holders
  <2>4. Blank(EmptyDb) /\ Blank(db)
    BY <2>1, <2>2 DEF Init, Blank, EmptyDb, Holders
  <2> QED
    BY <2>3, <2>4 DEF Init, UnusedBlank, EndInv, NothingCarried, ViewsIntact, OwnHandlesExist, MarkCurrent
<1>2. ASSUME SleepInv, SleepInv', GcInv, [Next]_vars PROVE GcInv'
  <2>1. RunToEnd' <=> RunToEnd  BY <1>2, StepCases DEF RunToEnd, Endings, Effects
  <2>2. UnusedBlank'  BY <1>2, BlankStep DEF GcInv, SleepInv
  <2>3. RunToEnd => EndInv'  BY <1>2, CarriedStep, IntactStep, MarkStep DEF GcInv, EndInv
  <2> QED BY <1>2, <2>1, <2>2, <2>3 DEF GcInv
<1>3. Init /\ SleepInv => GcInv  BY <1>1 DEF GcInv
<1> QED BY <1>2, <1>3, SleepingTasksRooted, PTL DEF Spec

\* While every program runs to its end, no property of an object that exists refers to
\* an object that a sweep deleted
THEOREM NoPropertyDangles == Spec => []NoDanglingProperty
<1>1. GcInv => NoDanglingProperty  BY DEF GcInv, EndInv, Intact, NoDanglingProperty
<1> QED BY <1>1, CollectionInvariant, PTL

\* ... and neither does the state of a task, active or suspended, that was started
\* without references.  What a task was started with is in no root set until it runs.
THEOREM NoHandleDangles == Spec => []NoDanglingHandle
<1>1. GcInv => NoDanglingHandle  BY DEF GcInv, EndInv, NoDanglingHandle
<1> QED BY <1>1, CollectionInvariant, PTL
=============================================================================
