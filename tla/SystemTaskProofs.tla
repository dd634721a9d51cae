--------------------------- MODULE SystemTaskProofs ---------------------------
(***************************************************************************)
(* Safety of the leased task queue for every set of types and runners and  *)
(* every value of the bounds, in four parts: one active task of a type and *)
(* one executor of a task; who may touch a lease; the refinement of        *)
(* JobQueue; and the lease of a running task.                              *)
(***************************************************************************)
EXTENDS SystemTask, TLAPS

\* Where a local of the runner goroutine is meaningful, it names a row.
LocalsOK ==
  /\ \A ty \in Types : lock[ty].task # 0 => lock[ty].owner \in Runners
  /\ \A r \in Runners :
       /\ InClaim(r) \/ At(r, {"delete", "reread"}) => loop[r].task \in TaskIds
       /\ At(r, {"takeover", "markprev"}) => loop[r].prev \in TaskIds

\* Ids are used in order.
IdsInOrder ==
  \A t, u \in TaskIds : task[t].status = "absent" /\ t <= u => task[u].status = "absent"

\* The active key is held exactly by the active rows.
KeyMeansActive == \A t \in TaskIds : task[t].activeKey <=> task[t].status \in Active

\* The inductive invariant behind OneActivePerType and OneExecutor.
QueueInv == TypeOK /\ LocalsOK /\ IdsInOrder /\ KeyMeansActive /\ OneActivePerType /\ OneExecutor

-----------------------------------------------------------------------------
(* What a step does to the rows of system_tasks. *)

\* A step that only refreshes updated_at, or leaves the rows alone.
RowsKept ==
  /\ task' \in [TaskIds -> TaskRow]
  /\ \A t \in TaskIds : /\ task[t].status # "running" => task'[t] = task[t]
                        /\ task'[t].type = task[t].type
                        /\ task'[t].status = task[t].status
                        /\ task'[t].activeKey = task[t].activeKey
                        /\ task'[t].lockedBy = task[t].lockedBy

\* A pending row is inserted at the next id while no row of its type is active.
RowInserted(t) ==
  /\ FreshId(t)
  /\ \E ty \in Types :
       /\ ActiveKeyFree(ty)
       /\ task' = [task EXCEPT ![t] = [type |-> ty, status |-> "pending", activeKey |-> TRUE,
                                       lockedBy |-> Nobody, updatedAt |-> clock]]

\* A pending row is claimed by r.
RowClaimed(r, t) ==
  /\ loop[r].pc = "cas"
  /\ loop[r].task = t
  /\ task[t].status = "pending"
  /\ task' = [task EXCEPT ![t].status = "running", ![t].lockedBy = r, ![t].updatedAt = loop[r].now]

\* A running row ends.
RowEnded(t) ==
  /\ task[t].status = "running"
  /\ \E s \in Terminal :
       task' = [task EXCEPT ![t].status = s, ![t].activeKey = FALSE, ![t].updatedAt = clock]

RowStep ==
  \/ RowsKept
  \/ \E t \in TaskIds : RowInserted(t) \/ RowEnded(t)
  \/ \E r \in Runners, t \in TaskIds : RowClaimed(r, t)

\* Every statement that writes system_tasks is one of the four kinds above.
LEMMA EveryStepIsARowStep == TypeOK /\ LocalsOK /\ [Next]_vars => RowStep
<1> SUFFICES ASSUME TypeOK, LocalsOK, [Next]_vars PROVE RowStep
  OBVIOUS
<1>0. task' = task => RowsKept
  BY DEF RowsKept, TypeOK
<1>1. CASE UNCHANGED vars
  BY <1>0, <1>1 DEF RowStep, vars
<1>2. ASSUME NEW ty \in Types, CreateSystemTask(ty) PROVE RowStep
  <2>1. PICK t \in TaskIds :
          /\ FreshId(t) /\ ActiveKeyFree(ty)
          /\ task' = [task EXCEPT ![t] = [type |-> ty, status |-> "pending", activeKey |-> TRUE,
                                          lockedBy |-> Nobody, updatedAt |-> clock]]
    BY <1>2 DEF CreateSystemTask
  <2>2. RowInserted(t)
    BY <2>1 DEF RowInserted
  <2> QED
    BY <2>2 DEF RowStep
<1>3. ASSUME NEW t \in TaskIds, MarkSystemTaskLeaseExpired(t) PROVE RowStep
  BY <1>0, <1>3 DEF RowStep, MarkSystemTaskLeaseExpired, RowEnded, Terminal
<1>4. ASSUME NEW r \in Runners,
             \/ ExpireRead(r) \/ ExpireDelete(r) \/ SchedulerRead(r) \/ FindPending(r)
             \/ ClaimRead(r) \/ AcquireCreate(r) \/ AcquireExisting(r) \/ AcquireTakeover(r)
             \/ ClaimRelease(r) \/ ClaimDispatch(r) \/ Crash(r) \/ StatementFails(r)
      PROVE RowStep
  <2>1. task' = task
    BY <1>4 DEF ExpireRead, ExpireDelete, SchedulerRead, FindPending, ClaimRead, AcquireCreate,
                AcquireExisting, AcquireTakeover, ClaimRelease, ClaimDispatch, Crash, StatementFails
  <2> QED
    BY <1>0, <2>1 DEF RowStep
<1>5. ASSUME NEW r \in Runners, ExpireMark(r) PROVE RowStep
  <2>1. PICK l \in loop[r].stale : MarkSystemTaskLeaseExpired(l.task)
    BY <1>5 DEF ExpireMark
  <2>2. l.task \in TaskIds
    BY DEF TypeOK, LoopState, LockKey
  <2> QED
    BY <1>3, <2>1, <2>2
<1>6. ASSUME NEW r \in Runners, SchedulerCreate(r) PROVE RowStep
  <2>1. PICK ty \in loop[r].due : CreateSystemTask(ty) \/ task' = task
    BY <1>6 DEF SchedulerCreate
  <2>2. ty \in Types
    BY DEF TypeOK, LoopState
  <2> QED
    BY <1>0, <1>2, <2>1, <2>2 DEF RowStep
<1>7. ASSUME NEW r \in Runners, ClaimMarkExpired(r) PROVE RowStep
  BY <1>3, <1>7 DEF ClaimMarkExpired, LocalsOK, At
<1>8. ASSUME NEW r \in Runners, ClaimCAS(r) PROVE RowStep
  <2>1. loop[r].task \in TaskIds
    BY <1>8 DEF ClaimCAS, LocalsOK, At, InClaim, EarlyClaim, LateClaim
  <2>2. CASE task' = task
    BY <1>0, <2>2 DEF RowStep
  <2>3. CASE task' # task
    <3>1. RowClaimed(r, loop[r].task)
      BY <1>8, <2>3 DEF ClaimCAS, RowClaimed, At
    <3> QED
      BY <2>1, <3>1 DEF RowStep
  <2> QED
    BY <2>2, <2>3
<1>9. ASSUME NEW r \in Runners, NEW t \in TaskIds,
             \/ HandlerEnd(r, t) \/ Heartbeat(r, t) \/ UpdateSystemTaskState(r, t) \/ HandlerFails(r, t)
      PROVE RowStep
  <2>1. CASE FinishSystemTask(r, t)
    <3>1. task' = task \/ RowEnded(t)
      BY <2>1 DEF FinishSystemTask, RowEnded, Fenced
    <3> QED
      BY <1>0, <3>1 DEF RowStep
  <2>2. CASE FinishRelease(r, t) \/ Heartbeat(r, t) \/ HandlerFails(r, t)
    BY <1>0, <2>2 DEF FinishRelease, Heartbeat, HandlerFails, RowStep
  <2>3. CASE UpdateSystemTaskState(r, t)
    <3>1. CASE task' = task
      BY <1>0, <3>1 DEF RowStep
    <3>2. CASE task' = [task EXCEPT ![t].updatedAt = clock]
      BY <2>3, <3>2 DEF UpdateSystemTaskState, Fenced, RowStep, RowsKept, TypeOK, TaskRow
    <3> QED
      BY <2>3, <3>1, <3>2 DEF UpdateSystemTaskState
  <2> QED
    BY <1>9, <2>1, <2>2, <2>3 DEF HandlerEnd
<1>10. ASSUME NEW ty \in Types, EnqueueSystemTask(ty) PROVE RowStep
  BY <1>2, <1>10 DEF EnqueueSystemTask
<1>11. CASE Tick
  BY <1>0, <1>11 DEF Tick, RowStep
<1> QED
  BY <1>1, <1>4, <1>5, <1>6, <1>7, <1>8, <1>9, <1>10, <1>11 DEF Next, RunnerStep

-----------------------------------------------------------------------------
(* The type invariant. *)

LEMMA RowsStayTyped == TypeOK /\ LocalsOK /\ [Next]_vars => task' \in [TaskIds -> TaskRow]
<1> SUFFICES ASSUME TypeOK, LocalsOK, [Next]_vars PROVE task' \in [TaskIds -> TaskRow]
  OBVIOUS
<1>1. RowStep
  BY EveryStepIsARowStep
<1>2. CASE RowsKept
  BY <1>2 DEF RowsKept
<1>3. ASSUME NEW t \in TaskIds, RowInserted(t) PROVE task' \in [TaskIds -> TaskRow]
  BY <1>3 DEF RowInserted, TypeOK, TaskRow, Active
<1>4. ASSUME NEW t \in TaskIds, RowEnded(t) PROVE task' \in [TaskIds -> TaskRow]
  <2>1. PICK s \in Terminal :
          task' = [task EXCEPT ![t].status = s, ![t].activeKey = FALSE, ![t].updatedAt = clock]
    BY <1>4 DEF RowEnded
  <2>2. task[t] \in TaskRow
    BY DEF TypeOK
  <2>3. [[[task[t] EXCEPT !.status = s] EXCEPT !.activeKey = FALSE] EXCEPT !.updatedAt = clock] \in TaskRow
    BY <2>2 DEF TypeOK, TaskRow
  <2> QED
    BY <2>1, <2>3 DEF TypeOK
<1>5. ASSUME NEW r \in Runners, NEW t \in TaskIds, RowClaimed(r, t)
      PROVE task' \in [TaskIds -> TaskRow]
  <2>1. loop[r].now \in Nat
    BY DEF TypeOK, LoopState
  <2>2. task[t] \in TaskRow
    BY DEF TypeOK
  <2>3. [[[task[t] EXCEPT !.status = "running"] EXCEPT !.lockedBy = r] EXCEPT !.updatedAt = loop[r].now] \in TaskRow
    BY <2>1, <2>2 DEF TaskRow, Active
  <2> QED
    BY <1>5, <2>3 DEF RowClaimed, TypeOK
<1> QED
  BY <1>1, <1>2, <1>3, <1>4, <1>5 DEF RowStep

\* What the goroutine of r may hold in its locals, and where they name a row.
LocalState == {x \in LoopState :
  /\ x.pc \in {"acquire", "existing", "takeover", "markprev", "cas", "unlock", "delete", "reread"}
       => x.task \in TaskIds
  /\ x.pc \in {"takeover", "markprev"} => x.prev \in TaskIds}

LEMMA LoopStaysTyped ==
  ASSUME TypeOK, LocalsOK, NEW r \in Runners
  PROVE /\ loop[r] \in LocalState
        /\ IdleLoop \in LocalState
        /\ \A t \in TaskIds : Claimed(r, t) \in LocalState
<1>1. loop[r] \in LocalState
  BY DEF TypeOK, LocalsOK, InClaim, EarlyClaim, LateClaim, At, LocalState, LoopState
<1>2. IdleLoop \in LocalState
  BY DEF IdleLoop, LocalState, LoopState, LoopPC
<1>3. ASSUME NEW t \in TaskIds PROVE Claimed(r, t) \in LocalState
  <2>1. loop[r].pend \in SUBSET TaskIds
    BY DEF TypeOK, LoopState
  <2> QED
    BY <1>2, <2>1 DEF Claimed, IdleLoop, LocalState, LoopState, LoopPC
<1> QED
  BY <1>1, <1>2, <1>3

\* Every statement of the runner goroutine leaves well-formed locals behind.
LEMMA RunnerStaysTyped ==
  ASSUME TypeOK, LocalsOK, NEW r \in Runners,
         ExpireRead(r) \/ SchedulerRead(r) \/ RunnerStep(r) \/ Crash(r) \/ StatementFails(r)
  PROVE \E x \in LocalState : loop' = [loop EXCEPT ![r] = x]
<1> USE DEF Goto, At
<1>0. /\ loop[r] \in LocalState /\ IdleLoop \in LocalState
      /\ \A t \in TaskIds : Claimed(r, t) \in LocalState
      /\ clock \in Nat
  BY LoopStaysTyped DEF TypeOK
<1>1. CASE ExpireRead(r)
  <2> DEFINE found == {[type |-> ty, task |-> lock[ty].task, owner |-> lock[ty].owner] :
                         ty \in {x \in Types : lock[x].task # 0 /\ lock[x].until < clock}}
  <2>1. found \in SUBSET LockKey
    BY DEF TypeOK, LocalsOK, LockKey, LockRow
  <2> DEFINE pc == IF found = {} THEN "sched" ELSE "mark"
  <2>2. pc \in {"sched", "mark"} /\ pc \in LoopPC
    BY DEF LoopPC
  <2>3. loop' = [loop EXCEPT ![r] = [IdleLoop EXCEPT !.pc = pc, !.now = clock, !.stale = found]]
    BY <1>1 DEF ExpireRead
  <2> HIDE DEF found, pc
  <2>4. [IdleLoop EXCEPT !.pc = pc, !.now = clock, !.stale = found] \in LocalState
    BY <1>0, <2>1, <2>2 DEF IdleLoop, LocalState, LoopState
  <2> QED
    BY <2>3, <2>4
<1>2. CASE ExpireMark(r)
  <2>1. PICK l \in loop[r].stale : loop' = [loop EXCEPT ![r] = [loop[r] EXCEPT !.pc = "delete", !.task = l.task]]
    BY <1>2 DEF ExpireMark
  <2>2. l.task \in TaskIds
    BY DEF TypeOK, LoopState, LockKey
  <2>3. [loop[r] EXCEPT !.pc = "delete", !.task = l.task] \in LocalState
    BY <1>0, <2>2 DEF LocalState, LoopState, LoopPC
  <2> QED
    BY <2>1, <2>3
<1>3. CASE ExpireDelete(r)
  <2>1. PICK l \in loop[r].stale :
          loop' = [loop EXCEPT ![r] = [loop[r] EXCEPT !.pc = IF loop[r].stale = {l} THEN "sched" ELSE "mark",
                                                      !.task = 0, !.stale = @ \ {l}]]
    BY <1>3 DEF ExpireDelete
  <2> DEFINE pc == IF loop[r].stale = {l} THEN "sched" ELSE "mark"
             rest == loop[r].stale \ {l}
  <2>2. pc \in {"sched", "mark"} /\ pc \in LoopPC
    BY DEF LoopPC
  <2>3. rest \in SUBSET LockKey
    BY DEF TypeOK, LoopState
  <2>4. loop' = [loop EXCEPT ![r] = [loop[r] EXCEPT !.pc = pc, !.task = 0, !.stale = rest]]
    BY <2>1
  <2> HIDE DEF pc, rest
  <2>5. [loop[r] EXCEPT !.pc = pc, !.task = 0, !.stale = rest] \in LocalState
    BY <1>0, <2>2, <2>3 DEF LocalState, LoopState
  <2> QED
    BY <2>4, <2>5
<1>4. CASE SchedulerRead(r)
  <2> DEFINE found == {ty \in Scheduled : Due(ty)}
  <2>1. found \in SUBSET Types
    BY ConstantsAssumption
  <2> HIDE DEF found
  <2>2. [IdleLoop EXCEPT !.pc = IF found = {} THEN "claim" ELSE "create", !.due = found] \in LocalState
    BY <2>1 DEF IdleLoop, LocalState, LoopState, LoopPC
  <2> QED
    BY <1>4, <2>2 DEF SchedulerRead, found
<1>5. CASE SchedulerCreate(r)
  <2>1. PICK ty \in loop[r].due :
          loop' = [loop EXCEPT ![r] = [loop[r] EXCEPT !.pc = IF loop[r].due = {ty} THEN "claim" ELSE "create",
                                                      !.due = @ \ {ty}]]
    BY <1>5 DEF SchedulerCreate
  <2> DEFINE pc == IF loop[r].due = {ty} THEN "claim" ELSE "create"
             rest == loop[r].due \ {ty}
  <2>2. pc \in {"claim", "create"} /\ pc \in LoopPC
    BY DEF LoopPC
  <2>3. rest \in SUBSET Types
    BY DEF TypeOK, LoopState
  <2>4. loop' = [loop EXCEPT ![r] = [loop[r] EXCEPT !.pc = pc, !.due = rest]]
    BY <2>1
  <2> HIDE DEF pc, rest
  <2>5. [loop[r] EXCEPT !.pc = pc, !.due = rest] \in LocalState
    BY <1>0, <2>2, <2>3 DEF LocalState, LoopState
  <2> QED
    BY <2>4, <2>5
<1>6. CASE FindPending(r)
  <2> DEFINE found == {t \in TaskIds : EarliestPending(t)}
  <2>1. found \in SUBSET TaskIds
    OBVIOUS
  <2> HIDE DEF found
  <2>2. [IdleLoop EXCEPT !.pc = IF found = {} THEN "idle" ELSE "read", !.pend = found] \in LocalState
    BY <2>1 DEF IdleLoop, LocalState, LoopState, LoopPC
  <2> QED
    BY <1>6, <2>2 DEF FindPending, found
<1>7. CASE ClaimRead(r)
  <2>1. PICK t \in loop[r].pend :
          loop' = [loop EXCEPT ![r] = IF task[t].status = "pending"
                                      THEN [loop[r] EXCEPT !.pc = "acquire", !.task = t, !.now = clock]
                                      ELSE Claimed(r, t)]
    BY <1>7 DEF ClaimRead
  <2>2. t \in TaskIds
    BY DEF TypeOK, LoopState
  <2>3. [loop[r] EXCEPT !.pc = "acquire", !.task = t, !.now = clock] \in LocalState
    BY <1>0, <2>2 DEF LocalState, LoopState, LoopPC
  <2> QED
    BY <1>0, <2>1, <2>2, <2>3
<1>8. ASSUME At(r, {"acquire", "existing", "takeover", "markprev", "cas", "unlock", "reread"}),
             NEW pc \in {"existing", "cas", "unlock", "reread"}
      PROVE [loop[r] EXCEPT !.pc = pc] \in LocalState
  BY <1>0, <1>8 DEF LocalState, LoopState, LoopPC
<1>9. At(r, {"acquire", "existing", "takeover", "markprev", "cas", "unlock", "reread"})
        => loop[r].task \in TaskIds
  BY <1>0 DEF LocalState
<1>10. CASE AcquireCreate(r) \/ ClaimMarkExpired(r) \/ ClaimCAS(r) \/ ClaimRelease(r) \/ ClaimDispatch(r)
  BY <1>0, <1>8, <1>9, <1>10 DEF AcquireCreate, ClaimMarkExpired, ClaimCAS, ClaimRelease, ClaimDispatch
<1>11. CASE AcquireExisting(r)
  <2> DEFINE l == lock[task[loop[r].task].type]
  <2>1. l.task \in {0} \cup TaskIds
    BY <1>9, <1>11 DEF AcquireExisting, TypeOK, TaskRow, LockRow
  <2>2. l.task # 0 => [loop[r] EXCEPT !.pc = "takeover", !.prev = l.task] \in LocalState
    BY <1>0, <1>9, <1>11, <2>1 DEF AcquireExisting, LocalState, LoopState, LoopPC
  <2> QED
    BY <1>0, <1>9, <1>11, <2>2 DEF AcquireExisting
<1>12. CASE AcquireTakeover(r)
  <2>1. [loop[r] EXCEPT !.pc = IF loop[r].prev # loop[r].task THEN "markprev" ELSE "cas"] \in LocalState
    BY <1>0, <1>12 DEF AcquireTakeover, LocalState, LoopState, LoopPC
  <2> QED
    BY <1>0, <1>9, <1>12, <2>1 DEF AcquireTakeover
<1>13. CASE Crash(r)
  <2>1. [IdleLoop EXCEPT !.pc = "down"] \in LocalState
    BY DEF IdleLoop, LocalState, LoopState, LoopPC
  <2> QED
    BY <1>13, <2>1 DEF Crash
<1>14. CASE StatementFails(r)
  <2>1. [IdleLoop EXCEPT !.pc = "sched"] \in LocalState
    BY DEF IdleLoop, LocalState, LoopState, LoopPC
  <2>2. loop[r].pend \in SUBSET TaskIds
    BY DEF TypeOK, LoopState
  <2> QED
    BY <1>0, <1>8, <1>9, <1>14, <2>1, <2>2 DEF StatementFails
<1> QED
  BY <1>1, <1>2, <1>3, <1>4, <1>5, <1>6, <1>7, <1>10, <1>11, <1>12, <1>13, <1>14 DEF RunnerStep

\* A lock row of either shape: none, or one that names a task and its runner.
LockValue == {x \in LockRow : x.task # 0 => x.owner \in Runners}

\* Every statement on system_task_locks writes well-formed rows.
LEMMA LocksStayTyped ==
  ASSUME TypeOK, LocalsOK, [Next]_vars PROVE lock' \in [Types -> LockValue]
<1>0. lock \in [Types -> LockValue] /\ NoLock \in LockValue
  BY DEF TypeOK, LocalsOK, LockValue, NoLock, LockRow
<1>1. ASSUME NEW t \in TaskIds, NEW r \in Runners, ReleaseSystemTaskLock(t, r)
      PROVE lock' \in [Types -> LockValue]
  BY <1>0, <1>1 DEF ReleaseSystemTaskLock
<1>2. ASSUME NEW r \in Runners, NEW t \in TaskIds
      PROVE [task |-> t, owner |-> r, until |-> loop[r].now + TTL] \in LockValue
  <2>1. loop[r].now + TTL \in Nat
    BY ConstantsAssumption DEF TypeOK, LoopState
  <2> QED
    BY <2>1 DEF LockValue, LockRow
<1>3. ASSUME NEW r \in Runners, ExpireDelete(r) PROVE lock' \in [Types -> LockValue]
  <2>1. PICK l \in loop[r].stale : lock' = lock \/ lock' = [lock EXCEPT ![l.type] = NoLock]
    BY <1>3 DEF ExpireDelete
  <2> QED
    BY <1>0, <2>1
<1>4. ASSUME NEW r \in Runners, AcquireCreate(r) \/ AcquireTakeover(r) PROVE lock' \in [Types -> LockValue]
  <2>1. loop[r].task \in TaskIds
    BY <1>4 DEF AcquireCreate, AcquireTakeover, LocalsOK, InClaim, EarlyClaim, LateClaim, At
  <2>2. \/ lock' = lock
        \/ lock' = [lock EXCEPT ![task[loop[r].task].type] =
                      [task |-> loop[r].task, owner |-> r, until |-> loop[r].now + TTL]]
    BY <1>4 DEF AcquireCreate, AcquireTakeover
  <2> QED
    BY <1>0, <1>2, <2>1, <2>2
<1>5. ASSUME NEW r \in Runners, ClaimRelease(r) PROVE lock' \in [Types -> LockValue]
  <2>1. loop[r].task \in TaskIds
    BY <1>5 DEF ClaimRelease, LocalsOK, InClaim, EarlyClaim, LateClaim, At
  <2> QED
    BY <1>1, <1>5, <2>1 DEF ClaimRelease
<1>6. ASSUME NEW r \in Runners, NEW t \in TaskIds, Heartbeat(r, t) PROVE lock' \in [Types -> LockValue]
  <2>1. CASE lock' = lock
    BY <1>0, <2>1
  <2>2. CASE RenewSystemTaskLock(t, r)
    <3>1. ASSUME NEW ty \in Types PROVE [lock[ty] EXCEPT !.until = clock + TTL] \in LockValue
      <4>1. clock + TTL \in Nat /\ lock[ty] \in LockValue
        BY <1>0, ConstantsAssumption DEF TypeOK
      <4> QED
        BY <4>1 DEF LockValue, LockRow
    <3> QED
      BY <1>0, <2>2, <3>1 DEF RenewSystemTaskLock
  <2> QED
    BY <1>6, <2>1, <2>2 DEF Heartbeat
<1>7. ASSUME NEW r \in Runners,
             \/ ExpireRead(r) \/ ExpireMark(r) \/ SchedulerRead(r) \/ SchedulerCreate(r)
             \/ FindPending(r) \/ ClaimRead(r) \/ AcquireExisting(r) \/ ClaimMarkExpired(r)
             \/ ClaimCAS(r) \/ ClaimDispatch(r) \/ Crash(r) \/ StatementFails(r)
      PROVE lock' \in [Types -> LockValue]
  <2>1. lock' = lock
    BY <1>7 DEF ExpireRead, ExpireMark, SchedulerRead, SchedulerCreate, FindPending, ClaimRead,
                AcquireExisting, ClaimMarkExpired, ClaimCAS, ClaimDispatch, Crash, StatementFails
  <2> QED
    BY <1>0, <2>1
<1>8. ASSUME NEW r \in Runners, NEW t \in TaskIds,
             HandlerEnd(r, t) \/ UpdateSystemTaskState(r, t) \/ HandlerFails(r, t)
      PROVE lock' \in [Types -> LockValue]
  BY <1>0, <1>1, <1>8 DEF HandlerEnd, FinishSystemTask, FinishRelease, UpdateSystemTaskState, HandlerFails
<1>9. CASE Tick \/ (\E ty \in Types : EnqueueSystemTask(ty)) \/ UNCHANGED vars
  BY <1>0, <1>9 DEF Tick, EnqueueSystemTask, vars
<1> QED
  BY <1>3, <1>4, <1>5, <1>6, <1>7, <1>8, <1>9 DEF Next, RunnerStep

\* The handler goroutines, the clock and the fault counter stay typed.
LEMMA RestStaysTyped ==
  ASSUME TypeOK, LocalsOK, [Next]_vars
  PROVE clock' \in Nat /\ faults' \in Nat /\ handler' \in [Runners -> [TaskIds -> HandlerState]]
<1> USE DEF TypeOK, HandlerState
<1>1. ASSUME NEW r \in Runners,
             ExpireRead(r) \/ SchedulerRead(r) \/ RunnerStep(r) \/ Crash(r) \/ StatementFails(r)
      PROVE clock' \in Nat /\ faults' \in Nat /\ handler' \in [Runners -> [TaskIds -> HandlerState]]
  <2>1. CASE ClaimDispatch(r)
    BY <2>1 DEF ClaimDispatch, LocalsOK, At
  <2>2. CASE Crash(r) \/ StatementFails(r)
    BY <2>2 DEF Crash, StatementFails
  <2> QED
    BY <1>1, <2>1, <2>2 DEF RunnerStep, ExpireRead, ExpireMark, ExpireDelete, SchedulerRead, SchedulerCreate,
         FindPending, ClaimRead, AcquireCreate, AcquireExisting, AcquireTakeover, ClaimMarkExpired, ClaimCAS,
         ClaimRelease
<1>2. ASSUME NEW r \in Runners, NEW t \in TaskIds,
             HandlerEnd(r, t) \/ Heartbeat(r, t) \/ UpdateSystemTaskState(r, t) \/ HandlerFails(r, t)
      PROVE clock' \in Nat /\ faults' \in Nat /\ handler' \in [Runners -> [TaskIds -> HandlerState]]
  <2>1. \/ handler' = handler
        \/ \E x \in {"none", "cancelled", "release"} : handler' = [handler EXCEPT ![r][t] = x]
    BY <1>2 DEF HandlerEnd, FinishSystemTask, FinishRelease, Heartbeat, UpdateSystemTaskState, HandlerFails
  <2>2. handler' \in [Runners -> [TaskIds -> HandlerState]]
    <3>1. \A x \in HandlerState : [handler EXCEPT ![r][t] = x] \in [Runners -> [TaskIds -> HandlerState]]
      OBVIOUS
    <3> QED
      BY <2>1, <3>1
  <2>3. clock' = clock /\ (faults' = faults \/ faults' = faults + 1)
    BY <1>2 DEF HandlerEnd, FinishSystemTask, FinishRelease, Heartbeat, UpdateSystemTaskState, HandlerFails
  <2> QED
    BY <2>2, <2>3
<1>3. CASE Tick \/ (\E ty \in Types : EnqueueSystemTask(ty)) \/ UNCHANGED vars
  BY <1>3 DEF Tick, EnqueueSystemTask, vars
<1> QED
  BY <1>1, <1>2, <1>3 DEF Next

LEMMA TypeIsInductive == TypeOK /\ LocalsOK /\ [Next]_vars => (TypeOK /\ LocalsOK)'
<1> SUFFICES ASSUME TypeOK, LocalsOK, [Next]_vars PROVE TypeOK' /\ LocalsOK'
  OBVIOUS
<1>1. loop' \in [Runners -> LocalState]
  <2>0. loop \in [Runners -> LocalState]
    BY LoopStaysTyped DEF TypeOK
  <2>1. CASE loop' = loop
    BY <2>0, <2>1
  <2>2. ASSUME NEW r \in Runners,
               ExpireRead(r) \/ SchedulerRead(r) \/ RunnerStep(r) \/ Crash(r) \/ StatementFails(r)
        PROVE loop' \in [Runners -> LocalState]
    BY <2>0, <2>2, RunnerStaysTyped
  <2> QED
    BY <2>1, <2>2 DEF Next, vars, HandlerEnd, FinishSystemTask, FinishRelease, Heartbeat,
                      UpdateSystemTaskState, HandlerFails, EnqueueSystemTask, Tick
<1>2. TypeOK'
  BY <1>1, RowsStayTyped, LocksStayTyped, RestStaysTyped DEF TypeOK, LocalState, LockValue
<1>3. LocalsOK'
  BY <1>1, LocksStayTyped DEF LocalsOK, LocalState, LockValue, InClaim, EarlyClaim, LateClaim, At
<1> QED
  BY <1>2, <1>3

LEMMA InitIsTyped == Init => TypeOK /\ LocalsOK
<1> SUFFICES ASSUME Init PROVE TypeOK /\ LocalsOK
  OBVIOUS
<1>1. (CHOOSE ty \in Types : TRUE) \in Types
  BY ConstantsAssumption
<1>2. IdleLoop \in LoopState /\ IdleLoop.pc = "idle"
  BY DEF IdleLoop, LoopState, LoopPC
<1>3. TypeOK
  BY <1>1, <1>2 DEF Init, TypeOK, TaskRow, LockRow, NoLock, HandlerState
<1>4. LocalsOK
  BY <1>2 DEF Init, LocalsOK, NoLock, InClaim, EarlyClaim, LateClaim, At
<1> QED
  BY <1>3, <1>4

\* The rows of both tables and the locals of all goroutines keep their types.
THEOREM TypeCorrect == Spec => []TypeOK
<1>1. Init => TypeOK /\ LocalsOK
  BY InitIsTyped
<1>2. TypeOK /\ LocalsOK /\ [Next]_vars => (TypeOK /\ LocalsOK)'
  BY TypeIsInductive
<1> QED
  BY <1>1, <1>2, PTL DEF Spec

-----------------------------------------------------------------------------
(* One active row per type, one executor per row. *)

LEMMA RowStepKeepsRows ==
  TypeOK /\ IdsInOrder /\ KeyMeansActive /\ OneActivePerType /\ RowStep
    => (IdsInOrder /\ KeyMeansActive /\ OneActivePerType)'
<1> SUFFICES ASSUME TypeOK, IdsInOrder, KeyMeansActive, OneActivePerType, RowStep
             PROVE (IdsInOrder /\ KeyMeansActive /\ OneActivePerType)'
  OBVIOUS
<1> USE DEF Active, Terminal
<1>0. TaskIds \subseteq Nat
  BY DEF TaskIds
<1>1. CASE RowsKept
  BY <1>1 DEF RowsKept, IdsInOrder, KeyMeansActive, OneActivePerType
<1>2. ASSUME NEW t \in TaskIds, RowInserted(t)
      PROVE (IdsInOrder /\ KeyMeansActive /\ OneActivePerType)'
  <2>1. PICK ty \in Types :
          /\ ActiveKeyFree(ty)
          /\ task' = [task EXCEPT ![t] = [type |-> ty, status |-> "pending", activeKey |-> TRUE,
                                          lockedBy |-> Nobody, updatedAt |-> clock]]
    BY <1>2 DEF RowInserted
  <2>2. /\ task'[t].type = ty /\ task'[t].status = "pending" /\ task'[t].activeKey
        /\ \A u \in TaskIds : u # t => task'[u] = task[u]
    BY <2>1 DEF TypeOK
  <2>3. \A u \in TaskIds : task[u].status # "absent" => u < t
    BY <1>0, <1>2 DEF RowInserted, FreshId, IdsInOrder
  <2>4. \A u \in TaskIds : u < t => task[u].status # "absent"
    BY <1>0, <1>2 DEF RowInserted, FreshId
  <2>5. IdsInOrder'
    BY <1>0, <2>2, <2>3, <2>4 DEF IdsInOrder
  <2>6. KeyMeansActive'
    BY <2>2 DEF KeyMeansActive
  <2>7. \A u \in TaskIds : task[u].status # "absent" /\ task[u].type = ty => task[u].status \in Terminal
    <3>1. SUFFICES ASSUME NEW u \in TaskIds, task[u].status # "absent", task[u].type = ty
                   PROVE task[u].status \in Terminal
      OBVIOUS
    <3>2. ~task[u].activeKey
      BY <2>1, <3>1 DEF ActiveKeyFree, OfType
    <3>3. task[u].status \notin Active
      BY <3>2 DEF KeyMeansActive
    <3> QED
      BY <3>1, <3>3 DEF TypeOK, TaskRow
  <2>8. OneActivePerType'
    BY <1>0, <2>2, <2>3, <2>7 DEF OneActivePerType
  <2> QED
    BY <2>5, <2>6, <2>8
<1>3. ASSUME NEW t \in TaskIds, RowEnded(t)
      PROVE (IdsInOrder /\ KeyMeansActive /\ OneActivePerType)'
  <2>1. /\ task'[t].type = task[t].type /\ task'[t].status \in Terminal /\ task'[t].activeKey = FALSE
        /\ task[t].status = "running"
        /\ \A u \in TaskIds : u # t => task'[u] = task[u]
    BY <1>3 DEF RowEnded, TypeOK, TaskRow
  <2> QED
    BY <1>0, <2>1 DEF IdsInOrder, KeyMeansActive, OneActivePerType
<1>4. ASSUME NEW r \in Runners, NEW t \in TaskIds, RowClaimed(r, t)
      PROVE (IdsInOrder /\ KeyMeansActive /\ OneActivePerType)'
  <2>1. /\ task'[t].type = task[t].type /\ task'[t].status = "running"
        /\ task'[t].activeKey = task[t].activeKey
        /\ task[t].status = "pending"
        /\ \A u \in TaskIds : u # t => task'[u] = task[u]
    BY <1>4 DEF RowClaimed, TypeOK, TaskRow
  <2> QED
    BY <1>0, <2>1 DEF IdsInOrder, KeyMeansActive, OneActivePerType
<1> QED
  BY <1>1, <1>2, <1>3, <1>4 DEF RowStep

\* Who executes what changes only by a successful claim; nobody else gains a task.
LEMMA OneExecutorIsKept ==
  TypeOK /\ LocalsOK /\ OneExecutor /\ [Next]_vars => OneExecutor'
<1> SUFFICES ASSUME TypeOK, LocalsOK, OneExecutor, [Next]_vars,
                    NEW r \in Runners, NEW t \in TaskIds, Executes(r, t)'
             PROVE (task[t].lockedBy = r /\ task[t].status \notin {"absent", "pending"})'
  BY DEF OneExecutor
<1>1. Executes(r, t) \/ RowClaimed(r, t)
  <2>1. ASSUME NEW q \in Runners,
               ExpireRead(q) \/ SchedulerRead(q) \/ RunnerStep(q) \/ Crash(q) \/ StatementFails(q)
        PROVE Executes(r, t) \/ RowClaimed(r, t)
    <3>1. CASE ClaimCAS(q)
      <4>1. handler' = handler /\ \A p \in Runners : p # q => loop'[p] = loop[p]
        BY <3>1 DEF ClaimCAS, Goto, TypeOK
      <4>2. CASE q # r
        BY <4>1, <4>2 DEF Executes
      <4>3. CASE q = r /\ task[loop[r].task].status = "pending"
        <5>1. loop'[r].task = loop[r].task
          BY <3>1, <4>3 DEF ClaimCAS, Goto, TypeOK, LoopState
        <5>2. CASE loop[r].task = t
          BY <3>1, <4>3, <5>2 DEF ClaimCAS, RowClaimed, At
        <5>3. CASE loop[r].task # t
          BY <4>1, <5>1, <5>3 DEF Executes
        <5> QED
          BY <5>2, <5>3
      <4>4. CASE q = r /\ task[loop[r].task].status # "pending"
        <5>1. loop'[r].pc = "unlock"
          BY <3>1, <4>4 DEF ClaimCAS, Goto, TypeOK, LoopState
        <5> QED
          BY <4>1, <5>1 DEF Executes
      <4> QED
        BY <4>2, <4>3, <4>4
    <3>2. CASE ClaimDispatch(q)
      <4>1. handler'[r][t] # "none" => handler[r][t] # "none" \/ (q = r /\ loop[r].task = t)
        BY <3>2 DEF ClaimDispatch, TypeOK, LocalsOK, At
      <4>2. loop[q].pc = "reread" /\ loop' = [loop EXCEPT ![q] = Claimed(q, loop[q].task)]
        BY <3>2 DEF ClaimDispatch, At, Goto
      <4>3. Claimed(q, loop[q].task).pc # "reread"
        BY DEF Claimed, IdleLoop
      <4>4. loop'[r].pc = "reread" => loop'[r] = loop[r]
        BY <4>2, <4>3 DEF TypeOK
      <4> QED
        BY <4>1, <4>2, <4>4 DEF Executes
    <3>3. CASE Crash(q)
      BY <3>3 DEF Crash, Executes, Goto, IdleLoop, TypeOK
    <3>4. CASE ~ClaimCAS(q) /\ ~ClaimDispatch(q) /\ ~Crash(q)
      <4>1. handler' = handler
        BY <2>1, <3>4 DEF RunnerStep, ExpireRead, ExpireMark, ExpireDelete, SchedulerRead, SchedulerCreate,
             FindPending, ClaimRead, AcquireCreate, AcquireExisting, AcquireTakeover, ClaimMarkExpired,
             ClaimRelease, StatementFails
      <4>2. loop'[r].pc = "reread" => loop'[r] = loop[r]
        <5>1. \A u \in TaskIds : Claimed(q, u).pc # "reread"
          BY DEF Claimed, IdleLoop
        <5>2. At(q, {"acquire", "existing", "takeover", "unlock", "reread"}) => loop[q].task \in TaskIds
          BY DEF LocalsOK, At, InClaim, EarlyClaim, LateClaim
        <5>3. loop[q] \in LoopState /\ loop[q].pend \subseteq TaskIds
          BY DEF TypeOK, LoopState
        <5>4. \A p \in Runners : p # q => loop'[p] = loop[p]
          BY <2>1, RunnerStaysTyped DEF TypeOK
        <5>5. loop'[q].pc # "reread"
          <6>1. CASE ExpireRead(q) \/ SchedulerRead(q) \/ FindPending(q)
            BY <6>1 DEF ExpireRead, SchedulerRead, FindPending, Goto, IdleLoop, TypeOK
          <6>2. CASE ExpireMark(q)
            BY <5>3, <6>2 DEF ExpireMark, Goto, LoopState, TypeOK
          <6>3. CASE ExpireDelete(q)
            BY <5>3, <6>3 DEF ExpireDelete, Goto, LoopState, TypeOK
          <6>4. CASE SchedulerCreate(q)
            BY <5>3, <6>4 DEF SchedulerCreate, Goto, LoopState, TypeOK
          <6>5. CASE ClaimRead(q)
            BY <5>1, <5>3, <6>5 DEF ClaimRead, Goto, LoopState, TypeOK
          <6>6. CASE AcquireCreate(q) \/ ClaimMarkExpired(q) \/ ClaimRelease(q)
            BY <5>1, <5>2, <5>3, <6>6 DEF AcquireCreate, ClaimMarkExpired, ClaimRelease, Goto, At, LoopState, TypeOK
          <6>7. CASE AcquireExisting(q)
            BY <5>1, <5>2, <5>3, <6>7 DEF AcquireExisting, Goto, At, LoopState, TypeOK
          <6>8. CASE AcquireTakeover(q)
            BY <5>1, <5>2, <5>3, <6>8 DEF AcquireTakeover, Goto, At, LoopState, TypeOK
          <6>9. CASE StatementFails(q)
            BY <5>1, <5>2, <5>3, <6>9 DEF StatementFails, Goto, At, LoopState, IdleLoop, TypeOK
          <6> QED
            BY <2>1, <3>4, <6>1, <6>2, <6>3, <6>4, <6>5, <6>6, <6>7, <6>8, <6>9 DEF RunnerStep
        <5> QED
          BY <5>4, <5>5
      <4> QED
        BY <4>1, <4>2 DEF Executes
    <3> QED
      BY <3>1, <3>2, <3>3, <3>4
  <2>2. ASSUME NEW q \in Runners, NEW u \in TaskIds,
               HandlerEnd(q, u) \/ Heartbeat(q, u) \/ UpdateSystemTaskState(q, u) \/ HandlerFails(q, u)
        PROVE Executes(r, t)
    <3>1. loop' = loop
      BY <2>2 DEF HandlerEnd, FinishSystemTask, FinishRelease, Heartbeat, UpdateSystemTaskState, HandlerFails
    <3>2. /\ handler' = handler \/ \E x : handler' = [handler EXCEPT ![q][u] = x]
          /\ handler' # handler => handler[q][u] # "none"
      BY <2>2 DEF HandlerEnd, FinishSystemTask, FinishRelease, Heartbeat, UpdateSystemTaskState, HandlerFails
    <3> QED
      BY <3>1, <3>2 DEF Executes, TypeOK
  <2>3. CASE Tick \/ (\E ty \in Types : EnqueueSystemTask(ty)) \/ UNCHANGED vars
    BY <2>3 DEF Tick, EnqueueSystemTask, vars, Executes
  <2> QED
    BY <2>1, <2>2, <2>3 DEF Next
<1>2. CASE RowClaimed(r, t)
  BY <1>2 DEF RowClaimed, TypeOK, TaskRow
<1>3. CASE Executes(r, t)
  <2>1. task[t].lockedBy = r /\ task[t].status \notin {"absent", "pending"}
    BY <1>3 DEF OneExecutor
  <2>2. RowStep
    BY EveryStepIsARowStep
  <2>3. CASE RowsKept
    BY <2>1, <2>3 DEF RowsKept
  <2>4. ASSUME NEW u \in TaskIds, RowInserted(u)
        PROVE (task[t].lockedBy = r /\ task[t].status \notin {"absent", "pending"})'
    BY <2>1, <2>4 DEF RowInserted, FreshId, TypeOK
  <2>5. ASSUME NEW u \in TaskIds, RowEnded(u)
        PROVE (task[t].lockedBy = r /\ task[t].status \notin {"absent", "pending"})'
    BY <2>1, <2>5 DEF RowEnded, TypeOK, TaskRow, Terminal
  <2>6. ASSUME NEW q \in Runners, NEW u \in TaskIds, RowClaimed(q, u)
        PROVE (task[t].lockedBy = r /\ task[t].status \notin {"absent", "pending"})'
    BY <2>1, <2>6 DEF RowClaimed, TypeOK, TaskRow
  <2> QED
    BY <2>2, <2>3, <2>4, <2>5, <2>6 DEF RowStep
<1> QED
  BY <1>1, <1>2, <1>3

LEMMA QueueInvIsInductive == Spec => []QueueInv
<1>1. Init => QueueInv
  BY InitIsTyped DEF Init, QueueInv, IdsInOrder, KeyMeansActive, OneActivePerType, OneExecutor,
     Executes, IdleLoop, Active
<1>2. QueueInv /\ [Next]_vars => QueueInv'
  <2> SUFFICES ASSUME QueueInv, [Next]_vars PROVE QueueInv'
    OBVIOUS
  <2>1. (TypeOK /\ LocalsOK)'
    BY TypeIsInductive DEF QueueInv
  <2>2. (IdsInOrder /\ KeyMeansActive /\ OneActivePerType)'
    BY EveryStepIsARowStep, RowStepKeepsRows DEF QueueInv
  <2>3. OneExecutor'
    BY OneExecutorIsKept DEF QueueInv
  <2> QED
    BY <2>1, <2>2, <2>3 DEF QueueInv
<1> QED
  BY <1>1, <1>2, PTL DEF Spec

\* For every number of nodes, types and tasks: the unique index, the conditional
\* update of ClaimSystemTask and the order in which the active key is given up
\* leave at most one active row per type, the newest one.
THEOREM AtMostOneActive == Spec => []OneActivePerType
<1>1. QueueInv => OneActivePerType
  BY DEF QueueInv
<1> QED
  BY <1>1, QueueInvIsInductive, PTL

\* For every number of nodes: whatever leases expire, are stolen, released late
\* or never released, a task is executed only by the runner its row names.
THEOREM ExecutedByOne == Spec => []OneExecutor
<1>1. QueueInv => OneExecutor
  BY DEF QueueInv
<1> QED
  BY <1>1, QueueInvIsInductive, PTL

\* A finished row is final and a claimed row keeps its claimant.
THEOREM FinishedIsFinal == Spec => NoTaskRunsTwice
<1> DEFINE Step == \A t \in TaskIds :
       /\ task[t].status \in Terminal => task'[t] = task[t]
       /\ task[t].status = "running" =>
            task'[t].status \notin {"absent", "pending"} /\ task'[t].lockedBy = task[t].lockedBy
<1>1. TypeOK /\ LocalsOK /\ [Next]_vars => [Step]_vars
  <2> SUFFICES ASSUME TypeOK, LocalsOK, [Next]_vars, ~UNCHANGED vars PROVE Step
    OBVIOUS
  <2>1. RowStep
    BY EveryStepIsARowStep
  <2>2. CASE \E t \in TaskIds : RowInserted(t)
    BY <2>2 DEF RowInserted, FreshId, TypeOK, Terminal
  <2>3. CASE \E t \in TaskIds : RowEnded(t)
    BY <2>3 DEF RowEnded, TypeOK, TaskRow, Terminal
  <2>4. CASE \E r \in Runners, t \in TaskIds : RowClaimed(r, t)
    BY <2>4 DEF RowClaimed, TypeOK, TaskRow, Terminal
  <2>5. CASE RowsKept
    BY <2>5 DEF RowsKept, Terminal
  <2> QED
    BY <2>1, <2>2, <2>3, <2>4, <2>5 DEF RowStep
<1>2. QueueInv => TypeOK /\ LocalsOK
  BY DEF QueueInv
<1> QED
  BY <1>1, <1>2, QueueInvIsInductive, PTL DEF Spec, NoTaskRunsTwice

-----------------------------------------------------------------------------
(***************************************************************************)
(* An unexpired lease belongs to its runner, however slow a claim may be:  *)
(* a statement compares locked_until with a timestamp taken earlier, and a *)
(* lease that had expired then has expired now.                            *)
(***************************************************************************)

\* The timestamps of the runner goroutines lie in the past.
NowIsPast == \A r \in Runners : loop[r].now <= clock

\* A step of a runner goroutine keeps its timestamp, takes a new one or drops it.
LEMMA RunnerNow ==
  ASSUME TypeOK, LocalsOK, NEW r \in Runners,
         ExpireRead(r) \/ SchedulerRead(r) \/ RunnerStep(r) \/ Crash(r) \/ StatementFails(r)
  PROVE  /\ loop'[r].now \in {0, clock, loop[r].now} /\ clock' = clock
         /\ \A q \in Runners : q # r => loop'[q] = loop[q]
<1>1. /\ loop \in [Runners -> LoopState] /\ loop[r] \in LoopState /\ IdleLoop.now = 0
      /\ \A t : Claimed(r, t).now = 0
  BY DEF TypeOK, IdleLoop, Claimed
<1>2. PICK x \in LocalState : loop' = [loop EXCEPT ![r] = x]
  BY RunnerStaysTyped
<1>3. \A q \in Runners : q # r => loop'[q] = loop[q]
  BY <1>1, <1>2
<1>4. ASSUME NEW y, Goto(r, y) PROVE loop'[r] = y
  BY <1>1, <1>4 DEF Goto
<1>5. clock' = clock
  BY DEF RunnerStep, ExpireRead, ExpireMark, ExpireDelete, SchedulerRead, SchedulerCreate, FindPending,
         ClaimRead, AcquireCreate, AcquireExisting, AcquireTakeover, ClaimMarkExpired, ClaimCAS,
         ClaimRelease, ClaimDispatch, Crash, StatementFails
<1>6. CASE ExpireRead(r) \/ SchedulerRead(r) \/ FindPending(r) \/ Crash(r)
  BY <1>4, <1>5, <1>3, <1>6 DEF ExpireRead, SchedulerRead, FindPending, Crash, IdleLoop
<1>7. CASE ExpireMark(r) \/ ExpireDelete(r) \/ SchedulerCreate(r) \/ ClaimMarkExpired(r) \/ ClaimCAS(r)
  BY <1>1, <1>3, <1>4, <1>5, <1>7
     DEF ExpireMark, ExpireDelete, SchedulerCreate, ClaimMarkExpired, ClaimCAS, LoopState
<1>8. CASE ClaimRead(r) \/ AcquireCreate(r) \/ AcquireExisting(r) \/ AcquireTakeover(r)
  BY <1>1, <1>3, <1>4, <1>5, <1>8
     DEF ClaimRead, AcquireCreate, AcquireExisting, AcquireTakeover, LoopState
<1>9. CASE ClaimRelease(r) \/ ClaimDispatch(r)
  BY <1>1, <1>3, <1>4, <1>5, <1>9 DEF ClaimRelease, ClaimDispatch
<1>10. CASE StatementFails(r)
  BY <1>1, <1>3, <1>4, <1>5, <1>10 DEF StatementFails, IdleLoop, LoopState
<1> QED
  BY <1>6, <1>7, <1>8, <1>9, <1>10 DEF RunnerStep

LEMMA NowIsPastIsInductive == Spec => []NowIsPast
<1>1. Init => NowIsPast
  BY DEF Init, IdleLoop, NowIsPast
<1>2. QueueInv /\ NowIsPast /\ [Next]_vars => NowIsPast'
  <2> SUFFICES ASSUME TypeOK, LocalsOK, NowIsPast, [Next]_vars PROVE NowIsPast'
    BY DEF QueueInv
  <2>1. clock \in Nat /\ \A r \in Runners : loop[r].now \in Nat
    BY DEF TypeOK, LoopState
  <2>2. ASSUME NEW r \in Runners,
               ExpireRead(r) \/ SchedulerRead(r) \/ RunnerStep(r) \/ Crash(r) \/ StatementFails(r)
        PROVE  NowIsPast'
    <3>1. /\ loop'[r].now \in {0, clock, loop[r].now} /\ clock' = clock
          /\ \A q \in Runners : q # r => loop'[q] = loop[q]
      BY <2>2, RunnerNow
    <3> QED
      BY <2>1, <3>1 DEF NowIsPast
  <2>3. CASE Tick
    BY <2>1, <2>3 DEF Tick, NowIsPast
  <2>4. ASSUME loop' = loop, clock' = clock PROVE NowIsPast'
    BY <2>4 DEF NowIsPast
  <2>5. ASSUME NEW r \in Runners, NEW t \in TaskIds,
               HandlerEnd(r, t) \/ Heartbeat(r, t) \/ UpdateSystemTaskState(r, t) \/ HandlerFails(r, t)
        PROVE  loop' = loop /\ clock' = clock
    BY <2>5 DEF HandlerEnd, FinishSystemTask, FinishRelease, Heartbeat, UpdateSystemTaskState, HandlerFails
  <2>6. CASE (\E ty \in Types : EnqueueSystemTask(ty)) \/ UNCHANGED vars
    BY <2>4, <2>6 DEF EnqueueSystemTask, vars
  <2> QED
    BY <2>2, <2>3, <2>4, <2>5, <2>6 DEF Next
<1> QED
  BY <1>1, <1>2, QueueInvIsInductive, PTL DEF Spec

\* An unexpired lease changes hands or disappears only by a step of its own runner:
\* no takeover and no stale-lock pass touches it, however old their timestamps are.
THEOREM LeaseIsItsRunners == Spec => LeaseIsRespected
<1> DEFINE Moved(ty) == /\ lock[ty].task # 0
                        /\ lock[ty].until >= clock
                        /\ <<lock'[ty].task, lock'[ty].owner>> # <<lock[ty].task, lock[ty].owner>>
           ByOwner(ty) == \/ loop'[lock[ty].owner] # loop[lock[ty].owner]
                          \/ handler'[lock[ty].owner] # handler[lock[ty].owner]
           Respects == \A ty \in Types : Moved(ty) => ByOwner(ty)
<1>1. QueueInv /\ NowIsPast /\ [Next]_vars => [Respects]_vars
  <2> SUFFICES ASSUME TypeOK, LocalsOK, NowIsPast, [Next]_vars, NEW ty \in Types, Moved(ty)
               PROVE  ByOwner(ty)
    BY DEF QueueInv
  <2>1. /\ clock \in Nat /\ lock \in [Types -> LockRow] /\ lock[ty].until \in Nat
        /\ loop \in [Runners -> LoopState] /\ handler \in [Runners -> [TaskIds -> HandlerState]]
        /\ \A r \in Runners : loop[r].now \in Nat /\ loop[r].now <= clock
    BY DEF TypeOK, LockRow, LoopState, NowIsPast
  <2>2. lock' # lock
    OBVIOUS
  <2>3. ASSUME NEW r \in Runners, lock[ty].until < loop[r].now PROVE FALSE
    BY <2>1, <2>3
  <2>4. ASSUME NEW r \in Runners, ExpireDelete(r) PROVE FALSE
    <3>1. PICK l \in loop[r].stale :
            \/ lock' = lock
            \/ lock[l.type].until < loop[r].now /\ lock' = [lock EXCEPT ![l.type] = NoLock]
      BY <2>4 DEF ExpireDelete
    <3>2. l.type = ty
      BY <2>1, <2>2, <3>1
    <3> QED
      BY <2>2, <2>3, <3>1, <3>2
  <2>5. ASSUME NEW r \in Runners, AcquireCreate(r) \/ AcquireTakeover(r) PROVE FALSE
    <3>1. PICK x : x = task[loop[r].task].type
      OBVIOUS
    <3>2. \/ lock' = lock
          \/ /\ lock[x].task = 0 \/ lock[x].until < loop[r].now
             /\ lock' = [lock EXCEPT ![x] = [task |-> loop[r].task, owner |-> r,
                                             until |-> loop[r].now + TTL]]
      BY <2>5, <3>1 DEF AcquireCreate, AcquireTakeover
    <3>3. x = ty
      BY <2>1, <2>2, <3>2
    <3> QED
      BY <2>2, <2>3, <3>2, <3>3
  <2>6. ASSUME NEW r \in Runners, NEW t, ReleaseSystemTaskLock(t, r) PROVE lock[ty].owner = r
    BY <2>1, <2>6 DEF ReleaseSystemTaskLock
  <2>7. ASSUME NEW r \in Runners, ClaimRelease(r) PROVE ByOwner(ty)
    <3>1. lock[ty].owner = r
      BY <2>6, <2>7 DEF ClaimRelease
    <3>2. loop'[r] = Claimed(r, loop[r].task) /\ loop[r].pc = "unlock"
      BY <2>1, <2>7 DEF ClaimRelease, Goto, At
    <3>3. Claimed(r, loop[r].task).pc \in {"idle", "read"}
      BY DEF Claimed, IdleLoop
    <3> QED
      BY <3>1, <3>2, <3>3
  <2>8. ASSUME NEW r \in Runners, NEW t \in TaskIds, FinishRelease(r, t) PROVE ByOwner(ty)
    <3>1. lock[ty].owner = r
      BY <2>6, <2>8 DEF FinishRelease
    <3>2. handler[r][t] = "release" /\ handler'[r][t] = "none"
      BY <2>1, <2>8 DEF FinishRelease
    <3> QED
      BY <3>1, <3>2
  <2>9. ASSUME NEW r \in Runners, NEW t \in TaskIds, Heartbeat(r, t) PROVE FALSE
    <3>1. \/ lock' = lock
          \/ RenewSystemTaskLock(t, r)
      BY <2>9 DEF Heartbeat
    <3>2. lock'[ty] \in {lock[ty], [lock[ty] EXCEPT !.until = clock + TTL]}
      BY <2>1, <3>1 DEF RenewSystemTaskLock
    <3>3. lock[ty] \in LockRow
      BY <2>1
    <3> QED
      BY <3>2, <3>3 DEF LockRow
  <2>10. ASSUME NEW r \in Runners,
                \/ ExpireRead(r) \/ ExpireMark(r) \/ SchedulerRead(r) \/ SchedulerCreate(r)
                \/ FindPending(r) \/ ClaimRead(r) \/ AcquireExisting(r) \/ ClaimMarkExpired(r)
                \/ ClaimCAS(r) \/ ClaimDispatch(r) \/ Crash(r) \/ StatementFails(r)
         PROVE  FALSE
    BY <2>2, <2>10 DEF ExpireRead, ExpireMark, SchedulerRead, SchedulerCreate, FindPending, ClaimRead,
         AcquireExisting, ClaimMarkExpired, ClaimCAS, ClaimDispatch, Crash, StatementFails
  <2>11. ASSUME NEW r \in Runners, NEW t \in TaskIds,
                FinishSystemTask(r, t) \/ UpdateSystemTaskState(r, t) \/ HandlerFails(r, t)
         PROVE  FALSE
    BY <2>2, <2>11 DEF FinishSystemTask, UpdateSystemTaskState, HandlerFails
  <2>12. ~(Tick \/ (\E x \in Types : EnqueueSystemTask(x)) \/ UNCHANGED vars)
    BY <2>2 DEF Tick, EnqueueSystemTask, vars
  <2> HIDE DEF Moved, ByOwner
  <2> QED
    BY <2>4, <2>5, <2>7, <2>8, <2>9, <2>10, <2>11, <2>12 DEF Next, RunnerStep, HandlerEnd
<1>2. Spec => [][Respects]_vars
  <2> HIDE DEF Respects
  <2> QED
    BY <1>1, QueueInvIsInductive, NowIsPastIsInductive, PTL DEF Spec
<1> QED
  BY <1>2 DEF LeaseIsRespected

-----------------------------------------------------------------------------
(***************************************************************************)
(* The task queue of several nodes implements the board of JobQueue.       *)
(***************************************************************************)

\* Only a claimed row names a runner.
ClaimantNamed ==
  \A t \in TaskIds :
    /\ task[t].status \in {"absent", "pending"} => task[t].lockedBy = Nobody
    /\ task[t].status = "running" => task[t].lockedBy \in Runners

LEMMA RowStepKeepsClaimant == TypeOK /\ ClaimantNamed /\ RowStep => ClaimantNamed'
<1> SUFFICES ASSUME TypeOK, ClaimantNamed, RowStep PROVE ClaimantNamed'
  OBVIOUS
<1> USE DEF ClaimantNamed, Terminal
<1>1. CASE RowsKept
  BY <1>1 DEF RowsKept
<1>2. ASSUME NEW t \in TaskIds, RowInserted(t) PROVE ClaimantNamed'
  BY <1>2 DEF RowInserted, TypeOK
<1>3. ASSUME NEW t \in TaskIds, RowEnded(t) PROVE ClaimantNamed'
  <2>1. /\ task'[t].status \in Terminal
        /\ \A u \in TaskIds : u # t => task'[u] = task[u]
    BY <1>3 DEF RowEnded, TypeOK, TaskRow
  <2> QED
    BY <2>1
<1>4. ASSUME NEW r \in Runners, NEW t \in TaskIds, RowClaimed(r, t) PROVE ClaimantNamed'
  <2>1. /\ task'[t].status = "running" /\ task'[t].lockedBy = r
        /\ \A u \in TaskIds : u # t => task'[u] = task[u]
    BY <1>4 DEF RowClaimed, TypeOK, TaskRow
  <2> QED
    BY <2>1
<1> QED
  BY <1>1, <1>2, <1>3, <1>4 DEF RowStep

LEMMA ClaimantIsNamed == Spec => []ClaimantNamed
<1>1. Init => ClaimantNamed
  BY DEF Init, ClaimantNamed
<1>2. QueueInv /\ ClaimantNamed /\ [Next]_vars => ClaimantNamed'
  BY EveryStepIsARowStep, RowStepKeepsClaimant DEF QueueInv
<1> QED
  BY <1>1, <1>2, QueueInvIsInductive, PTL DEF Spec

-----------------------------------------------------------------------------
(* Each kind of row step is a step of the board. *)

BoardKept == UNCHANGED <<OpenRows, RowWorkers, RowResults>>

LEMMA KeptIsAStutter == RowsKept => BoardKept
BY DEF RowsKept, BoardKept, OpenRows, RowWorkers, RowResults

\* The active key of an absent or ended row is free, so an insert finds the place
\* empty; its id is past every id used.
LEMMA InsertIsASubmit ==
  ASSUME QueueInv, ClaimantNamed, NEW t \in TaskIds, RowInserted(t)
  PROVE  \E ty \in Types : Board!Submit(ty)
<1> USE DEF Active, Terminal
<1>0. TaskIds \subseteq Nat
  BY DEF TaskIds
<1>1. PICK ty \in Types :
        /\ ActiveKeyFree(ty)
        /\ task' = [task EXCEPT ![t] = [type |-> ty, status |-> "pending", activeKey |-> TRUE,
                                        lockedBy |-> Nobody, updatedAt |-> clock]]
  BY DEF RowInserted
<1>2. /\ task'[t].type = ty /\ task'[t].status = "pending" /\ task'[t].lockedBy = Nobody
      /\ \A u \in TaskIds : u # t => task'[u] = task[u]
  BY <1>1 DEF QueueInv, TypeOK
<1>3. task[t].status = "absent" /\ task[t].lockedBy = Nobody
  BY DEF RowInserted, FreshId, ClaimantNamed
<1>4. \A u \in TaskIds : task[u].status # "absent" => u < t
  BY <1>0 DEF RowInserted, FreshId, QueueInv, IdsInOrder
<1>5. OpenRows[ty] = {}
  <2>1. \A u \in TaskIds : task[u].type = ty /\ task[u].status # "absent" => task[u].status \notin Active
    BY <1>1 DEF ActiveKeyFree, OfType, QueueInv, KeyMeansActive
  <2> QED
    BY <2>1 DEF OpenRows
<1>6. OpenRows' = [OpenRows EXCEPT ![ty] = {t}]
  <2>1. ASSUME NEW x \in Types PROVE OpenRows'[x] = IF x = ty THEN {t} ELSE OpenRows[x]
    <3>1. \A u \in TaskIds : u \in OpenRows[x] <=> task[u].type = x /\ task[u].status \in Active
      BY DEF OpenRows
    <3>2. \A u \in TaskIds : u \in OpenRows'[x] <=> task'[u].type = x /\ task'[u].status \in Active
      BY DEF OpenRows
    <3>3. OpenRows[x] \subseteq TaskIds /\ OpenRows'[x] \subseteq TaskIds
      BY DEF OpenRows
    <3>4. CASE x = ty
      <4>1. \A u \in TaskIds : u \in OpenRows'[x] <=> u = t
        BY <1>2, <1>3, <1>5, <3>1, <3>2, <3>4
      <4> QED
        BY <3>3, <3>4, <4>1
    <3>5. CASE x # ty
      <4>1. \A u \in TaskIds : u \in OpenRows'[x] <=> u \in OpenRows[x]
        BY <1>2, <1>3, <3>1, <3>2, <3>5
      <4> QED
        BY <3>3, <3>5, <4>1
    <3> QED
      BY <3>4, <3>5
  <2> QED
    BY <2>1 DEF OpenRows
<1>7. RowWorkers' = RowWorkers
  BY <1>2, <1>3 DEF RowWorkers
<1>8. RowResults' = RowResults
  BY <1>2, <1>3 DEF RowResults
<1>9. \A u \in Board!Used : u \in TaskIds /\ task[u].status # "absent"
  BY DEF Board!Used, OpenRows, RowResults
<1>10. Board!Submit(ty)
  BY <1>0, <1>3, <1>4, <1>5, <1>6, <1>7, <1>8, <1>9 DEF Board!Submit
<1> QED
  BY <1>10

LEMMA ClaimIsATake ==
  ASSUME QueueInv, ClaimantNamed, NEW r \in Runners, NEW t \in TaskIds, RowClaimed(r, t)
  PROVE  \E ty \in Types : Board!Take(ty, r)
<1> USE DEF Active, Terminal
<1>1. /\ task[t].status = "pending" /\ task[t].lockedBy = Nobody
      /\ task'[t].type = task[t].type /\ task'[t].status = "running" /\ task'[t].lockedBy = r
      /\ \A u \in TaskIds : u # t => task'[u] = task[u]
  BY DEF RowClaimed, QueueInv, TypeOK, TaskRow, ClaimantNamed
<1>2. task[t].type \in Types
  BY DEF QueueInv, TypeOK, TaskRow
<1>3. OpenRows' = OpenRows
  BY <1>1 DEF OpenRows
<1>4. RowResults' = RowResults
  BY <1>1 DEF RowResults
<1>5. RowWorkers' = [RowWorkers EXCEPT ![t] = r]
  BY <1>1 DEF RowWorkers
<1>6. t \in OpenRows[task[t].type] /\ RowWorkers[t] = Nobody
  BY <1>1, <1>2 DEF OpenRows, RowWorkers
<1>7. Board!Take(task[t].type, r)
  BY <1>3, <1>4, <1>5, <1>6 DEF Board!Take
<1> QED
  BY <1>2, <1>7

\* The row that ends is the only open one of its type, so the place becomes free.
LEMMA EndIsAnEnd ==
  ASSUME QueueInv, ClaimantNamed, NEW t \in TaskIds, RowEnded(t)
  PROVE  \E ty \in Types : Board!End(ty)
<1> USE DEF Active, Terminal
<1> DEFINE ty == task[t].type
<1>0. TaskIds \subseteq Nat
  BY DEF TaskIds
<1>1. ty \in Types
  BY DEF QueueInv, TypeOK, TaskRow
<1>2. PICK s \in Terminal :
        /\ task[t].status = "running"
        /\ task' = [task EXCEPT ![t].status = s, ![t].activeKey = FALSE, ![t].updatedAt = clock]
  BY DEF RowEnded
<1>3. /\ task'[t].type = ty /\ task'[t].status = s /\ task'[t].lockedBy = task[t].lockedBy
      /\ \A u \in TaskIds : u # t => task'[u] = task[u]
  BY <1>2 DEF QueueInv, TypeOK, TaskRow
<1>4. task[t].lockedBy # Nobody
  BY <1>2, ConstantsAssumption DEF ClaimantNamed
<1>5. \A u \in TaskIds : task[u].type = ty /\ task[u].status \in Active => u = t
  BY <1>0, <1>2 DEF QueueInv, OneActivePerType
<1>6. OpenRows' = [OpenRows EXCEPT ![ty] = {}]
  <2>1. ASSUME NEW x \in Types PROVE OpenRows'[x] = IF x = ty THEN {} ELSE OpenRows[x]
    <3>1. \A u \in TaskIds : u \in OpenRows[x] <=> task[u].type = x /\ task[u].status \in Active
      BY DEF OpenRows
    <3>2. \A u \in TaskIds : u \in OpenRows'[x] <=> task'[u].type = x /\ task'[u].status \in Active
      BY DEF OpenRows
    <3>3. OpenRows[x] \subseteq TaskIds /\ OpenRows'[x] \subseteq TaskIds
      BY DEF OpenRows
    <3>4. CASE x = ty
      <4>1. \A u \in TaskIds : u \notin OpenRows'[x]
        BY <1>2, <1>3, <1>5, <3>2, <3>4
      <4> QED
        BY <3>3, <3>4, <4>1
    <3>5. CASE x # ty
      <4>1. \A u \in TaskIds : u \in OpenRows'[x] <=> u \in OpenRows[x]
        BY <1>2, <1>3, <3>1, <3>2, <3>5
      <4> QED
        BY <3>3, <3>5, <4>1
    <3> QED
      BY <3>4, <3>5
  <2> QED
    BY <2>1 DEF OpenRows
<1>7. RowWorkers' = RowWorkers
  BY <1>3 DEF RowWorkers
<1>8. RowResults' = [RowResults EXCEPT ![t] = s]
  BY <1>3 DEF RowResults
<1>9. t \in OpenRows[ty] /\ RowWorkers[t] # Nobody
  BY <1>1, <1>2, <1>4 DEF OpenRows, RowWorkers
<1>10. Board!End(ty)
  BY <1>6, <1>7, <1>8, <1>9 DEF Board!End, Board!Results
<1> QED
  BY <1>1, <1>10

\* Several nodes, leases and crashes implement one board with a place per type.
THEOREM QueueIsABoard == Spec => ImplementsJobQueue
<1>1. Init => Board!BoardInit
  BY DEF Init, Board!BoardInit, OpenRows, RowWorkers, RowResults, Active, Terminal
<1>2. QueueInv /\ ClaimantNamed /\ [Next]_vars => [Board!BoardNext]_<<OpenRows, RowWorkers, RowResults>>
  <2> SUFFICES ASSUME QueueInv, ClaimantNamed, [Next]_vars
               PROVE  Board!BoardNext \/ BoardKept
    BY DEF BoardKept
  <2>1. RowStep
    BY EveryStepIsARowStep DEF QueueInv
  <2>2. CASE RowsKept
    BY <2>2, KeptIsAStutter
  <2>3. ASSUME NEW t \in TaskIds, RowInserted(t) PROVE Board!BoardNext
    BY <2>3, InsertIsASubmit DEF Board!BoardNext
  <2>4. ASSUME NEW t \in TaskIds, RowEnded(t) PROVE Board!BoardNext
    BY <2>4, EndIsAnEnd DEF Board!BoardNext
  <2>5. ASSUME NEW r \in Runners, NEW t \in TaskIds, RowClaimed(r, t) PROVE Board!BoardNext
    BY <2>5, ClaimIsATake DEF Board!BoardNext
  <2> QED
    BY <2>1, <2>2, <2>3, <2>4, <2>5 DEF RowStep
<1> QED
  BY <1>1, <1>2, QueueInvIsInductive, ClaimantIsNamed, PTL DEF Spec, ImplementsJobQueue, Board!BoardSpec

-----------------------------------------------------------------------------
(***************************************************************************)
(* A running task is always named by the lock row of its type, if no claim *)
(* takes longer than the TTL: whoever dies, the lease leads to its task.   *)
(***************************************************************************)

\* Timestamps a goroutine holds lie in the past, those of a claim within the TTL.
Timely ==
  \A r \in Runners : /\ loop[r].now <= clock
                     /\ InClaim(r) => clock <= loop[r].now + TTL

\* A lock row names an existing task of its own type.
LockNamesItsType ==
  \A ty \in Types : lock[ty].task # 0 =>
    task[lock[ty].task].status # "absent" /\ task[lock[ty].task].type = ty

\* A claim is about an existing row that its own node does not execute.
ClaimsExist ==
  \A r \in Runners : InClaim(r) =>
    task[loop[r].task].status # "absent" /\ handler[r][loop[r].task] = "none"

\* A claim that acquired the lock still holds it, and its task is not running.
ClaimantHolds ==
  \A r \in Runners : loop[r].pc \in LateClaim =>
    /\ lock[task[loop[r].task].type] =
         [task |-> loop[r].task, owner |-> r, until |-> loop[r].now + TTL]
    /\ task[loop[r].task].status # "running"

\* A claim cannot take a lock over from a task that runs: that lease was
\* written after the claim took its timestamp.
NoTakeoverOfRunning ==
  \A r \in Runners : loop[r].pc \in EarlyClaim =>
    \A u \in TaskIds : task[u].status = "running" /\ task[u].type = task[loop[r].task].type =>
      lock[task[u].type].until >= loop[r].now

\* When the stale-lock pass deletes the row it read, its task was failed before.
MarkedBeforeDelete ==
  \A r \in Runners : loop[r].pc = "delete" =>
    \A l \in loop[r].stale :
      /\ l.task = loop[r].task
      /\ lock[l.type].task = l.task
      /\ lock[l.type].owner = l.owner
      /\ lock[l.type].until < loop[r].now
      => task[l.task].status # "running"

\* A handler releases its lock only after its task ended.
EndedBeforeRelease ==
  \A r \in Runners, t \in TaskIds : handler[r][t] = "release" => task[t].status \in Terminal

LeaseInv ==
  /\ Timely /\ LockNamesItsType /\ ClaimsExist /\ ClaimantHolds /\ NoTakeoverOfRunning
  /\ MarkedBeforeDelete /\ EndedBeforeRelease /\ RunningIsLeased

-----------------------------------------------------------------------------
(* Steps that write no lock row and claim no task. *)

\* What such a step keeps of the rows.
RowsWeaken ==
  \A u \in TaskIds :
    /\ task[u].status # "absent" =>
         /\ task'[u].type = task[u].type
         /\ task'[u].status # "absent"
         /\ task'[u].lockedBy = task[u].lockedBy
    /\ task'[u].status = "running" => task[u].status = "running"
    /\ task[u].status \in Terminal => task'[u].status \in Terminal

LEMMA UnclaimedRowsWeaken ==
  ASSUME TypeOK, RowsKept \/ \E t \in TaskIds : RowInserted(t) \/ RowEnded(t)
  PROVE RowsWeaken
<1> USE DEF Terminal
<1>1. CASE RowsKept
  BY <1>1 DEF RowsKept, RowsWeaken
<1>2. ASSUME NEW t \in TaskIds, RowInserted(t) PROVE RowsWeaken
  <2>1. \A u \in TaskIds : u # t => task'[u] = task[u]
    BY <1>2 DEF RowInserted, TypeOK
  <2>2. task[t].status = "absent" /\ task'[t].status = "pending"
    BY <1>2 DEF RowInserted, FreshId, TypeOK
  <2> QED
    BY <2>1, <2>2 DEF RowsWeaken
<1>3. ASSUME NEW t \in TaskIds, RowEnded(t) PROVE RowsWeaken
  <2>1. /\ task[t].status = "running" /\ task'[t].status \in Terminal
        /\ task'[t].type = task[t].type /\ task'[t].lockedBy = task[t].lockedBy
        /\ \A u \in TaskIds : u # t => task'[u] = task[u]
    <3>1. PICK x \in Terminal :
            task' = [task EXCEPT ![t].status = x, ![t].activeKey = FALSE, ![t].updatedAt = clock]
      BY <1>3 DEF RowEnded
    <3>2. /\ task'[t] = [[[task[t] EXCEPT !.status = x] EXCEPT !.activeKey = FALSE] EXCEPT !.updatedAt = clock]
          /\ \A u \in TaskIds : u # t => task'[u] = task[u]
      BY <3>1 DEF TypeOK
    <3>3. task[t] \in TaskRow
      BY DEF TypeOK
    <3> QED
      BY <1>3, <3>2, <3>3 DEF RowEnded, TaskRow
  <2> QED
    BY <2>1 DEF RowsWeaken
<1> QED
  BY <1>1, <1>2, <1>3

\* How a goroutine's locals may move in such a step: not at all, out of any
\* claim and deletion, within one half of a claim, or to the deletion of a
\* lock whose task does not run.
LocalMove(p) ==
  \/ loop'[p] = loop[p]
  \/ /\ loop'[p].pc \notin EarlyClaim \cup LateClaim \cup {"delete"}
     /\ loop'[p].now <= clock
  \/ /\ loop'[p].task = loop[p].task /\ loop'[p].now = loop[p].now
     /\ \/ loop[p].pc \in EarlyClaim /\ loop'[p].pc \in EarlyClaim
        \/ loop[p].pc \in LateClaim /\ loop'[p].pc \in LateClaim
  \/ /\ loop'[p].pc = "delete" /\ loop'[p].now <= clock
     /\ \A l \in loop'[p].stale : l.task = loop'[p].task => task'[l.task].status # "running"

PassiveStep ==
  /\ lock' = lock
  /\ clock' = clock
  /\ RowsWeaken
  /\ \A p \in Runners : LocalMove(p)
  /\ \A p \in Runners, u \in TaskIds :
       /\ handler'[p][u] = "release" => handler[p][u] = "release" \/ task'[u].status \in Terminal
       /\ handler[p][u] = "none" /\ handler'[p][u] # "none" => loop'[p].pc \notin EarlyClaim \cup LateClaim

LEMMA PassiveStepKeepsLease ==
  ASSUME TypeOK, LocalsOK, LocalsOK', TypeOK', LeaseInv, PassiveStep PROVE LeaseInv'
<1> USE DEF PassiveStep, EarlyClaim, LateClaim
<1>0. \A p \in Runners : InClaim(p)' =>
          /\ InClaim(p) /\ loop'[p].task = loop[p].task /\ loop'[p].now = loop[p].now
          /\ loop[p].task \in TaskIds
          /\ loop'[p].pc \in EarlyClaim => loop[p].pc \in EarlyClaim
          /\ loop'[p].pc \in LateClaim => loop[p].pc \in LateClaim
  BY DEF InClaim, LocalMove, LocalsOK
<1>1. Timely'
  BY <1>0 DEF Timely, LocalMove, LeaseInv
<1>2. LockNamesItsType'
  <2>1. \A ty \in Types : lock[ty].task # 0 => lock[ty].task \in TaskIds
    BY DEF TypeOK, LockRow
  <2> QED
    BY <2>1 DEF LockNamesItsType, LeaseInv, RowsWeaken
<1>3. ClaimsExist'
  BY <1>0 DEF InClaim, ClaimsExist, LeaseInv, RowsWeaken
<1>4. ClaimantHolds'
  <2> SUFFICES ASSUME NEW r \in Runners, loop'[r].pc \in LateClaim
               PROVE (/\ lock[task[loop[r].task].type] =
                           [task |-> loop[r].task, owner |-> r, until |-> loop[r].now + TTL]
                      /\ task[loop[r].task].status # "running")'
    BY DEF ClaimantHolds
  <2>1. InClaim(r)' /\ loop'[r].pc \in LateClaim
    BY DEF InClaim
  <2>2. InClaim(r) /\ loop[r].pc \in LateClaim /\ loop'[r].task = loop[r].task /\ loop'[r].now = loop[r].now
        /\ loop[r].task \in TaskIds
    BY <1>0, <2>1 DEF InClaim
  <2>3. task[loop[r].task].status # "absent"
    BY <2>2 DEF LeaseInv, ClaimsExist
  <2> QED
    BY <2>2, <2>3 DEF LeaseInv, ClaimantHolds, RowsWeaken
<1>5. NoTakeoverOfRunning'
  <2> SUFFICES ASSUME NEW r \in Runners, loop'[r].pc \in EarlyClaim, NEW u \in TaskIds,
                      task'[u].status = "running", task'[u].type = task'[loop'[r].task].type
               PROVE (lock[task[u].type].until >= loop[r].now)'
    BY DEF NoTakeoverOfRunning
  <2>1. InClaim(r) /\ loop[r].pc \in EarlyClaim /\ loop'[r].task = loop[r].task /\ loop'[r].now = loop[r].now
        /\ loop[r].task \in TaskIds
    BY <1>0 DEF InClaim
  <2>2. task[loop[r].task].status # "absent"
    BY <2>1 DEF LeaseInv, ClaimsExist
  <2>3. task[u].status = "running" /\ task'[u].type = task[u].type
    BY DEF RowsWeaken
  <2> QED
    BY <2>1, <2>2, <2>3 DEF LeaseInv, NoTakeoverOfRunning, RowsWeaken
<1>6. MarkedBeforeDelete'
  <2> SUFFICES ASSUME NEW r \in Runners, loop'[r].pc = "delete", NEW l \in loop'[r].stale,
                      l.task = loop'[r].task, lock'[l.type].task = l.task,
                      lock'[l.type].owner = l.owner, lock'[l.type].until < loop'[r].now
               PROVE task'[l.task].status # "running"
    BY DEF MarkedBeforeDelete
  <2>1. l.task \in TaskIds
    BY DEF TypeOK, LoopState, LockKey
  <2>2. CASE loop'[r] = loop[r]
    BY <2>1, <2>2 DEF LeaseInv, MarkedBeforeDelete, RowsWeaken
  <2> QED
    BY <2>2 DEF LocalMove
<1>7. EndedBeforeRelease'
  BY DEF EndedBeforeRelease, LeaseInv, RowsWeaken
<1>8. RunningIsLeased'
  BY DEF RunningIsLeased, LeaseInv, RowsWeaken
<1> QED
  BY <1>1, <1>2, <1>3, <1>4, <1>5, <1>6, <1>7, <1>8 DEF LeaseInv

\* A step that touches neither the locks nor the clock, with the rows and the
\* handlers as most steps leave them.
LEMMA QuietStepKeepsLease ==
  ASSUME TypeOK, LocalsOK, TypeOK', LocalsOK', LeaseInv,
         lock' = lock, clock' = clock, handler' = handler,
         RowsKept \/ \E t \in TaskIds : RowInserted(t) \/ RowEnded(t),
         \A p \in Runners : LocalMove(p)
  PROVE LeaseInv'
<1>1. RowsWeaken
  BY UnclaimedRowsWeaken
<1>2. PassiveStep
  BY <1>1 DEF PassiveStep
<1> QED
  BY <1>2, PassiveStepKeepsLease

-----------------------------------------------------------------------------
(* The steps that matter: taking, renewing and giving up a lock; claiming. *)

\* What every state of the induction satisfies.
Hyp == TypeOK /\ LocalsOK /\ QueueInv /\ LeaseInv /\ TypeOK' /\ LocalsOK' /\ ~ClaimStalls

LEMMA HypFacts ==
  ASSUME Hyp
  PROVE /\ \A r \in Runners : /\ loop[r].now \in Nat /\ loop[r].now <= clock
                              /\ InClaim(r) => /\ loop[r].task \in TaskIds
                                              /\ clock <= loop[r].now + TTL
                                              /\ task[loop[r].task].type \in Types
        /\ \A ty \in Types : lock[ty].until \in Nat /\ lock[ty].task \in {0} \cup TaskIds
        /\ clock \in Nat /\ TTL \in Nat /\ TTL > 0
        /\ 0 \notin TaskIds
        /\ \A t \in TaskIds : task[t].type \in Types
  BY ConstantsAssumption DEF Hyp, TypeOK, LoopState, LockRow, TaskRow, LeaseInv, Timely, LocalsOK, TaskIds

\* A claimant's lock row, field by field.
LEMMA ClaimantFields ==
  ASSUME Hyp, NEW p \in Runners, loop[p].pc \in LateClaim
  PROVE LET l == lock[task[loop[p].task].type]
        IN /\ l.task = loop[p].task /\ l.owner = p /\ l.until = loop[p].now + TTL
           /\ clock <= l.until
           /\ task[loop[p].task].status # "running"
           /\ loop[p].task \in TaskIds /\ loop[p].task # 0
<1>1. InClaim(p)
  BY DEF InClaim
<1>2. lock[task[loop[p].task].type] = [task |-> loop[p].task, owner |-> p, until |-> loop[p].now + TTL]
      /\ task[loop[p].task].status # "running"
  BY DEF Hyp, LeaseInv, ClaimantHolds
<1> QED
  BY <1>1, <1>2, HypFacts

\* Taking a lock that is free or expired harms nobody: no claimant holds it
\* and no task runs under it.
TakesLock(r) ==
  LET t == loop[r].task
      ty == task[t].type
  IN /\ loop[r].pc \in EarlyClaim
     /\ lock[ty].task = 0 \/ lock[ty].until < loop[r].now
     /\ lock' = [lock EXCEPT ![ty] = [task |-> t, owner |-> r, until |-> loop[r].now + TTL]]
     /\ loop'[r].pc \in LateClaim /\ loop'[r].task = t /\ loop'[r].now = loop[r].now
     /\ \A p \in Runners : p # r => loop'[p] = loop[p]
     /\ UNCHANGED <<clock, task, handler, faults>>

LEMMA TakingKeepsLease ==
  ASSUME Hyp, NEW r \in Runners, TakesLock(r) PROVE LeaseInv'
<1> DEFINE t == loop[r].task
           ty == task[t].type
<1>1. /\ InClaim(r) /\ t \in TaskIds /\ ty \in Types
      /\ clock <= loop[r].now + TTL /\ task[t].status # "absent" /\ handler[r][t] = "none"
  BY HypFacts DEF InClaim, TakesLock, Hyp, LeaseInv, ClaimsExist
<1>2. /\ lock'[ty] = [task |-> t, owner |-> r, until |-> loop[r].now + TTL]
      /\ lock'[ty].task = t /\ lock'[ty].until >= clock /\ lock'[ty].until = loop[r].now + TTL
      /\ \A x \in Types : x # ty => lock'[x] = lock[x]
  BY <1>1, HypFacts DEF TakesLock, Hyp, TypeOK
<1>3. \A u \in TaskIds : task[u].type = ty => task[u].status # "running"
  <2> SUFFICES ASSUME NEW u \in TaskIds, task[u].type = ty, task[u].status = "running" PROVE FALSE
    OBVIOUS
  <2>1. lock[ty].task = u /\ u # 0
    BY HypFacts DEF Hyp, LeaseInv, RunningIsLeased
  <2>2. lock[ty].until >= loop[r].now
    BY DEF Hyp, LeaseInv, NoTakeoverOfRunning, TakesLock
  <2> QED
    BY <1>1, <2>1, <2>2, HypFacts DEF TakesLock
<1>4. \A p \in Runners : p # r /\ loop[p].pc \in LateClaim => task[loop[p].task].type # ty
  <2> SUFFICES ASSUME NEW p \in Runners, p # r, loop[p].pc \in LateClaim, task[loop[p].task].type = ty
               PROVE FALSE
    OBVIOUS
  <2>1. lock[ty] = [task |-> loop[p].task, owner |-> p, until |-> loop[p].now + TTL]
    BY DEF Hyp, LeaseInv, ClaimantHolds
  <2>2. loop[p].task # 0 /\ clock <= loop[p].now + TTL
    BY HypFacts DEF InClaim
  <2> QED
    BY <1>1, <2>1, <2>2, HypFacts DEF TakesLock
<1> USE DEF TakesLock
<1>5. Timely'
  BY <1>1, HypFacts DEF InClaim, Timely, Hyp, LeaseInv
<1>6. LockNamesItsType'
  BY <1>1, <1>2 DEF LockNamesItsType, Hyp, LeaseInv
<1>7. ClaimsExist'
  BY <1>1 DEF InClaim, ClaimsExist, Hyp, LeaseInv
<1>8. ClaimantHolds'
  <2> SUFFICES ASSUME NEW p \in Runners, loop'[p].pc \in LateClaim
               PROVE (/\ lock[task[loop[p].task].type] =
                           [task |-> loop[p].task, owner |-> p, until |-> loop[p].now + TTL]
                      /\ task[loop[p].task].status # "running")'
    BY DEF ClaimantHolds
  <2>1. CASE p = r
    BY <1>1, <1>2, <1>3, <2>1
  <2>2. CASE p # r
    <3>1. loop'[p] = loop[p] /\ loop[p].pc \in LateClaim /\ task[loop[p].task].type \in Types
      BY <2>2, HypFacts DEF InClaim
    <3> QED
      BY <1>2, <1>4, <2>2, <3>1 DEF Hyp, LeaseInv, ClaimantHolds
  <2> QED
    BY <2>1, <2>2
<1>9. NoTakeoverOfRunning'
  <2> SUFFICES ASSUME NEW p \in Runners, loop'[p].pc \in EarlyClaim, NEW u \in TaskIds,
                      task[u].status = "running", task[u].type = task[loop'[p].task].type
               PROVE lock'[task[u].type].until >= loop'[p].now
    BY DEF NoTakeoverOfRunning
  <2>1. p # r /\ loop'[p] = loop[p] /\ task[u].type # ty /\ task[u].type \in Types
    BY <1>3, HypFacts DEF EarlyClaim, LateClaim
  <2> QED
    BY <1>2, <2>1 DEF Hyp, LeaseInv, NoTakeoverOfRunning
<1>10. MarkedBeforeDelete'
  <2> SUFFICES ASSUME NEW p \in Runners, loop'[p].pc = "delete", NEW l \in loop'[p].stale,
                      l.task = loop'[p].task, lock'[l.type].task = l.task,
                      lock'[l.type].owner = l.owner, lock'[l.type].until < loop'[p].now
               PROVE task[l.task].status # "running"
    BY DEF MarkedBeforeDelete
  <2>1. p # r /\ loop'[p] = loop[p]
    BY DEF LateClaim
  <2>2. l.type \in Types /\ loop[p].now <= clock /\ loop[p].now \in Nat
    BY <2>1, HypFacts DEF Hyp, TypeOK, LoopState, LockKey
  <2>3. l.type # ty
    BY <1>1, <1>2, <2>1, <2>2, HypFacts
  <2> QED
    BY <1>2, <2>1, <2>2, <2>3 DEF Hyp, LeaseInv, MarkedBeforeDelete
<1>11. EndedBeforeRelease'
  BY DEF EndedBeforeRelease, Hyp, LeaseInv
<1>12. RunningIsLeased'
  BY <1>2, <1>3, HypFacts DEF RunningIsLeased, Hyp, LeaseInv
<1> QED
  BY <1>5, <1>6, <1>7, <1>8, <1>9, <1>10, <1>11, <1>12 DEF LeaseInv

\* Giving up a lock under which no task runs and which no claimant holds
\* afterwards: the stale-lock pass, a failed claim, a finished handler.
FreesLock(ty) ==
  /\ lock' = [lock EXCEPT ![ty] = NoLock]
  /\ lock[ty].task # 0
  /\ task[lock[ty].task].status # "running"
  /\ \A p \in Runners : loop'[p].pc \in LateClaim => task[loop[p].task].type # ty
  /\ \A p \in Runners : loop'[p] = loop[p] \/
       (loop'[p].pc \notin EarlyClaim \cup LateClaim \cup {"delete"} /\ loop'[p].now <= clock)
  /\ \A p \in Runners, u \in TaskIds : handler'[p][u] = handler[p][u] \/ handler'[p][u] = "none"
  /\ UNCHANGED <<clock, task>>

LEMMA FreeingKeepsLease ==
  ASSUME Hyp, NEW ty \in Types, FreesLock(ty) PROVE LeaseInv'
<1> USE DEF FreesLock
<1>1. lock'[ty].task = 0 /\ \A x \in Types : x # ty => lock'[x] = lock[x]
  BY DEF Hyp, TypeOK, NoLock
<1>2. \A u \in TaskIds : task[u].type = ty => task[u].status # "running"
  BY DEF Hyp, LeaseInv, RunningIsLeased
<1>3. \A p \in Runners : loop'[p].pc \in EarlyClaim \cup LateClaim \cup {"delete"} => loop'[p] = loop[p]
  OBVIOUS
<1>4. Timely'
  BY <1>3 DEF InClaim, Timely, Hyp, LeaseInv
<1>5. LockNamesItsType'
  BY <1>1 DEF LockNamesItsType, Hyp, LeaseInv
<1>6. ClaimsExist'
  <2> SUFFICES ASSUME NEW p \in Runners, InClaim(p)'
               PROVE task[loop'[p].task].status # "absent" /\ handler'[p][loop'[p].task] = "none"
    BY DEF ClaimsExist
  <2>1. loop'[p] = loop[p] /\ InClaim(p) /\ loop[p].task \in TaskIds
    BY <1>3, HypFacts DEF InClaim
  <2> QED
    BY <2>1 DEF ClaimsExist, Hyp, LeaseInv
<1>7. ClaimantHolds'
  <2> SUFFICES ASSUME NEW p \in Runners, loop'[p].pc \in LateClaim
               PROVE (/\ lock[task[loop[p].task].type] =
                           [task |-> loop[p].task, owner |-> p, until |-> loop[p].now + TTL]
                      /\ task[loop[p].task].status # "running")'
    BY DEF ClaimantHolds
  <2>1. loop'[p] = loop[p] /\ loop[p].pc \in LateClaim /\ task[loop[p].task].type \in Types
    BY <1>3, HypFacts DEF InClaim
  <2> QED
    BY <1>1, <2>1 DEF Hyp, LeaseInv, ClaimantHolds
<1>8. NoTakeoverOfRunning'
  <2> SUFFICES ASSUME NEW p \in Runners, loop'[p].pc \in EarlyClaim, NEW u \in TaskIds,
                      task[u].status = "running", task[u].type = task[loop'[p].task].type
               PROVE lock'[task[u].type].until >= loop'[p].now
    BY DEF NoTakeoverOfRunning
  <2>1. loop'[p] = loop[p] /\ task[u].type # ty /\ task[u].type \in Types
    BY <1>2, <1>3, HypFacts
  <2> QED
    BY <1>1, <2>1 DEF Hyp, LeaseInv, NoTakeoverOfRunning
<1>9. MarkedBeforeDelete'
  <2> SUFFICES ASSUME NEW p \in Runners, loop'[p].pc = "delete", NEW l \in loop'[p].stale,
                      l.task = loop'[p].task, lock'[l.type].task = l.task,
                      lock'[l.type].owner = l.owner, lock'[l.type].until < loop'[p].now
               PROVE task[l.task].status # "running"
    BY DEF MarkedBeforeDelete
  <2>1. loop'[p] = loop[p] /\ l.type \in Types /\ l.task \in TaskIds
    BY <1>3 DEF Hyp, TypeOK, LoopState, LockKey
  <2>2. l.type # ty
    BY <1>1, <2>1, HypFacts
  <2> QED
    BY <1>1, <2>1, <2>2 DEF Hyp, LeaseInv, MarkedBeforeDelete
<1>10. EndedBeforeRelease'
  BY DEF EndedBeforeRelease, Hyp, LeaseInv
<1>11. RunningIsLeased'
  BY <1>1, <1>2, HypFacts DEF RunningIsLeased, Hyp, LeaseInv
<1> QED
  BY <1>4, <1>5, <1>6, <1>7, <1>8, <1>9, <1>10, <1>11 DEF LeaseInv

\* The conditional update that starts a task is made by the holder of the lock.
LEMMA ClaimingKeepsLease ==
  ASSUME Hyp, NEW r \in Runners, ClaimCAS(r), task[loop[r].task].status = "pending"
  PROVE LeaseInv'
<1> DEFINE t == loop[r].task
           ty == task[t].type
<1>1. /\ InClaim(r) /\ loop[r].pc \in LateClaim /\ t \in TaskIds /\ ty \in Types
  BY HypFacts DEF ClaimCAS, At, InClaim, LateClaim
<1>2. lock[ty] = [task |-> t, owner |-> r, until |-> loop[r].now + TTL] /\ clock <= lock[ty].until
  BY <1>1, HypFacts DEF Hyp, LeaseInv, ClaimantHolds
<1>3. lock[ty].task = t /\ lock[ty].owner = r
  BY <1>2
<1>4. /\ task'[t].status = "running" /\ task'[t].lockedBy = r /\ task'[t].type = ty
      /\ \A u \in TaskIds : u # t => task'[u] = task[u]
      /\ \A u \in TaskIds : task'[u].type = task[u].type
  <2>1. /\ task'[t] = [[[task[t] EXCEPT !.status = "running"] EXCEPT !.lockedBy = r] EXCEPT !.updatedAt = loop[r].now]
        /\ \A u \in TaskIds : u # t => task'[u] = task[u]
    BY <1>1 DEF ClaimCAS, Hyp, TypeOK
  <2>2. task[t] \in TaskRow
    BY <1>1 DEF Hyp, TypeOK
  <2>3. task'[t].status = "running" /\ task'[t].lockedBy = r /\ task'[t].type = ty
    BY <2>1, <2>2 DEF TaskRow
  <2> QED
    BY <2>1, <2>3
<1>5. /\ loop'[r].pc = "reread" /\ loop'[r].now = loop[r].now
      /\ \A p \in Runners : p # r => loop'[p] = loop[p]
  BY DEF ClaimCAS, Goto, Hyp, TypeOK, LoopState
<1>6. UNCHANGED <<clock, lock, handler>>
  BY DEF ClaimCAS
<1>7. \A p \in Runners : loop'[p].pc \in EarlyClaim \cup LateClaim \cup {"delete"} =>
        p # r /\ loop'[p] = loop[p]
  BY <1>5 DEF EarlyClaim, LateClaim
<1>8. Timely'
  BY <1>5, <1>6, <1>7 DEF Timely, InClaim, Hyp, LeaseInv
<1>9. LockNamesItsType'
  BY <1>4, <1>6, HypFacts DEF LockNamesItsType, Hyp, LeaseInv
<1>10. ClaimsExist'
  BY <1>4, <1>6, <1>7, HypFacts DEF ClaimsExist, InClaim, Hyp, LeaseInv
<1>11. ClaimantHolds'
  <2> SUFFICES ASSUME NEW p \in Runners, loop'[p].pc \in LateClaim
               PROVE (/\ lock[task[loop[p].task].type] =
                           [task |-> loop[p].task, owner |-> p, until |-> loop[p].now + TTL]
                      /\ task[loop[p].task].status # "running")'
    BY DEF ClaimantHolds
  <2>1. p # r /\ loop'[p] = loop[p] /\ loop[p].pc \in LateClaim /\ loop[p].task \in TaskIds
    BY <1>7, HypFacts DEF InClaim
  <2>2. lock[task[loop[p].task].type] = [task |-> loop[p].task, owner |-> p, until |-> loop[p].now + TTL]
    BY <2>1 DEF Hyp, LeaseInv, ClaimantHolds
  <2>3. loop[p].task # t
    BY <1>3, <2>1, <2>2
  <2> QED
    BY <1>4, <1>6, <2>1, <2>3 DEF Hyp, LeaseInv, ClaimantHolds
<1>12. NoTakeoverOfRunning'
  <2> SUFFICES ASSUME NEW p \in Runners, loop'[p].pc \in EarlyClaim, NEW u \in TaskIds,
                      task'[u].status = "running", task'[u].type = task'[loop'[p].task].type
               PROVE lock'[task'[u].type].until >= loop'[p].now
    BY DEF NoTakeoverOfRunning
  <2>1. p # r /\ loop'[p] = loop[p] /\ loop[p].pc \in EarlyClaim /\ loop[p].task \in TaskIds
        /\ loop[p].now <= clock /\ loop[p].now \in Nat
    BY <1>7, HypFacts DEF InClaim
  <2>2. CASE u = t
    BY <1>1, <1>2, <1>4, <1>6, <2>1, <2>2, HypFacts
  <2>3. CASE u # t
    BY <1>4, <1>6, <2>1, <2>3 DEF Hyp, LeaseInv, NoTakeoverOfRunning
  <2> QED
    BY <2>2, <2>3
<1>13. MarkedBeforeDelete'
  <2> SUFFICES ASSUME NEW p \in Runners, loop'[p].pc = "delete", NEW l \in loop'[p].stale,
                      l.task = loop'[p].task, lock'[l.type].task = l.task,
                      lock'[l.type].owner = l.owner, lock'[l.type].until < loop'[p].now
               PROVE task'[l.task].status # "running"
    BY DEF MarkedBeforeDelete
  <2>1. p # r /\ loop'[p] = loop[p] /\ l.type \in Types /\ l.task \in TaskIds
        /\ loop[p].now <= clock /\ loop[p].now \in Nat
    BY <1>7, HypFacts DEF Hyp, TypeOK, LoopState, LockKey
  <2>2. l.task # t
    <3>1. SUFFICES ASSUME l.task = t PROVE FALSE
      OBVIOUS
    <3>2. l.type = ty
      BY <1>6, <2>1, <3>1, HypFacts DEF Hyp, LeaseInv, LockNamesItsType
    <3> QED
      BY <1>1, <1>2, <1>6, <2>1, <3>2, HypFacts
  <2> QED
    BY <1>4, <1>6, <2>1, <2>2 DEF Hyp, LeaseInv, MarkedBeforeDelete
<1>14. EndedBeforeRelease'
  BY <1>1, <1>4, <1>6 DEF EndedBeforeRelease, Terminal, Hyp, LeaseInv
<1>15. RunningIsLeased'
  BY <1>1, <1>3, <1>4, <1>6 DEF RunningIsLeased, Hyp, LeaseInv
<1> QED
  BY <1>8, <1>9, <1>10, <1>11, <1>12, <1>13, <1>14, <1>15 DEF LeaseInv

\* A heartbeat only moves the end of its own lease forward.
LEMMA RenewingKeepsLease ==
  ASSUME Hyp, NEW r \in Runners, NEW t \in TaskIds, handler[r][t] # "none",
         RenewSystemTaskLock(t, r), UNCHANGED <<clock, task, loop, handler>>
  PROVE LeaseInv'
<1>1. \A ty \in Types :
        /\ lock'[ty].task = lock[ty].task /\ lock'[ty].owner = lock[ty].owner
        /\ lock'[ty].until = lock[ty].until \/ lock'[ty].until = clock + TTL
        /\ ~(lock[ty].task = t /\ lock[ty].owner = r) => lock'[ty] = lock[ty]
  BY DEF RenewSystemTaskLock, Hyp, TypeOK, LockRow
<1>2. Timely' /\ ClaimsExist' /\ EndedBeforeRelease'
  BY DEF Timely, ClaimsExist, EndedBeforeRelease, InClaim, Hyp, LeaseInv
<1>3. LockNamesItsType' /\ RunningIsLeased'
  BY <1>1, HypFacts DEF LockNamesItsType, RunningIsLeased, Hyp, LeaseInv
<1>4. ClaimantHolds'
  <2> SUFFICES ASSUME NEW p \in Runners, loop[p].pc \in LateClaim
               PROVE /\ lock'[task[loop[p].task].type] =
                          [task |-> loop[p].task, owner |-> p, until |-> loop[p].now + TTL]
                     /\ task[loop[p].task].status # "running"
    BY DEF ClaimantHolds
  <2>1. task[loop[p].task].type \in Types /\ handler[p][loop[p].task] = "none"
    BY HypFacts DEF InClaim, Hyp, LeaseInv, ClaimsExist
  <2> QED
    BY <1>1, <2>1 DEF Hyp, LeaseInv, ClaimantHolds
<1>5. NoTakeoverOfRunning'
  <2> SUFFICES ASSUME NEW p \in Runners, loop[p].pc \in EarlyClaim, NEW u \in TaskIds,
                      task[u].status = "running", task[u].type = task[loop[p].task].type
               PROVE lock'[task[u].type].until >= loop[p].now
    BY DEF NoTakeoverOfRunning
  <2>1. lock[task[u].type].until >= loop[p].now
    BY DEF Hyp, LeaseInv, NoTakeoverOfRunning
  <2> QED
    BY <1>1, <2>1, HypFacts
<1>6. MarkedBeforeDelete'
  <2> SUFFICES ASSUME NEW p \in Runners, loop[p].pc = "delete", NEW l \in loop[p].stale,
                      l.task = loop[p].task, lock'[l.type].task = l.task,
                      lock'[l.type].owner = l.owner, lock'[l.type].until < loop[p].now
               PROVE task[l.task].status # "running"
    BY DEF MarkedBeforeDelete
  <2>1. l.type \in Types
    BY DEF Hyp, TypeOK, LoopState, LockKey
  <2>2. lock'[l.type].until = lock[l.type].until
    BY <1>1, <2>1, HypFacts
  <2> QED
    BY <1>1, <2>1, <2>2 DEF Hyp, LeaseInv, MarkedBeforeDelete
<1> QED
  BY <1>2, <1>3, <1>4, <1>5, <1>6 DEF LeaseInv

\* The clock does not run past the end of a lease that a claim has just written.
LEMMA TickKeepsLease == ASSUME Hyp, Tick PROVE LeaseInv'
<1>1. /\ clock' = clock + 1 /\ UNCHANGED <<task, lock, loop, handler>>
      /\ \A r \in Runners : InClaim(r) => clock < loop[r].now + TTL
  BY DEF Tick, Hyp
<1>2. Timely'
  BY <1>1, HypFacts DEF Timely, InClaim
<1> QED
  BY <1>1, <1>2 DEF Hyp, LeaseInv, LockNamesItsType, ClaimsExist, ClaimantHolds, NoTakeoverOfRunning,
     MarkedBeforeDelete, EndedBeforeRelease, RunningIsLeased, InClaim

\* A claim begins with a pending row, beside which no row of the type runs.
LEMMA EnteringKeepsLease ==
  ASSUME Hyp, NEW r \in Runners, NEW t \in TaskIds, task[t].status = "pending",
         loop'[r].pc = "acquire", loop'[r].task = t, loop'[r].now = clock,
         \A p \in Runners : p # r => loop'[p] = loop[p],
         UNCHANGED <<clock, task, lock, handler>>
  PROVE LeaseInv'
<1>1. \A u \in TaskIds : task[u].type = task[t].type => task[u].status # "running"
  BY DEF Hyp, QueueInv, OneActivePerType, Active, Terminal
<1>2. handler[r][t] = "none"
  BY DEF Hyp, QueueInv, OneExecutor, Executes
<1>3. Timely'
  BY HypFacts DEF Timely, InClaim, Hyp, LeaseInv
<1>4. ClaimsExist'
  BY <1>2 DEF ClaimsExist, InClaim, Hyp, LeaseInv
<1>5. ClaimantHolds' /\ MarkedBeforeDelete'
  BY DEF ClaimantHolds, MarkedBeforeDelete, LateClaim, Hyp, LeaseInv
<1>6. NoTakeoverOfRunning'
  BY <1>1 DEF NoTakeoverOfRunning, Hyp, LeaseInv
<1>7. LockNamesItsType' /\ EndedBeforeRelease' /\ RunningIsLeased'
  BY DEF LockNamesItsType, EndedBeforeRelease, RunningIsLeased, Hyp, LeaseInv
<1> QED
  BY <1>3, <1>4, <1>5, <1>6, <1>7 DEF LeaseInv

-----------------------------------------------------------------------------
(* Every step of the queue is one of these. *)

LEMMA RunnerKeepsLease ==
  ASSUME Hyp, [Next]_vars, NEW r \in Runners,
         ExpireRead(r) \/ SchedulerRead(r) \/ RunnerStep(r) \/ Crash(r) \/ StatementFails(r)
  PROVE LeaseInv'
<1> USE DEF Goto
<1>0. /\ TypeOK /\ LocalsOK /\ TypeOK' /\ LocalsOK' /\ LeaseInv
      /\ loop[r] \in LoopState /\ loop[r].now <= clock /\ loop[r].pend \subseteq TaskIds
      /\ loop \in [Runners -> LoopState]
      /\ clock \in Nat
  BY HypFacts DEF Hyp, TypeOK, LoopState
<1>1. \A p \in Runners : p # r => loop'[p] = loop[p]
  BY <1>0, RunnerStaysTyped DEF TypeOK
<1>2. task' = task => RowsKept
  BY <1>0 DEF RowsKept, TypeOK
<1>3. ASSUME LocalMove(r), lock' = lock, clock' = clock, handler' = handler,
             RowsKept \/ \E t \in TaskIds : RowInserted(t) \/ RowEnded(t)
      PROVE LeaseInv'
  <2>1. \A p \in Runners : LocalMove(p)
    BY <1>1, <1>3 DEF LocalMove
  <2> QED
    BY <1>0, <1>3, <2>1, QuietStepKeepsLease
<1>4. \A t \in TaskIds : /\ Claimed(r, t).pc \in {"idle", "read"}
                         /\ Claimed(r, t).now = 0
  BY DEF Claimed, IdleLoop
<1>5. ASSUME loop'[r].pc \in LoopPC \ {"acquire", "existing", "takeover", "markprev", "cas", "unlock", "delete"},
             loop'[r].now <= clock
      PROVE LocalMove(r)
  BY <1>5 DEF LocalMove, EarlyClaim, LateClaim
<1>6. ASSUME NEW t \in TaskIds, loop'[r] = Claimed(r, t) PROVE LocalMove(r)
  BY <1>0, <1>4, <1>5, <1>6 DEF LoopPC
<1>7. InClaim(r) \/ loop[r].pc \in {"reread", "delete"} => loop[r].task \in TaskIds
  BY <1>0 DEF LocalsOK, At
<1>8. CASE ExpireRead(r) \/ SchedulerRead(r) \/ FindPending(r)
  <2>1. loop'[r].pc \in {"sched", "mark", "claim", "create", "idle", "read"} /\ loop'[r].now <= clock
    <3>1. CASE ExpireRead(r)
      BY <1>0, <3>1 DEF ExpireRead, IdleLoop
    <3>2. CASE SchedulerRead(r)
      BY <1>0, <3>2 DEF SchedulerRead, IdleLoop
    <3>3. CASE FindPending(r)
      BY <1>0, <3>3 DEF FindPending, IdleLoop
    <3> QED
      BY <1>8, <3>1, <3>2, <3>3
  <2> QED
    BY <1>2, <1>3, <1>5, <1>8, <2>1 DEF ExpireRead, SchedulerRead, FindPending, LoopPC
<1>9. CASE ExpireMark(r)
  <2>1. PICK l \in loop[r].stale :
          /\ MarkSystemTaskLeaseExpired(l.task)
          /\ loop' = [loop EXCEPT ![r] = [loop[r] EXCEPT !.pc = "delete", !.task = l.task]]
    BY <1>9 DEF ExpireMark
  <2>2. l.task \in TaskIds
    BY <1>0 DEF LoopState, LockKey
  <2>3. RowsKept \/ RowEnded(l.task)
    BY <1>2, <2>1 DEF MarkSystemTaskLeaseExpired, RowEnded, Terminal
  <2>4. task'[l.task].status # "running"
    <3>1. CASE task[l.task].status = "running"
      <4>1. RowEnded(l.task)
        BY <2>1, <3>1 DEF MarkSystemTaskLeaseExpired, RowEnded, Terminal
      <4> QED
        BY <1>0, <2>2, <4>1 DEF RowEnded, TypeOK, TaskRow, Terminal
    <3>2. CASE task[l.task].status # "running"
      BY <2>1, <3>2 DEF MarkSystemTaskLeaseExpired
    <3> QED
      BY <3>1, <3>2
  <2>5. loop'[r].pc = "delete" /\ loop'[r].now = loop[r].now /\ loop'[r].task = l.task
    BY <1>0, <2>1 DEF LoopState
  <2>6. LocalMove(r)
    BY <1>0, <2>4, <2>5 DEF LocalMove
  <2> QED
    BY <1>3, <1>9, <2>2, <2>3, <2>6 DEF ExpireMark
<1>10. CASE ExpireDelete(r)
  <2>1. PICK l \in loop[r].stale :
          /\ l.task = loop[r].task
          /\ lock' = IF /\ lock[l.type].task = l.task
                        /\ lock[l.type].owner = l.owner
                        /\ lock[l.type].until < loop[r].now
                     THEN [lock EXCEPT ![l.type] = NoLock] ELSE lock
          /\ loop' = [loop EXCEPT ![r] = [loop[r] EXCEPT !.pc = IF loop[r].stale = {l} THEN "sched" ELSE "mark",
                                                         !.task = 0, !.stale = @ \ {l}]]
    BY <1>10 DEF ExpireDelete
  <2>2. loop'[r].pc \in {"sched", "mark"} /\ loop'[r].now = loop[r].now /\ loop[r].pc = "delete"
    BY <1>0, <1>10, <2>1 DEF LoopState, ExpireDelete, At
  <2>3. l.type \in Types /\ l.task \in TaskIds
    BY <1>0 DEF LoopState, LockKey
  <2>4. CASE lock' = lock
    BY <1>0, <1>2, <1>3, <1>5, <1>10, <2>2, <2>4 DEF ExpireDelete, LoopPC
  <2>5. CASE lock' # lock
    <3>1. /\ lock[l.type].task = l.task /\ lock[l.type].owner = l.owner /\ lock[l.type].until < loop[r].now
          /\ lock' = [lock EXCEPT ![l.type] = NoLock]
      BY <2>1, <2>5
    <3>2. lock[l.type].task # 0 /\ task[lock[l.type].task].status # "running"
      BY <2>1, <2>2, <2>3, <3>1, HypFacts DEF Hyp, LeaseInv, MarkedBeforeDelete
    <3>3. ASSUME NEW p \in Runners, loop'[p].pc \in LateClaim PROVE task[loop[p].task].type # l.type
      <4>1. p # r /\ loop[p].pc \in LateClaim
        BY <1>1, <2>2, <3>3 DEF LateClaim
      <4>2. lock[task[loop[p].task].type].until = loop[p].now + TTL /\ clock <= loop[p].now + TTL
        BY <4>1, ClaimantFields
      <4> QED
        BY <1>0, <2>3, <3>1, <4>1, <4>2, HypFacts
    <3>4. FreesLock(l.type)
      BY <1>0, <1>1, <1>10, <2>2, <3>1, <3>2, <3>3 DEF FreesLock, ExpireDelete, EarlyClaim, LateClaim
    <3> QED
      BY <2>3, <3>4, FreeingKeepsLease
  <2> QED
    BY <2>4, <2>5
<1>11. CASE SchedulerCreate(r)
  <2>1. PICK ty \in loop[r].due :
          /\ CreateSystemTask(ty) \/ task' = task
          /\ loop' = [loop EXCEPT ![r] = [loop[r] EXCEPT !.pc = IF loop[r].due = {ty} THEN "claim" ELSE "create",
                                                         !.due = @ \ {ty}]]
    BY <1>11 DEF SchedulerCreate
  <2>2. loop'[r].pc \in {"claim", "create"} /\ loop'[r].now = loop[r].now /\ ty \in Types
    BY <1>0, <2>1 DEF LoopState
  <2>3. RowsKept \/ \E t \in TaskIds : RowInserted(t)
    BY <1>2, <2>1, <2>2 DEF CreateSystemTask, RowInserted
  <2> QED
    BY <1>0, <1>3, <1>5, <1>11, <2>2, <2>3 DEF SchedulerCreate, LoopPC
<1>12. CASE AcquireExisting(r) \/ (AcquireCreate(r) /\ lock' = lock) \/ (AcquireTakeover(r) /\ lock' = lock)
  <2>1. InClaim(r) /\ loop[r].pc \in EarlyClaim
    BY <1>12 DEF InClaim, EarlyClaim, At, AcquireExisting, AcquireCreate, AcquireTakeover
  <2>2. LocalMove(r)
    <3>1. CASE loop'[r] = Claimed(r, loop[r].task)
      BY <1>6, <1>7, <2>1, <3>1
    <3>2. CASE loop'[r].pc \in EarlyClaim /\ loop'[r].task = loop[r].task /\ loop'[r].now = loop[r].now
      BY <2>1, <3>2 DEF LocalMove
    <3>3. ASSUME NEW pc \in EarlyClaim, NEW v, loop' = [loop EXCEPT ![r] = [loop[r] EXCEPT !.pc = pc, !.prev = v]]
          PROVE loop'[r].pc \in EarlyClaim /\ loop'[r].task = loop[r].task /\ loop'[r].now = loop[r].now
      BY <1>0, <3>3 DEF LoopState
    <3>4. ASSUME NEW pc \in EarlyClaim, loop' = [loop EXCEPT ![r] = [loop[r] EXCEPT !.pc = pc]]
          PROVE loop'[r].pc \in EarlyClaim /\ loop'[r].task = loop[r].task /\ loop'[r].now = loop[r].now
      BY <1>0, <3>4 DEF LoopState
    <3>5. CASE AcquireExisting(r)
      BY <1>0, <3>1, <3>2, <3>3, <3>5 DEF AcquireExisting, EarlyClaim
    <3>6. ASSUME NEW t \in TaskIds, NEW ty \in Types
          PROVE [task |-> t, owner |-> r, until |-> loop[r].now + TTL].task # 0
      BY HypFacts
    <3>7. CASE AcquireCreate(r) /\ lock' = lock
      <4>1. lock[task[loop[r].task].type].task # 0
        <5>1. SUFFICES ASSUME lock[task[loop[r].task].type].task = 0 PROVE FALSE
          OBVIOUS
        <5>2. lock'[task[loop[r].task].type] = [task |-> loop[r].task, owner |-> r, until |-> loop[r].now + TTL]
          BY <1>0, <2>1, <3>7, <5>1, HypFacts DEF AcquireCreate, TypeOK
        <5> QED
          BY <1>7, <2>1, <3>6, <3>7, <5>1, <5>2, HypFacts
      <4> QED
        BY <1>0, <3>2, <3>4, <3>7, <4>1 DEF AcquireCreate, EarlyClaim
    <3>8. CASE AcquireTakeover(r) /\ lock' = lock
      <4>1. ~(/\ lock[task[loop[r].task].type].task # 0
              /\ lock[task[loop[r].task].type].until < loop[r].now)
        <5>1. SUFFICES ASSUME lock[task[loop[r].task].type].until < loop[r].now,
                              lock[task[loop[r].task].type].task # 0 PROVE FALSE
          OBVIOUS
        <5>2. lock'[task[loop[r].task].type].until = loop[r].now + TTL
          BY <1>0, <2>1, <3>8, <5>1, HypFacts DEF AcquireTakeover, TypeOK
        <5> QED
          BY <1>0, <2>1, <3>8, <5>1, <5>2, HypFacts
      <4> QED
        BY <1>0, <3>1, <3>8, <4>1 DEF AcquireTakeover
    <3> QED
      BY <1>12, <3>5, <3>7, <3>8
  <2> QED
    BY <1>2, <1>3, <1>12, <2>2 DEF AcquireExisting, AcquireCreate, AcquireTakeover
<1>13. CASE (AcquireCreate(r) \/ AcquireTakeover(r)) /\ lock' # lock
  <2>1. /\ loop[r].pc \in EarlyClaim
        /\ lock[task[loop[r].task].type].task = 0 \/ lock[task[loop[r].task].type].until < loop[r].now
        /\ lock' = [lock EXCEPT ![task[loop[r].task].type] =
                      [task |-> loop[r].task, owner |-> r, until |-> loop[r].now + TTL]]
        /\ UNCHANGED <<clock, task, handler, faults>>
    BY <1>13 DEF AcquireCreate, AcquireTakeover, At, EarlyClaim
  <2>2. loop'[r].pc \in LateClaim /\ loop'[r].task = loop[r].task /\ loop'[r].now = loop[r].now
    <3>1. \E pc \in LateClaim : loop' = [loop EXCEPT ![r] = [loop[r] EXCEPT !.pc = pc]]
      BY <1>13 DEF AcquireCreate, AcquireTakeover, LateClaim
    <3> QED
      BY <1>0, <3>1 DEF LoopState
  <2>3. TakesLock(r)
    BY <1>1, <2>1, <2>2 DEF TakesLock
  <2> QED
    BY <2>3, TakingKeepsLease
<1>14. CASE ClaimRead(r)
  <2>1. PICK t \in loop[r].pend :
          loop' = [loop EXCEPT ![r] = IF task[t].status = "pending"
                                      THEN [loop[r] EXCEPT !.pc = "acquire", !.task = t, !.now = clock]
                                      ELSE Claimed(r, t)]
    BY <1>14 DEF ClaimRead
  <2>2. t \in TaskIds
    BY <1>0
  <2>3. CASE task[t].status = "pending"
    <3>1. loop'[r].pc = "acquire" /\ loop'[r].task = t /\ loop'[r].now = clock
      BY <1>0, <2>1, <2>3 DEF LoopState
    <3> QED
      BY <1>1, <1>14, <2>2, <2>3, <3>1, EnteringKeepsLease DEF ClaimRead
  <2>4. CASE task[t].status # "pending"
    <3>1. loop'[r] = Claimed(r, t)
      BY <1>0, <2>1, <2>4
    <3> QED
      BY <1>2, <1>3, <1>6, <1>14, <2>2, <3>1 DEF ClaimRead
  <2> QED
    BY <2>3, <2>4
<1>15. ASSUME loop[r].pc \in LateClaim, NEW pc \in LateClaim,
              loop' = [loop EXCEPT ![r] = [loop[r] EXCEPT !.pc = pc]]
       PROVE LocalMove(r)
  <2>1. loop'[r].pc = pc /\ loop'[r].task = loop[r].task /\ loop'[r].now = loop[r].now
    BY <1>0, <1>15 DEF LoopState
  <2> QED
    BY <1>15, <2>1 DEF LocalMove
<1>16. CASE ClaimMarkExpired(r)
  <2>1. loop[r].prev \in TaskIds
    BY <1>0, <1>16 DEF ClaimMarkExpired, LocalsOK, At
  <2>2. RowsKept \/ RowEnded(loop[r].prev)
    BY <1>2, <1>16 DEF ClaimMarkExpired, MarkSystemTaskLeaseExpired, RowEnded, Terminal
  <2>3. LocalMove(r)
    BY <1>15, <1>16 DEF ClaimMarkExpired, At, LateClaim
  <2> QED
    BY <1>3, <1>16, <2>1, <2>2, <2>3 DEF ClaimMarkExpired
<1>17. CASE ClaimCAS(r)
  <2>1. CASE task[loop[r].task].status = "pending"
    BY <1>17, <2>1, ClaimingKeepsLease
  <2>2. CASE task[loop[r].task].status # "pending"
    <3>1. LocalMove(r)
      BY <1>15, <1>17, <2>2 DEF ClaimCAS, At, LateClaim
    <3> QED
      BY <1>2, <1>3, <1>17, <2>2, <3>1 DEF ClaimCAS
  <2> QED
    BY <2>1, <2>2
<1>18. CASE ClaimRelease(r)
  <2> DEFINE t == loop[r].task
             ty == task[t].type
  <2>1. loop[r].pc \in LateClaim /\ InClaim(r) /\ t \in TaskIds /\ ty \in Types
    BY <1>18, HypFacts DEF ClaimRelease, At, InClaim, LateClaim
  <2>2. lock[ty].task = t /\ lock[ty].owner = r /\ task[t].status # "running" /\ t # 0
    BY <2>1, ClaimantFields
  <2>3. lock' = [lock EXCEPT ![ty] = NoLock]
    <3>1. \A x \in Types : lock[x].task = t => x = ty
      BY <2>1, <2>2 DEF Hyp, LeaseInv, LockNamesItsType
    <3> QED
      BY <1>0, <1>18, <2>1, <2>2, <3>1 DEF ClaimRelease, ReleaseSystemTaskLock, TypeOK
  <2>4. loop'[r].pc \notin EarlyClaim \cup LateClaim \cup {"delete"} /\ loop'[r].now <= clock
    BY <1>0, <1>4, <1>18, <2>1 DEF ClaimRelease, EarlyClaim, LateClaim
  <2>5. ASSUME NEW p \in Runners, loop'[p].pc \in LateClaim PROVE task[loop[p].task].type # ty
    <3>1. p # r /\ loop[p].pc \in LateClaim
      BY <1>1, <2>4, <2>5
    <3>2. lock[task[loop[p].task].type].owner = p
      BY <3>1, ClaimantFields
    <3> QED
      BY <2>2, <3>1, <3>2
  <2>6. FreesLock(ty)
    BY <1>1, <1>18, <2>2, <2>3, <2>4, <2>5 DEF FreesLock, ClaimRelease
  <2> QED
    BY <2>1, <2>6, FreeingKeepsLease
<1>19. CASE ClaimDispatch(r) \/ Crash(r)
  <2>1. /\ loop'[r].pc \notin EarlyClaim \cup LateClaim \cup {"delete"} /\ loop'[r].now <= clock
        /\ lock' = lock /\ clock' = clock /\ task' = task
        /\ \A p \in Runners : p # r => handler'[p] = handler[p]
        /\ \A u \in TaskIds : handler'[r][u] \in {"run", "none", handler[r][u]}
    <3>1. CASE ClaimDispatch(r)
      BY <1>0, <1>4, <1>7, <3>1 DEF ClaimDispatch, EarlyClaim, LateClaim, At, TypeOK
    <3>2. CASE Crash(r)
      BY <1>0, <3>2 DEF Crash, EarlyClaim, LateClaim, IdleLoop, TypeOK
    <3> QED
      BY <1>19, <3>1, <3>2
  <2>2. RowsWeaken
    BY <1>0, <1>2, <2>1, UnclaimedRowsWeaken
  <2>3. \A p \in Runners : LocalMove(p)
    BY <1>1, <2>1 DEF LocalMove
  <2>4. PassiveStep
    BY <2>1, <2>2, <2>3 DEF PassiveStep
  <2> QED
    BY <1>0, <2>4, PassiveStepKeepsLease
<1>20. CASE StatementFails(r)
  <2>1. LocalMove(r)
    <3>1. CASE loop' = [loop EXCEPT ![r] = [IdleLoop EXCEPT !.pc = "sched"]]
      <4>1. loop'[r].pc = "sched" /\ loop'[r].now = 0
        BY <1>0, <3>1 DEF IdleLoop
      <4> QED
        BY <1>0, <1>5, <4>1 DEF LoopPC
    <3>2. CASE \E t \in TaskIds : loop' = [loop EXCEPT ![r] = Claimed(r, t)]
      <4>1. PICK t \in TaskIds : loop'[r] = Claimed(r, t)
        BY <1>0, <3>2
      <4> QED
        BY <1>6, <4>1
    <3>3. CASE /\ loop[r].pc = "acquire"
               /\ loop' = [loop EXCEPT ![r] = [loop[r] EXCEPT !.pc = "existing"]]
      <4>1. loop'[r].pc = "existing" /\ loop'[r].task = loop[r].task /\ loop'[r].now = loop[r].now
        BY <1>0, <3>3 DEF LoopState
      <4> QED
        BY <3>3, <4>1 DEF LocalMove, EarlyClaim
    <3>4. CASE /\ loop[r].pc \in LateClaim
               /\ loop' = [loop EXCEPT ![r] = [loop[r] EXCEPT !.pc = "unlock"]]
      BY <1>15, <3>4 DEF LateClaim
    <3>5. loop[r].pc \in {"unlock", "reread"} => loop[r].task \in TaskIds
      BY <1>7 DEF InClaim, LateClaim
    <3> QED
      BY <1>0, <1>20, <3>1, <3>2, <3>3, <3>4, <3>5 DEF StatementFails, At, LateClaim
  <2> QED
    BY <1>2, <1>3, <1>20, <2>1 DEF StatementFails
<1> QED
  BY <1>8, <1>9, <1>10, <1>11, <1>12, <1>13, <1>14, <1>16, <1>17, <1>18, <1>19, <1>20 DEF RunnerStep

LEMMA HandlerKeepsLease ==
  ASSUME Hyp, [Next]_vars, NEW r \in Runners, NEW t \in TaskIds,
         HandlerEnd(r, t) \/ Heartbeat(r, t) \/ UpdateSystemTaskState(r, t) \/ HandlerFails(r, t)
  PROVE LeaseInv'
<1>0. TypeOK /\ LocalsOK /\ TypeOK' /\ LocalsOK' /\ LeaseInv
  BY DEF Hyp
<1>1. loop' = loop /\ clock' = clock
  BY DEF HandlerEnd, FinishSystemTask, FinishRelease, Heartbeat, UpdateSystemTaskState, HandlerFails
<1>2. task' = task => RowsKept
  BY <1>0 DEF RowsKept, TypeOK
<1>3. ASSUME NEW x \in {"none", "cancelled", "release"}, handler[r][t] # "none",
             handler' = [handler EXCEPT ![r][t] = x],
             x = "release" => task'[t].status \in Terminal,
             lock' = lock, RowsKept \/ RowEnded(t)
      PROVE LeaseInv'
  <2>1. RowsWeaken
    BY <1>0, <1>3, UnclaimedRowsWeaken
  <2>2. \A p \in Runners, u \in TaskIds :
          \/ handler'[p][u] = handler[p][u]
          \/ p = r /\ u = t /\ handler'[p][u] = x
    BY <1>0, <1>3 DEF TypeOK
  <2>3. PassiveStep
    BY <1>1, <1>3, <2>1, <2>2 DEF PassiveStep, LocalMove
  <2> QED
    BY <1>0, <2>3, PassiveStepKeepsLease
<1>4. CASE UNCHANGED <<lock, handler>> /\ RowsKept
  BY <1>0, <1>1, <1>4, QuietStepKeepsLease DEF LocalMove
<1>5. CASE FinishSystemTask(r, t)
  <2>1. CASE ~Fenced(r, t)
    BY <1>2, <1>3, <1>5, <2>1 DEF FinishSystemTask
  <2>2. CASE Fenced(r, t)
    <3>1. RowEnded(t) /\ handler' = [handler EXCEPT ![r][t] = "release"] /\ lock' = lock
          /\ handler[r][t] # "none"
      BY <1>5, <2>2 DEF FinishSystemTask, RowEnded, Fenced
    <3>2. task'[t].status \in Terminal
      BY <1>0, <3>1 DEF RowEnded, TypeOK, TaskRow, Terminal
    <3> QED
      BY <1>3, <3>1, <3>2
  <2> QED
    BY <2>1, <2>2
<1>6. CASE FinishRelease(r, t)
  <2>1. task[t].status \in Terminal /\ handler[r][t] = "release"
    BY <1>6 DEF FinishRelease, Hyp, LeaseInv, EndedBeforeRelease
  <2>2. CASE \E ty \in Types : lock[ty].task = t /\ lock[ty].owner = r
    <3>1. PICK ty \in Types : lock[ty].task = t /\ lock[ty].owner = r
      BY <2>2
    <3>2. ty = task[t].type /\ t # 0 /\ \A x \in Types : lock[x].task = t => x = ty
      BY <3>1, HypFacts DEF Hyp, LeaseInv, LockNamesItsType
    <3>3. lock' = [lock EXCEPT ![ty] = NoLock]
      BY <1>0, <1>6, <3>1, <3>2 DEF FinishRelease, ReleaseSystemTaskLock, TypeOK
    <3>4. ASSUME NEW p \in Runners, loop[p].pc \in LateClaim PROVE task[loop[p].task].type # ty
      <4>1. SUFFICES ASSUME task[loop[p].task].type = ty PROVE FALSE
        OBVIOUS
      <4>2. loop[p].task = t /\ p = r
        BY <3>1, <3>4, <4>1, ClaimantFields
      <4>3. handler[p][loop[p].task] = "none"
        BY <3>4 DEF Hyp, LeaseInv, ClaimsExist, InClaim
      <4> QED
        BY <2>1, <4>2, <4>3
    <3>5. FreesLock(ty)
      BY <1>0, <1>1, <1>6, <2>1, <3>1, <3>2, <3>3, <3>4 DEF FreesLock, FinishRelease, Terminal, TypeOK
    <3> QED
      BY <3>5, FreeingKeepsLease
  <2>3. CASE ~\E ty \in Types : lock[ty].task = t /\ lock[ty].owner = r
    <3>1. lock' = lock
      BY <1>0, <1>6, <2>3 DEF FinishRelease, ReleaseSystemTaskLock, TypeOK
    <3> QED
      BY <1>2, <1>3, <1>6, <2>1, <3>1 DEF FinishRelease
  <2> QED
    BY <2>2, <2>3
<1>7. CASE Heartbeat(r, t)
  <2>1. CASE handler[r][t] # "none" /\ RenewSystemTaskLock(t, r) /\ handler' = handler
    BY <1>7, <2>1, RenewingKeepsLease DEF Heartbeat
  <2>2. CASE handler[r][t] = "run" /\ handler' = [handler EXCEPT ![r][t] = "cancelled"] /\ lock' = lock
    BY <1>2, <1>3, <1>7, <2>2 DEF Heartbeat
  <2> QED
    BY <1>7, <2>1, <2>2 DEF Heartbeat
<1>8. CASE UpdateSystemTaskState(r, t)
  <2>1. CASE task' = task
    BY <1>2, <1>3, <1>4, <1>8, <2>1 DEF UpdateSystemTaskState
  <2>2. CASE task' # task
    <3>1. task' = [task EXCEPT ![t].updatedAt = clock] /\ task[t].status = "running"
          /\ UNCHANGED <<lock, handler>>
      BY <1>8, <2>2 DEF UpdateSystemTaskState, Fenced
    <3>2. RowsKept
      BY <1>0, <3>1 DEF RowsKept, TypeOK, TaskRow
    <3> QED
      BY <1>4, <3>1, <3>2
  <2> QED
    BY <2>1, <2>2
<1>9. CASE HandlerFails(r, t)
  BY <1>2, <1>3, <1>9 DEF HandlerFails
<1> QED
  BY <1>5, <1>6, <1>7, <1>8, <1>9 DEF HandlerEnd

\* If no claim takes longer than the TTL, every running row is named by the lock
\* row of its type with its own runner as owner, through every crash, failed
\* statement, takeover and stale-lock pass: a dead runner is always noticed.
THEOREM RunningTaskIsLeased == ~ClaimStalls => (Spec => []RunningIsLeased)
<1> SUFFICES ASSUME ~ClaimStalls PROVE Spec => []RunningIsLeased
  OBVIOUS
<1>1. Init => LeaseInv
  <2> SUFFICES ASSUME Init PROVE LeaseInv
    OBVIOUS
  <2>1. \A r \in Runners : loop[r].pc = "idle" /\ loop[r].now = 0
    BY DEF Init, IdleLoop
  <2>2. \A ty \in Types : lock[ty].task = 0
    BY DEF Init, NoLock
  <2>3. \A t \in TaskIds : task[t].status = "absent" /\ \A r \in Runners : handler[r][t] = "none"
    BY DEF Init
  <2>4. clock = 0
    BY DEF Init
  <2> QED
    BY <2>1, <2>2, <2>3, <2>4 DEF LeaseInv, Timely, LockNamesItsType, ClaimsExist, ClaimantHolds,
       NoTakeoverOfRunning, MarkedBeforeDelete, EndedBeforeRelease, RunningIsLeased, InClaim,
       EarlyClaim, LateClaim
<1>2. QueueInv /\ LeaseInv /\ [Next]_vars => LeaseInv'
  <2> SUFFICES ASSUME QueueInv, LeaseInv, [Next]_vars PROVE LeaseInv'
    OBVIOUS
  <2>1. Hyp
    BY TypeIsInductive DEF Hyp, QueueInv
  <2>2. CASE Tick
    BY <2>1, <2>2, TickKeepsLease
  <2>3. ASSUME NEW ty \in Types, EnqueueSystemTask(ty) PROVE LeaseInv'
    <3>1. \E t \in TaskIds : RowInserted(t)
      BY <2>3 DEF EnqueueSystemTask, CreateSystemTask, RowInserted
    <3> QED
      BY <2>1, <2>3, <3>1, QuietStepKeepsLease DEF EnqueueSystemTask, LocalMove, Hyp
  <2>4. CASE UNCHANGED vars
    <3>1. RowsKept
      BY <2>1, <2>4 DEF RowsKept, TypeOK, vars, Hyp
    <3> QED
      BY <2>1, <2>4, <3>1, QuietStepKeepsLease DEF vars, LocalMove, Hyp
  <2> QED
    BY <2>1, <2>2, <2>3, <2>4, RunnerKeepsLease, HandlerKeepsLease DEF Next
<1>3. LeaseInv => RunningIsLeased
  BY DEF LeaseInv
<1> QED
  BY <1>1, <1>2, <1>3, QueueInvIsInductive, PTL DEF Spec
=============================================================================
