------------------------------ MODULE SystemTask ------------------------------
(***************************************************************************)
(* The leased background-task queue of model/system_task.go and            *)
(* service/system_task.go.  Several master nodes share one database.  A    *)
(* task is a row of system_tasks; a unique index on active_key lets one    *)
(* row per type be active; a row of system_task_locks, keyed by type, is   *)
(* the lease under which a runner executes a task.  Every database         *)
(* statement is one step: nothing below runs inside a transaction.         *)
(***************************************************************************)
EXTENDS Naturals, FiniteSets

CONSTANTS
  Types,        \* registered handler types
  Scheduled,    \* the types whose handler is a ScheduledSystemTaskHandler that is enabled
  Runners,      \* runner ids; a restarted node gets a fresh one
  Nobody,       \* the empty locked_by
  TTL,          \* systemTaskLockTTL
  Interval,     \* Interval() of the scheduled handlers
  ClaimStalls,  \* may one ClaimSystemTask take longer than the TTL?
  MaxTasks,     \* bound: rows ever inserted
  MaxClock,     \* bound: ticks of the clock
  MaxFaults     \* bound: crashes and failed database statements

ASSUME ConstantsAssumption ==
  /\ Types # {}
  /\ Scheduled \subseteq Types
  /\ Nobody \notin Runners
  /\ TTL \in Nat \ {0}
  /\ Interval \in Nat
  /\ ClaimStalls \in BOOLEAN
  /\ MaxTasks \in Nat
  /\ MaxClock \in Nat
  /\ MaxFaults \in Nat

VARIABLES
  clock,    \* common.GetTimestamp(), the same on every node
  task,     \* table system_tasks by id; an id not yet inserted is "absent"
  lock,     \* table system_task_locks by type; task = 0 where there is no row
  loop,     \* the local state of each runner's goroutine
  handler,  \* the goroutine of handler.Run, for each runner and task
  faults    \* crashes and failed statements so far

vars == <<clock, task, lock, loop, handler, faults>>

TaskIds == 1..MaxTasks
Active == {"pending", "running"}
Terminal == {"succeeded", "failed"}
NoLock == [task |-> 0, owner |-> Nobody, until |-> 0]

TaskRow == [type : Types, status : {"absent"} \cup Active \cup Terminal,
            activeKey : BOOLEAN, lockedBy : Runners \cup {Nobody}, updatedAt : Nat]
LockRow == [task : {0} \cup TaskIds, owner : Runners \cup {Nobody}, until : Nat]
LockKey == [type : Types, task : TaskIds, owner : Runners]

\* Program counters of the runner goroutine: which statement runs next.
LoopPC == {"idle", "mark", "delete", "sched", "create", "claim", "read", "acquire",
           "existing", "takeover", "markprev", "cas", "unlock", "reread", "down"}
LoopState == [pc : LoopPC, now : Nat, stale : SUBSET LockKey, due : SUBSET Types,
              pend : SUBSET TaskIds, task : {0} \cup TaskIds, prev : {0} \cup TaskIds]
IdleLoop == [pc |-> "idle", now |-> 0, stale |-> {}, due |-> {},
             pend |-> {}, task |-> 0, prev |-> 0]

\* A handler goroutine: "run" with a live context, "cancelled" once the
\* heartbeat cancelled it, "release" between the two statements of Finish.
HandlerState == {"none", "run", "cancelled", "release"}

Init ==
  /\ clock = 0
  /\ task = [t \in TaskIds |-> [type |-> CHOOSE ty \in Types : TRUE, status |-> "absent",
                                activeKey |-> FALSE, lockedBy |-> Nobody, updatedAt |-> 0]]
  /\ lock = [ty \in Types |-> NoLock]
  /\ loop = [r \in Runners |-> IdleLoop]
  /\ handler = [r \in Runners |-> [t \in TaskIds |-> "none"]]
  /\ faults = 0

-----------------------------------------------------------------------------
(* The database statements. *)

OfType(ty) == {t \in TaskIds : task[t].status # "absent" /\ task[t].type = ty}

\* Ids are assigned in order: the next one is the least never used.
FreshId(t) == /\ task[t].status = "absent"
              /\ \A u \in TaskIds : task[u].status = "absent" => t <= u

\* Mutant: the index on active_key is not unique.
ActiveKeyNotUnique(ty) == TRUE

\* The unique index on active_key rejects a second active row of a type.
ActiveKeyFree(ty) == \A t \in OfType(ty) : ~task[t].activeKey

\* CreateSystemTask: INSERT a pending row that holds the active key.
CreateSystemTask(ty) ==
  \E t \in TaskIds :
    /\ FreshId(t)
    /\ ActiveKeyFree(ty)
    /\ task' = [task EXCEPT ![t] = [type |-> ty, status |-> "pending", activeKey |-> TRUE,
                                    lockedBy |-> Nobody, updatedAt |-> clock]]

\* The insert fails on the index, or the model has used up its rows.
CreateRefused(ty) == ~ActiveKeyFree(ty) \/ \A t \in TaskIds : task[t].status # "absent"

\* Mutant: the update is not restricted to running rows.
MarkExpiredAnyStatus(t) ==
  task' = [task EXCEPT ![t].status = "failed", ![t].activeKey = FALSE, ![t].updatedAt = clock]

\* MarkSystemTaskLeaseExpired: only a running row is failed.
MarkSystemTaskLeaseExpired(t) ==
  task' = IF task[t].status = "running"
          THEN [task EXCEPT ![t].status = "failed", ![t].activeKey = FALSE,
                            ![t].updatedAt = clock]
          ELSE task

\* ReleaseSystemTaskLock: delete the lock row of this task and runner.
ReleaseSystemTaskLock(t, r) ==
  lock' = [ty \in Types |-> IF lock[ty].task = t /\ lock[ty].owner = r THEN NoLock ELSE lock[ty]]

\* The EXISTS clause of the fenced updates: r holds an unexpired lease on t.
HoldsLease(r, t) ==
  \E ty \in Types : lock[ty].task = t /\ lock[ty].owner = r /\ lock[ty].until >= clock

\* The WHERE clause of UpdateSystemTaskState and FinishSystemTask.
Fenced(r, t) == task[t].status = "running" /\ task[t].lockedBy = r /\ HoldsLease(r, t)

\* RenewSystemTaskLock, when a row matches.
RenewSystemTaskLock(t, r) ==
  lock' = [ty \in Types |-> IF lock[ty].task = t /\ lock[ty].owner = r /\ lock[ty].until >= clock
                            THEN [lock[ty] EXCEPT !.until = clock + TTL] ELSE lock[ty]]

-----------------------------------------------------------------------------
(* The runner goroutine: runPass = expire stale locks, schedule, claim; the *)
(* first two are throttled, so a pass may begin with any of the three.      *)

Goto(r, state) == loop' = [loop EXCEPT ![r] = state]
At(r, pcs) == loop[r].pc \in pcs

\* Mutant: the pass finds no stale lock.
ExpireFindsNone(r) ==
  /\ At(r, {"idle"})
  /\ Goto(r, [IdleLoop EXCEPT !.pc = "sched", !.now = clock])
  /\ UNCHANGED <<clock, task, lock, handler, faults>>

\* ExpireStaleSystemTaskLocks, the query.
ExpireRead(r) ==
  LET found == {[type |-> ty, task |-> lock[ty].task, owner |-> lock[ty].owner] :
                  ty \in {x \in Types : lock[x].task # 0 /\ lock[x].until < clock}}
  IN /\ At(r, {"idle"})
     /\ Goto(r, [IdleLoop EXCEPT !.pc = IF found = {} THEN "sched" ELSE "mark",
                                 !.now = clock, !.stale = found])
     /\ UNCHANGED <<clock, task, lock, handler, faults>>

\* Mutant: the lock is deleted without failing its task.
ExpireSkipsMark(r) ==
  /\ At(r, {"mark"})
  /\ \E l \in loop[r].stale : Goto(r, [loop[r] EXCEPT !.pc = "delete", !.task = l.task])
  /\ UNCHANGED <<clock, task, lock, handler, faults>>

\* The body of its loop: fail the task of a stale lock ...
ExpireMark(r) ==
  /\ At(r, {"mark"})
  /\ \E l \in loop[r].stale :
       /\ MarkSystemTaskLeaseExpired(l.task)
       /\ Goto(r, [loop[r] EXCEPT !.pc = "delete", !.task = l.task])
  /\ UNCHANGED <<clock, lock, handler, faults>>

\* ... then delete the lock, if it is still the row that was read.
ExpireDelete(r) ==
  /\ At(r, {"delete"})
  /\ \E l \in loop[r].stale :
       /\ l.task = loop[r].task
       /\ lock' = IF /\ lock[l.type].task = l.task
                     /\ lock[l.type].owner = l.owner
                     /\ lock[l.type].until < loop[r].now
                  THEN [lock EXCEPT ![l.type] = NoLock] ELSE lock
       /\ Goto(r, [loop[r] EXCEPT !.pc = IF loop[r].stale = {l} THEN "sched" ELSE "mark",
                                  !.task = 0, !.stale = @ \ {l}])
  /\ UNCHANGED <<clock, task, handler, faults>>

\* GetLatestSystemTasks, filtered to the types that are due.
Latest(ty, t) == t \in OfType(ty) /\ \A u \in OfType(ty) : u <= t
Due(ty) == \A t \in TaskIds : Latest(ty, t) =>
             /\ task[t].status \notin Active
             /\ clock >= task[t].updatedAt + Interval

SchedulerRead(r) ==
  LET found == {ty \in Scheduled : Due(ty)}
  IN /\ At(r, {"idle", "sched"})
     /\ Goto(r, [IdleLoop EXCEPT !.pc = IF found = {} THEN "claim" ELSE "create", !.due = found])
     /\ UNCHANGED <<clock, task, lock, handler, faults>>

\* runSystemTaskScheduler inserts a row for each due type; a refused insert is skipped.
SchedulerCreate(r) ==
  /\ At(r, {"create"})
  /\ \E ty \in loop[r].due :
       /\ \/ CreateSystemTask(ty)
          \/ CreateRefused(ty) /\ UNCHANGED task
       /\ Goto(r, [loop[r] EXCEPT !.pc = IF loop[r].due = {ty} THEN "claim" ELSE "create",
                                  !.due = @ \ {ty}])
  /\ UNCHANGED <<clock, lock, handler, faults>>

\* FindEarliestPendingSystemTasks: the least pending id of each type.
EarliestPending(t) ==
  /\ task[t].status = "pending"
  /\ \A u \in OfType(task[t].type) : task[u].status = "pending" => t <= u

FindPending(r) ==
  LET found == {t \in TaskIds : EarliestPending(t)}
  IN /\ At(r, {"idle", "sched", "claim"})
     /\ Goto(r, [IdleLoop EXCEPT !.pc = IF found = {} THEN "idle" ELSE "read", !.pend = found])
     /\ UNCHANGED <<clock, task, lock, handler, faults>>

\* The claim of task t is over: go on with the next handler type.
Claimed(r, t) == IF loop[r].pend \subseteq {t} THEN IdleLoop
                 ELSE [IdleLoop EXCEPT !.pc = "read", !.pend = loop[r].pend \ {t}]

\* ClaimSystemTask: re-read the row, and take the timestamp the rest of it uses.
ClaimRead(r) ==
  /\ At(r, {"read"})
  /\ \E t \in loop[r].pend :
       Goto(r, IF task[t].status = "pending"
               THEN [loop[r] EXCEPT !.pc = "acquire", !.task = t, !.now = clock]
               ELSE Claimed(r, t))
  /\ UNCHANGED <<clock, task, lock, handler, faults>>

\* acquireSystemTaskLock: insert the lock row, or find that it exists ...
AcquireCreate(r) ==
  LET t == loop[r].task
      ty == task[t].type
  IN /\ At(r, {"acquire"})
     /\ IF lock[ty].task = 0
        THEN /\ lock' = [lock EXCEPT ![ty] = [task |-> t, owner |-> r, until |-> loop[r].now + TTL]]
             /\ Goto(r, [loop[r] EXCEPT !.pc = "cas"])
        ELSE /\ UNCHANGED lock
             /\ Goto(r, [loop[r] EXCEPT !.pc = "existing"])
     /\ UNCHANGED <<clock, task, handler, faults>>

\* ... read the existing row: gone or unexpired means not acquired ...
AcquireExisting(r) ==
  LET t == loop[r].task
      l == lock[task[t].type]
  IN /\ At(r, {"existing"})
     /\ Goto(r, IF l.task = 0 \/ l.until >= loop[r].now THEN Claimed(r, t)
                ELSE [loop[r] EXCEPT !.pc = "takeover", !.prev = l.task])
     /\ UNCHANGED <<clock, task, lock, handler, faults>>

\* Mutant: the update does not repeat the test of locked_until.
TakeoverUnconditionally(r) ==
  LET t == loop[r].task
      ty == task[t].type
  IN /\ At(r, {"takeover"})
     /\ lock' = [lock EXCEPT ![ty] = [task |-> t, owner |-> r, until |-> loop[r].now + TTL]]
     /\ Goto(r, [loop[r] EXCEPT !.pc = IF loop[r].prev # t THEN "markprev" ELSE "cas"])
     /\ UNCHANGED <<clock, task, handler, faults>>

\* ... and take an expired row over, if it is still expired.
AcquireTakeover(r) ==
  LET t == loop[r].task
      ty == task[t].type
  IN /\ At(r, {"takeover"})
     /\ IF lock[ty].task # 0 /\ lock[ty].until < loop[r].now
        THEN /\ lock' = [lock EXCEPT ![ty] = [task |-> t, owner |-> r, until |-> loop[r].now + TTL]]
             /\ Goto(r, [loop[r] EXCEPT !.pc = IF loop[r].prev # t THEN "markprev" ELSE "cas"])
        ELSE /\ UNCHANGED lock
             /\ Goto(r, Claimed(r, t))
     /\ UNCHANGED <<clock, task, handler, faults>>

\* The task of the lease taken over is failed if it still runs.
ClaimMarkExpired(r) ==
  /\ At(r, {"markprev"})
  /\ MarkSystemTaskLeaseExpired(loop[r].prev)
  /\ Goto(r, [loop[r] EXCEPT !.pc = "cas"])
  /\ UNCHANGED <<clock, lock, handler, faults>>

\* Mutant: the update does not repeat the test of the status.
ClaimWithoutCAS(r) ==
  LET t == loop[r].task
  IN /\ At(r, {"cas"})
     /\ task' = [task EXCEPT ![t].status = "running", ![t].lockedBy = r, ![t].updatedAt = loop[r].now]
     /\ Goto(r, [loop[r] EXCEPT !.pc = "reread"])
     /\ UNCHANGED <<clock, lock, handler, faults>>

\* Mutant: whether the update affected a row is not asked.
ClaimIgnoresLoss(r) ==
  LET t == loop[r].task
  IN /\ At(r, {"cas"})
     /\ task' = IF task[t].status = "pending"
                THEN [task EXCEPT ![t].status = "running", ![t].lockedBy = r,
                                  ![t].updatedAt = loop[r].now]
                ELSE task
     /\ Goto(r, [loop[r] EXCEPT !.pc = "reread"])
     /\ UNCHANGED <<clock, lock, handler, faults>>

\* The conditional update pending -> running; no row affected releases the lock.
ClaimCAS(r) ==
  LET t == loop[r].task
  IN /\ At(r, {"cas"})
     /\ IF task[t].status = "pending"
        THEN /\ task' = [task EXCEPT ![t].status = "running", ![t].lockedBy = r,
                                     ![t].updatedAt = loop[r].now]
             /\ Goto(r, [loop[r] EXCEPT !.pc = "reread"])
        ELSE /\ UNCHANGED task
             /\ Goto(r, [loop[r] EXCEPT !.pc = "unlock"])
     /\ UNCHANGED <<clock, lock, handler, faults>>

ClaimRelease(r) ==
  /\ At(r, {"unlock"})
  /\ ReleaseSystemTaskLock(loop[r].task, r)
  /\ Goto(r, Claimed(r, loop[r].task))
  /\ UNCHANGED <<clock, task, handler, faults>>

\* The row is read back and the handler dispatched in its own goroutine.
ClaimDispatch(r) ==
  /\ At(r, {"reread"})
  /\ handler' = [handler EXCEPT ![r][loop[r].task] = "run"]
  /\ Goto(r, Claimed(r, loop[r].task))
  /\ UNCHANGED <<clock, task, lock, faults>>

-----------------------------------------------------------------------------
(* The handler goroutine and its heartbeat. *)

\* runWithLeaseHeartbeat: renew, or cancel the handler's context for good.
Heartbeat(r, t) ==
  /\ \/ /\ handler[r][t] \in {"run", "release"}
        /\ HoldsLease(r, t)
        /\ RenewSystemTaskLock(t, r)
        /\ UNCHANGED handler
     \/ /\ handler[r][t] = "run"
        /\ ~HoldsLease(r, t)
        /\ handler' = [handler EXCEPT ![r][t] = "cancelled"]
        /\ UNCHANGED lock
  /\ UNCHANGED <<clock, task, loop, faults>>

\* UpdateSystemTaskState: on a lost lease the log cleanup handler returns, the
\* progress reporter of the others ignores the error.
UpdateSystemTaskState(r, t) ==
  /\ handler[r][t] \in {"run", "cancelled"}
  /\ \/ /\ Fenced(r, t)
        /\ task' = [task EXCEPT ![t].updatedAt = clock]
        /\ UNCHANGED handler
     \/ /\ ~Fenced(r, t)
        /\ handler' = [handler EXCEPT ![r][t] = "none"]
        /\ UNCHANGED task
  /\ UNCHANGED <<clock, lock, loop, faults>>

\* FinishSystemTask: the fenced update to a terminal status ...
FinishSystemTask(r, t) ==
  /\ handler[r][t] \in {"run", "cancelled"}
  /\ \/ /\ Fenced(r, t)
        /\ \E s \in Terminal :
             task' = [task EXCEPT ![t].status = s, ![t].activeKey = FALSE, ![t].updatedAt = clock]
        /\ handler' = [handler EXCEPT ![r][t] = "release"]
     \/ /\ ~Fenced(r, t)
        /\ handler' = [handler EXCEPT ![r][t] = "none"]
        /\ UNCHANGED task
  /\ UNCHANGED <<clock, lock, loop, faults>>

\* ... and the release of the lock as a second statement.
FinishRelease(r, t) ==
  /\ handler[r][t] = "release"
  /\ ReleaseSystemTaskLock(t, r)
  /\ handler' = [handler EXCEPT ![r][t] = "none"]
  /\ UNCHANGED <<clock, task, loop, faults>>

-----------------------------------------------------------------------------
(* The API, the clock and the faults. *)

\* EnqueueSystemTask and StartLogCleanupTask: an active row of the type is
\* returned as it is; otherwise a row is inserted, unless the index refuses it.
EnqueueSystemTask(ty) ==
  /\ CreateSystemTask(ty)
  /\ UNCHANGED <<clock, lock, loop, handler, faults>>

\* The statements of a claim after it read its timestamp: without and with the lock.
EarlyClaim == {"acquire", "existing", "takeover"}
LateClaim == {"markprev", "cas", "unlock"}
InClaim(r) == loop[r].pc \in EarlyClaim \cup LateClaim

Tick ==
  /\ clock < MaxClock
  /\ ClaimStalls \/ \A r \in Runners : InClaim(r) => clock < loop[r].now + TTL
  /\ clock' = clock + 1
  /\ UNCHANGED <<task, lock, loop, handler, faults>>

\* Faults come early enough for the bounded clock to reach the end of a lease.
FaultBudget == faults < MaxFaults /\ clock + TTL < MaxClock

\* A node dies; a restarted process has a new runner id.
Crash(r) ==
  /\ FaultBudget
  /\ loop[r].pc # "down"
  /\ Goto(r, [IdleLoop EXCEPT !.pc = "down"])
  /\ handler' = [handler EXCEPT ![r] = [t \in TaskIds |-> "none"]]
  /\ faults' = faults + 1
  /\ UNCHANGED <<clock, task, lock>>

\* A statement of the runner fails: what the error path of each caller does.
StatementFails(r) ==
  /\ FaultBudget
  /\ faults' = faults + 1
  /\ \/ /\ At(r, {"mark", "delete"})                    \* ExpireStaleSystemTaskLocks returns
        /\ Goto(r, [IdleLoop EXCEPT !.pc = "sched"])
     \/ /\ At(r, {"acquire"})                          \* any insert error looks like a conflict
        /\ Goto(r, [loop[r] EXCEPT !.pc = "existing"])
     \/ /\ At(r, {"read", "existing", "takeover"})       \* not acquired
        /\ \E t \in loop[r].pend : (~At(r, {"read"}) => t = loop[r].task) /\ Goto(r, Claimed(r, t))
     \/ /\ At(r, {"markprev", "cas"})                   \* the lock is released
        /\ Goto(r, [loop[r] EXCEPT !.pc = "unlock"])
     \/ /\ At(r, {"unlock", "reread"})                  \* the lock row stays behind
        /\ Goto(r, Claimed(r, loop[r].task))
  /\ UNCHANGED <<clock, task, lock, handler>>

\* A handler ends without its Finish taking effect: it panics, or its own
\* statement or its heartbeat's fails; in "release" the lock row stays behind.
HandlerFails(r, t) ==
  /\ FaultBudget
  /\ handler[r][t] # "none"
  /\ handler' = [handler EXCEPT ![r][t] = "none"]
  /\ faults' = faults + 1
  /\ UNCHANGED <<clock, task, lock, loop>>

RunnerStep(r) ==
  \/ ExpireMark(r) \/ ExpireDelete(r) \/ SchedulerCreate(r)
  \/ FindPending(r) \/ ClaimRead(r)
  \/ AcquireCreate(r) \/ AcquireExisting(r) \/ AcquireTakeover(r) \/ ClaimMarkExpired(r)
  \/ ClaimCAS(r) \/ ClaimRelease(r) \/ ClaimDispatch(r)

HandlerEnd(r, t) == FinishSystemTask(r, t) \/ FinishRelease(r, t)

Next ==
  \/ \E r \in Runners : ExpireRead(r) \/ SchedulerRead(r) \/ RunnerStep(r) \/ Crash(r) \/ StatementFails(r)
  \/ \E r \in Runners, t \in TaskIds :
       \/ HandlerEnd(r, t) \/ Heartbeat(r, t) \/ UpdateSystemTaskState(r, t) \/ HandlerFails(r, t)
  \/ \E ty \in Types : EnqueueSystemTask(ty)
  \/ Tick

\* Goroutines are scheduled, a handler returns, time passes, and the throttles
\* of runPass let the stale-lock pass run again and again.
Fairness ==
  /\ WF_vars(Tick)
  /\ \A r \in Runners : WF_vars(RunnerStep(r)) /\ SF_vars(ExpireRead(r))
  /\ \A r \in Runners, t \in TaskIds : WF_vars(HandlerEnd(r, t))

Spec == Init /\ [][Next]_vars
FairSpec == Spec /\ Fairness

-----------------------------------------------------------------------------
(* Properties. *)

\* The tables and the goroutines' local states keep their types.
TypeOK ==
  /\ clock \in Nat
  /\ task \in [TaskIds -> TaskRow]
  /\ lock \in [Types -> LockRow]
  /\ loop \in [Runners -> LoopState]
  /\ handler \in [Runners -> [TaskIds -> HandlerState]]
  /\ faults \in Nat

\* The runner is executing task t, or is about to dispatch its handler.
Executes(r, t) == handler[r][t] # "none" \/ (loop[r].pc = "reread" /\ loop[r].task = t)

\* However the schedulers, the API and the claims of all nodes interleave, a
\* type has at most one pending or running row, and it is the newest row of
\* the type: the scheduler decides from the newest row alone.
OneActivePerType ==
  \A t, u \in TaskIds :
    /\ task[t].status \in Active
    /\ task[u].status # "absent"
    /\ task[u].type = task[t].type
    => u <= t /\ (u # t => task[u].status \in Terminal)

\* A task is executed by at most one runner, the one its row names, even when
\* leases expire and are taken over in the middle of a claim.
OneExecutor ==
  \A r \in Runners, t \in TaskIds : Executes(r, t) =>
    /\ task[t].lockedBy = r
    /\ task[t].status \notin {"absent", "pending"}

\* A task that finished never changes again, and a row that was claimed never
\* returns to pending: no task runs twice.
NoTaskRunsTwice ==
  [][\A t \in TaskIds :
       /\ task[t].status \in Terminal => task'[t] = task[t]
       /\ task[t].status = "running" =>
            task'[t].status \notin {"absent", "pending"} /\ task'[t].lockedBy = task[t].lockedBy]_vars

\* A running row is always named by the lock row of its type, with its runner
\* as the owner: that row is the only thing through which a dead runner is noticed.
RunningIsLeased ==
  \A t \in TaskIds : task[t].status = "running" =>
    /\ lock[task[t].type].task = t
    /\ lock[task[t].type].owner = task[t].lockedBy

\* An unexpired lease changes hands or disappears only by its own runner's step.
LeaseIsRespected ==
  [][\A ty \in Types :
       /\ lock[ty].task # 0
       /\ lock[ty].until >= clock
       /\ <<lock'[ty].task, lock'[ty].owner>> # <<lock[ty].task, lock[ty].owner>>
       => \/ loop'[lock[ty].owner] # loop[lock[ty].owner]
          \/ handler'[lock[ty].owner] # handler[lock[ty].owner]]_vars

\* The rows as a board of jobs: the active rows of each type, and what ended.
OpenRows == [ty \in Types |-> {t \in TaskIds : task[t].type = ty /\ task[t].status \in Active}]
RowWorkers == [t \in TaskIds |-> task[t].lockedBy]
RowResults == [t \in TaskIds |-> IF task[t].status \in Terminal THEN task[t].status ELSE "none"]

Board == INSTANCE JobQueue WITH
  Jobs <- TaskIds, Workers <- Runners, open <- OpenRows, worker <- RowWorkers, result <- RowResults

\* Seen through its rows, the queue of several nodes is that board: a job is
\* submitted only while no other of its type is open, taken once, and ended
\* once and only after it was taken, whatever the leases, clocks and faults do.
ImplementsJobQueue == Board!BoardSpec

\* Every row that becomes active reaches a terminal status: no type is blocked
\* for ever, whatever crashes (the TTL "is a crash-detection window").
EveryTaskEnds == \A t \in TaskIds : (task[t].status \in Active) ~> (task[t].status \in Terminal)
=============================================================================
