---------------------------- MODULE TaskPolling ----------------------------
(***************************************************************************)
(* The life of one asynchronous (Suno or video) task after its submission: *)
(* the polling pass (service/task_polling.go) with its timeout sweep, the  *)
(* refund or settlement of the quota taken at submission                   *)
(* (service/task_billing.go), and a user's own query, which for Gemini and *)
(* Vertex channels asks the upstream (relay/relay_task.go).  Tasks share   *)
(* no state, so one is followed.                                           *)
(*                                                                         *)
(* The system-task queue runs one pass at a time, but a runner that lost   *)
(* its lease goes on until it next looks at its context: several pollers   *)
(* may overlap.  Each database statement is a step; it may fail without    *)
(* effect, and a poller may die between two of them.  `paid' is what the   *)
(* task has cost the funding source and the token so far.                  *)
(***************************************************************************)
EXTENDS Integers

CONSTANTS
    Poller, Fetcher,    \* passes that may overlap; users' queries
    Tasks,              \* tasks that occur
    Quota,              \* task.Quota, taken at submission
    Actuals,            \* final quotas the settlement may find; 0: keep
    MaxFaults           \* bound: failed statements and deaths

\* realtime: a video task of a Gemini or Vertex channel; legacy: isLegacy; odd: the
\* upstream may report a progress that does not fit the status, or a fail reason
\* without FAILURE; lost: its channel may be missing from the cache.  Two settings of
\* the deployment go with it: sweeps (TaskTimeoutMinutes > 0) and bounded
\* (RELAY_TIMEOUT > 0; by default 0, and then the HTTP client has no timeout).
Task == [kind : {"suno", "video", "realtime"}, legacy : BOOLEAN, odd : BOOLEAN, lost : BOOLEAN,
         sweeps : BOOLEAN, bounded : BOOLEAN]

ASSUME TaskAssumption ==
    /\ Quota \in Nat \ {0} /\ Actuals \subseteq Nat /\ MaxFaults \in Nat
    /\ Tasks \subseteq Task
    /\ Poller \cap Fetcher = {}

Status == {"NOT_START", "QUEUED", "IN_PROGRESS", "SUCCESS", "FAILURE"}
Row == [status : Status, full : BOOLEAN]    \* full: Progress = "100%"

VARIABLES row,      \* the task in the database
          task,     \* what does not change of it, and the settings
          late,     \* older than TaskTimeoutMinutes
          up,       \* the task's status at the upstream
          paid, w, faults

vars == <<row, task, late, up, paid, w, faults>>

Idle == [pc |-> "idle", seen |-> [status |-> "NOT_START", full |-> FALSE],
         new |-> [status |-> "NOT_START", full |-> FALSE],
         failed |-> FALSE, delta |-> 0, next |-> "idle"]

Init ==
    /\ row = [status |-> "NOT_START", full |-> FALSE]
    /\ task \in Tasks /\ late = FALSE
    /\ up = "QUEUED"
    /\ paid = [fund |-> Quota, token |-> Quota]
    /\ w = [x \in Poller \cup Fetcher |-> Idle]
    /\ faults = 0

-----------------------------------------------------------------------------
Final(st) == st \in {"SUCCESS", "FAILURE"}

\* The rows GetAllUnFinishSyncTasks and GetTimedOutUnfinishedTasks select.
Unfinished == ~row.full /\ ~Final(row.status)

At(x, p) == w[x].pc = p
Becomes(x, rec) == w' = [w EXCEPT ![x] = rec]
Goto(x, p) == Becomes(x, [w[x] EXCEPT !.pc = p])
Stops(x) == Becomes(x, Idle)

Outcome == {"ok"} \cup {o \in {"failed"} : faults < MaxFaults}
Counts(o) == faults' = IF o = "ok" THEN faults ELSE faults + 1
NoStatement == UNCHANGED <<row, paid, faults>>

BlindUpdate(x) == TRUE      \* mutant: the write is not conditional

\* Task.UpdateWithStatus: the whole row, if the status is still the one seen.
Wins(x) == row.status = w[x].seen.status

UpdateWithStatus(x, o) ==
    /\ row' = IF o = "ok" /\ Wins(x) THEN w[x].new ELSE row
    /\ Counts(o) /\ UNCHANGED paid
Won(x, o) == o = "ok" /\ Wins(x)

-----------------------------------------------------------------------------
(* The pass: sweepTimedOutTasks, then the unfinished tasks *)

\* Mutant: nothing is swept.
SweepNothing(p) ==
    /\ At(p, "idle") /\ Unfinished
    /\ Becomes(p, [Idle EXCEPT !.pc = "swept"]) /\ NoStatement

SweepLoad(p) ==
    /\ At(p, "idle") /\ Unfinished
    /\ IF task.sweeps /\ late
         THEN Becomes(p, [Idle EXCEPT !.pc = "sweep", !.seen = row,
                            !.new = [status |-> "FAILURE", full |-> TRUE]])
         ELSE Becomes(p, [Idle EXCEPT !.pc = "swept"])
    /\ NoStatement

Bill(p, d, next) == Becomes(p, [w[p] EXCEPT !.delta = d, !.next = next, !.pc = "fund"])

\* Mutant: a timed-out task keeps its quota.
SweepWithoutRefund(p) ==
    /\ At(p, "sweep")
    /\ \E o \in Outcome : UpdateWithStatus(p, o)
    /\ Goto(p, "swept")

SweepUpdate(p) ==
    /\ At(p, "sweep")
    /\ \E o \in Outcome :
         /\ UpdateWithStatus(p, o)
         /\ IF Won(p, o) /\ ~task.legacy THEN Bill(p, -Quota, "swept") ELSE Goto(p, "swept")

Load(p) ==
    /\ At(p, "swept")
    /\ Becomes(p, IF Unfinished THEN [Idle EXCEPT !.pc = "loaded", !.seen = row] ELSE Idle)
    /\ NoStatement

\* The context is looked at before each task and, for Suno, before each answer.
Cancelled(p) ==
    /\ At(p, "loaded") \/ At(p, "answered")
    /\ Stops(p) /\ NoStatement

\* CacheGetChannel failed: TaskBulkUpdateByID, unconditional and without refund.
ChannelMissing(p) ==
    /\ At(p, "loaded") /\ task.lost
    /\ \E o \in Outcome :
         /\ row' = IF o = "ok" THEN [status |-> "FAILURE", full |-> TRUE] ELSE row
         /\ Counts(o) /\ UNCHANGED paid
    /\ Stops(p)

\* The upstream does not answer, or with 429, or with what cannot be parsed.
FetchFails(p) == At(p, "loaded") /\ Stops(p) /\ NoStatement

(* updateSunoTasks: refund first, then save without looking *)

FetchSuno(p) ==
    /\ At(p, "loaded") /\ task.kind = "suno"
    /\ \E st \in {up} \cup {x \in {w[p].seen.status} : task.odd /\ up = "FAILURE"} :
         Becomes(p, [w[p] EXCEPT !.pc = "answered", !.failed = (up = "FAILURE"),
                       !.new = [status |-> st, full |-> @.full]])
    /\ NoStatement

\* taskNeedsUpdate is false: nothing in the answer is new.
SunoUnchanged(p) ==
    /\ At(p, "answered")
    /\ w[p].new.status = w[p].seen.status /\ ~w[p].failed
    /\ Stops(p) /\ NoStatement

SunoApply(p) ==
    LET failed == w[p].failed \/ w[p].new.status = "FAILURE"
        x == [w[p] EXCEPT !.new.full = (failed \/ w[p].new.status = "SUCCESS"), !.pc = "save"]
    IN  /\ At(p, "answered")
        /\ Becomes(p, IF failed THEN [x EXCEPT !.delta = -Quota, !.next = "save", !.pc = "fund"]
                      ELSE x)
        /\ NoStatement

SunoSave(p) ==
    /\ At(p, "save")
    /\ \E o \in Outcome : row' = (IF o = "ok" THEN w[p].new ELSE row) /\ Counts(o)
    /\ Stops(p) /\ UNCHANGED paid

(* updateVideoSingleTask *)

\* An answer with no status that is not a 429 counts as a failure.
FetchVideo(p) ==
    /\ At(p, "loaded") /\ task.kind # "suno"
    /\ \E st \in {up, "FAILURE"}, odd \in {FALSE, task.odd} :
         Becomes(p, [w[p] EXCEPT !.pc = "update",
                       !.new = [status |-> st, full |-> st = "FAILURE" \/ Final(st) # odd]])
    /\ NoStatement

\* settleTaskBillingOnComplete: per-call tasks, and those nobody recalculates,
\* keep their quota.
settleTaskBillingOnComplete(p) ==
    \E a \in Actuals : IF a \in {0, Quota} THEN Stops(p) ELSE Bill(p, a - Quota, "idle")

\* Mutant: whoever sees the end bills it.
VideoBillsAnyway(p) ==
    /\ At(p, "update")
    /\ \E o \in Outcome :
         /\ UpdateWithStatus(p, o)
         /\ \/ ~Final(w[p].new.status) /\ Stops(p)
            \/ w[p].new.status = "SUCCESS" /\ settleTaskBillingOnComplete(p)
            \/ w[p].new.status = "FAILURE" /\ Bill(p, -Quota, "idle")

VideoUpdate(p) ==
    /\ At(p, "update")
    /\ \E o \in Outcome :
         /\ UpdateWithStatus(p, o)
         /\ \/ ~(Won(p, o) /\ Final(w[p].new.status)) /\ Stops(p)
            \/ /\ Won(p, o) /\ w[p].new.status = "SUCCESS"
               /\ settleTaskBillingOnComplete(p)
            \/ Won(p, o) /\ w[p].new.status = "FAILURE" /\ Bill(p, -Quota, "idle")

(* RefundTaskQuota and RecalculateTaskQuota: the funding source, then the token *)

\* Bound: what a task has cost is counted down to minus twice its quota only.
Adjusted(n, d) == IF n + d < -2 * Quota THEN -2 * Quota ELSE n + d

Continue(p, p2) == IF p2 = "idle" THEN Stops(p) ELSE Goto(p, p2)

AdjustFunding(p) ==
    /\ At(p, "fund")
    /\ \E o \in Outcome :
         /\ paid' = IF o = "ok" THEN [paid EXCEPT !.fund = Adjusted(@, w[p].delta)] ELSE paid
         /\ Continue(p, IF o = "ok" THEN "token" ELSE w[p].next)
         /\ Counts(o) /\ UNCHANGED row

AdjustToken(p) ==
    /\ At(p, "token")
    /\ \E o \in Outcome :
         /\ paid' = IF o = "ok" THEN [paid EXCEPT !.token = Adjusted(@, w[p].delta)] ELSE paid
         /\ Counts(o) /\ UNCHANGED row
    /\ Continue(p, w[p].next)

(* tryRealtimeFetch: a user asks, and the answer is written without a bill *)

FetchLoad(f) ==
    /\ At(f, "idle") /\ task.kind = "realtime"
    /\ Becomes(f, [Idle EXCEPT !.pc = "loaded", !.seen = row]) /\ NoStatement

FetchAnswer(f) ==
    /\ At(f, "loaded")
    /\ \/ Stops(f)
       \/ Becomes(f, [w[f] EXCEPT !.pc = "update",
                        !.new = [status |-> up, full |-> Final(up)]])
    /\ NoStatement

FetchUpdate(f) ==
    /\ At(f, "update")
    /\ \E o \in Outcome : UpdateWithStatus(f, o)
    /\ Stops(f)

(* Around the task *)

Upstream ==
    /\ up' \in CASE up = "QUEUED" -> {"IN_PROGRESS"}
                [] up = "IN_PROGRESS" -> {"SUCCESS", "FAILURE"}
                [] OTHER -> {}
    /\ UNCHANGED <<row, late, paid, w, faults>>

TimePasses == ~late /\ late' = TRUE /\ UNCHANGED <<row, up, paid, w, faults>>

Dies(p) ==
    /\ faults < MaxFaults /\ ~At(p, "idle")
    /\ faults' = faults + 1 /\ Stops(p) /\ UNCHANGED <<row, late, up, paid>>

-----------------------------------------------------------------------------
Poll(p) ==
    /\ \/ SweepLoad(p) \/ SweepUpdate(p) \/ Load(p)
       \/ Cancelled(p) \/ ChannelMissing(p) \/ FetchFails(p)
       \/ FetchSuno(p) \/ SunoUnchanged(p) \/ SunoApply(p) \/ SunoSave(p)
       \/ FetchVideo(p) \/ VideoUpdate(p)
       \/ AdjustFunding(p) \/ AdjustToken(p)
    /\ UNCHANGED <<late, up, task>>

Query(f) == (FetchLoad(f) \/ FetchAnswer(f) \/ FetchUpdate(f)) /\ UNCHANGED <<late, up, task>>

World == (Upstream \/ TimePasses \/ \E p \in Poller : Dies(p)) /\ UNCHANGED task

Next == (\E p \in Poller : Poll(p)) \/ (\E f \in Fetcher : Query(f)) \/ World

Spec == Init /\ [][Next]_vars

\* A pass is started every 15 seconds while a task is unfinished, but not before the
\* earlier one has returned: a pass that hangs in a fetch, of this or of another
\* task, keeps its heartbeat and so keeps later passes out.
Starts(p) == At(p, "idle") => \A q \in Poller : At(q, "idle")

\* A pass goes on between its fetches; that it comes back from one, and hence that
\* the next pass starts, is assumed only where the client has a timeout.  Time
\* passes.  Nothing is assumed of what the upstream answers.
FairSpec ==
    /\ Spec /\ WF_vars(World /\ TimePasses)
    /\ \A p \in Poller :
         WF_vars(Poll(p) /\ Starts(p) /\ (w[p].pc \in {"idle", "loaded"} => task.bounded))

-----------------------------------------------------------------------------
(* Properties *)

\* Types.
TypeOK ==
    /\ row \in Row /\ up \in Status /\ late \in BOOLEAN /\ faults \in 0 .. MaxFaults
    /\ \A x \in Poller \cup Fetcher : w[x].seen \in Row /\ w[x].new \in Row

\* A task only passes and sweeps write, each through UpdateWithStatus.
Guarded == task.kind = "video" /\ ~task.lost

\* Nobody is at work on the task.
AtRest == \A x \in Poller \cup Fetcher : At(x, "idle")

\* The refunds of a guarded task never exceed what it cost, whatever passes
\* overlap and sweeps, deaths, failed statements and late answers come together.
NeverOverRefunded == Guarded => paid.fund >= 0 /\ paid.token >= 0

\* When nobody is at work on an ended guarded task and no statement failed, the
\* bill is final: a failed task has cost nothing and a successful one exactly its
\* price, from the funding source and the token alike.  (A timed-out legacy task
\* keeps its quota by design.)
BilledAsEnded ==
    Guarded /\ faults = 0 /\ Final(row.status) /\ AtRest =>
        /\ paid.fund = paid.token
        /\ row.status = "FAILURE" => paid.fund \in {0} \cup {q \in {Quota} : task.legacy}
        /\ row.status = "SUCCESS" => paid.fund \in {Quota} \cup (Actuals \ {0})

\* A guarded task that ended stays as it ended: no late answer, sweep or
\* overlapping pass turns a success into a failure or takes up a failed task again.
FinalIsFinal == [][Guarded /\ Final(row.status) => row'.status = row.status]_vars

\* Where RELAY_TIMEOUT and TaskTimeoutMinutes are set, every task ends, if only by
\* its timeout, of whatever kind it is.  What keeps one from ending is an upstream
\* whose progress does not fit the status: its row is at 100% and out of every query.
EveryTaskEnds ==
    task.bounded /\ task.sweeps => <>(Final(row.status) \/ (task.odd /\ row.full))
=============================================================================
