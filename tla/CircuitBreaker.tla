--------------------------- MODULE CircuitBreaker ---------------------------
(***************************************************************************)
(* The circuit breaker of one channel (pkg/circuitbreaker/breaker.go) and  *)
(* the requests that are let through it and report their results to it     *)
(* (model/channel_cache.go, middleware/distributor.go,                     *)
(* controller/relay.go).                                                   *)
(*                                                                         *)
(* Every method of the breaker runs under its mutex and is one step.       *)
(* Requests overlap: a result may arrive long after the state in which its *)
(* request was admitted.  The code keeps instants (openedAt, a bucket's    *)
(* start); here every instant is kept as its age in seconds, capped where  *)
(* it makes no more difference, and `clock' is the time modulo one turn of *)
(* the ring of buckets.  Time can thus run for ever.                       *)
(***************************************************************************)
EXTENDS Integers, FiniteSets, FiniteSetsExt

CONSTANTS
    Req,                    \* requests
    WindowSeconds, BucketSeconds, DefaultBucketSeconds,
    MinRequestCount, ThresholdNum, ThresholdDen,   \* ErrorThreshold
    OpenTimeoutSeconds, HalfOpenMaxRequests, HalfOpenSuccessThreshold,
    DirectRequests,         \* TRUE: pinned and affinity requests exist
    AdminActs,              \* TRUE: the channel may be removed
    MaxLoad                 \* bound: samples in the ring plus open requests

ASSUME BreakerAssumption ==
    /\ IsFiniteSet(Req)
    /\ WindowSeconds \in Nat \ {0} /\ DefaultBucketSeconds \in Nat \ {0}
    /\ BucketSeconds \in Nat
    /\ MinRequestCount \in Nat \ {0} /\ OpenTimeoutSeconds \in Nat \ {0}
    /\ ThresholdDen \in Nat \ {0} /\ ThresholdNum \in 0 .. ThresholdDen
    /\ HalfOpenMaxRequests \in Nat /\ HalfOpenSuccessThreshold \in Nat
    /\ {DirectRequests, AdminActs} \subseteq BOOLEAN
    /\ MaxLoad \in Nat

(* GetCircuitBreakerSetting: what the breaker makes of the configuration. *)
Bucket ==
    IF BucketSeconds \in 1 .. WindowSeconds THEN BucketSeconds ELSE DefaultBucketSeconds
HalfOpenMax == IF HalfOpenMaxRequests > 0 THEN HalfOpenMaxRequests ELSE 1
SuccessThreshold == Min({Max({HalfOpenSuccessThreshold, 1}), HalfOpenMax})

BucketCount == Max({WindowSeconds \div Bucket, 1})
Turn == Bucket * BucketCount
Old == WindowSeconds + Bucket       \* a start that is too long ago to matter

VARIABLES
    b,          \* the breaker
    clock,      \* time.Now() modulo Turn
    req,        \* what a request is to the breaker
    log,        \* history: the samples recorded while closed, by their age
    sinceOpen,  \* history: seconds since the breaker last opened
    silent      \* scenario, fixed at the start: some requests end without a report

vars == <<b, clock, req, log, sinceOpen, silent>>

NoBucket == [age |-> Old, total |-> 0, failure |-> 0]
EmptyRing == [i \in 0 .. BucketCount - 1 |-> NoBucket]
EmptyLog == [a \in 0 .. Turn - 1 |-> [total |-> 0, failure |-> 0]]

newBreaker ==
    [state |-> "closed", buckets |-> EmptyRing, openAge |-> OpenTimeoutSeconds,
     inUse |-> 0, success |-> 0]

-----------------------------------------------------------------------------
(* The methods of the breaker *)

refreshState(k) ==
    IF k.state = "open" /\ k.openAge >= OpenTimeoutSeconds
      THEN [k EXCEPT !.state = "half_open", !.inUse = 0, !.success = 0]
      ELSE k

\* Mutant: Opening again does not restart the timeout.
openKeepsAge(k) == [k EXCEPT !.state = "open", !.inUse = 0, !.success = 0]

open(k) ==
    [k EXCEPT !.state = "open", !.openAge = 0, !.inUse = 0, !.success = 0]

close(k) ==
    [k EXCEPT !.state = "closed", !.buckets = EmptyRing, !.inUse = 0, !.success = 0]

\* Mutant: A bucket of the previous turn of the ring is added to.
addSampleKeepsTurn(k, failed) ==
    LET i == clock \div Bucket
    IN  [k EXCEPT !.buckets[i] =
            [age |-> clock % Bucket, total |-> @.total + 1,
             failure |-> @.failure + (IF failed THEN 1 ELSE 0)]]

\* A bucket whose start is not the current one is a past turn's: start afresh.
addSample(k, failed) ==
    LET start == clock % Bucket
        i == clock \div Bucket
        cur == IF k.buckets[i].age = start
                 THEN k.buckets[i] ELSE [NoBucket EXCEPT !.age = start]
    IN  [k EXCEPT !.buckets[i] =
            [cur EXCEPT !.total = @ + 1, !.failure = @ + (IF failed THEN 1 ELSE 0)]]

windowCounts(k) ==
    LET recent == {i \in DOMAIN k.buckets : k.buckets[i].age <= WindowSeconds}
    IN  [total |-> MapThenSumSet(LAMBDA i : k.buckets[i].total, recent),
         failure |-> MapThenSumSet(LAMBDA i : k.buckets[i].failure, recent)]

Exceeds(n) ==
    n.total >= MinRequestCount /\ n.failure * ThresholdDen >= ThresholdNum * n.total

shouldOpen(k) == Exceeds(windowCounts(k))

\* Mutant: A half-open success keeps its slot.
recordHalfOpenKeepsSlot(k, failed) ==
    LET won == [k EXCEPT !.success = @ + 1]
    IN  IF failed THEN open(k)
        ELSE IF won.success >= SuccessThreshold THEN close(won) ELSE won

recordHalfOpen(k, failed) ==
    LET used == [k EXCEPT !.inUse = IF @ > 0 THEN @ - 1 ELSE @]
        won  == [used EXCEPT !.success = @ + 1]
    IN  IF failed THEN open(used)
        ELSE IF won.success >= SuccessThreshold THEN close(won) ELSE won

recordClosed(k, failed) ==
    LET added == addSample(k, failed)
    IN  IF shouldOpen(added) THEN open(added) ELSE added

record(k, failed) ==
    CASE k.state = "half_open" -> recordHalfOpen(k, failed)
      [] k.state = "open"      -> k
      [] k.state = "closed"    -> recordClosed(k, failed)

\* Mutant: The last slot is given away twice.
canSelectOffByOne(k) ==
    \/ k.state = "closed"
    \/ k.state = "half_open" /\ k.inUse <= HalfOpenMax

\* Mutant: A half-open breaker lets nobody through.
canSelectWhenClosed(k) == k.state = "closed"

canSelect(k) ==
    \/ k.state = "closed"
    \/ k.state = "half_open" /\ k.inUse < HalfOpenMax

markSelected(k) == IF k.state = "half_open" THEN [k EXCEPT !.inUse = @ + 1] ELSE k

-----------------------------------------------------------------------------
(* Requests.  "peeked": passed the filter channelSelectable; "trial":      *)
(* admitted by MarkSelected in the present half-open period; "other": in   *)
(* flight otherwise.                                                       *)

ReqState == {"idle", "peeked", "trial", "other"}

InFlight == {r \in Req : req[r] # "idle"}
LogTotal == MapThenSumSet(LAMBDA a : log[a].total, DOMAIN log)
MayStart == LogTotal + Cardinality(InFlight) < MaxLoad

\* Trials belong to the half-open period that admitted them.
Retag(q, before, after) ==
    [r \in Req |-> IF q[r] = "trial" /\ before.state = "half_open" /\ after.state # "half_open"
                     THEN "other" ELSE q[r]]

\* Every method refreshes the state first: an open breaker may turn half-open and
\* open again in one call.
Becomes(k, q) ==
    /\ b' = k
    /\ req' = Retag(q, b, k)
    /\ sinceOpen' = IF refreshState(b).state # "open" /\ k.state = "open" THEN 0 ELSE sinceOpen
    /\ UNCHANGED <<clock, silent>>

\* channelSelectable, in GetRandomSatisfiedChannel.
CanSelect(r) ==
    LET k == refreshState(b) IN
    /\ req[r] = "idle" /\ MayStart
    /\ Becomes(k, IF canSelect(k) THEN [req EXCEPT ![r] = "peeked"] ELSE req)
    /\ UNCHANGED log

\* markChannelSelected: the breaker looks again.
MarkSelected(r) ==
    LET k == refreshState(b) IN
    /\ req[r] = "peeked"
    /\ IF canSelect(k)
         THEN Becomes(markSelected(k),
                [req EXCEPT ![r] = IF k.state = "half_open" THEN "trial" ELSE "other"])
         ELSE Becomes(k, [req EXCEPT ![r] = "idle"])
    /\ UNCHANGED log

\* A pinned channel or a channel taken by affinity: the limiter is asked, the
\* breaker is not.
SelectDirectly(r) ==
    /\ DirectRequests
    /\ req[r] = "idle" /\ MayStart
    /\ req' = [req EXCEPT ![r] = "other"]
    /\ UNCHANGED <<b, clock, log, sinceOpen, silent>>

Report(r, failed) ==
    LET k == refreshState(b)
        after == record(k, failed)
        one == [log EXCEPT ![0] =
                  [total |-> @.total + 1, failure |-> @.failure + (IF failed THEN 1 ELSE 0)]]
    IN  /\ req[r] \in {"trial", "other"}
        /\ Becomes(after, [req EXCEPT ![r] = "idle"])
        /\ log' = IF k.state = "closed" THEN one
                  ELSE IF after.state = "closed" THEN EmptyLog ELSE log

MarkSuccess(r) == Report(r, FALSE)
MarkFailure(r) == Report(r, TRUE)

\* The relay reports nothing: a 429, a local error, an unreadable body, a key
\* that could not be set up.
EndSilently(r) ==
    /\ silent
    /\ req[r] \in {"trial", "other"}
    /\ req' = [req EXCEPT ![r] = "idle"]
    /\ UNCHANGED <<b, clock, log, sinceOpen, silent>>

\* Remove: the next call creates a fresh breaker.
Remove ==
    /\ AdminActs
    /\ b # newBreaker
    /\ Becomes(newBreaker, req)
    /\ log' = EmptyLog

-----------------------------------------------------------------------------
Aged(x) == IF x.age + 1 >= Old THEN NoBucket ELSE [x EXCEPT !.age = @ + 1]

Tick ==
    /\ clock' = (clock + 1) % Turn
    /\ b' = [b EXCEPT !.openAge = Min({@ + 1, OpenTimeoutSeconds}),
                      !.buckets = [i \in DOMAIN @ |-> Aged(@[i])]]
    /\ log' = [a \in DOMAIN log |-> IF a = 0 THEN EmptyLog[0] ELSE log[a - 1]]
    /\ sinceOpen' = Min({sinceOpen + 1, OpenTimeoutSeconds})
    /\ UNCHANGED <<req, silent>>

Init ==
    /\ b = newBreaker
    /\ clock \in 0 .. Turn - 1
    /\ req = [r \in Req |-> "idle"]
    /\ log = EmptyLog
    /\ sinceOpen = OpenTimeoutSeconds
    /\ silent \in BOOLEAN

Next ==
    \/ \E r \in Req : \/ CanSelect(r) \/ MarkSelected(r) \/ SelectDirectly(r)
                      \/ MarkSuccess(r) \/ MarkFailure(r) \/ EndSilently(r)
    \/ Remove
    \/ Tick

Spec == Init /\ [][Next]_vars

\* Time passes, and a request that was let through is sent.  That its upstream call
\* ends is not assumed: by default the HTTP client has no timeout (RELAY_TIMEOUT = 0).
FairSpec == Spec /\ WF_vars(Tick) /\ \A r \in Req : WF_vars(MarkSelected(r))

-----------------------------------------------------------------------------
(* Properties *)

Trials == {r \in Req : req[r] = "trial"}

\* Types, and the bounds of the half-open counters.
TypeOK ==
    /\ b.state \in {"closed", "open", "half_open"}
    /\ b.inUse \in 0 .. HalfOpenMax /\ b.success \in 0 .. SuccessThreshold - 1
    /\ b.openAge \in 0 .. OpenTimeoutSeconds
    /\ \A i \in DOMAIN b.buckets : b.buckets[i].age \in 0 .. Old
                                   /\ b.buckets[i].failure <= b.buckets[i].total
    /\ clock \in 0 .. Turn - 1
    /\ req \in [Req -> ReqState]
    /\ silent \in BOOLEAN

\* The samples of the last BucketCount buckets, counted one by one.
WindowOf(l) ==
    LET recent == {a \in DOMAIN l : a <= (clock % Bucket) + Turn - Bucket}
    IN  [total |-> MapThenSumSet(LAMBDA a : l[a].total, recent),
         failure |-> MapThenSumSet(LAMBDA a : l[a].failure, recent)]

\* The ring of buckets is a sliding window: a result recorded by the closed
\* breaker opens it if and only if the samples of the last BucketCount buckets,
\* this one included, reach the minimum count and the error threshold.  Stale
\* buckets, reuse of an index and the turn of the ring must not change that.
OpensOnWindow ==
    [][b.state = "closed" /\ clock' = clock /\ log' # log /\ log' # EmptyLog
         => (b'.state = "open" <=> Exceeds(WindowOf(log')))]_vars

\* After it opened, for whatever reason, the breaker admits nobody for the whole
\* timeout.
AdmitsAfterTimeout ==
    [][\A r \in Req : req[r] = "peeked" /\ req'[r] \in {"trial", "other"}
         => b.state = "closed" \/ sinceOpen >= OpenTimeoutSeconds]_vars

\* When every request reports, the slots in use never exceed the trials that are
\* still in flight: late results of earlier requests can free a slot too soon,
\* never keep one.
SlotsAreTrials == ~silent /\ b.state = "half_open" => b.inUse <= Cardinality(Trials)

\* When every request that ends reports, the channel always becomes selectable again,
\* unless as many trials as there are half-open slots never end.
SelectableAgain ==
    silent \/ []<>canSelect(refreshState(b)) \/ <>[](Cardinality(Trials) >= HalfOpenMax)
=============================================================================
