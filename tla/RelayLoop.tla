------------------------------ MODULE RelayLoop ------------------------------
(***************************************************************************)
(* A request's way through the gateway: Distribute picks a channel and     *)
(* takes a slot of its limiter, Relay or RelayTask tries it and retries on *)
(* others, and every exit must give back the slots and close the billing   *)
(* session (middleware/distributor.go, controller/relay.go,                *)
(* service/channel_select.go, model/channel_cache.go).                     *)
(*                                                                         *)
(* The limiter is a counter per channel (ChannelLimiter has its atomic     *)
(* steps), the billing session a state (BillingSession has its             *)
(* statements), and the circuit breaker a gate that may refuse any channel *)
(* at any time (CircuitBreaker says when).  Each group tried and each      *)
(* upstream call is a step; requests interleave between them.              *)
(***************************************************************************)
EXTENDS Integers, Sequences, FiniteSets, FiniteSetsExt

CONSTANTS
    Req, Chan, NoChan,
    AutoGroups,             \* GetUserAutoGroup: the groups of "auto", in order
    ChannelsOf(_),          \* the enabled channels of a group for the model
    Priority(_),            \* a channel's priority
    MaxConcurrent,          \* the limiter's limit
    RetryTimes,             \* common.RetryTimes
    RateLimitRetryTimes     \* of the retry setting

ASSUME RelayAssumption ==
    /\ IsFiniteSet(Req) /\ IsFiniteSet(Chan) /\ NoChan \notin Chan
    /\ Len(AutoGroups) \in Nat \ {0}
    /\ \A i \in 1 .. Len(AutoGroups) : ChannelsOf(AutoGroups[i]) \subseteq Chan
    /\ \A c \in Chan : Priority(c) \in Nat
    /\ {MaxConcurrent, RateLimitRetryTimes} \subseteq Nat \ {0} /\ RetryTimes \in Nat

VARIABLES
    memoryCache,    \* common.MemoryCacheEnabled
    count,          \* the limiter's counter of each channel; 0: no entry
    req,            \* the requests
    clean           \* history: no panic, and no key missing on a retry, so far

vars == <<memoryCache, count, req, clean>>

Sources == {"plain", "auto", "cross"}   \* one group; auto; auto with cross-group retry
Errors == {"none", "rate", "auth", "other", "nochannel", "unified"}

\* i, start: the group being tried and the one the search began with; index: the
\* context's auto group index; dist, chan: the distributor's and the attempt's
\* channel; pick: history, the last selection.
NewRequest ==
    [pc |-> "new", kind |-> "relay", source |-> "plain", pinned |-> FALSE,
     retry |-> 0, reset |-> FALSE, index |-> 1, start |-> 1, i |-> 1,
     dist |-> NoChan, chan |-> NoChan, used |-> 0, err |-> "none", bill |-> "none",
     pick |-> [group |-> 0, level |-> 0, retry |-> 0]]

Init ==
    /\ memoryCache \in BOOLEAN
    /\ count = [c \in Chan |-> 0]
    /\ \E k \in [Req -> {"relay", "task"}], s \in [Req -> Sources] :
         req = [r \in Req |-> [NewRequest EXCEPT !.kind = k[r], !.source = s[r]]]
    /\ clean = TRUE

Set(r, x) == req' = [req EXCEPT ![r] = x]

-----------------------------------------------------------------------------
(* The limiter, seen from outside. *)

Free(c) == count[c] < MaxConcurrent
Plus(c) == [count EXCEPT ![c] = @ + 1]

\* Release: without an entry, nothing; the last one deletes the entry.
Minus(f, c) == IF c = NoChan THEN f ELSE [f EXCEPT ![c] = IF @ > 0 THEN @ - 1 ELSE 0]

\* The slot of an attempt is the relay's own from the second attempt on
\* (releaseSelectedChannel: ChannelMeta is set by the first call).
Own(x) == IF x.pc = "attempt" /\ x.used > 1 THEN x.chan ELSE NoChan

-----------------------------------------------------------------------------
(* The end of a request: the error is unified, the session refunded, and the *)
(* distributor releases its channel.                                         *)

Unified(x) ==
    /\ x.err # "none" /\ x.used > 0
    /\ x.kind = "task" \/ x.err = "auth" \/ x.retry > 0

NotRefunded(x) == x.bill    \* mutant

Refunded(x) == IF x.err # "none" /\ x.bill = "open" THEN "refunded" ELSE x.bill

\* What is left of a request is its outcome.
Finished(x) ==
    [NewRequest EXCEPT !.pc = "done", !.kind = x.kind, !.source = x.source,
                       !.used = x.used, !.err = x.err, !.bill = Refunded(x)]

Ended(x) == Finished(IF Unified(x) THEN [x EXCEPT !.err = "unified"] ELSE x)

\* Leave the loop with state x after the slot of the attempt was given back.
End(r, x) ==
    /\ Set(r, Ended(x))
    /\ count' = Minus(Minus(count, Own(req[r])), x.dist)
    /\ UNCHANGED <<memoryCache, clean>>

-----------------------------------------------------------------------------
(* The loop's head: IncreaseRetry, the test, and getChannel's selection. *)

neverReset(x) == [x EXCEPT !.retry = IF x.reset THEN @ ELSE @ + 1]   \* mutant

IncreaseRetry(x) ==
    IF x.reset THEN [x EXCEPT !.reset = FALSE] ELSE [x EXCEPT !.retry = @ + 1]

Select(x) == [x EXCEPT !.pc = "select", !.start = x.index, !.i = x.index, !.chan = NoChan]

KeepSlot(r, x) ==           \* mutant: the slot of a failed attempt is not released
    LET y == IncreaseRetry(x) IN
    IF y.retry <= RetryTimes
    THEN Set(r, Select(y)) /\ UNCHANGED <<memoryCache, count, clean>>
    ELSE End(r, y)

\* The attempt's slot is given back; the next attempt, or the end.
Continue(r, x) ==
    LET y == IncreaseRetry(x) IN
    IF y.retry <= RetryTimes
    THEN /\ Set(r, Select(y))
         /\ count' = Minus(count, Own(req[r]))
         /\ UNCHANGED <<memoryCache, clean>>
    ELSE End(r, y)

-----------------------------------------------------------------------------
(* Selection: GetRandomSatisfiedChannel for one group. *)

Priorities(g) == {Priority(c) : c \in ChannelsOf(g)}
Level(g, retry) == Min({retry, Cardinality(Priorities(g)) - 1})
Target(g, level) ==
    {c \in ChannelsOf(g) : Cardinality({p \in Priorities(g) : p > Priority(c)}) = level}

GroupOf(x) == AutoGroups[IF x.source = "plain" THEN 1 ELSE x.i]

\* In a group that was not the first to be searched, start from the top priority.
priorityRetry(x) == IF x.source # "plain" /\ x.i > x.start THEN 0 ELSE x.retry

\* With the memory cache, markChannelSelected takes a slot; without it nothing does.
Taken(c) == IF memoryCache THEN Free(c) /\ count' = Plus(c) ELSE UNCHANGED count

staysInGroup(x) ==          \* mutant: the counter starts again, in the same group
    [x EXCEPT !.index = x.i,
              !.retry = IF x.source = "cross" /\ priorityRetry(x) >= RetryTimes THEN 0 ELSE @,
              !.reset = x.source = "cross" /\ priorityRetry(x) >= RetryTimes]

\* The state the selection leaves for the next retry.
Prepared(x) ==
    IF x.source = "plain" THEN x
    ELSE IF x.source = "cross" /\ priorityRetry(x) >= RetryTimes
    THEN [x EXCEPT !.index = x.i + 1, !.retry = 0, !.reset = TRUE]
    ELSE [x EXCEPT !.index = x.i]

Picked(x, c) ==
    LET g == GroupOf(x) IN
    [Prepared(x) EXCEPT !.chan = c, !.i = 1, !.start = 1,
       !.pick = [group |-> x.i, level |-> Level(g, priorityRetry(x)), retry |-> priorityRetry(x)]]

\* The group has nothing to offer: the next one, from the top.
NextGroup(x) == [x EXCEPT !.i = @ + 1, !.index = x.i + 1, !.retry = 0]

Found(r) ==
    LET x == req[r] IN
    /\ x.pc = "select" /\ x.i <= Len(AutoGroups)
    /\ \E c \in Target(GroupOf(x), Level(GroupOf(x), priorityRetry(x))) :
         /\ Taken(c)
         /\ LET y == Picked(x, c) IN
            \/ \* the distributor's: its own RetryParam ends here
               /\ x.used = 0
               /\ Set(r, [y EXCEPT !.pc = "enter", !.dist = c, !.retry = 0, !.reset = FALSE])
               /\ UNCHANGED <<memoryCache, clean>>
            \/ \* the relay's
               /\ x.used > 0
               /\ Set(r, [y EXCEPT !.pc = "attempt", !.used = @ + 1])
               /\ UNCHANGED <<memoryCache, clean>>

\* SetupContextForSelectedChannel finds no usable key on a retry: getChannel returns
\* without the channel, and nobody releases it.  (The distributor ignores the error.)
FoundWithoutKey(r) ==
    LET x == req[r] IN
    /\ x.pc = "select" /\ x.i <= Len(AutoGroups) /\ x.used > 0
    /\ \E c \in Target(GroupOf(x), Level(GroupOf(x), priorityRetry(x))) :
         /\ memoryCache => Free(c)
         /\ Set(r, Ended([Prepared(x) EXCEPT !.err = "nochannel"]))
         /\ count' = Minus(IF memoryCache THEN Plus(c) ELSE count, x.dist)
    /\ clean' = FALSE
    /\ UNCHANGED memoryCache

\* No channel at that priority passes the breaker and the limiter.
NoneInGroup(r) ==
    LET x == req[r] IN
    /\ x.pc = "select" /\ x.source # "plain" /\ x.i <= Len(AutoGroups)
    /\ Set(r, NextGroup(x))
    /\ UNCHANGED <<memoryCache, count, clean>>

waitForChannel(r) ==        \* mutant: one group without a free channel is no error
    LET x == req[r] IN
    /\ x.pc = "select" /\ x.i > Len(AutoGroups)
    /\ End(r, [x EXCEPT !.err = "nochannel"])

NoChannel(r) ==
    LET x == req[r] IN
    /\ x.pc = "select" /\ (x.source = "plain" \/ x.i > Len(AutoGroups))
    /\ End(r, [x EXCEPT !.err = "nochannel"])

-----------------------------------------------------------------------------
(* Distribute: a pinned channel, the one of the affinity cache, or a selection. *)

Distribute(r) ==
    LET x == req[r] IN
    /\ x.pc = "new"
    /\ UNCHANGED <<memoryCache, clean>>
    /\ \/ Set(r, Select(x)) /\ UNCHANGED count
       \/ \E c \in Chan, p \in BOOLEAN :
            /\ Free(c) /\ count' = Plus(c)
            /\ Set(r, [x EXCEPT !.pc = "enter", !.dist = c, !.pinned = p])
       \/ \E c \in Chan :      \* the pinned channel is full
            /\ ~Free(c) /\ UNCHANGED count
            /\ Set(r, Finished([x EXCEPT !.err = "nochannel"]))

\* Up to the loop: a request that is refused, or the session (none for a free model;
\* a task opens it with its first submission).
Enter(r) ==
    LET x == req[r] IN
    /\ x.pc = "enter"
    /\ \/ End(r, [x EXCEPT !.err = "other"])
       \/ \E b \in IF x.kind = "relay" THEN {"none", "open"} ELSE {"none"} :
            /\ Set(r, [x EXCEPT !.pc = "attempt", !.chan = x.dist, !.used = 1, !.bill = b])
            /\ UNCHANGED <<memoryCache, count, clean>>

-----------------------------------------------------------------------------
(* One attempt. *)

\* What the session may be after the call: a task's first submission opens it.
Billed(x, b) == b = x.bill \/ (x.kind = "task" /\ x.bill = "none" /\ b = "open")

BodyFails(r) ==
    /\ req[r].pc = "attempt"
    /\ End(r, [req[r] EXCEPT !.err = "other"])

Succeeds(r) ==
    LET x == req[r] IN
    /\ x.pc = "attempt"
    /\ \E b \in {"none", "open"} :
         /\ Billed(x, b)
         /\ End(r, [x EXCEPT !.err = "none", !.bill = IF b = "open" THEN "settled" ELSE b])

\* 429: wait and try another channel, up to the limit of its own setting.
RateLimited(r) ==
    LET x == req[r] IN
    /\ x.pc = "attempt"
    /\ \E b \in {"none", "open"} :
         LET y == [x EXCEPT !.err = "rate", !.bill = b] IN
         /\ Billed(x, b)
         /\ IF x.retry < RateLimitRetryTimes
            THEN /\ Set(r, [y EXCEPT !.pc = "wait"])
                 /\ count' = Minus(count, Own(x))
                 /\ UNCHANGED <<memoryCache, clean>>
            ELSE End(r, y)

\* 401 or 403: Relay tries another channel, RelayTask does not.
AuthFails(r) ==
    LET x == req[r] IN
    /\ x.pc = "attempt"
    /\ \E b \in {"none", "open"} :
         LET y == [x EXCEPT !.err = "auth", !.bill = b] IN
         /\ Billed(x, b)
         /\ IF x.kind = "relay" /\ x.retry < RetryTimes THEN Continue(r, y) ELSE End(r, y)

\* shouldRetry and shouldRetryTaskRelay: the status code decides, within what the
\* retries and a pinned channel allow; a channel error is retried regardless.
MayRetry(x) == x.kind = "relay" \/ (x.retry < RetryTimes /\ ~x.pinned)

OtherError(r) ==
    LET x == req[r] IN
    /\ x.pc = "attempt"
    /\ \E b \in {"none", "open"} :
         LET y == [x EXCEPT !.err = "other", !.bill = b] IN
         /\ Billed(x, b)
         /\ (MayRetry(x) /\ Continue(r, y)) \/ End(r, y)

\* The delay of a 429 is over, or the client is gone: then Relay returns at once.
Waited(r) == req[r].pc = "wait" /\ Continue(r, req[r])

ClientGone(r) ==
    /\ req[r].pc = "wait"
    /\ Set(r, Finished(req[r]))
    /\ count' = Minus(count, req[r].dist)
    /\ UNCHANGED <<memoryCache, clean>>

\* A panic in the call: only the deferred refund runs, and only if an earlier
\* attempt left an error; the releases are not deferred.
Panics(r) ==
    /\ req[r].pc = "attempt"
    /\ Set(r, Finished(req[r]))
    /\ clean' = FALSE
    /\ UNCHANGED <<memoryCache, count>>

Step(r) ==
    \/ Distribute(r) \/ Enter(r)
    \/ Found(r) \/ FoundWithoutKey(r) \/ NoneInGroup(r) \/ NoChannel(r)
    \/ BodyFails(r) \/ Succeeds(r) \/ RateLimited(r) \/ AuthFails(r) \/ OtherError(r)
    \/ Waited(r) \/ ClientGone(r) \/ Panics(r)

Next == \E r \in Req : Step(r)

Spec == Init /\ [][Next]_vars

\* Goroutines are scheduled and the delay of a 429 elapses.  Nothing is assumed of an
\* upstream call: RELAY_TIMEOUT is 0 by default, the client then has no timeout, and
\* the call does not carry the context of the client's request.
Goes(r) == req[r].pc # "attempt" /\ Step(r)

FairSpec == Spec /\ \A r \in Req : WF_vars(Goes(r))

-----------------------------------------------------------------------------
(* Properties *)

Request ==
    [pc : {"new", "select", "enter", "attempt", "wait", "done"}, kind : {"relay", "task"},
     source : Sources, pinned : BOOLEAN, retry : 0 .. RetryTimes + 1, reset : BOOLEAN,
     index : 1 .. Len(AutoGroups) + 1, start : 1 .. Len(AutoGroups) + 1,
     i : 1 .. Len(AutoGroups) + 1, dist : Chan \cup {NoChan}, chan : Chan \cup {NoChan},
     used : Nat, err : Errors, bill : {"none", "open", "settled", "refunded"},
     pick : [group : 0 .. Len(AutoGroups), level : Nat, retry : 0 .. RetryTimes]]

\* Types; in particular the group index never runs past the groups, and the
\* counters keep to the limit.
TypeOK ==
    /\ memoryCache \in BOOLEAN /\ clean \in BOOLEAN
    /\ count \in [Chan -> 0 .. MaxConcurrent]
    /\ req \in [Req -> Request]

\* The slots a channel's requests hold, read off their program counters: the
\* distributor's from the selection to the end, the relay's own during a retry.
Holders(c) ==
    Cardinality({r \in Req : req[r].pc # "done" /\ req[r].dist = c})
      + Cardinality({r \in Req : Own(req[r]) = c})

\* Every path through the loop (success, 429 with and without a retry, 401 and
\* 403, an unreadable body, a client that leaves, no channel left) gives back the
\* slots it took and no other: the limiter counts exactly the requests in flight.
\* Not after a panic or a retry without a usable key, and not without the memory
\* cache, where slots are released that nobody took.  The state keeps its types.
SlotsAreBalanced ==
    /\ TypeOK
    /\ memoryCache /\ clean => \A c \in Chan : count[c] = Holders(c)

\* A request that ended has a closed session: settled if it succeeded, refunded if
\* not, whichever attempt opened it and however the loop was left.
SessionsAreClosed ==
    clean => \A r \in Req : req[r].pc = "done" =>
      req[r].bill \in (IF req[r].err = "none" THEN {"none", "settled"} ELSE {"none", "refunded"})

\* One group is tried at most RetryTimes + 1 times; only "auto" starts counting
\* again, once for each of its groups.
AttemptsBounded ==
    \A r \in Req :
      req[r].used <= (RetryTimes + 1) * (IF req[r].source = "plain" THEN 1 ELSE Len(AutoGroups))

\* Retries only move on: to a later group or, within a group, to the same or a
\* lower priority.  Three counters in the request context must agree for that.
NeverBackwards ==
    [][\A r \in Req : LET old == req[r].pick
                          new == req'[r].pick
                      IN  old # new /\ old.group # 0 /\ new.group # 0 =>
                            \/ new.group > old.group
                            \/ new.group = old.group /\ new.level >= old.level]_vars

\* Every request ends, although "auto" resets its retry counter, unless the upstream
\* of one of its attempts stays silent for ever: nothing else keeps a request, neither
\* another one that waits for its upstream nor the slots that one holds.
EveryRequestEnds == \A r \in Req : <>(req[r].pc = "done") \/ <>[](req[r].pc = "attempt")

\* The flow documented at CacheGetRandomSatisfiedChannel: a group whose priorities
\* were all tried is left for the next one.
ExhaustedGroupIsLeft ==
    \A r \in Req : LET p == req[r].pick IN
      req[r].source = "cross" /\ p.group # 0 => p.retry < Cardinality(Priorities(AutoGroups[p.group]))
=============================================================================
