--------------------------- MODULE ChannelLimiter ---------------------------
(***************************************************************************)
(* The in-memory limit on the requests one channel serves at a time        *)
(* (pkg/channel_limiter/limiter.go).                                       *)
(*                                                                         *)
(* The package keeps a sync.Map from channel ids to counters.  Channels    *)
(* are independent, so the module follows one of them: `mapped' is the     *)
(* counter the map holds for it (None: no entry).  Every access to the map *)
(* and every atomic operation on a counter is a step of its own, because   *)
(* the functions take no lock: any number of requests interleave between   *)
(* them.  A counter that left the map lives on while a goroutine still     *)
(* points to it; once nobody does, the garbage collector takes it and the  *)
(* same identity may stand for a newly allocated one.                      *)
(***************************************************************************)
EXTENDS Integers, FiniteSets

CONSTANTS
    Req,            \* requests that may be served by the channel
    Counter,        \* identities of counter objects
    None,           \* the absent counter
    MaxConcurrent,  \* ChannelLimiterSetting.MaxConcurrentRequests
    AdminActs       \* TRUE: the setting is toggled and the channel removed

ASSUME LimiterAssumption ==
    /\ IsFiniteSet(Req)
    /\ None \notin Counter
    /\ MaxConcurrent \in Nat \ {0}
    /\ AdminActs \in BOOLEAN

VARIABLES
    enabled,    \* ChannelLimiterSetting.Enabled
    mapped,     \* counters.Load(channelID), or None
    val,        \* the atomic value of every counter
    pc,         \* where a request is in Acquire or Release
    ptr,        \* the counter a request's call points to
    own         \* history: the counter a request incremented and has not
                \* given back

vars == <<enabled, mapped, val, pc, ptr, own>>

PC == {"idle", "add", "undo", "held", "sub", "delete"}

Init ==
    /\ enabled = TRUE
    /\ mapped = None
    /\ val = [c \in Counter |-> 0]
    /\ pc = [r \in Req |-> "idle"]
    /\ ptr = [r \in Req |-> None]
    /\ own = [r \in Req |-> None]

-----------------------------------------------------------------------------
(* Counters and the map *)

Referenced(c) == c = mapped \/ \E r \in Req : ptr[r] = c \/ own[r] = c

\* getCounter: LoadOrStore returns the entry, or stores a zeroed counter.
LoadOrStore(c) ==
    IF mapped # None
      THEN c = mapped /\ UNCHANGED <<mapped, val>>
      ELSE /\ c \in Counter /\ ~Referenced(c)
           /\ mapped' = c
           /\ val' = [val EXCEPT ![c] = 0]

\* The statements of a request that does not touch the map.
At(r, from, to) == pc[r] = from /\ pc' = [pc EXCEPT ![r] = to]

-----------------------------------------------------------------------------
(* Mutants *)

\* The refused request forgets to take its increment back.
AcquireUndoForgotten(r) ==
    /\ At(r, "undo", "idle")
    /\ own' = [own EXCEPT ![r] = None]
    /\ ptr' = [ptr EXCEPT ![r] = None]
    /\ UNCHANGED <<enabled, mapped, val>>

-----------------------------------------------------------------------------
(* CanAcquire: a filter before the choice of a channel.  It reads the      *)
(* counter, and creates it when there is none.                             *)

CanAcquire ==
    /\ enabled
    /\ \E c \in Counter : LoadOrStore(c)
    /\ UNCHANGED <<enabled, pc, ptr, own>>

(* Acquire *)

\* The limiter is off: the request is admitted and not counted.
AcquireUncounted(r) ==
    /\ ~enabled
    /\ At(r, "idle", "held")
    /\ UNCHANGED <<enabled, mapped, val, ptr, own>>

AcquireGet(r) ==
    /\ enabled
    /\ At(r, "idle", "add")
    /\ \E c \in Counter : LoadOrStore(c) /\ ptr' = [ptr EXCEPT ![r] = c]
    /\ UNCHANGED <<enabled, own>>

\* cur := c.val.Add(1); cur <= max admits the request.
Admits(c) == val[c] + 1 <= MaxConcurrent

AcquireAdd(r) ==
    LET c == ptr[r] IN
    /\ At(r, "add", IF Admits(c) THEN "held" ELSE "undo")
    /\ val' = [val EXCEPT ![c] = @ + 1]
    /\ own' = [own EXCEPT ![r] = c]
    /\ ptr' = [ptr EXCEPT ![r] = IF Admits(c) THEN None ELSE c]
    /\ UNCHANGED <<enabled, mapped>>

AcquireUndo(r) ==
    /\ At(r, "undo", "idle")
    /\ val' = [val EXCEPT ![ptr[r]] = @ - 1]
    /\ own' = [own EXCEPT ![r] = None]
    /\ ptr' = [ptr EXCEPT ![r] = None]
    /\ UNCHANGED <<enabled, mapped>>

(* Release: whether the limiter is on is not asked. *)

\* counters.Load: no entry, nothing to give back.
ReleaseMiss(r) ==
    /\ mapped = None
    /\ At(r, "held", "idle")
    /\ own' = [own EXCEPT ![r] = None]
    /\ UNCHANGED <<enabled, mapped, val, ptr>>

ReleaseLoad(r) ==
    /\ mapped # None
    /\ At(r, "held", "sub")
    /\ ptr' = [ptr EXCEPT ![r] = mapped]
    /\ UNCHANGED <<enabled, mapped, val, own>>

\* cur := c.val.Add(-1); the entry goes when cur <= 0.
Last(c) == val[c] - 1 <= 0

ReleaseSub(r) ==
    LET c == ptr[r] IN
    /\ At(r, "sub", IF Last(c) THEN "delete" ELSE "idle")
    /\ val' = [val EXCEPT ![c] = @ - 1]
    /\ own' = [own EXCEPT ![r] = None]
    /\ ptr' = [ptr EXCEPT ![r] = None]
    /\ UNCHANGED <<enabled, mapped>>

\* counters.Delete removes the channel's entry, whichever counter it is now.
ReleaseDelete(r) ==
    /\ At(r, "delete", "idle")
    /\ mapped' = None
    /\ UNCHANGED <<enabled, val, ptr, own>>

(* The administrator *)

\* Remove, called when the channel is deleted.
Remove ==
    /\ AdminActs
    /\ mapped' = None
    /\ UNCHANGED <<enabled, val, pc, ptr, own>>

ToggleSetting ==
    /\ AdminActs
    /\ enabled' = ~enabled
    /\ UNCHANGED <<mapped, val, pc, ptr, own>>

-----------------------------------------------------------------------------
RequestStep(r) ==
    \/ AcquireUncounted(r) \/ AcquireGet(r) \/ AcquireAdd(r) \/ AcquireUndo(r)
    \/ ReleaseMiss(r) \/ ReleaseLoad(r) \/ ReleaseSub(r) \/ ReleaseDelete(r)

Next ==
    \/ \E r \in Req : RequestStep(r)
    \/ CanAcquire
    \/ Remove
    \/ ToggleSetting

Spec == Init /\ [][Next]_vars

-----------------------------------------------------------------------------
(* Properties *)

Charged(c) == {r \in Req : own[r] = c}

\* Variables have their types, and a call that is about to use a counter has
\* one (Go would dereference nil).
TypeOK ==
    /\ enabled \in BOOLEAN
    /\ mapped \in Counter \cup {None}
    /\ val \in [Counter -> Int]
    /\ pc \in [Req -> PC]
    /\ ptr \in [Req -> Counter \cup {None}]
    /\ own \in [Req -> Counter \cup {None}]
    /\ \A r \in Req : pc[r] \in {"add", "undo", "sub"} => ptr[r] \in Counter

\* No slot leaks: the counter new requests are checked against never counts
\* more requests than are between their increment and their give-back, however
\* the increments, the decrements, the deletions of the entry and the
\* administrator interleave.  So a channel nobody uses is never full.
NeverOverCounts == mapped # None => val[mapped] <= Cardinality(Charged(mapped))
=============================================================================
