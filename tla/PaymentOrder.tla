---------------------------- MODULE PaymentOrder ----------------------------
(***************************************************************************)
(* One order (a top-up, a subscription order or a redemption code) and the *)
(* handlers that complete, fail, expire or edit it: the callbacks of five  *)
(* payment providers, the administrator and the user (controller/topup*.go,*)
(* controller/subscription_payment_epay.go, controller/redemption.go,      *)
(* model/topup.go, model/subscription.go, model/redemption.go).            *)
(*                                                                         *)
(* Two locks keep the handlers apart: LockOrder, a mutex per order in each *)
(* process, and the row lock the transactions ask for with a setting the   *)
(* version of gorm in go.mod does not read.  Both readings of the second   *)
(* are explored (scene.locked), on one node and on several (scene.nodes).  *)
(* Providers deliver their events again until they are answered, late and  *)
(* more than once; statements fail and nodes die.                          *)
(***************************************************************************)
EXTENDS Integers, FiniteSets, FiniteSetsExt

CONSTANTS
    Handler,        \* goroutines that serve callbacks
    Node,           \* processes on the database
    Mutex,          \* identities of refCountedMutex objects
    None,
    MaxDeliveries,  \* bound: deliveries that are not owed
    MaxFaults       \* bound: failed statements and deaths

ASSUME PaymentAssumption ==
    /\ IsFiniteSet(Handler) /\ IsFiniteSet(Node) /\ Node # {}
    /\ None \notin Mutex \cup Handler \cup Node
    /\ MaxDeliveries \in Nat /\ MaxFaults \in Nat

VARIABLES
    scene,      \* scenario, fixed at the start: provider, operations, nodes, row lock
    order,      \* the row's status ("pending": also an enabled code; "success": a used one)
    credited,   \* how often the user was given the quota, or the subscription
    emitted,    \* events the provider has sent
    acked,      \* the provider's success event was answered
    row,        \* the handler whose transaction has the row locked
    entry,      \* orderLocks of each node, for this order
    mutex,      \* the mutexes: held, and refCount
    h,          \* the handlers
    deliveries, faults

vars == <<scene, order, credited, emitted, acked, row, entry, mutex, h, deliveries, faults>>

Status == {"pending", "success", "failed", "expired"}

-----------------------------------------------------------------------------
(* The operations, named after the functions that do them. *)

Paid == {"EpayNotify", "Recharge", "RechargeCreem", "RechargeWaffo", "RechargeWaffoPancake",
         "CompleteSubscriptionOrder"}
Failing == {"sessionAsyncPaymentFailed", "waffoPaymentFailed"}
Expiring == {"sessionExpired", "ExpireSubscriptionOrder"}
Op == Paid \cup Failing \cup Expiring \cup {"ManualCompleteTopUp", "Redeem", "UpdateRedemption"}

\* What happens to an order of each provider.
TopUpOps == [epay    |-> {"EpayNotify", "ManualCompleteTopUp"},
             stripe  |-> {"Recharge", "sessionAsyncPaymentFailed", "sessionExpired",
                          "ManualCompleteTopUp"},
             creem   |-> {"RechargeCreem", "ManualCompleteTopUp"},
             waffo   |-> {"RechargeWaffo", "waffoPaymentFailed", "ManualCompleteTopUp"},
             pancake |-> {"RechargeWaffoPancake", "ManualCompleteTopUp"},
             code    |-> {"Redeem", "UpdateRedemption"}]
SubscriptionOps == [epay    |-> {"CompleteSubscriptionOrder"},
                    stripe  |-> {"CompleteSubscriptionOrder", "ExpireSubscriptionOrder"},
                    creem   |-> {"CompleteSubscriptionOrder"},
                    pancake |-> {"CompleteSubscriptionOrder"}]

TakesLock(op) == op \notin {"waffoPaymentFailed", "Redeem", "UpdateRedemption"}
InTransaction(op) == op \notin {"EpayNotify", "sessionAsyncPaymentFailed", "UpdateRedemption"}
Credits(op) == op \in Paid \cup {"ManualCompleteTopUp", "Redeem"}

Target(op) == IF Credits(op) THEN "success" ELSE IF op \in Failing THEN "failed" ELSE "expired"

-----------------------------------------------------------------------------
NoMutex == [held |-> FALSE, ref |-> 0]
Idle == [pc |-> "idle", op |-> None, node |-> None, mu |-> None, seen |-> "pending"]

Scenes == [provider : DOMAIN TopUpOps, ops : SUBSET Op, nodes : SUBSET Node, locked : BOOLEAN]

\* Any of the operations on such an order, on one node or on all.
InitScene ==
    \E p \in DOMAIN TopUpOps, l \in BOOLEAN, n \in {{CHOOSE x \in Node : TRUE}, Node} :
      \E o \in (SUBSET TopUpOps[p])
               \cup (IF p \in DOMAIN SubscriptionOps THEN SUBSET SubscriptionOps[p] ELSE {}) :
        o # {} /\ scene = [provider |-> p, ops |-> o, nodes |-> n, locked |-> l]

Init ==
    /\ InitScene
    /\ order = "pending" /\ credited = 0
    /\ emitted = {} /\ acked = FALSE
    /\ row = None
    /\ entry = [n \in Node |-> None] /\ mutex = [m \in Mutex |-> NoMutex]
    /\ h = [k \in Handler |-> Idle]
    /\ deliveries = 0 /\ faults = 0

Goes(k, x) == h' = [h EXCEPT ![k] = x]

-----------------------------------------------------------------------------
(* The provider: it sends one verdict; a Waffo order may fail and then be paid. *)

Emits(e, ops) == scene.ops \cap ops # {} /\ e \notin emitted /\ emitted' = emitted \cup {e}

Provider ==
    /\ \/ Emits("paid", Paid) /\ (emitted = {} \/ scene.provider = "waffo")
       \/ Emits("failed", Failing) /\ emitted = {}
       \/ Emits("expired", Expiring) /\ emitted = {}
    /\ UNCHANGED <<scene, order, credited, acked, row, entry, mutex, h, deliveries, faults>>

Due(op) ==
    /\ op \in Paid => "paid" \in emitted
    /\ op \in Failing => "failed" \in emitted
    /\ op \in Expiring => "expired" \in emitted

\* EpayNotify answers before it does anything.
Starts(k, op, n) ==
    /\ h[k].pc = "idle" /\ op \in scene.ops /\ n \in scene.nodes /\ Due(op)
    /\ Goes(k, [Idle EXCEPT !.pc = IF TakesLock(op) THEN "lock" ELSE "read",
                            !.op = op, !.node = n])
    /\ acked' = (acked \/ op = "EpayNotify")
    /\ UNCHANGED <<scene, order, credited, emitted, row, entry, mutex, faults>>

\* A first delivery, a duplicate, or a call of the administrator or a user.
Deliver(k) ==
    /\ deliveries < MaxDeliveries /\ deliveries' = deliveries + 1
    /\ \E op \in Op, n \in Node : Starts(k, op, n)

\* The provider has no answer yet.
Redeliver(k) ==
    /\ ~acked /\ UNCHANGED deliveries
    /\ \E op \in Paid, n \in Node : Starts(k, op, n)

-----------------------------------------------------------------------------
(* LockOrder *)

Referenced(m) == (\E n \in Node : entry[n] = m) \/ (\E k \in Handler : h[k].mu = m)

Counted(m) == [mutex EXCEPT ![m].ref = @ + 1]

\* Under createLock: load or store the mutex, and count the reference.
LockGet(k) ==
    LET n == h[k].node IN
    /\ h[k].pc = "lock"
    /\ \E m \in Mutex :
         /\ IF entry[n] # None THEN m = entry[n] ELSE ~Referenced(m)
         /\ entry' = [entry EXCEPT ![n] = m]
         /\ mutex' = Counted(m)
         /\ Goes(k, [h[k] EXCEPT !.pc = "wait", !.mu = m])
    /\ UNCHANGED <<scene, order, credited, emitted, acked, row, deliveries, faults>>

LockTake(k) ==
    /\ h[k].pc = "wait" /\ ~mutex[h[k].mu].held
    /\ mutex' = [mutex EXCEPT ![h[k].mu].held = TRUE]
    /\ Goes(k, [h[k] EXCEPT !.pc = "read"])
    /\ UNCHANGED <<scene, order, credited, emitted, acked, row, entry, deliveries, faults>>

(* UnlockOrder, deferred by every handler that locked *)

\* It unlocks what the map holds now.
UnlockMutex(k) ==
    LET m == entry[h[k].node] IN
    /\ h[k].pc = "unlock"
    /\ IF m = None
       THEN Goes(k, Idle) /\ UNCHANGED mutex
       ELSE /\ mutex' = [mutex EXCEPT ![m].held = FALSE]
            /\ Goes(k, [h[k] EXCEPT !.pc = "unref", !.mu = m])
    /\ UNCHANGED <<scene, order, credited, emitted, acked, row, entry, deliveries, faults>>

\* Mutant: the entry is deleted under a waiter.
deletesAlways(m) == TRUE

Deletes(m) == mutex[m].ref - 1 = 0

\* Under createLock: the last one deletes the entry.
UnlockRef(k) ==
    LET m == h[k].mu IN
    /\ h[k].pc = "unref"
    /\ mutex' = [mutex EXCEPT ![m].ref = @ - 1]
    /\ entry' = [entry EXCEPT ![h[k].node] = IF Deletes(m) THEN None ELSE @]
    /\ Goes(k, Idle)
    /\ UNCHANGED <<scene, order, credited, emitted, acked, row, deliveries, faults>>

-----------------------------------------------------------------------------
(* The handlers' work *)


\* Is the event answered with success?  The Stripe webhook always says 200.
Answers(ok) == ok \/ scene.provider = "stripe"

Finish(k, ok) ==
    /\ Goes(k, IF TakesLock(h[k].op) THEN [h[k] EXCEPT !.pc = "unlock"] ELSE Idle)
    /\ acked' = (acked \/ (h[k].op \in Paid /\ Answers(ok)))
    /\ row' = IF row = k THEN None ELSE row

\* What an operation returns for an order that is no longer pending.
Accepts(op) ==
    CASE op \in {"RechargeWaffo", "RechargeWaffoPancake", "ManualCompleteTopUp",
                 "CompleteSubscriptionOrder"} -> {order = "success"}
      [] op \in {"Recharge", "Redeem"} -> {FALSE}
      [] op = "RechargeCreem" -> BOOLEAN       \* the handler looks before the transaction
      [] OTHER -> {TRUE}

\* Mutants: who credits, or who expires, does not look at the status.
creditsAnyStatus(op) == order = "pending" \/ Credits(op) \/ op = "UpdateRedemption"
expiresAnyStatus(op) == order = "pending" \/ op \in Expiring \/ op = "UpdateRedemption"

Continues(op) == order = "pending" \/ op = "UpdateRedemption"

\* The first statement reads the row, and locks it if the lock is one.
Read(k) ==
    LET op == h[k].op
        locks == InTransaction(op) /\ scene.locked
    IN
    /\ h[k].pc = "read"
    /\ locks => row = None
    /\ \/ /\ Continues(op)
          /\ Goes(k, [h[k] EXCEPT !.pc = "write", !.seen = order])
          /\ row' = IF locks THEN k ELSE row
          /\ UNCHANGED acked
       \/ ~Continues(op) /\ \E ok \in Accepts(op) : Finish(k, ok)
    /\ UNCHANGED <<scene, order, credited, emitted, entry, mutex, deliveries, faults>>

\* Mutant: the transaction leaves the quota out.
withoutQuota(op) == UNCHANGED credited

Quota(op) == credited' = credited + (IF Credits(op) THEN 1 ELSE 0)

\* Status and quota, or the new subscription, in one transaction.
Commit(k) ==
    LET op == h[k].op IN
    /\ h[k].pc = "write" /\ InTransaction(op) /\ row \in {None, k}
    /\ order' = Target(op)
    /\ Quota(op)
    /\ Finish(k, TRUE)
    /\ UNCHANGED <<scene, emitted, entry, mutex, deliveries, faults>>

\* topUp.Update and redemption.Update write the row without asking what it is now;
\* editing a code writes the status it read.
Save(k) ==
    LET op == h[k].op IN
    /\ h[k].pc = "write" /\ ~InTransaction(op) /\ row = None
    /\ order' = IF op = "UpdateRedemption" THEN h[k].seen ELSE Target(op)
    /\ IF op = "EpayNotify"
       THEN Goes(k, [h[k] EXCEPT !.pc = "credit"]) /\ UNCHANGED <<acked, row>>
       ELSE Finish(k, TRUE)
    /\ UNCHANGED <<scene, credited, emitted, entry, mutex, deliveries, faults>>

\* EpayNotify: IncreaseUserQuota is a statement of its own.
IncreaseUserQuota(k) ==
    /\ h[k].pc = "credit"
    /\ credited' = credited + 1
    /\ Finish(k, TRUE)
    /\ UNCHANGED <<scene, order, emitted, entry, mutex, deliveries, faults>>

\* What a failed statement is reported as.  CompleteSubscriptionOrder calls every error
\* of its SELECT "not found": Creem's handler then looks at the type of the event, and
\* ignores it with success, or looks for a top-up, which there is none yet.
Reported(k) ==
    IF h[k].pc = "read" /\ h[k].op = "CompleteSubscriptionOrder" /\ scene.provider = "creem"
    THEN BOOLEAN ELSE {FALSE}

\* A statement fails: the transaction is rolled back, or the handler returns.
Fails(k) ==
    /\ h[k].pc \in {"read", "write", "credit"}
    /\ faults < MaxFaults /\ faults' = faults + 1
    /\ \E ok \in Reported(k) : Finish(k, ok)
    /\ UNCHANGED <<scene, order, credited, emitted, entry, mutex, deliveries>>

\* The Pancake webhook resolves the order before it locks it.  A lookup that fails is
\* taken for an order that does not exist, and answered with success.
ResolveFails(k) ==
    /\ h[k].pc = "lock" /\ h[k].op \in Paid /\ scene.provider = "pancake"
    /\ faults < MaxFaults /\ faults' = faults + 1
    /\ Goes(k, Idle)
    /\ acked' = TRUE
    /\ UNCHANGED <<scene, order, credited, emitted, row, entry, mutex, deliveries>>

\* A node dies: its handlers, its locks, its transactions.
Crash(n) ==
    LET dead == {k \in Handler : h[k].node = n} IN
    /\ dead # {}
    /\ faults < MaxFaults /\ faults' = faults + 1
    /\ h' = [k \in Handler |-> IF k \in dead THEN Idle ELSE h[k]]
    /\ row' = IF row \in dead THEN None ELSE row
    /\ entry' = [entry EXCEPT ![n] = None]
    /\ mutex' = [m \in Mutex |->
                   IF m = entry[n] \/ \E k \in dead : h[k].mu = m THEN NoMutex ELSE mutex[m]]
    /\ UNCHANGED <<scene, order, credited, emitted, acked, deliveries>>

-----------------------------------------------------------------------------
Work(k) ==
    \/ LockGet(k) \/ LockTake(k) \/ Read(k) \/ Commit(k) \/ Save(k)
    \/ IncreaseUserQuota(k) \/ UnlockMutex(k) \/ UnlockRef(k)

Next ==
    \/ Provider
    \/ \E k \in Handler : Deliver(k) \/ Redeliver(k) \/ Work(k)
                          \/ Fails(k) \/ ResolveFails(k)
    \/ \E n \in Node : Crash(n)

Spec == Init /\ [][Next]_vars

\* Handlers run, and providers deliver again what was not answered.
FairSpec ==
    /\ Spec
    /\ \A k \in Handler : WF_vars(Work(k))
    /\ WF_vars(\E k \in Handler : Redeliver(k))

-----------------------------------------------------------------------------
(* Properties *)

PC == {"idle", "lock", "wait", "read", "write", "credit", "unlock", "unref"}

\* Types; a reference count is never negative, and who waits for a mutex has one.
TypeOK ==
    /\ scene \in Scenes /\ order \in Status /\ credited \in Nat
    /\ emitted \subseteq {"paid", "failed", "expired"} /\ acked \in BOOLEAN
    /\ row \in Handler \cup {None}
    /\ entry \in [Node -> Mutex \cup {None}]
    /\ mutex \in [Mutex -> [held : BOOLEAN, ref : Nat]]
    /\ h \in [Handler -> [pc : PC, op : Op \cup {None}, node : Node \cup {None},
                          mu : Mutex \cup {None}, seen : Status]]
    /\ \A k \in Handler : h[k].pc \in {"wait", "unref"} => h[k].mu # None
    /\ deliveries \in 0 .. MaxDeliveries /\ faults \in 0 .. MaxFaults

\* Handlers that locked the order and have not unlocked it.
Inside(n) ==
    {k \in Handler : /\ h[k].node = n /\ h[k].pc \in {"read", "write", "credit", "unlock"}
                     /\ TakesLock(h[k].op)}

\* In one process at most one handler is inside, and the mutex it will unlock, the
\* one the map holds then, is the one it locked.
OneInside ==
    \A n \in Node : /\ Cardinality(Inside(n)) <= 1
                    /\ \A k \in Inside(n) : entry[n] = h[k].mu /\ mutex[h[k].mu].held

\* The map keeps no entry of an order nobody is working on.
NoEntryLeft ==
    \A n \in Node : entry[n] # None =>
      \E k \in Handler : h[k].node = n /\ h[k].mu = entry[n]

\* LockOrder and UnlockOrder exclude the handlers of one process and leave nothing
\* behind, although the entry is deleted and created anew while others wait (and
\* the state keeps its types).
OrderLockIsSound == TypeOK /\ OneInside /\ NoEntryLeft

\* The handlers of this order exclude each other: all take the process's lock and
\* there is one process, or all are transactions on a row that is really locked.
Serialised ==
    \/ Cardinality(scene.nodes) = 1 /\ \A op \in scene.ops : TakesLock(op)
    \/ scene.locked /\ \A op \in scene.ops : InTransaction(op)

\* A payment is credited once, a subscription created once and a code redeemed once,
\* however often, late and concurrently callbacks are delivered, and although the
\* administrator completes the order by hand.
CreditedOnce == Serialised => credited <= 1

\* A completed order stays completed: no late failure, expiry or duplicate changes it.
SuccessIsFinal == [][Serialised /\ order = "success" => order' = "success"]_vars

\* A row that says success was credited, also after failed statements and deaths;
\* EpayNotify, which is no transaction, only without those.
SuccessIsCredited ==
    /\ Serialised
    /\ "EpayNotify" \in scene.ops => faults = 0 /\ \A k \in Handler : h[k].pc # "credit"
    => (order = "success" => credited >= 1)

\* The events that may be answered with success and leave the order pending, if a
\* statement fails: Stripe's are answered whatever happens, EpayNotify answers first,
\* and Pancake's orders and Creem's subscriptions that cannot be read are "not found".
AnsweredAnyway ==
    \/ scene.provider \in {"stripe", "pancake"}
    \/ "EpayNotify" \in scene.ops
    \/ scene.provider = "creem" /\ "CompleteSubscriptionOrder" \in scene.ops

=============================================================================
