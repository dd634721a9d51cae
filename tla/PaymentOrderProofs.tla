------------------------- MODULE PaymentOrderProofs -------------------------
(***************************************************************************)
(* The order lock, and what it and the row lock are for, for any number of *)
(* handlers, nodes, deliveries and faults.                                 *)
(*                                                                         *)
(* The argument: whoever has a reference to a mutex keeps it in the map of *)
(* its node, because the count of references is exact (LockInv); so all    *)
(* handlers of a node that wait or work use one mutex, which one of them   *)
(* holds.  A row that is really locked belongs to the one transaction that *)
(* has read and not yet written it (RowInv).  Where one of the two covers  *)
(* every operation, whoever is about to write saw the order pending and it *)
(* still is, and the credit is behind or ahead of the status only within   *)
(* EpayNotify (CreditInv).                                                 *)
(***************************************************************************)
EXTENDS PaymentOrder, FiniteSetTheorems, TLAPS

\* Handlers with a reference to the mutex; handlers that hold it.
Users(m) == {k \in Handler : h[k].mu = m}
Holds(k) == TakesLock(h[k].op) /\ h[k].pc \in {"read", "write", "credit", "unlock"}

\* What a handler's program counter says of the rest of it.
Shaped(x) ==
    /\ x.pc # "idle" => x.op \in scene.ops /\ x.node \in scene.nodes
    /\ x.pc \in {"lock", "wait", "unlock", "unref"} => TakesLock(x.op)
    /\ x.pc = "credit" => x.op = "EpayNotify"
    /\ x.mu # None <=> TakesLock(x.op) /\ x.pc \notin {"idle", "lock"}
Shape == \A k \in Handler : Shaped(h[k])

LockInv ==
    /\ \A k \in Handler : h[k].mu # None => entry[h[k].node] = h[k].mu
    /\ \A n, o \in Node : entry[n] # None /\ entry[n] = entry[o] => n = o
    /\ \A m \in Mutex : mutex[m].ref = Cardinality(Users(m))
    /\ \A k \in Handler : Holds(k) => mutex[h[k].mu].held
    /\ \A j, k \in Handler : Holds(j) /\ Holds(k) /\ h[j].mu = h[k].mu => j = k

\* The row is locked exactly by the transaction that has read and not written it.
RowInv ==
    \A k \in Handler :
        row = k <=> h[k].pc = "write" /\ InTransaction(h[k].op) /\ scene.locked

CreditInv ==
    Serialised =>
        /\ \A k \in Handler : h[k].pc = "write" => order = "pending"
        /\ \A k \in Handler : h[k].pc = "credit" => order = "success" /\ credited = 0
        /\ credited <= 1
        /\ order # "success" => credited = 0

OrderInv ==
    TypeOK /\ Shape /\ LockInv /\ NoEntryLeft /\ RowInv /\ CreditInv /\ SuccessIsCredited

-----------------------------------------------------------------------------
(* References to a mutex. *)

HandlerState ==
    [pc : PC, op : Op \cup {None}, node : Node \cup {None},
     mu : Mutex \cup {None}, seen : Status]

LEMMA UsersFinite ==
  ASSUME NEW m
  PROVE  IsFiniteSet(Users(m)) /\ Cardinality(Users(m)) \in Nat
<1>1. Users(m) \in SUBSET Handler  BY DEF Users
<1>2. IsFiniteSet(Users(m))  BY <1>1, PaymentAssumption, FS_Subset
<1> QED  BY <1>2, FS_CardinalityType

\* A handler without a reference gets one.
LEMMA OneMoreUser ==
  ASSUME TypeOK, NEW k \in Handler, NEW m \in Mutex, h[k].mu = None,
         NEW x \in HandlerState, x.mu = m, h' = [h EXCEPT ![k] = x]
  PROVE  /\ Cardinality(Users(m)') = Cardinality(Users(m)) + 1
         /\ \A o \in Mutex : o # m => Users(o)' = Users(o)
<1>1. None \notin Mutex  BY PaymentAssumption
<1>2. h \in [Handler -> HandlerState]  BY DEF TypeOK, HandlerState
<1>3. k \notin Users(m)  BY <1>1 DEF Users
<1>4. Users(m)' = Users(m) \cup {k}  BY <1>2 DEF Users
<1>5. \A o \in Mutex : o # m => Users(o)' = Users(o)  BY <1>1, <1>2 DEF Users
<1> QED  BY <1>3, <1>4, <1>5, UsersFinite, FS_AddElement

\* A handler gives its reference up.
LEMMA OneUserLess ==
  ASSUME TypeOK, NEW k \in Handler, NEW m \in Mutex, h[k].mu = m,
         NEW x \in HandlerState, x.mu = None, h' = [h EXCEPT ![k] = x]
  PROVE  /\ Cardinality(Users(m)') = Cardinality(Users(m)) - 1
         /\ Cardinality(Users(m)) > 0
         /\ \A o \in Mutex : o # m => Users(o)' = Users(o)
<1>1. None \notin Mutex  BY PaymentAssumption
<1>2. h \in [Handler -> HandlerState]  BY DEF TypeOK, HandlerState
<1>3. k \in Users(m)  BY DEF Users
<1>4. Users(m)' = Users(m) \ {k}  BY <1>1, <1>2 DEF Users
<1>5. \A o \in Mutex : o # m => Users(o)' = Users(o)  BY <1>1, <1>2 DEF Users
<1>6. Cardinality(Users(m)') = Cardinality(Users(m)) - 1
  BY <1>3, <1>4, UsersFinite, FS_RemoveElement
<1>7. Cardinality(Users(m)) > 0  BY <1>3, UsersFinite, FS_EmptySet
<1> QED  BY <1>5, <1>6, <1>7

-----------------------------------------------------------------------------
(* Initial states *)

LEMMA InitScenes == InitScene => scene \in Scenes
<1> SUFFICES ASSUME InitScene PROVE scene \in Scenes
  OBVIOUS
<1>a. PICK p \in DOMAIN TopUpOps, l \in BOOLEAN, n \in {{CHOOSE x \in Node : TRUE}, Node} :
        \E o \in (SUBSET TopUpOps[p])
                 \cup (IF p \in DOMAIN SubscriptionOps THEN SUBSET SubscriptionOps[p] ELSE {}) :
          scene = [provider |-> p, ops |-> o, nodes |-> n, locked |-> l]
  BY DEF InitScene
<1>1. PICK o \in (SUBSET TopUpOps[p])
              \cup (IF p \in DOMAIN SubscriptionOps THEN SUBSET SubscriptionOps[p] ELSE {}) :
        scene = [provider |-> p, ops |-> o, nodes |-> n, locked |-> l]
  BY <1>a
<1>2. n \in SUBSET Node
  <2>1. (CHOOSE x \in Node : TRUE) \in Node  BY PaymentAssumption
  <2> QED  BY <2>1
<1>3. TopUpOps[p] \subseteq Op
  BY DEF TopUpOps, Op, Paid, Failing, Expiring
<1>4. p \in DOMAIN SubscriptionOps => SubscriptionOps[p] \subseteq Op
  BY DEF SubscriptionOps, Op, Paid, Failing, Expiring
<1>5. o \in SUBSET Op  BY <1>3, <1>4
<1> QED  BY <1>1, <1>2, <1>5 DEF Scenes

LEMMA OrderInit == Init => OrderInv
<1> SUFFICES ASSUME Init PROVE OrderInv
  OBVIOUS
<1>0. None \notin Mutex /\ None \notin Handler  BY PaymentAssumption
<1>1. TypeOK
  <2>1. scene \in Scenes  BY InitScenes DEF Init
  <2>2. h \in [Handler -> HandlerState]  BY DEF Init, Idle, HandlerState, PC, Status
  <2>3. mutex \in [Mutex -> [held : BOOLEAN, ref : Nat]]  BY DEF Init, NoMutex
  <2>4. deliveries \in 0 .. MaxDeliveries /\ faults \in 0 .. MaxFaults
    BY PaymentAssumption DEF Init
  <2>5. entry \in [Node -> Mutex \cup {None}]  BY DEF Init
  <2>6. \A k \in Handler : h[k].pc = "idle"  BY DEF Init, Idle
  <2> QED  BY <2>1, <2>2, <2>3, <2>4, <2>5, <2>6 DEF Init, TypeOK, HandlerState, Status
<1>2. Shape  BY DEF Init, Shape, Shaped, Idle
<1>3. LockInv
  <2>1. \A m \in Mutex : Users(m) = {}  BY <1>0 DEF Init, Users, Idle
  <2>2. \A m \in Mutex : mutex[m].ref = Cardinality(Users(m))
    BY <2>1, FS_EmptySet DEF Init, NoMutex
  <2> QED  BY <2>2 DEF Init, LockInv, Holds, Idle
<1>4. NoEntryLeft  BY DEF Init, NoEntryLeft
<1>5. RowInv  BY <1>0 DEF Init, RowInv, Idle
<1>6. CreditInv  BY DEF Init, CreditInv, Idle
<1>7. SuccessIsCredited  BY DEF Init, SuccessIsCredited
<1> QED  BY <1>1, <1>2, <1>3, <1>4, <1>5, <1>6, <1>7 DEF OrderInv

-----------------------------------------------------------------------------
(* One handler moves. *)

LEMMA OneMoves ==
  ASSUME TypeOK, NEW k \in Handler, NEW x \in HandlerState, Goes(k, x)
  PROVE  /\ h' \in [Handler -> HandlerState] /\ h'[k] = x
         /\ \A j \in Handler : j # k => h'[j] = h[j]
BY DEF TypeOK, HandlerState, Goes

LEMMA States ==
  ASSUME TypeOK
  PROVE  /\ h \in [Handler -> HandlerState] /\ Idle \in HandlerState
         /\ \A k \in Handler : h[k] \in HandlerState
BY DEF TypeOK, HandlerState, Idle, PC, Status

\* Who works is on a node.
LEMMA OnNode ==
  ASSUME OrderInv, NEW k \in Handler, h[k].pc # "idle"
  PROVE  h[k].node \in Node /\ h[k].op \in scene.ops /\ h[k].op \in Op
BY DEF OrderInv, TypeOK, Scenes, Shape, Shaped

\* The type of a handler's state says no more than its shape.
LEMMA TypeKept ==
  ASSUME TypeOK, Shape', h' \in [Handler -> HandlerState], UNCHANGED scene,
         order' \in Status, credited' \in Nat, emitted' \subseteq {"paid", "failed", "expired"},
         acked' \in BOOLEAN, row' \in Handler \cup {None},
         entry' \in [Node -> Mutex \cup {None}],
         mutex' \in [Mutex -> [held : BOOLEAN, ref : Nat]],
         deliveries' \in 0 .. MaxDeliveries, faults' \in 0 .. MaxFaults
  PROVE  TypeOK'
<1>1. \A k \in Handler : (h[k].pc \in {"wait", "unref"})' => (h[k].mu # None)'
  BY DEF Shape, Shaped
<1> QED  BY <1>1 DEF TypeOK, HandlerState

LEMMA ShapeKept ==
  ASSUME TypeOK, Shape, NEW k \in Handler, NEW x \in HandlerState, Goes(k, x),
         UNCHANGED scene, Shaped(x)
  PROVE  Shape'
BY OneMoves DEF Shape, Shaped

\* A handler that keeps its reference and takes no lock leaves the locks sound.
LEMMA LockKept ==
  ASSUME OrderInv, NEW k \in Handler, NEW x \in HandlerState, Goes(k, x),
         UNCHANGED <<scene, entry, mutex>>,
         x.mu = h[k].mu, x.mu # None => x.node = h[k].node,
         TakesLock(x.op) /\ x.pc \in {"read", "write", "credit", "unlock"} => Holds(k)
  PROVE  LockInv' /\ NoEntryLeft'
<1>1. TypeOK /\ LockInv /\ NoEntryLeft  BY DEF OrderInv
<1>2. h'[k] = x /\ \A j \in Handler : j # k => h'[j] = h[j]  BY <1>1, OneMoves
<1>3. \A j \in Handler : h'[j].mu = h[j].mu  BY <1>2
<1>4. \A j \in Handler : h[j].mu # None => h'[j].node = h[j].node  BY <1>2
<1>5. \A j \in Handler : Holds(j)' => Holds(j)  BY <1>2 DEF Holds
<1>6. \A m \in Mutex : Users(m)' = Users(m)  BY <1>3 DEF Users
<1>7. LockInv'
  <2>1. \A j \in Handler : h'[j].mu # None => entry'[h'[j].node] = h'[j].mu
    BY <1>1, <1>3, <1>4 DEF LockInv
  <2>2. \A m \in Mutex : mutex'[m].ref = Cardinality(Users(m)')  BY <1>1, <1>6 DEF LockInv
  <2>3. \A j \in Handler : Holds(j)' => mutex'[h'[j].mu].held  BY <1>1, <1>3, <1>5 DEF LockInv
  <2>4. \A i, j \in Handler : Holds(i)' /\ Holds(j)' /\ h'[i].mu = h'[j].mu => i = j
    BY <1>1, <1>3, <1>5 DEF LockInv
  <2> QED  BY <1>1, <2>1, <2>2, <2>3, <2>4 DEF LockInv
<1>8. NoEntryLeft'
  <2> SUFFICES ASSUME NEW n \in Node, entry'[n] # None
               PROVE  \E j \in Handler : h'[j].node = n /\ h'[j].mu = entry'[n]
    BY DEF NoEntryLeft
  <2>1. PICK j \in Handler : h[j].node = n /\ h[j].mu = entry[n]  BY <1>1 DEF NoEntryLeft
  <2> QED  BY <2>1, <1>3, <1>4
<1> QED  BY <1>7, <1>8

LEMMA RowKept ==
  ASSUME TypeOK, RowInv, NEW k \in Handler, NEW x \in HandlerState, Goes(k, x), UNCHANGED scene,
         row' = k <=> x.pc = "write" /\ InTransaction(x.op) /\ scene.locked,
         \A j \in Handler : j # k => (row' = j <=> row = j)
  PROVE  RowInv'
BY OneMoves DEF RowInv

\* Whose work excludes others: at most one handler has read the order and not
\* finished with it.
LEMMA Exclusion ==
  ASSUME OrderInv, Serialised, NEW j \in Handler, NEW k \in Handler,
         h[j].pc \in {"write", "credit"}, h[k].pc \in {"write", "credit"}
  PROVE  j = k
<1>1. h[j].node \in scene.nodes /\ h[k].node \in scene.nodes
      /\ h[j].op \in scene.ops /\ h[k].op \in scene.ops
  BY DEF OrderInv, Shape, Shaped
<1>2. CASE Cardinality(scene.nodes) = 1 /\ \A op \in scene.ops : TakesLock(op)
  <2>1. Holds(j) /\ Holds(k)  BY <1>1, <1>2 DEF Holds
  <2>2. IsFiniteSet(scene.nodes)
    <3>1. scene.nodes \in SUBSET Node  BY DEF OrderInv, TypeOK, Scenes
    <3> QED  BY <3>1, PaymentAssumption, FS_Subset
  <2>3. PICK n : scene.nodes = {n}  BY <1>2, <2>2, FS_Singleton
  <2>4. h[j].node = h[k].node  BY <1>1, <2>3
  <2>5. h[j].mu # None /\ h[k].mu # None  BY <2>1 DEF OrderInv, Shape, Shaped, Holds
  <2>6. h[j].mu = h[k].mu  BY <2>4, <2>5 DEF OrderInv, LockInv
  <2> QED  BY <2>1, <2>6 DEF OrderInv, LockInv
<1>3. CASE scene.locked /\ \A op \in scene.ops : InTransaction(op)
  <2>1. h[j].pc = "write" /\ h[k].pc = "write"
    BY <1>1, <1>3 DEF OrderInv, Shape, Shaped, InTransaction
  <2> QED  BY <1>1, <1>3, <2>1 DEF OrderInv, RowInv
<1> QED  BY <1>2, <1>3 DEF Serialised

\* The administrator's edit of a code is neither locked nor a transaction.
LEMMA NoEdit ==
  ASSUME Serialised PROVE "UpdateRedemption" \notin scene.ops
BY DEF Serialised, TakesLock, InTransaction

\* A step that changes neither status nor credit.
LEMMA CreditKept ==
  ASSUME OrderInv, NEW k \in Handler, NEW x \in HandlerState, Goes(k, x),
         UNCHANGED <<scene, order, credited>>, faults' \in Nat, faults' >= faults,
         x.pc # "credit", x.pc = "write" /\ Serialised => order = "pending",
         h[k].pc # "credit" \/ faults' > 0
  PROVE  CreditInv' /\ SuccessIsCredited'
<1>1. TypeOK /\ CreditInv /\ SuccessIsCredited  BY DEF OrderInv
<1>2. h'[k] = x /\ \A j \in Handler : j # k => h'[j] = h[j]  BY <1>1, OneMoves
<1>3. CreditInv'  BY <1>1, <1>2 DEF CreditInv, Serialised
<1>4. ASSUME "EpayNotify" \in scene.ops => faults' = 0 /\ \A j \in Handler : h'[j].pc # "credit",
             "EpayNotify" \in scene.ops
      PROVE  faults = 0 /\ \A j \in Handler : h[j].pc # "credit"
  BY <1>1, <1>2, <1>4 DEF TypeOK
<1>5. SuccessIsCredited'  BY <1>1, <1>4 DEF SuccessIsCredited, Serialised
<1> QED  BY <1>3, <1>5

\* The end of a handler's work: it unlocks, if it had locked.
LEMMA FinishKept ==
  ASSUME OrderInv, NEW k \in Handler, NEW ok \in BOOLEAN, Finish(k, ok),
         h[k].pc \in {"read", "write", "credit"}, UNCHANGED <<scene, entry, mutex>>
  PROVE  /\ h' \in [Handler -> HandlerState] /\ acked' \in BOOLEAN /\ row' \in Handler \cup {None}
         /\ \E x \in HandlerState : Goes(k, x) /\ x.pc \in {"idle", "unlock"}
         /\ Shape' /\ LockInv' /\ NoEntryLeft' /\ RowInv'
<1>1. TypeOK /\ Shape /\ RowInv  BY DEF OrderInv
<1>2. None \notin Handler  BY PaymentAssumption
<1> DEFINE x == IF TakesLock(h[k].op) THEN [h[k] EXCEPT !.pc = "unlock"] ELSE Idle
<1>3. x \in HandlerState
  <2>1. h[k] \in HandlerState /\ Idle \in HandlerState  BY <1>1, States
  <2> QED  BY <2>1 DEF HandlerState, PC
<1>4. Goes(k, x)  BY DEF Finish
<1>5. x.pc \in {"idle", "unlock"} /\ x.mu = h[k].mu /\ (x.mu # None => x.node = h[k].node)
  <2>1. h[k] \in HandlerState  BY <1>1, States
  <2>2. Shaped(h[k])  BY <1>1 DEF Shape
  <2> QED  BY <2>1, <2>2 DEF Idle, HandlerState, Shaped
<1>6. Shaped(x)
  <2>1. h[k] \in HandlerState  BY <1>1, States
  <2>2. Shaped(h[k])  BY <1>1 DEF Shape
  <2>3. CASE TakesLock(h[k].op)  BY <2>1, <2>2, <2>3 DEF HandlerState, Shaped
  <2>4. CASE ~TakesLock(h[k].op)  BY <2>4 DEF Idle, Shaped
  <2> QED  BY <2>3, <2>4
<1>7. TakesLock(x.op) /\ x.pc \in {"read", "write", "credit", "unlock"} => Holds(k)
  <2>1. h[k] \in HandlerState  BY <1>1, States
  <2> QED  BY <2>1 DEF Idle, HandlerState, Holds
<1>8. row' = IF row = k THEN None ELSE row  BY DEF Finish
<1>9. acked' \in BOOLEAN  BY DEF Finish
<1> HIDE DEF x
<1>10. Shape'  BY <1>1, <1>3, <1>4, <1>6, ShapeKept
<1>11. LockInv' /\ NoEntryLeft'  BY <1>3, <1>4, <1>5, <1>7, LockKept
<1>12. RowInv'
  <2>1. row' # k /\ x.pc # "write"  BY <1>2, <1>5, <1>8
  <2>2. \A j \in Handler : j # k => (row' = j <=> row = j)  BY <1>2, <1>8
  <2> QED  BY <1>1, <1>3, <1>4, <2>1, <2>2, RowKept
<1>13. row' \in Handler \cup {None}  BY <1>1, <1>8 DEF TypeOK
<1>14. h' \in [Handler -> HandlerState]  BY <1>1, <1>3, <1>4, OneMoves
<1> QED  BY <1>3, <1>4, <1>5, <1>9, <1>10, <1>11, <1>12, <1>13, <1>14

-----------------------------------------------------------------------------
(* Each action keeps the invariant. *)

LEMMA ProviderStep == ASSUME OrderInv, Provider PROVE OrderInv'
<1>1. UNCHANGED <<scene, order, credited, acked, row, entry, mutex, h, deliveries, faults>>
  BY DEF Provider
<1>2. (emitted \subseteq {"paid", "failed", "expired"})'  BY DEF OrderInv, TypeOK, Provider, Emits
<1>3. TypeOK'  BY <1>1, <1>2 DEF OrderInv, TypeOK
<1>4. Shape'  BY <1>1 DEF OrderInv, Shape, Shaped
<1>5. LockInv' /\ NoEntryLeft'  BY <1>1 DEF OrderInv, LockInv, NoEntryLeft, Users, Holds
<1>6. RowInv' /\ CreditInv' /\ SuccessIsCredited'
  BY <1>1 DEF OrderInv, RowInv, CreditInv, SuccessIsCredited, Serialised
<1> QED  BY <1>3, <1>4, <1>5, <1>6 DEF OrderInv

LEMMA StartStep ==
  ASSUME OrderInv, NEW k \in Handler, NEW op \in Op, NEW n \in Node, Starts(k, op, n),
         deliveries' \in 0 .. MaxDeliveries
  PROVE  OrderInv'
<1>1. TypeOK /\ Shape /\ RowInv /\ Shaped(h[k])  BY DEF OrderInv, Shape
<1> DEFINE x == [Idle EXCEPT !.pc = IF TakesLock(op) THEN "lock" ELSE "read",
                             !.op = op, !.node = n]
<1>2. x \in HandlerState  BY DEF Idle, HandlerState, PC, Status
<1>3. /\ Goes(k, x) /\ h[k].pc = "idle" /\ op \in scene.ops /\ n \in scene.nodes
      /\ UNCHANGED <<scene, order, credited, emitted, row, entry, mutex, faults>>
      /\ acked' \in BOOLEAN
  BY DEF Starts
<1>4. /\ x.pc = (IF TakesLock(op) THEN "lock" ELSE "read") /\ x.op = op /\ x.node = n
      /\ x.mu = None
  BY DEF Idle
<1> HIDE DEF x
<1>5. h[k].mu = None  BY <1>1, <1>3 DEF Shaped
<1>6. Shape'
  <2>1. Shaped(x)  BY <1>3, <1>4 DEF Shaped
  <2> QED  BY <1>1, <1>2, <1>3, <2>1, ShapeKept
<1>7. LockInv' /\ NoEntryLeft'  BY <1>2, <1>3, <1>4, <1>5, LockKept
<1>8. RowInv'
  <2>1. row # k /\ x.pc # "write"  BY <1>1, <1>3, <1>4 DEF RowInv
  <2> QED  BY <1>1, <1>2, <1>3, <2>1, RowKept
<1>9. CreditInv' /\ SuccessIsCredited'
  <2>1. faults \in Nat  BY <1>1 DEF TypeOK
  <2> QED  BY <1>2, <1>3, <1>4, <2>1, CreditKept
<1>10. TypeOK'
  <2>1. h' \in [Handler -> HandlerState]  BY <1>1, <1>2, <1>3, OneMoves
  <2> QED  BY <1>1, <1>3, <1>6, <2>1, TypeKept DEF TypeOK
<1> QED  BY <1>6, <1>7, <1>8, <1>9, <1>10 DEF OrderInv

LEMMA LockGetStep == ASSUME OrderInv, NEW k \in Handler, LockGet(k) PROVE OrderInv'
<1>1. TypeOK /\ Shape /\ LockInv /\ NoEntryLeft /\ RowInv /\ Shaped(h[k])  BY DEF OrderInv, Shape
<1>2. None \notin Mutex  BY PaymentAssumption
<1> DEFINE n == h[k].node
<1>3. /\ h[k].pc = "lock"
      /\ UNCHANGED <<scene, order, credited, emitted, acked, row, deliveries, faults>>
  BY DEF LockGet
<1>4. n \in Node  BY <1>3, OnNode
<1>5. PICK m \in Mutex :
        /\ IF entry[n] # None THEN m = entry[n] ELSE ~Referenced(m)
        /\ entry' = [entry EXCEPT ![n] = m]
        /\ mutex' = [mutex EXCEPT ![m].ref = @ + 1]
        /\ Goes(k, [h[k] EXCEPT !.pc = "wait", !.mu = m])
  BY DEF LockGet, Counted
<1> DEFINE x == [h[k] EXCEPT !.pc = "wait", !.mu = m]
<1>6. h[k] \in HandlerState  BY <1>1, States
<1>7. /\ x \in HandlerState /\ x.pc = "wait" /\ x.mu = m
      /\ x.op = h[k].op /\ x.node = n /\ Goes(k, x)
  BY <1>5, <1>6 DEF HandlerState, PC
<1> HIDE DEF x, n
<1>8. h[k].mu = None  BY <1>1, <1>3 DEF Shaped
<1>9. h'[k] = x /\ \A j \in Handler : j # k => h'[j] = h[j]  BY <1>1, <1>7, OneMoves
<1>10. entry' \in [Node -> Mutex \cup {None}] /\ entry'[n] = m
       /\ \A o \in Node : o # n => entry'[o] = entry[o]
  BY <1>1, <1>4, <1>5 DEF TypeOK
<1>11. mutex' \in [Mutex -> [held : BOOLEAN, ref : Nat]]
       /\ \A o \in Mutex : mutex'[o].held = mutex[o].held
                           /\ mutex'[o].ref = mutex[o].ref + (IF o = m THEN 1 ELSE 0)
  BY <1>1, <1>5 DEF TypeOK
<1>12. Shape'
  <2>1. Shaped(x)  BY <1>1, <1>2, <1>3, <1>7 DEF Shaped, n
  <2> QED  BY <1>1, <1>3, <1>7, <2>1, ShapeKept
<1>13. LockInv'
  <2>1. ASSUME NEW j \in Handler, h'[j].mu # None
        PROVE  entry'[h'[j].node] = h'[j].mu
    <3>1. CASE j = k  BY <3>1, <1>7, <1>9, <1>10
    <3>2. CASE j # k
      <4>1. h[j].mu # None /\ entry[h[j].node] = h[j].mu  BY <1>1, <1>9, <2>1, <3>2 DEF LockInv
      <4>2. h[j].node \in Node
        <5>1. Shaped(h[j])  BY <1>1 DEF Shape
        <5>2. h[j].pc # "idle"  BY <4>1, <5>1 DEF Shaped
        <5> QED  BY <5>2, OnNode
      <4> QED  BY <1>5, <1>9, <1>10, <3>2, <4>1, <4>2
    <3> QED  BY <3>1, <3>2
  <2>2. ASSUME NEW a \in Node, NEW b \in Node, entry'[a] # None, entry'[a] = entry'[b]
        PROVE  a = b
    BY <1>1, <1>4, <1>5, <1>10, <2>2 DEF LockInv, Referenced
  <2>3. ASSUME NEW o \in Mutex PROVE mutex'[o].ref = Cardinality(Users(o)')
    <3>1. Cardinality(Users(m)') = Cardinality(Users(m)) + 1
          /\ \A q \in Mutex : q # m => Users(q)' = Users(q)
      BY <1>1, <1>7, <1>8, OneMoreUser DEF Goes
    <3>2. mutex[o].ref = Cardinality(Users(o)) /\ Cardinality(Users(o)) \in Nat
      BY <1>1, UsersFinite DEF LockInv
    <3> QED  BY <1>11, <3>1, <3>2
  <2>4. ASSUME NEW j \in Handler, Holds(j)' PROVE j # k /\ Holds(j) /\ h'[j] = h[j]
    BY <1>7, <1>9, <2>4 DEF Holds
  <2>5. ASSUME NEW j \in Handler, Holds(j)' PROVE mutex'[h'[j].mu].held
    <3>1. h[j].mu # None  BY <1>1, <2>4, <2>5 DEF Shape, Shaped, Holds
    <3>2. h[j].mu \in Mutex  BY <1>1, <3>1 DEF TypeOK
    <3> QED  BY <1>1, <1>11, <2>4, <2>5, <3>2 DEF LockInv
  <2>6. \A i, j \in Handler : Holds(i)' /\ Holds(j)' /\ h'[i].mu = h'[j].mu => i = j
    BY <1>1, <2>4 DEF LockInv
  <2> QED  BY <2>1, <2>2, <2>3, <2>5, <2>6 DEF LockInv
<1>14. NoEntryLeft'
  <2> SUFFICES ASSUME NEW o \in Node, entry'[o] # None
               PROVE  \E j \in Handler : h'[j].node = o /\ h'[j].mu = entry'[o]
    BY DEF NoEntryLeft
  <2>1. CASE o = n  BY <2>1, <1>7, <1>9, <1>10
  <2>2. CASE o # n
    <3>1. PICK j \in Handler : h[j].node = o /\ h[j].mu = entry[o]
      BY <1>1, <1>10, <2>2 DEF NoEntryLeft
    <3> QED  BY <1>8, <1>9, <1>10, <2>2, <3>1
  <2> QED  BY <2>1, <2>2
<1>15. RowInv'
  <2>1. row # k  BY <1>1, <1>3 DEF RowInv
  <2> QED  BY <1>1, <1>3, <1>7, <2>1, RowKept
<1>16. CreditInv' /\ SuccessIsCredited'
  <2>1. faults \in Nat  BY <1>1 DEF TypeOK
  <2> QED  BY <1>3, <1>7, <2>1, CreditKept
<1>17. TypeOK'
  <2>1. h' \in [Handler -> HandlerState]  BY <1>1, <1>7, OneMoves
  <2> QED  BY <1>1, <1>3, <1>10, <1>11, <1>12, <2>1, TypeKept DEF TypeOK
<1> QED  BY <1>12, <1>13, <1>14, <1>15, <1>16, <1>17 DEF OrderInv

\* Taking and releasing the mutex one has a reference to.
LEMMA MutexStep ==
  ASSUME OrderInv, NEW k \in Handler, NEW x \in HandlerState, NEW held \in BOOLEAN, Goes(k, x),
         h[k].mu # None, Shaped(x), x.mu = h[k].mu, x.node = h[k].node, x.op = h[k].op,
         h[k].pc \notin {"write", "credit"}, x.pc \notin {"write", "credit"},
         mutex' = [mutex EXCEPT ![h[k].mu].held = held],
         \A j \in Handler : j # k /\ Holds(j) => h[j].mu # h[k].mu,
         x.pc \in {"read", "unlock"} => held,
         UNCHANGED <<scene, order, credited, emitted, acked, row, entry, deliveries, faults>>
  PROVE  OrderInv'
<1>1. TypeOK /\ Shape /\ LockInv /\ NoEntryLeft /\ RowInv /\ Shaped(h[k])  BY DEF OrderInv, Shape
<1>2. h'[k] = x /\ \A j \in Handler : j # k => h'[j] = h[j]  BY <1>1, OneMoves
<1>3. h[k].mu \in Mutex  BY <1>1 DEF TypeOK
<1>4. mutex' \in [Mutex -> [held : BOOLEAN, ref : Nat]] /\ mutex'[h[k].mu].held = held
      /\ \A o \in Mutex : /\ mutex'[o].ref = mutex[o].ref
                          /\ o # h[k].mu => mutex'[o].held = mutex[o].held
  BY <1>1, <1>3 DEF TypeOK
<1>5. Shape'  BY <1>1, ShapeKept
<1>6. \A j \in Handler : h'[j].mu = h[j].mu /\ h'[j].node = h[j].node  BY <1>2
<1>7. LockInv'
  <2>1. \A j \in Handler : h'[j].mu # None => entry'[h'[j].node] = h'[j].mu
    BY <1>1, <1>6 DEF LockInv
  <2>2. \A m \in Mutex : mutex'[m].ref = Cardinality(Users(m)')
    <3>1. \A m \in Mutex : Users(m)' = Users(m)  BY <1>6 DEF Users
    <3> QED  BY <1>1, <1>4, <3>1 DEF LockInv
  <2>3. ASSUME NEW j \in Handler, Holds(j)' PROVE mutex'[h'[j].mu].held
    <3>1. CASE j = k  BY <1>2, <1>4, <2>3, <3>1 DEF Holds
    <3>2. CASE j # k
      <4>1. Holds(j) /\ h'[j].mu = h[j].mu /\ h[j].mu # h[k].mu  BY <1>2, <2>3, <3>2 DEF Holds
      <4>2. h[j].mu # None  BY <1>1, <4>1 DEF Shape, Shaped, Holds
      <4>3. h[j].mu \in Mutex  BY <1>1, <4>2 DEF TypeOK
      <4> QED  BY <1>1, <1>4, <4>1, <4>3 DEF LockInv
    <3> QED  BY <3>1, <3>2
  <2>4. ASSUME NEW i \in Handler, NEW j \in Handler, Holds(i)', Holds(j)', h'[i].mu = h'[j].mu
        PROVE  i = j
    <3>1. \A q \in Handler : q # k /\ Holds(q)' => Holds(q)  BY <1>2 DEF Holds
    <3> QED  BY <1>1, <1>6, <2>4, <3>1 DEF LockInv
  <2> QED  BY <1>1, <2>1, <2>2, <2>3, <2>4 DEF LockInv
<1>8. NoEntryLeft'
  <2> SUFFICES ASSUME NEW o \in Node, entry'[o] # None
               PROVE  \E j \in Handler : h'[j].node = o /\ h'[j].mu = entry'[o]
    BY DEF NoEntryLeft
  <2>1. PICK j \in Handler : h[j].node = o /\ h[j].mu = entry[o]  BY <1>1 DEF NoEntryLeft
  <2> QED  BY <1>6, <2>1
<1>9. RowInv'
  <2>1. row # k  BY <1>1 DEF RowInv
  <2> QED  BY <1>1, <2>1, RowKept
<1>10. CreditInv' /\ SuccessIsCredited'
  <2>1. faults \in Nat  BY <1>1 DEF TypeOK
  <2> QED  BY <2>1, CreditKept
<1>11. TypeOK'
  <2>1. h' \in [Handler -> HandlerState]  BY <1>1, OneMoves
  <2> QED  BY <1>1, <1>4, <1>5, <2>1, TypeKept DEF TypeOK
<1> QED  BY <1>5, <1>7, <1>8, <1>9, <1>10, <1>11 DEF OrderInv

LEMMA LockTakeStep == ASSUME OrderInv, NEW k \in Handler, LockTake(k) PROVE OrderInv'
<1>1. TypeOK /\ LockInv /\ Shaped(h[k]) /\ h[k] \in HandlerState
  BY States DEF OrderInv, Shape
<1> DEFINE x == [h[k] EXCEPT !.pc = "read"]
<1>2. /\ x \in HandlerState /\ x.pc = "read" /\ x.mu = h[k].mu /\ x.node = h[k].node
      /\ x.op = h[k].op
  BY <1>1 DEF HandlerState, PC
<1>3. /\ h[k].pc = "wait" /\ ~mutex[h[k].mu].held /\ Goes(k, x)
      /\ mutex' = [mutex EXCEPT ![h[k].mu].held = TRUE]
      /\ UNCHANGED <<scene, order, credited, emitted, acked, row, entry, deliveries, faults>>
  BY DEF LockTake
<1> HIDE DEF x
<1>4. h[k].mu # None /\ Shaped(x)  BY <1>1, <1>2, <1>3 DEF Shaped
<1>5. \A j \in Handler : j # k /\ Holds(j) => h[j].mu # h[k].mu  BY <1>1, <1>3 DEF LockInv
<1> QED  BY <1>2, <1>3, <1>4, <1>5, MutexStep

\* What the map holds when a handler unlocks is the mutex that it locked.
LEMMA UnlockMutexStep == ASSUME OrderInv, NEW k \in Handler, UnlockMutex(k) PROVE OrderInv'
<1>1. TypeOK /\ LockInv /\ Shaped(h[k]) /\ h[k] \in HandlerState
  BY States DEF OrderInv, Shape
<1> DEFINE x == [h[k] EXCEPT !.pc = "unref", !.mu = entry[h[k].node]]
<1>2. h[k].pc = "unlock"
      /\ UNCHANGED <<scene, order, credited, emitted, acked, row, entry, deliveries, faults>>
  BY DEF UnlockMutex
<1>3. h[k].mu # None  BY <1>1, <1>2 DEF Shaped
<1>4. entry[h[k].node] = h[k].mu  BY <1>1, <1>3 DEF LockInv
<1>5. Goes(k, x) /\ mutex' = [mutex EXCEPT ![h[k].mu].held = FALSE]
  BY <1>3, <1>4 DEF UnlockMutex
<1>6. /\ x \in HandlerState /\ x.pc = "unref" /\ x.mu = h[k].mu /\ x.node = h[k].node
      /\ x.op = h[k].op
  BY <1>1, <1>4 DEF HandlerState, PC
<1> HIDE DEF x
<1>7. Shaped(x)  BY <1>1, <1>2, <1>6 DEF Shaped
<1>8. Holds(k)  BY <1>1, <1>2 DEF Shaped, Holds
<1>9. \A j \in Handler : j # k /\ Holds(j) => h[j].mu # h[k].mu  BY <1>1, <1>8 DEF LockInv
<1> QED  BY <1>2, <1>3, <1>5, <1>6, <1>7, <1>9, MutexStep

\* The count is exact, so the entry goes with its last user.
LEMMA UnlockRefStep == ASSUME OrderInv, NEW k \in Handler, UnlockRef(k) PROVE OrderInv'
<1>1. TypeOK /\ Shape /\ LockInv /\ NoEntryLeft /\ RowInv /\ Shaped(h[k])  BY DEF OrderInv, Shape
<1> DEFINE n == h[k].node
<1>0. h[k].mu \in Mutex  BY <1>1 DEF TypeOK, Shaped, UnlockRef
<1>4. PICK m \in Mutex : m = h[k].mu /\ m # None
  BY <1>1, <1>0 DEF TypeOK, UnlockRef
<1>2. /\ h[k].pc = "unref" /\ Goes(k, Idle)
      /\ mutex' = [mutex EXCEPT ![m].ref = @ - 1]
      /\ entry' = [entry EXCEPT ![n] = IF Deletes(m) THEN None ELSE @]
      /\ UNCHANGED <<scene, order, credited, emitted, acked, row, deliveries, faults>>
  BY <1>4 DEF UnlockRef
<1>3. n \in Node  BY <1>2, OnNode
<1>5. entry[n] = m  BY <1>1, <1>4 DEF LockInv
<1>6. Idle \in HandlerState /\ Idle.mu = None /\ Idle.pc = "idle" /\ Idle.op = None
  BY <1>1, States DEF Idle
<1> HIDE DEF n
<1>7. h'[k] = Idle /\ \A j \in Handler : j # k => h'[j] = h[j]  BY <1>1, <1>2, <1>6, OneMoves
<1>8. /\ Cardinality(Users(m)') = Cardinality(Users(m)) - 1 /\ Cardinality(Users(m)) > 0
      /\ \A o \in Mutex : o # m => Users(o)' = Users(o)
  BY <1>1, <1>2, <1>4, <1>6, OneUserLess DEF Goes
<1>9. mutex[m].ref = Cardinality(Users(m)) /\ Cardinality(Users(m)) \in Nat
  BY <1>1, <1>4, UsersFinite DEF LockInv
<1>10. mutex' \in [Mutex -> [held : BOOLEAN, ref : Nat]]
       /\ \A o \in Mutex : mutex'[o].held = mutex[o].held
                           /\ mutex'[o].ref = mutex[o].ref - (IF o = m THEN 1 ELSE 0)
  <2>1. mutex[m] \in [held : BOOLEAN, ref : Nat] /\ mutex[m].ref - 1 \in Nat
    BY <1>1, <1>4, <1>8, <1>9 DEF TypeOK
  <2> QED  BY <1>1, <1>2, <1>4, <2>1 DEF TypeOK
<1>11. Deletes(m) <=> Users(m)' = {}
  <2>1. Deletes(m) <=> Cardinality(Users(m)') = 0  BY <1>8, <1>9 DEF Deletes
  <2>2. IsFiniteSet(Users(m)')
    <3>1. Users(m)' \in SUBSET Handler  BY DEF Users
    <3> QED  BY <3>1, PaymentAssumption, FS_Subset
  <2> QED  BY <2>1, <2>2, FS_EmptySet
<1>12. entry' \in [Node -> Mutex \cup {None}] /\ entry'[n] = (IF Deletes(m) THEN None ELSE m)
       /\ \A o \in Node : o # n => entry'[o] = entry[o]
  BY <1>1, <1>2, <1>3, <1>5 DEF TypeOK
<1>13. \A j \in Handler : h[j].mu # None => h[j].node \in Node
  BY <1>1, OnNode DEF Shape, Shaped
<1>14. Shape'
  <2>1. Shaped(Idle)  BY <1>6 DEF Shaped
  <2> QED  BY <1>1, <1>2, <1>6, <2>1, ShapeKept
<1>15. LockInv'
  <2>1. ASSUME NEW j \in Handler, h'[j].mu # None
        PROVE  entry'[h'[j].node] = h'[j].mu
    <3>1. j # k /\ h'[j] = h[j]  BY <1>6, <1>7, <2>1
    <3>2. entry[h[j].node] = h[j].mu /\ h[j].node \in Node
      BY <1>1, <1>13, <2>1, <3>1 DEF LockInv
    <3>3. CASE h[j].node = n
      <4>1. j \in Users(m)'  BY <1>5, <3>1, <3>2, <3>3 DEF Users
      <4> QED  BY <1>5, <1>11, <1>12, <3>1, <3>2, <3>3, <4>1
    <3>4. CASE h[j].node # n  BY <1>12, <3>1, <3>2, <3>4
    <3> QED  BY <3>3, <3>4
  <2>2. \A a, b \in Node : entry'[a] # None /\ entry'[a] = entry'[b] => a = b
    BY <1>1, <1>3, <1>5, <1>12 DEF LockInv
  <2>3. ASSUME NEW o \in Mutex PROVE mutex'[o].ref = Cardinality(Users(o)')
    <3>1. mutex[o].ref = Cardinality(Users(o)) /\ Cardinality(Users(o)) \in Nat
      BY <1>1, UsersFinite DEF LockInv
    <3> QED  BY <1>8, <1>10, <3>1
  <2>4. ASSUME NEW j \in Handler, Holds(j)' PROVE j # k /\ Holds(j) /\ h'[j] = h[j]
    BY <1>6, <1>7, <2>4 DEF Holds
  <2>5. ASSUME NEW j \in Handler, Holds(j)' PROVE mutex'[h'[j].mu].held
    <3>1. h[j].mu # None  BY <1>1, <2>4, <2>5 DEF Shape, Shaped, Holds
    <3>2. h[j].mu \in Mutex  BY <1>1, <3>1 DEF TypeOK
    <3> QED  BY <1>1, <1>10, <2>4, <2>5, <3>2 DEF LockInv
  <2>6. \A i, j \in Handler : Holds(i)' /\ Holds(j)' /\ h'[i].mu = h'[j].mu => i = j
    BY <1>1, <2>4 DEF LockInv
  <2> QED  BY <2>1, <2>2, <2>3, <2>5, <2>6 DEF LockInv
<1>16. NoEntryLeft'
  <2> SUFFICES ASSUME NEW o \in Node, entry'[o] # None
               PROVE  \E j \in Handler : h'[j].node = o /\ h'[j].mu = entry'[o]
    BY DEF NoEntryLeft
  <2>1. CASE o = n
    <3>1. ~Deletes(m) /\ entry'[n] = m  BY <1>12, <2>1
    <3>2. PICK j \in Handler : h'[j].mu = m  BY <1>11, <3>1 DEF Users
    <3>3. j # k /\ h'[j] = h[j]  BY <1>4, <1>6, <1>7, <3>2
    <3>4. entry[h[j].node] = m /\ h[j].node \in Node  BY <1>1, <1>4, <1>13, <3>2, <3>3 DEF LockInv
    <3>5. h[j].node = n  BY <1>1, <1>3, <1>4, <1>5, <3>4 DEF LockInv
    <3> QED  BY <2>1, <3>1, <3>2, <3>3, <3>5
  <2>2. CASE o # n
    <3>1. PICK j \in Handler : h[j].node = o /\ h[j].mu = entry[o]
      BY <1>1, <1>12, <2>2 DEF NoEntryLeft
    <3> QED  BY <1>7, <1>12, <2>2, <3>1 DEF n
  <2> QED  BY <2>1, <2>2
<1>17. RowInv'
  <2>1. row # k  BY <1>1, <1>2 DEF RowInv
  <2> QED  BY <1>1, <1>2, <1>6, <2>1, RowKept
<1>18. CreditInv' /\ SuccessIsCredited'
  <2>1. faults \in Nat  BY <1>1 DEF TypeOK
  <2> QED  BY <1>2, <1>6, <2>1, CreditKept
<1>19. TypeOK'
  <2>1. h' \in [Handler -> HandlerState]  BY <1>1, <1>2, <1>6, OneMoves
  <2> QED  BY <1>1, <1>2, <1>10, <1>12, <1>14, <2>1, TypeKept DEF TypeOK
<1> QED  BY <1>14, <1>15, <1>16, <1>17, <1>18, <1>19 DEF OrderInv

LEMMA AcceptsBoolean == ASSUME NEW op PROVE Accepts(op) \subseteq BOOLEAN
BY DEF Accepts

\* Who continues saw the order pending, unless it edits a code.
LEMMA ReadStep == ASSUME OrderInv, NEW k \in Handler, Read(k) PROVE OrderInv'
<1>1. TypeOK /\ Shape /\ RowInv /\ Shaped(h[k]) /\ h[k] \in HandlerState
  BY States DEF OrderInv, Shape
<1>2. /\ h[k].pc = "read"
      /\ UNCHANGED <<scene, order, credited, emitted, entry, mutex, deliveries, faults>>
      /\ InTransaction(h[k].op) /\ scene.locked => row = None
  BY DEF Read
<1>3. faults \in Nat /\ order \in Status  BY <1>1 DEF TypeOK
<1>4. CASE /\ Continues(h[k].op)
           /\ Goes(k, [h[k] EXCEPT !.pc = "write", !.seen = order])
           /\ row' = IF InTransaction(h[k].op) /\ scene.locked THEN k ELSE row
           /\ UNCHANGED acked
  <2> DEFINE x == [h[k] EXCEPT !.pc = "write", !.seen = order]
  <2>1. /\ x \in HandlerState /\ x.pc = "write" /\ x.mu = h[k].mu /\ x.node = h[k].node
        /\ x.op = h[k].op /\ Goes(k, x)
    BY <1>1, <1>3, <1>4 DEF HandlerState, PC
  <2> HIDE DEF x
  <2>2. Shape'
    <3>1. Shaped(x)  BY <1>1, <1>2, <2>1 DEF Shaped
    <3> QED  BY <1>1, <1>2, <2>1, <3>1, ShapeKept
  <2>3. LockInv' /\ NoEntryLeft'
    <3>1. TakesLock(x.op) /\ x.pc \in {"read", "write", "credit", "unlock"} => Holds(k)
      BY <1>2, <2>1 DEF Holds
    <3> QED  BY <1>2, <2>1, <3>1, LockKept
  <2>4. RowInv'
    <3>1. row # k /\ None \notin Handler  BY <1>1, <1>2, PaymentAssumption DEF RowInv
    <3>2. row' = k <=> x.pc = "write" /\ InTransaction(x.op) /\ scene.locked
      BY <1>4, <2>1, <3>1
    <3>3. \A j \in Handler : j # k => (row' = j <=> row = j)  BY <1>2, <1>4, <3>1
    <3> QED  BY <1>1, <1>2, <2>1, <3>2, <3>3, RowKept
  <2>5. CreditInv' /\ SuccessIsCredited'
    <3>1. Serialised => order = "pending"
      <4>1. h[k].op \in scene.ops  BY <1>1, <1>2 DEF Shaped
      <4> QED  BY <1>4, <4>1, NoEdit DEF Continues
    <3> QED  BY <1>2, <1>3, <2>1, <3>1, CreditKept
  <2>6. TypeOK'
    <3>1. h' \in [Handler -> HandlerState]  BY <1>1, <2>1, OneMoves
    <3>2. row' \in Handler \cup {None} /\ acked' \in BOOLEAN  BY <1>1, <1>4 DEF TypeOK
    <3> QED  BY <1>1, <1>2, <2>2, <3>1, <3>2, TypeKept DEF TypeOK
  <2> QED  BY <2>2, <2>3, <2>4, <2>5, <2>6 DEF OrderInv
<1>5. ASSUME NEW ok \in Accepts(h[k].op), Finish(k, ok) PROVE OrderInv'
  <2>1. ok \in BOOLEAN  BY <1>5, AcceptsBoolean
  <2>2. PICK x \in HandlerState : Goes(k, x) /\ x.pc \in {"idle", "unlock"}
    BY <1>2, <1>5, <2>1, FinishKept
  <2>3. /\ h' \in [Handler -> HandlerState] /\ acked' \in BOOLEAN /\ row' \in Handler \cup {None}
        /\ Shape' /\ LockInv' /\ NoEntryLeft' /\ RowInv'
    BY <1>2, <1>5, <2>1, FinishKept
  <2>4. CreditInv' /\ SuccessIsCredited'  BY <1>2, <1>3, <2>2, CreditKept
  <2>5. TypeOK'  BY <1>1, <1>2, <2>3, TypeKept DEF TypeOK
  <2> QED  BY <2>3, <2>4, <2>5 DEF OrderInv
<1> QED  BY <1>4, <1>5 DEF Read

\* Only a transaction that credits, or EpayNotify, completes an order.
LEMMA Targets ==
  ASSUME NEW op \in Op
  PROVE  Target(op) \in Status /\ (Target(op) = "success" <=> Credits(op))
BY DEF Target, Status, Credits, Failing, Op

\* After the one writer, nobody is about to write.
LEMMA NobodyElse ==
  ASSUME OrderInv, Serialised, NEW k \in Handler, NEW x \in HandlerState, Goes(k, x),
         h[k].pc \in {"write", "credit"}
  PROVE  /\ h'[k] = x
         /\ \A j \in Handler : j # k => h'[j].pc \notin {"write", "credit"}
<1>1. h'[k] = x /\ \A j \in Handler : j # k => h'[j] = h[j]  BY OneMoves DEF OrderInv
<1> QED  BY <1>1, Exclusion

LEMMA CommitStep == ASSUME OrderInv, NEW k \in Handler, Commit(k) PROVE OrderInv'
<1>1. TypeOK /\ CreditInv  BY DEF OrderInv
<1> DEFINE op == h[k].op
<1>2. /\ h[k].pc = "write" /\ order' = Target(op)
      /\ credited' = credited + (IF Credits(op) THEN 1 ELSE 0) /\ Finish(k, TRUE)
      /\ UNCHANGED <<scene, emitted, entry, mutex, deliveries, faults>>
  BY DEF Commit, Quota
<1>3. op \in Op  BY <1>2, OnNode
<1> HIDE DEF op
<1>4. credited \in Nat /\ credited' \in Nat  BY <1>1, <1>2 DEF TypeOK
<1>5. order' \in Status /\ (order' = "success" <=> Credits(op))  BY <1>2, <1>3, Targets
<1>6. PICK x \in HandlerState : Goes(k, x) /\ x.pc \in {"idle", "unlock"}  BY <1>2, FinishKept
<1>7. /\ h' \in [Handler -> HandlerState] /\ acked' \in BOOLEAN /\ row' \in Handler \cup {None}
      /\ Shape' /\ LockInv' /\ NoEntryLeft' /\ RowInv'
  BY <1>2, FinishKept
<1>8. Serialised' = Serialised  BY <1>2 DEF Serialised
<1>9. CreditInv'
  <2> SUFFICES ASSUME Serialised
               PROVE  /\ \A j \in Handler : h'[j].pc \notin {"write", "credit"}
                      /\ credited' <= 1
                      /\ order' # "success" => credited' = 0
    BY <1>8 DEF CreditInv
  <2>1. order = "pending" /\ credited = 0  BY <1>1, <1>2 DEF CreditInv
  <2>2. \A j \in Handler : h'[j].pc \notin {"write", "credit"}  BY <1>2, <1>6, NobodyElse
  <2> QED  BY <1>2, <1>5, <2>1, <2>2
<1>10. SuccessIsCredited'  BY <1>2, <1>4, <1>5 DEF SuccessIsCredited
<1>11. TypeOK'  BY <1>1, <1>2, <1>4, <1>5, <1>7, TypeKept DEF TypeOK
<1> QED  BY <1>7, <1>9, <1>10, <1>11 DEF OrderInv

LEMMA SaveStep == ASSUME OrderInv, NEW k \in Handler, Save(k) PROVE OrderInv'
<1>1. /\ TypeOK /\ Shape /\ CreditInv /\ RowInv /\ Shaped(h[k]) /\ h[k] \in HandlerState
  BY States DEF OrderInv, Shape
<1> DEFINE op == h[k].op
<1>2. /\ h[k].pc = "write" /\ ~InTransaction(op) /\ row = None
      /\ order' = IF op = "UpdateRedemption" THEN h[k].seen ELSE Target(op)
      /\ UNCHANGED <<scene, credited, emitted, entry, mutex, deliveries, faults>>
  BY DEF Save
<1>3. op \in Op /\ op \in scene.ops  BY <1>2, OnNode
<1>4. order' \in Status  BY <1>1, <1>2, <1>3, Targets DEF HandlerState
<1>5. Serialised' = Serialised  BY <1>2 DEF Serialised
<1>6. ASSUME Serialised PROVE order = "pending" /\ credited = 0 /\ order' = Target(op)
  BY <1>1, <1>2, <1>3, <1>6, NoEdit DEF CreditInv
<1>7. CASE op = "EpayNotify"
  <2> DEFINE x == [h[k] EXCEPT !.pc = "credit"]
  <2>1. Goes(k, x) /\ UNCHANGED <<acked, row>>  BY <1>7 DEF Save
  <2>2. /\ x \in HandlerState /\ x.pc = "credit" /\ x.mu = h[k].mu /\ x.node = h[k].node
        /\ x.op = h[k].op
    BY <1>1 DEF HandlerState, PC
  <2> HIDE DEF x
  <2>3. Shape'
    <3>1. Shaped(x)  BY <1>1, <1>2, <1>7, <2>2 DEF Shaped
    <3> QED  BY <1>1, <1>2, <2>1, <2>2, <3>1, ShapeKept
  <2>4. LockInv' /\ NoEntryLeft'
    <3>1. TakesLock(x.op) /\ x.pc \in {"read", "write", "credit", "unlock"} => Holds(k)
      BY <1>2, <2>2 DEF Holds
    <3> QED  BY <1>2, <2>1, <2>2, <3>1, LockKept
  <2>5. RowInv'
    <3>1. row # k  BY <1>2, PaymentAssumption
    <3> QED  BY <1>1, <1>2, <2>1, <2>2, <3>1, RowKept
  <2>6. h' \in [Handler -> HandlerState] /\ h'[k] = x  BY <1>1, <2>1, <2>2, OneMoves
  <2>7. CreditInv'
    <3> SUFFICES ASSUME Serialised
                 PROVE  /\ \A j \in Handler : h'[j].pc = "write" => order' = "pending"
                        /\ order' = "success" /\ credited' = 0
      BY <1>5 DEF CreditInv
    <3>1. order' = "success" /\ credited' = 0
      BY <1>2, <1>3, <1>6, <1>7, Targets DEF Credits, Paid
    <3>2. \A j \in Handler : h'[j].pc # "write"  BY <1>2, <2>1, <2>2, NobodyElse
    <3> QED  BY <3>1, <3>2
  <2>8. SuccessIsCredited'  BY <1>2, <1>3, <1>7, <2>2, <2>6 DEF SuccessIsCredited
  <2>9. TypeOK'  BY <1>1, <1>2, <1>4, <2>1, <2>3, <2>6, TypeKept DEF TypeOK
  <2> QED  BY <2>3, <2>4, <2>5, <2>7, <2>8, <2>9 DEF OrderInv
<1>8. CASE op # "EpayNotify"
  <2>1. Finish(k, TRUE)  BY <1>8 DEF Save
  <2>2. PICK x \in HandlerState : Goes(k, x) /\ x.pc \in {"idle", "unlock"}
    BY <1>2, <2>1, FinishKept
  <2>3. /\ h' \in [Handler -> HandlerState] /\ acked' \in BOOLEAN /\ row' \in Handler \cup {None}
        /\ Shape' /\ LockInv' /\ NoEntryLeft' /\ RowInv'
    BY <1>2, <2>1, FinishKept
  <2>4. ASSUME Serialised PROVE order' # "success"
    <3>1. op \notin {"EpayNotify", "UpdateRedemption"}  BY <1>3, <1>8, <2>4, NoEdit
    <3>2. ~Credits(op)  BY <1>2, <3>1 DEF InTransaction, Credits, Paid
    <3> QED  BY <1>3, <1>6, <2>4, <3>2, Targets
  <2>5. CreditInv'
    <3> SUFFICES ASSUME Serialised
                 PROVE  /\ \A j \in Handler : h'[j].pc \notin {"write", "credit"}
                        /\ credited' = 0
      BY <1>5 DEF CreditInv
    <3>1. \A j \in Handler : h'[j].pc \notin {"write", "credit"}  BY <1>2, <2>2, NobodyElse
    <3> QED  BY <1>2, <1>6, <3>1
  <2>6. SuccessIsCredited'  BY <1>5, <2>4 DEF SuccessIsCredited
  <2>7. TypeOK'  BY <1>1, <1>2, <1>4, <2>3, TypeKept DEF TypeOK
  <2> QED  BY <2>3, <2>5, <2>6, <2>7 DEF OrderInv
<1> QED  BY <1>7, <1>8

LEMMA IncreaseStep == ASSUME OrderInv, NEW k \in Handler, IncreaseUserQuota(k) PROVE OrderInv'
<1>1. TypeOK /\ CreditInv  BY DEF OrderInv
<1>2. /\ h[k].pc = "credit" /\ credited' = credited + 1 /\ Finish(k, TRUE)
      /\ UNCHANGED <<scene, order, emitted, entry, mutex, deliveries, faults>>
  BY DEF IncreaseUserQuota
<1>3. PICK x \in HandlerState : Goes(k, x) /\ x.pc \in {"idle", "unlock"}  BY <1>2, FinishKept
<1>4. /\ h' \in [Handler -> HandlerState] /\ acked' \in BOOLEAN /\ row' \in Handler \cup {None}
      /\ Shape' /\ LockInv' /\ NoEntryLeft' /\ RowInv'
  BY <1>2, FinishKept
<1>5. Serialised' = Serialised  BY <1>2 DEF Serialised
<1>6. CreditInv'
  <2> SUFFICES ASSUME Serialised
               PROVE  /\ \A j \in Handler : h'[j].pc \notin {"write", "credit"}
                      /\ credited' = 1 /\ order' = "success"
    BY <1>5 DEF CreditInv
  <2>1. \A j \in Handler : h'[j].pc \notin {"write", "credit"}  BY <1>2, <1>3, NobodyElse
  <2> QED  BY <1>1, <1>2, <2>1 DEF CreditInv
<1>7. credited' \in Nat /\ credited' >= 1  BY <1>1, <1>2 DEF TypeOK
<1>8. SuccessIsCredited'  BY <1>7 DEF SuccessIsCredited
<1>9. TypeOK'  BY <1>1, <1>2, <1>4, <1>7, TypeKept DEF TypeOK
<1> QED  BY <1>4, <1>6, <1>8, <1>9 DEF OrderInv

LEMMA FailsStep == ASSUME OrderInv, NEW k \in Handler, Fails(k) PROVE OrderInv'
<1>1. TypeOK  BY DEF OrderInv
<1>2. /\ h[k].pc \in {"read", "write", "credit"}
      /\ faults < MaxFaults /\ faults' = faults + 1
      /\ UNCHANGED <<scene, order, credited, emitted, entry, mutex, deliveries>>
  BY DEF Fails
<1>a. PICK ok \in BOOLEAN : Finish(k, ok)  BY DEF Fails, Reported
<1>3. PICK x \in HandlerState : Goes(k, x) /\ x.pc \in {"idle", "unlock"}
  BY <1>2, <1>a, FinishKept
<1>4. /\ h' \in [Handler -> HandlerState] /\ acked' \in BOOLEAN /\ row' \in Handler \cup {None}
      /\ Shape' /\ LockInv' /\ NoEntryLeft' /\ RowInv'
  BY <1>2, <1>a, FinishKept
<1>5. faults' \in 0 .. MaxFaults /\ faults' \in Nat /\ faults' >= faults /\ faults' > 0
  BY <1>1, <1>2, PaymentAssumption DEF TypeOK
<1>6. CreditInv' /\ SuccessIsCredited'  BY <1>2, <1>3, <1>5, CreditKept
<1>7. TypeOK'  BY <1>1, <1>2, <1>4, <1>5, TypeKept DEF TypeOK
<1> QED  BY <1>4, <1>6, <1>7 DEF OrderInv

\* Who has not locked yet leaves without a trace.
LEMMA ResolveFailsStep == ASSUME OrderInv, NEW k \in Handler, ResolveFails(k) PROVE OrderInv'
<1>1. TypeOK /\ Shape /\ RowInv  BY DEF OrderInv
<1>2. /\ h[k].pc = "lock" /\ Goes(k, Idle) /\ acked' = TRUE
      /\ faults < MaxFaults /\ faults' = faults + 1
      /\ UNCHANGED <<scene, order, credited, emitted, row, entry, mutex, deliveries>>
  BY DEF ResolveFails
<1>3. Idle \in HandlerState /\ Idle.mu = None /\ Idle.pc = "idle"  BY <1>1, States DEF Idle
<1>4. h[k].mu = None  BY <1>1, <1>2 DEF Shape, Shaped
<1>5. Shaped(Idle)  BY DEF Shaped, Idle
<1>6. Shape'  BY <1>1, <1>2, <1>3, <1>5, ShapeKept
<1>7. LockInv' /\ NoEntryLeft'  BY <1>2, <1>3, <1>4, LockKept
<1>8. RowInv'
  <2>1. row # k  BY <1>1, <1>2 DEF RowInv
  <2> QED  BY <1>1, <1>2, <1>3, <2>1, RowKept
<1>9. faults' \in 0 .. MaxFaults /\ faults' \in Nat /\ faults' >= faults /\ faults' > 0
  BY <1>1, <1>2, PaymentAssumption DEF TypeOK
<1>10. CreditInv' /\ SuccessIsCredited'  BY <1>2, <1>3, <1>9, CreditKept
<1>11. h' \in [Handler -> HandlerState]  BY <1>1, <1>2, <1>3, OneMoves
<1>12. TypeOK'  BY <1>1, <1>2, <1>6, <1>9, <1>11, TypeKept DEF TypeOK
<1> QED  BY <1>6, <1>7, <1>8, <1>10, <1>12 DEF OrderInv

\* A node's handlers and its mutex die together: no other node has a reference to it.
LEMMA CrashStep == ASSUME OrderInv, NEW n \in Node, Crash(n) PROVE OrderInv'
<1>1. TypeOK /\ Shape /\ LockInv /\ NoEntryLeft /\ RowInv /\ CreditInv /\ SuccessIsCredited
  BY DEF OrderInv
<1>2. None \notin Mutex /\ None \notin Handler  BY PaymentAssumption
<1> DEFINE dead == {k \in Handler : h[k].node = n}
<1>3. PICK gone : gone = dead  OBVIOUS
<1>4. /\ faults < MaxFaults /\ faults' = faults + 1
      /\ h' = [k \in Handler |-> IF k \in gone THEN Idle ELSE h[k]]
      /\ row' = IF row \in gone THEN None ELSE row
      /\ entry' = [entry EXCEPT ![n] = None]
      /\ mutex' = [m \in Mutex |->
                     IF m = entry[n] \/ \E k \in gone : h[k].mu = m THEN NoMutex ELSE mutex[m]]
      /\ UNCHANGED <<scene, order, credited, emitted, acked, deliveries>>
  BY <1>3 DEF Crash
<1>5. \A k \in Handler : k \in gone <=> h[k].node = n  BY <1>3
<1>6. gone \subseteq Handler  BY <1>3
<1> HIDE DEF dead
<1>7. \A k \in Handler : h'[k] = IF k \in gone THEN Idle ELSE h[k]  BY <1>4
<1>8. Idle \in HandlerState /\ Idle.mu = None /\ Idle.pc = "idle" /\ Idle.op = None
  BY <1>1, States DEF Idle
<1>9. \A k \in Handler : h[k].mu # None => h[k].node \in Node /\ entry[h[k].node] = h[k].mu
  BY <1>1, OnNode DEF LockInv, Shape, Shaped
<1>10. \A k \in Handler : h[k].mu # None => (h[k].mu = entry[n] <=> k \in gone)
  BY <1>1, <1>5, <1>9 DEF LockInv
<1>11. entry' \in [Node -> Mutex \cup {None}] /\ entry'[n] = None
       /\ \A o \in Node : o # n => entry'[o] = entry[o]
  BY <1>1, <1>4 DEF TypeOK
<1>12. \A m \in Mutex : mutex'[m] = IF m = entry[n] THEN NoMutex ELSE mutex[m]
  BY <1>2, <1>4, <1>6, <1>10
<1>13. mutex' \in [Mutex -> [held : BOOLEAN, ref : Nat]]
  BY <1>1, <1>4 DEF TypeOK, NoMutex
<1>14. Shape'
  <2> SUFFICES ASSUME NEW k \in Handler PROVE Shaped(h[k])'
    BY DEF Shape
  <2>1. CASE k \in gone  BY <1>4, <1>7, <1>8, <2>1 DEF Shaped
  <2>2. CASE k \notin gone  BY <1>1, <1>4, <1>7, <2>2 DEF Shape, Shaped
  <2> QED  BY <2>1, <2>2
<1>15. LockInv'
  <2>1. \A k \in Handler : h'[k].mu # None => entry'[h'[k].node] = h'[k].mu
    BY <1>5, <1>7, <1>8, <1>9, <1>11
  <2>2. \A a, b \in Node : entry'[a] # None /\ entry'[a] = entry'[b] => a = b
    BY <1>1, <1>11 DEF LockInv
  <2>3. ASSUME NEW m \in Mutex PROVE mutex'[m].ref = Cardinality(Users(m)')
    <3>1. CASE m = entry[n]
      <4>1. Users(m)' = {}  BY <1>2, <1>7, <1>8, <1>10, <3>1 DEF Users
      <4> QED  BY <1>12, <3>1, <4>1, FS_EmptySet DEF NoMutex
    <3>2. CASE m # entry[n]
      <4>1. Users(m)' = Users(m)  BY <1>2, <1>7, <1>8, <1>10, <3>2 DEF Users
      <4> QED  BY <1>1, <1>12, <3>2, <4>1 DEF LockInv
    <3> QED  BY <3>1, <3>2
  <2>4. ASSUME NEW k \in Handler, Holds(k)' PROVE k \notin gone /\ Holds(k) /\ h'[k] = h[k]
    BY <1>7, <1>8, <2>4 DEF Holds
  <2>5. ASSUME NEW k \in Handler, Holds(k)' PROVE mutex'[h'[k].mu].held
    <3>1. h[k].mu # None  BY <1>1, <2>4, <2>5 DEF Shape, Shaped, Holds
    <3>2. h[k].mu \in Mutex /\ h[k].mu # entry[n]  BY <1>1, <1>10, <2>4, <2>5, <3>1 DEF TypeOK
    <3> QED  BY <1>1, <1>12, <2>4, <2>5, <3>2 DEF LockInv
  <2>6. \A j, k \in Handler : Holds(j)' /\ Holds(k)' /\ h'[j].mu = h'[k].mu => j = k
    BY <1>1, <2>4 DEF LockInv
  <2> QED  BY <2>1, <2>2, <2>3, <2>5, <2>6 DEF LockInv
<1>16. NoEntryLeft'
  <2> SUFFICES ASSUME NEW o \in Node, entry'[o] # None
               PROVE  \E j \in Handler : h'[j].node = o /\ h'[j].mu = entry'[o]
    BY DEF NoEntryLeft
  <2>1. o # n /\ entry'[o] = entry[o]  BY <1>11
  <2>2. PICK j \in Handler : h[j].node = o /\ h[j].mu = entry[o]  BY <1>1, <2>1 DEF NoEntryLeft
  <2> QED  BY <1>5, <1>7, <2>1, <2>2
<1>17. RowInv'
  <2> SUFFICES ASSUME NEW k \in Handler
               PROVE  row' = k <=> h'[k].pc = "write" /\ InTransaction(h'[k].op) /\ scene'.locked
    BY DEF RowInv
  <2>1. CASE k \in gone  BY <1>2, <1>4, <1>7, <1>8, <2>1
  <2>2. CASE k \notin gone  BY <1>1, <1>2, <1>4, <1>7, <2>2 DEF RowInv
  <2> QED  BY <2>1, <2>2
<1>18. CreditInv'
  <2>1. Serialised' = Serialised  BY <1>4 DEF Serialised
  <2>2. \A k \in Handler : h'[k].pc \in {"write", "credit"} => h'[k] = h[k]  BY <1>7, <1>8
  <2> QED  BY <1>1, <1>4, <2>1, <2>2 DEF CreditInv
<1>19. faults' \in 0 .. MaxFaults /\ faults' > 0
  BY <1>1, <1>4, PaymentAssumption DEF TypeOK
<1>20. SuccessIsCredited'
  <2>1. Serialised' = Serialised  BY <1>4 DEF Serialised
  <2> QED  BY <1>1, <1>4, <1>19, <2>1 DEF SuccessIsCredited
<1>21. TypeOK'
  <2>1. h' \in [Handler -> HandlerState]
    <3>1. h \in [Handler -> HandlerState]  BY <1>1, States
    <3> QED  BY <1>4, <1>8, <3>1
  <2>2. row' \in Handler \cup {None}  BY <1>1, <1>4 DEF TypeOK
  <2> QED  BY <1>1, <1>4, <1>11, <1>13, <1>14, <1>19, <2>1, <2>2, TypeKept DEF TypeOK
<1> QED  BY <1>14, <1>15, <1>16, <1>17, <1>18, <1>20, <1>21 DEF OrderInv

LEMMA OrderStep == OrderInv /\ [Next]_vars => OrderInv'
<1> SUFFICES ASSUME OrderInv, [Next]_vars PROVE OrderInv'
  OBVIOUS
<1>1. CASE Provider  BY <1>1, ProviderStep
<1>2. ASSUME NEW k \in Handler, Deliver(k) PROVE OrderInv'
  <2>1. PICK op \in Op, n \in Node : Starts(k, op, n)  BY <1>2 DEF Deliver
  <2>2. deliveries' \in 0 .. MaxDeliveries
    BY <1>2, PaymentAssumption DEF Deliver, OrderInv, TypeOK
  <2> QED  BY <2>1, <2>2, StartStep
<1>3. ASSUME NEW k \in Handler, Redeliver(k) PROVE OrderInv'
  <2>1. PICK op \in Paid, n \in Node : Starts(k, op, n)  BY <1>3 DEF Redeliver
  <2>2. deliveries' \in 0 .. MaxDeliveries  BY <1>3 DEF Redeliver, OrderInv, TypeOK
  <2> QED  BY <2>1, <2>2, StartStep DEF Op
<1>4. ASSUME NEW k \in Handler, Work(k) PROVE OrderInv'
  BY <1>4, LockGetStep, LockTakeStep, ReadStep, CommitStep, SaveStep, IncreaseStep,
     UnlockMutexStep, UnlockRefStep DEF Work
<1>5. ASSUME NEW k \in Handler, Fails(k) PROVE OrderInv'  BY <1>5, FailsStep
<1>8. ASSUME NEW k \in Handler, ResolveFails(k) PROVE OrderInv'  BY <1>8, ResolveFailsStep
<1>6. ASSUME NEW n \in Node, Crash(n) PROVE OrderInv'  BY <1>6, CrashStep
<1>7. CASE UNCHANGED vars
  <2>1. TypeOK'  BY <1>7 DEF OrderInv, TypeOK, vars
  <2>2. Shape'  BY <1>7 DEF OrderInv, Shape, Shaped, vars
  <2>3. LockInv' /\ NoEntryLeft'  BY <1>7 DEF OrderInv, LockInv, NoEntryLeft, Users, Holds, vars
  <2>4. RowInv' /\ CreditInv' /\ SuccessIsCredited'
    BY <1>7 DEF OrderInv, RowInv, CreditInv, SuccessIsCredited, Serialised, vars
  <2> QED  BY <2>1, <2>2, <2>3, <2>4 DEF OrderInv
<1> QED  BY <1>1, <1>2, <1>3, <1>4, <1>5, <1>6, <1>7, <1>8 DEF Next

-----------------------------------------------------------------------------
(* The theorems *)

\* The invariant of the handlers, the two locks and the credit.
THEOREM OrderInvariant == Spec => []OrderInv
BY OrderInit, OrderStep, PTL DEF Spec

LEMMA LockIsSound == OrderInv => OrderLockIsSound
<1> SUFFICES ASSUME OrderInv PROVE OneInside
  BY DEF OrderInv, OrderLockIsSound
<1> SUFFICES ASSUME NEW n \in Node
             PROVE  /\ Cardinality(Inside(n)) <= 1
                    /\ \A k \in Inside(n) : entry[n] = h[k].mu /\ mutex[h[k].mu].held
  BY DEF OneInside
<1>1. \A k \in Inside(n) : k \in Handler /\ Holds(k) /\ h[k].node = n  BY DEF Inside, Holds
<1>2. \A k \in Inside(n) : h[k].mu # None  BY <1>1 DEF OrderInv, Shape, Shaped, Holds
<1>3. \A k \in Inside(n) : entry[n] = h[k].mu /\ mutex[h[k].mu].held
  BY <1>1, <1>2 DEF OrderInv, LockInv
<1>4. \A j, k \in Inside(n) : j = k  BY <1>1, <1>3 DEF OrderInv, LockInv
<1>5. Cardinality(Inside(n)) <= 1
  <2>1. CASE Inside(n) = {}  BY <2>1, FS_EmptySet
  <2>2. CASE Inside(n) # {}
    <3>1. PICK k : Inside(n) = {k}  BY <1>4, <2>2
    <3> QED  BY <3>1, FS_Singleton
  <2> QED  BY <2>1, <2>2
<1> QED  BY <1>3, <1>5

\* LockOrder and UnlockOrder exclude the handlers of one process, each of which
\* unlocks the mutex that it locked, and the map keeps no entry nobody uses, for
\* any number of handlers that come, wait, fail and die.
THEOREM OrderLock == Spec => []OrderLockIsSound
BY OrderInvariant, LockIsSound, PTL

\* An order is credited at most once where its handlers exclude each other.
THEOREM Once == Spec => []CreditedOnce
<1>1. OrderInv => CreditedOnce  BY DEF OrderInv, CreditInv, CreditedOnce
<1> QED  BY <1>1, OrderInvariant, PTL

\* A completed order was credited; one of EpayNotify, unless something failed.
THEOREM Credited == Spec => []SuccessIsCredited
<1>1. OrderInv => SuccessIsCredited  BY DEF OrderInv
<1> QED  BY <1>1, OrderInvariant, PTL

\* A completed order stays completed: only who saw it pending, and still does, writes.
THEOREM Final == Spec => SuccessIsFinal
<1>1. ASSUME OrderInv, [Next]_vars, Serialised, order = "success"
      PROVE  order' = "success"
  <2>1. \A k \in Handler : h[k].pc # "write"  BY <1>1 DEF OrderInv, CreditInv
  <2>2. \A k \in Handler : ~Commit(k) /\ ~Save(k)  BY <2>1 DEF Commit, Save
  <2>3. ASSUME NEW k \in Handler,
               Deliver(k) \/ Redeliver(k) \/ Work(k) \/ Fails(k) \/ ResolveFails(k)
        PROVE  UNCHANGED order
    BY <2>2, <2>3 DEF Deliver, Redeliver, Starts, Work, LockGet, LockTake, Read,
       IncreaseUserQuota, UnlockMutex, UnlockRef, Fails, ResolveFails
  <2>4. Provider \/ (\E n \in Node : Crash(n)) \/ UNCHANGED vars => UNCHANGED order
    BY DEF Provider, Crash, vars
  <2> QED  BY <1>1, <2>3, <2>4 DEF Next
<1>2. OrderInv /\ [Next]_vars => [Serialised /\ order = "success" => order' = "success"]_vars
  BY <1>1
<1> QED  BY <1>2, OrderInvariant, PTL DEF Spec, SuccessIsFinal
=============================================================================
