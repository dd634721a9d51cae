------------------------ MODULE ChannelLimiterProofs ------------------------
(***************************************************************************)
(* NeverOverCounts for any number of requests, any limit and any use of    *)
(* the administrator's operations.  It is inductive together with what a   *)
(* request's own counter is at each point of its calls (OwnerInv): the     *)
(* give-back of a request charged to the mapped counter always goes to     *)
(* that counter, because a counter that left the map never returns to it.  *)
(***************************************************************************)
EXTENDS ChannelLimiter, FiniteSetTheorems, TLAPS

OwnerInv ==
    \A r \in Req :
        /\ pc[r] \in {"idle", "add", "delete"} => own[r] = None
        /\ pc[r] = "undo" => own[r] = ptr[r]
        /\ pc[r] = "sub" /\ mapped # None /\ own[r] = mapped => ptr[r] = mapped

LimiterInv == TypeOK /\ OwnerInv /\ NeverOverCounts

\* Only who is charged, and how many they are, matters to the count.
LEMMA ChargedFinite ==
  ASSUME NEW c
  PROVE  /\ IsFiniteSet(Charged(c))
         /\ Cardinality(Charged(c)) \in Nat
<1>1. Charged(c) \subseteq Req  BY DEF Charged
<1>2. IsFiniteSet(Charged(c))  BY <1>1, LimiterAssumption, FS_Subset
<1> QED  BY <1>2, FS_CardinalityType

\* An increment of the counter charges one more request to it.
LEMMA ChargeOne ==
  ASSUME TypeOK, NEW r \in Req, NEW c \in Counter, own[r] = None,
         own' = [own EXCEPT ![r] = c]
  PROVE  /\ Cardinality(Charged(c)') = Cardinality(Charged(c)) + 1
         /\ \A d \in Counter : d # c => Charged(d)' = Charged(d)
<1>1. None \notin Counter  BY LimiterAssumption
<1>2. own \in [Req -> Counter \cup {None}]  BY DEF TypeOK
<1>3. r \notin Charged(c)  BY <1>1 DEF Charged
<1>4. Charged(c)' = Charged(c) \cup {r}  BY <1>2 DEF Charged
<1>5. Cardinality(Charged(c)') = Cardinality(Charged(c)) + 1
  BY <1>3, <1>4, ChargedFinite, FS_AddElement
<1>6. \A d \in Counter : d # c => Charged(d)' = Charged(d)
  BY <1>1, <1>2 DEF Charged
<1> QED  BY <1>5, <1>6

\* A give-back takes the request off the counter it was charged to.
LEMMA DischargeOne ==
  ASSUME TypeOK, NEW r \in Req, own' = [own EXCEPT ![r] = None]
  PROVE  \A d \in Counter :
            /\ own[r] = d => Cardinality(Charged(d)') = Cardinality(Charged(d)) - 1
            /\ own[r] # d => Charged(d)' = Charged(d)
<1>1. None \notin Counter  BY LimiterAssumption
<1>2. own \in [Req -> Counter \cup {None}]  BY DEF TypeOK
<1> TAKE d \in Counter
<1>3. own[r] # d => Charged(d)' = Charged(d)  BY <1>1, <1>2 DEF Charged
<1>4. ASSUME own[r] = d
      PROVE  Cardinality(Charged(d)') = Cardinality(Charged(d)) - 1
  <2>1. r \in Charged(d)  BY <1>4 DEF Charged
  <2>2. Charged(d)' = Charged(d) \ {r}  BY <1>1, <1>2, <1>4 DEF Charged
  <2> QED  BY <2>1, <2>2, ChargedFinite, FS_RemoveElement
<1> QED  BY <1>3, <1>4

LEMMA LimiterInit == Init => LimiterInv
<1> SUFFICES ASSUME Init PROVE LimiterInv
  OBVIOUS
<1>1. TypeOK  BY DEF Init, TypeOK, PC
<1>2. OwnerInv  BY DEF Init, OwnerInv
<1>3. NeverOverCounts  BY DEF Init, NeverOverCounts
<1> QED  BY <1>1, <1>2, <1>3 DEF LimiterInv

\* getCounter leaves the mapped counter's count within its charges: a stored
\* counter is new, so nobody is charged to it.
LEMMA LoadOrStoreKeeps ==
  ASSUME TypeOK, NeverOverCounts, NEW c \in Counter, LoadOrStore(c), own' = own
  PROVE  /\ mapped' = c
         /\ val' \in [Counter -> Int]
         /\ NeverOverCounts'
         /\ mapped # None => mapped' = mapped
         /\ mapped = None => \A r \in Req : own[r] # mapped'
<1>1. CASE mapped # None
  BY <1>1 DEF LoadOrStore, NeverOverCounts, Charged, TypeOK
<1>2. CASE mapped = None
  <2>1. mapped' = c /\ val' = [val EXCEPT ![c] = 0] /\ ~Referenced(c)
    BY <1>2 DEF LoadOrStore
  <2>2. \A r \in Req : own[r] # c  BY <2>1 DEF Referenced
  <2>3. val' \in [Counter -> Int] /\ val'[c] = 0  BY <2>1 DEF TypeOK
  <2>4. Cardinality(Charged(c)') \in Nat
    <3>1. Charged(c)' = Charged(c)  BY DEF Charged
    <3> QED  BY <3>1, ChargedFinite
  <2>5. NeverOverCounts'  BY <2>1, <2>3, <2>4 DEF NeverOverCounts
  <2> QED  BY <1>2, <2>1, <2>2, <2>3, <2>5
<1> QED  BY <1>1, <1>2

LEMMA LimiterStep == LimiterInv /\ [Next]_vars => LimiterInv'
<1> SUFFICES ASSUME LimiterInv, [Next]_vars PROVE LimiterInv'
  OBVIOUS
<1>t. TypeOK /\ OwnerInv /\ NeverOverCounts  BY DEF LimiterInv
<1>n. None \notin Counter /\ MaxConcurrent \in Nat  BY LimiterAssumption
<1>1. ASSUME NEW r \in Req, AcquireUncounted(r) PROVE LimiterInv'
  <2>1. TypeOK'  BY <1>t, <1>1 DEF AcquireUncounted, At, TypeOK, PC
  <2>2. OwnerInv'  BY <1>t, <1>1 DEF AcquireUncounted, At, TypeOK, OwnerInv
  <2>3. NeverOverCounts'
    BY <1>t, <1>1 DEF AcquireUncounted, NeverOverCounts, Charged
  <2> QED  BY <2>1, <2>2, <2>3 DEF LimiterInv
<1>2. ASSUME NEW r \in Req, AcquireGet(r) PROVE LimiterInv'
  <2>1. PICK c \in Counter : LoadOrStore(c) /\ ptr' = [ptr EXCEPT ![r] = c]
    BY <1>2 DEF AcquireGet
  <2>2. pc[r] = "idle" /\ pc' = [pc EXCEPT ![r] = "add"] /\ own' = own
        /\ enabled' = enabled
    BY <1>2 DEF AcquireGet, At
  <2>3. /\ mapped' = c
        /\ val' \in [Counter -> Int]
        /\ NeverOverCounts'
        /\ mapped # None => mapped' = mapped
        /\ mapped = None => \A q \in Req : own[q] # mapped'
    BY <1>t, <2>1, <2>2, LoadOrStoreKeeps
  <2>4. TypeOK'  BY <1>t, <2>1, <2>2, <2>3 DEF TypeOK, PC
  <2>5. OwnerInv'
    BY <1>t, <2>1, <2>2, <2>3 DEF TypeOK, OwnerInv
  <2> QED  BY <2>3, <2>4, <2>5 DEF LimiterInv
<1>3. ASSUME NEW r \in Req, AcquireAdd(r) PROVE LimiterInv'
  <2>0. PICK c : c = ptr[r]  OBVIOUS
  <2> DEFINE to == IF Admits(c) THEN "held" ELSE "undo"
             pt == IF Admits(c) THEN None ELSE c
  <2>1. /\ pc[r] = "add" /\ pc' = [pc EXCEPT ![r] = to]
        /\ val' = [val EXCEPT ![c] = @ + 1]
        /\ own' = [own EXCEPT ![r] = c]
        /\ ptr' = [ptr EXCEPT ![r] = pt]
        /\ enabled' = enabled /\ mapped' = mapped
    BY <1>3, <2>0 DEF AcquireAdd, At
  <2>2. /\ to \in {"held", "undo"}
        /\ to = "undo" => pt = c
        /\ pt \in {None, c}
    OBVIOUS
  <2>3. c \in Counter  BY <1>t, <2>0, <2>1 DEF TypeOK
  <2>4. own[r] = None  BY <1>t, <2>1 DEF OwnerInv
  <2> HIDE DEF to, pt
  <2>5. TypeOK'  BY <1>t, <1>n, <2>1, <2>2, <2>3 DEF TypeOK, PC
  <2>6. OwnerInv'  BY <1>t, <2>1, <2>2, <2>3 DEF TypeOK, OwnerInv
  <2>7. /\ Cardinality(Charged(c)') = Cardinality(Charged(c)) + 1
        /\ \A d \in Counter : d # c => Charged(d)' = Charged(d)
    BY <1>t, <2>1, <2>3, <2>4, ChargeOne
  <2>8. NeverOverCounts'
    <3> SUFFICES ASSUME mapped # None
                 PROVE  val'[mapped] <= Cardinality(Charged(mapped)')
      BY <2>1 DEF NeverOverCounts, Charged
    <3>1. mapped \in Counter /\ val \in [Counter -> Int]  BY <1>t DEF TypeOK
    <3>2. val[mapped] <= Cardinality(Charged(mapped))
      BY <1>t DEF NeverOverCounts
    <3>3. Cardinality(Charged(mapped)) \in Nat  BY ChargedFinite
    <3>4. CASE mapped = c  BY <2>1, <2>7, <3>1, <3>2, <3>3, <3>4
    <3>5. CASE mapped # c  BY <2>1, <2>3, <2>7, <3>1, <3>2, <3>5
    <3> QED  BY <3>4, <3>5
  <2> QED  BY <2>5, <2>6, <2>8 DEF LimiterInv
<1>4. ASSUME NEW r \in Req, AcquireUndo(r) PROVE LimiterInv'
  <2>1. /\ pc[r] = "undo" /\ pc' = [pc EXCEPT ![r] = "idle"]
        /\ val' = [val EXCEPT ![ptr[r]] = @ - 1]
        /\ own' = [own EXCEPT ![r] = None]
        /\ ptr' = [ptr EXCEPT ![r] = None]
        /\ enabled' = enabled /\ mapped' = mapped
    BY <1>4 DEF AcquireUndo, At
  <2>2. ptr[r] \in Counter /\ own[r] = ptr[r]
    BY <1>t, <2>1 DEF TypeOK, OwnerInv
  <2>3. TypeOK'  BY <1>t, <1>n, <2>1, <2>2 DEF TypeOK, PC
  <2>4. OwnerInv'  BY <1>t, <2>1 DEF TypeOK, OwnerInv
  <2>5. \A d \in Counter :
            /\ own[r] = d => Cardinality(Charged(d)') = Cardinality(Charged(d)) - 1
            /\ own[r] # d => Charged(d)' = Charged(d)
    BY <1>t, <2>1, DischargeOne
  <2>6. NeverOverCounts'
    <3> SUFFICES ASSUME mapped # None
                 PROVE  val'[mapped] <= Cardinality(Charged(mapped)')
      BY <2>1 DEF NeverOverCounts, Charged
    <3>1. mapped \in Counter /\ val \in [Counter -> Int]  BY <1>t DEF TypeOK
    <3>2. val[mapped] <= Cardinality(Charged(mapped))
      BY <1>t DEF NeverOverCounts
    <3>3. Cardinality(Charged(mapped)) \in Nat  BY ChargedFinite
    <3>4. CASE mapped = ptr[r]  BY <2>1, <2>2, <2>5, <3>1, <3>2, <3>3, <3>4
    <3>5. CASE mapped # ptr[r]  BY <2>1, <2>2, <2>5, <3>1, <3>2, <3>5
    <3> QED  BY <3>4, <3>5
  <2> QED  BY <2>3, <2>4, <2>6 DEF LimiterInv
<1>5. ASSUME NEW r \in Req, ReleaseMiss(r) PROVE LimiterInv'
  <2>1. TypeOK'  BY <1>t, <1>5 DEF ReleaseMiss, At, TypeOK, PC
  <2>2. OwnerInv'  BY <1>t, <1>5 DEF ReleaseMiss, At, TypeOK, OwnerInv
  <2>3. NeverOverCounts'  BY <1>5 DEF ReleaseMiss, NeverOverCounts
  <2> QED  BY <2>1, <2>2, <2>3 DEF LimiterInv
<1>6. ASSUME NEW r \in Req, ReleaseLoad(r) PROVE LimiterInv'
  <2>1. TypeOK'  BY <1>t, <1>6 DEF ReleaseLoad, At, TypeOK, PC
  <2>2. OwnerInv'  BY <1>t, <1>6 DEF ReleaseLoad, At, TypeOK, OwnerInv
  <2>3. NeverOverCounts'
    BY <1>t, <1>6 DEF ReleaseLoad, NeverOverCounts, Charged
  <2> QED  BY <2>1, <2>2, <2>3 DEF LimiterInv
<1>7. ASSUME NEW r \in Req, ReleaseSub(r) PROVE LimiterInv'
  <2>0. PICK c : c = ptr[r]  OBVIOUS
  <2> DEFINE to == IF Last(c) THEN "delete" ELSE "idle"
  <2>1. /\ pc[r] = "sub" /\ pc' = [pc EXCEPT ![r] = to]
        /\ val' = [val EXCEPT ![c] = @ - 1]
        /\ own' = [own EXCEPT ![r] = None]
        /\ ptr' = [ptr EXCEPT ![r] = None]
        /\ enabled' = enabled /\ mapped' = mapped
    BY <1>7, <2>0 DEF ReleaseSub, At
  <2>2. to \in {"delete", "idle"}  OBVIOUS
  <2>3. c \in Counter  BY <1>t, <2>0, <2>1 DEF TypeOK
  <2>4. mapped # None /\ own[r] = mapped => c = mapped
    BY <1>t, <2>0, <2>1 DEF OwnerInv
  <2> HIDE DEF to
  <2>5. TypeOK'  BY <1>t, <1>n, <2>1, <2>2, <2>3 DEF TypeOK, PC
  <2>6. OwnerInv'  BY <1>t, <2>1, <2>2 DEF TypeOK, OwnerInv
  <2>7. \A d \in Counter :
            /\ own[r] = d => Cardinality(Charged(d)') = Cardinality(Charged(d)) - 1
            /\ own[r] # d => Charged(d)' = Charged(d)
    BY <1>t, <2>1, DischargeOne
  <2>8. NeverOverCounts'
    <3> SUFFICES ASSUME mapped # None
                 PROVE  val'[mapped] <= Cardinality(Charged(mapped)')
      BY <2>1 DEF NeverOverCounts, Charged
    <3>1. mapped \in Counter /\ val \in [Counter -> Int]  BY <1>t DEF TypeOK
    <3>2. val[mapped] <= Cardinality(Charged(mapped))
      BY <1>t DEF NeverOverCounts
    <3>3. Cardinality(Charged(mapped)) \in Nat  BY ChargedFinite
    <3>4. val'[mapped] <= val[mapped] /\ val'[mapped] \in Int
      BY <2>1, <2>3, <3>1
    <3>5. CASE own[r] = mapped
      <4>1. c = mapped  BY <2>4, <3>5
      <4>2. val'[mapped] = val[mapped] - 1  BY <2>1, <3>1, <4>1
      <4> QED  BY <2>1, <2>7, <3>1, <3>2, <3>3, <3>5, <4>2
    <3>6. CASE own[r] # mapped
      <4>1. Charged(mapped)' = Charged(mapped)  BY <2>1, <2>7, <3>1, <3>6
      <4> QED  BY <3>1, <3>2, <3>3, <3>4, <4>1
    <3> QED  BY <3>5, <3>6
  <2> QED  BY <2>5, <2>6, <2>8 DEF LimiterInv
<1>8. ASSUME NEW r \in Req, ReleaseDelete(r) PROVE LimiterInv'
  <2>1. TypeOK'  BY <1>t, <1>8 DEF ReleaseDelete, At, TypeOK, PC
  <2>2. OwnerInv'  BY <1>t, <1>8 DEF ReleaseDelete, At, TypeOK, OwnerInv
  <2>3. NeverOverCounts'  BY <1>8 DEF ReleaseDelete, NeverOverCounts
  <2> QED  BY <2>1, <2>2, <2>3 DEF LimiterInv
<1>9. CASE CanAcquire
  <2>1. PICK c \in Counter : LoadOrStore(c)  BY <1>9 DEF CanAcquire
  <2>2. pc' = pc /\ ptr' = ptr /\ own' = own /\ enabled' = enabled
    BY <1>9 DEF CanAcquire
  <2>3. /\ mapped' = c
        /\ val' \in [Counter -> Int]
        /\ NeverOverCounts'
        /\ mapped # None => mapped' = mapped
        /\ mapped = None => \A q \in Req : own[q] # mapped'
    BY <1>t, <2>1, <2>2, LoadOrStoreKeeps
  <2>4. TypeOK'  BY <1>t, <2>2, <2>3 DEF TypeOK
  <2>5. OwnerInv'  BY <1>t, <2>2, <2>3 DEF OwnerInv
  <2> QED  BY <2>3, <2>4, <2>5 DEF LimiterInv
<1>10. CASE Remove
  <2>1. TypeOK'  BY <1>t, <1>10 DEF Remove, TypeOK
  <2>2. OwnerInv'  BY <1>t, <1>10 DEF Remove, OwnerInv
  <2>3. NeverOverCounts'  BY <1>10 DEF Remove, NeverOverCounts
  <2> QED  BY <2>1, <2>2, <2>3 DEF LimiterInv
<1>11. CASE ToggleSetting
  <2>1. TypeOK'  BY <1>t, <1>11 DEF ToggleSetting, TypeOK
  <2>2. OwnerInv'  BY <1>t, <1>11 DEF ToggleSetting, OwnerInv
  <2>3. NeverOverCounts'
    BY <1>t, <1>11 DEF ToggleSetting, NeverOverCounts, Charged
  <2> QED  BY <2>1, <2>2, <2>3 DEF LimiterInv
<1>12. CASE UNCHANGED vars
  <2>1. TypeOK'  BY <1>t, <1>12 DEF vars, TypeOK
  <2>2. OwnerInv'  BY <1>t, <1>12 DEF vars, OwnerInv
  <2>3. NeverOverCounts'  BY <1>t, <1>12 DEF vars, NeverOverCounts, Charged
  <2> QED  BY <2>1, <2>2, <2>3 DEF LimiterInv
<1> QED
  BY <1>1, <1>2, <1>3, <1>4, <1>5, <1>6, <1>7, <1>8, <1>9, <1>10, <1>11, <1>12
  DEF Next, RequestStep

\* The map holds a counter or nothing and every request a known place, whatever
\* the interleaving.
THEOREM TypeCorrect == Spec => []TypeOK
<1>1. LimiterInv => TypeOK  BY DEF LimiterInv
<1> QED  BY LimiterInit, LimiterStep, <1>1, PTL DEF Spec

\* No slot of a channel leaks: for any number of requests, however Acquire,
\* Release, CanAcquire, Remove and changes of the setting interleave, the
\* counter in the map counts no more requests than are charged to it.
THEOREM SlotsNeverLeak == Spec => []NeverOverCounts
<1>1. LimiterInv => NeverOverCounts  BY DEF LimiterInv
<1> QED  BY LimiterInit, LimiterStep, <1>1, PTL DEF Spec
=============================================================================
