------------------------- MODULE CircuitBreakerProofs -------------------------
(***************************************************************************)
(* The circuit breaker for any configuration, any number of requests and   *)
(* any order of their results: its counters keep their bounds, the slots   *)
(* it holds are those of its trials, nobody passes before the timeout, and *)
(* its ring of buckets is a sliding window over the samples.               *)
(*                                                                         *)
(* What the breaker does to itself is stated once, for any breaker of the  *)
(* right type (Breaker); the invariant then relates the breaker to the     *)
(* requests (Balanced) and to the time that passed (Timed).                *)
(***************************************************************************)
EXTENDS CircuitBreaker, FiniteSetTheorems, WellFoundedInduction, TLAPS

Slot == [age : 0 .. Old, total : Nat, failure : Nat]

Breaker ==
    [state : {"closed", "open", "half_open"}, buckets : [0 .. BucketCount - 1 -> Slot],
     openAge : 0 .. OpenTimeoutSeconds, inUse : 0 .. HalfOpenMax,
     success : 0 .. SuccessThreshold - 1]

\* No bucket counts more failures than results.
Counted(k) == \A i \in 0 .. BucketCount - 1 : k.buckets[i].failure <= k.buckets[i].total

\* The breaker knows how long ago it opened.
Timed(k, age) ==
    /\ k.state = "open" => k.openAge = age
    /\ k.state = "half_open" => age = OpenTimeoutSeconds

\* A half-open breaker holds no more slots than there are trials.
Balanced(k, q) ==
    k.state = "half_open" => k.inUse <= Cardinality({r \in Req : q[r] = "trial"})

BreakerInv ==
    /\ b \in Breaker /\ Counted(b)
    /\ clock \in 0 .. Turn - 1 /\ req \in [Req -> ReqState] /\ silent \in BOOLEAN
    /\ sinceOpen \in 0 .. OpenTimeoutSeconds /\ Timed(b, sinceOpen)
    /\ ~silent => Balanced(b, req)

-----------------------------------------------------------------------------
(* The configuration *)

\* Min and Max of two naturals.
LEMMA MinOfTwo ==
  ASSUME NEW x \in Nat, NEW y \in Nat
  PROVE  Min({x, y}) = IF x <= y THEN x ELSE y
<1> DEFINE z == IF x <= y THEN x ELSE y
<1>1. z \in {x, y} /\ \A v \in {x, y} : z <= v
  OBVIOUS
<1>2. \A w \in {x, y} : (\A v \in {x, y} : w <= v) => w = z
  OBVIOUS
<1> QED  BY <1>1, <1>2 DEF Min

LEMMA MaxOfTwo ==
  ASSUME NEW x \in Nat, NEW y \in Nat
  PROVE  Max({x, y}) = IF x >= y THEN x ELSE y
<1> DEFINE z == IF x >= y THEN x ELSE y
<1>1. z \in {x, y} /\ \A v \in {x, y} : z >= v
  OBVIOUS
<1>2. \A w \in {x, y} : (\A v \in {x, y} : w >= v) => w = z
  OBVIOUS
<1> QED  BY <1>1, <1>2 DEF Max

\* GetCircuitBreakerSetting leaves no count of zero and no threshold out of reach.
LEMMA Configured ==
  /\ Bucket \in Nat \ {0} /\ BucketCount \in Nat \ {0} /\ Turn \in Nat \ {0}
  /\ Old \in Nat /\ Old >= Bucket /\ OpenTimeoutSeconds \in Nat \ {0}
  /\ HalfOpenMax \in Nat \ {0} /\ SuccessThreshold \in Nat \ {0}
  /\ SuccessThreshold <= HalfOpenMax
<1>1. Bucket \in Nat \ {0} /\ WindowSeconds \in Nat \ {0} /\ OpenTimeoutSeconds \in Nat \ {0}
  BY BreakerAssumption DEF Bucket
<1>2. HalfOpenMax \in Nat \ {0}
  BY BreakerAssumption DEF HalfOpenMax
<1>3. WindowSeconds \div Bucket \in Nat
  BY <1>1
<1>4. BucketCount \in Nat \ {0}
  <2>1. PICK n \in Nat : n = WindowSeconds \div Bucket  BY <1>3
  <2>2. Max({n, 1}) = IF n >= 1 THEN n ELSE 1  BY MaxOfTwo
  <2> QED  BY <2>1, <2>2 DEF BucketCount
<1>5. Turn \in Nat \ {0}
  BY <1>1, <1>4 DEF Turn
<1>6. Old \in Nat /\ Old >= Bucket
  BY <1>1 DEF Old
<1>7. SuccessThreshold \in Nat \ {0} /\ SuccessThreshold <= HalfOpenMax
  <2>1. PICK n \in Nat : n = Max({HalfOpenSuccessThreshold, 1}) /\ n >= 1
    <3>1. HalfOpenSuccessThreshold \in Nat  BY BreakerAssumption
    <3>2. Max({HalfOpenSuccessThreshold, 1})
            = IF HalfOpenSuccessThreshold >= 1 THEN HalfOpenSuccessThreshold ELSE 1
      BY <3>1, MaxOfTwo
    <3> QED  BY <3>1, <3>2
  <2>2. PICK h \in Nat \ {0} : h = HalfOpenMax  BY <1>2
  <2>3. Min({n, h}) = IF n <= h THEN n ELSE h  BY MinOfTwo
  <2> QED  BY <2>1, <2>2, <2>3 DEF SuccessThreshold
<1> QED  BY <1>1, <1>2, <1>4, <1>5, <1>6, <1>7

\* The bucket of the present second is one of the ring.
LEMMA IndexInRing ==
  ASSUME NEW c \in 0 .. Turn - 1
  PROVE  c \div Bucket \in 0 .. BucketCount - 1 /\ c % Bucket \in 0 .. Bucket - 1
<1>1. PICK d \in Nat \ {0} : d = Bucket  BY Configured
<1>2. PICK n \in Nat \ {0} : n = BucketCount  BY Configured
<1>3. c \in Nat /\ c < d * n
  BY <1>1, <1>2 DEF Turn
<1>4. PICK q \in Nat : q = c \div d
  BY <1>3
<1>5. PICK e \in Nat : e = c % d /\ e < d
  BY <1>3
<1>6. c = d * q + e
  BY <1>3, <1>4, <1>5
<1>7. q < n
  <2> SUFFICES ASSUME q >= n PROVE FALSE
    OBVIOUS
  <2>1. d * q >= d * n
    <3>1. PICK u \in Nat : q = n + u
      <4>1. q - n \in Nat  OBVIOUS
      <4> QED  BY <4>1
    <3>2. d * q = d * n + d * u /\ d * u \in Nat /\ d * n \in Nat
      BY <3>1
    <3> QED  BY <3>2
  <2> QED  BY <1>3, <1>6, <2>1
<1> QED  BY <1>1, <1>2, <1>4, <1>5, <1>7

-----------------------------------------------------------------------------
(* What the methods make of a breaker *)

LEMMA NewSlot == NoBucket \in Slot /\ NoBucket.total = 0 /\ NoBucket.failure = 0
BY Configured DEF NoBucket, Slot

LEMMA NewRing ==
  /\ EmptyRing \in [0 .. BucketCount - 1 -> Slot]
  /\ \A i \in 0 .. BucketCount - 1 : EmptyRing[i].failure <= EmptyRing[i].total
BY NewSlot DEF EmptyRing

LEMMA NewBreakerType == newBreaker \in Breaker /\ Counted(newBreaker)
<1>1. 0 \in 0 .. HalfOpenMax /\ 0 \in 0 .. SuccessThreshold - 1
      /\ OpenTimeoutSeconds \in 0 .. OpenTimeoutSeconds
  BY Configured
<1>2. newBreaker \in Breaker
  BY <1>1, NewRing DEF newBreaker, Breaker
<1>3. Counted(newBreaker)
  BY NewRing DEF newBreaker, Counted
<1> QED  BY <1>2, <1>3

\* refreshState: an open breaker whose timeout is over turns half-open, with no slot taken.
LEMMA Refreshed ==
  ASSUME NEW k \in Breaker, Counted(k)
  PROVE  LET f == refreshState(k)
         IN  /\ f \in Breaker /\ Counted(f) /\ f.buckets = k.buckets /\ f.openAge = k.openAge
             /\ \/ f = k /\ ~(k.state = "open" /\ k.openAge >= OpenTimeoutSeconds)
                \/ /\ k.state = "open" /\ k.openAge = OpenTimeoutSeconds
                   /\ f.state = "half_open" /\ f.inUse = 0
<1>1. 0 \in 0 .. HalfOpenMax /\ 0 \in 0 .. SuccessThreshold - 1 /\ OpenTimeoutSeconds \in Nat
  BY Configured
<1>2. CASE k.state = "open" /\ k.openAge >= OpenTimeoutSeconds
  <2> DEFINE f == [k EXCEPT !.state = "half_open", !.inUse = 0, !.success = 0]
  <2>1. refreshState(k) = f
    BY <1>2 DEF refreshState
  <2>2. /\ f \in Breaker /\ f.buckets = k.buckets /\ f.openAge = k.openAge
        /\ f.state = "half_open" /\ f.inUse = 0
    BY <1>1 DEF Breaker
  <2>3. k.openAge = OpenTimeoutSeconds
    BY <1>1, <1>2 DEF Breaker
  <2> HIDE DEF f
  <2> QED  BY <1>2, <2>1, <2>2, <2>3 DEF Counted
<1>3. CASE ~(k.state = "open" /\ k.openAge >= OpenTimeoutSeconds)
  BY <1>3 DEF refreshState
<1> QED  BY <1>2, <1>3

LEMMA Opened ==
  ASSUME NEW k \in Breaker, Counted(k)
  PROVE  open(k) \in Breaker /\ Counted(open(k)) /\ open(k).state = "open" /\ open(k).openAge = 0
<1>1. 0 \in 0 .. HalfOpenMax /\ 0 \in 0 .. SuccessThreshold - 1 /\ 0 \in 0 .. OpenTimeoutSeconds
  BY Configured
<1>2. /\ open(k) \in Breaker /\ open(k).state = "open" /\ open(k).openAge = 0
      /\ open(k).buckets = k.buckets
  BY <1>1 DEF open, Breaker
<1> QED  BY <1>2 DEF Counted

\* close: also from a breaker that has just reached the success threshold.
LEMMA ClosedAgain ==
  ASSUME NEW k \in [state : {"closed", "open", "half_open"},
                    buckets : [0 .. BucketCount - 1 -> Slot],
                    openAge : 0 .. OpenTimeoutSeconds, inUse : 0 .. HalfOpenMax, success : Nat]
  PROVE  close(k) \in Breaker /\ Counted(close(k)) /\ close(k).state = "closed"
<1>1. 0 \in 0 .. HalfOpenMax /\ 0 \in 0 .. SuccessThreshold - 1
  BY Configured
<1>2. close(k) \in Breaker /\ close(k).state = "closed" /\ close(k).buckets = EmptyRing
  BY <1>1, NewRing DEF close, Breaker
<1> QED  BY <1>2, NewRing DEF Counted

\* addSample counts one more result in the bucket of the present second.
LEMMA SampleAdded ==
  ASSUME NEW k \in Breaker, Counted(k), NEW failed \in BOOLEAN, clock \in 0 .. Turn - 1
  PROVE  /\ addSample(k, failed) \in Breaker /\ Counted(addSample(k, failed))
         /\ addSample(k, failed).state = k.state
<1>1. PICK j \in 0 .. BucketCount - 1 : j = clock \div Bucket
  BY IndexInRing
<1>2. PICK a \in 0 .. Old : a = clock % Bucket
  <2>1. clock % Bucket \in 0 .. Bucket - 1  BY IndexInRing
  <2> QED  BY <2>1, Configured
<1>3. k.buckets \in [0 .. BucketCount - 1 -> Slot]
  BY DEF Breaker
<1>4. PICK x \in Slot : x = k.buckets[j] /\ x.failure <= x.total
  BY <1>3 DEF Counted
<1>5. PICK y \in Slot : /\ y = IF x.age = a THEN x ELSE [NoBucket EXCEPT !.age = a]
                        /\ y.failure <= y.total
  <2>1. [NoBucket EXCEPT !.age = a] = [age |-> a, total |-> 0, failure |-> 0]
    BY DEF NoBucket
  <2>2. PICK w \in Slot : w = [NoBucket EXCEPT !.age = a] /\ w.failure <= w.total
    <3> DEFINE w == [age |-> a, total |-> 0, failure |-> 0]
    <3>1. w \in Slot  BY DEF Slot
    <3>2. w.failure = 0 /\ w.total = 0  OBVIOUS
    <3> HIDE DEF w
    <3>3. w.failure <= w.total  BY <3>2
    <3> QED  BY <2>1, <3>1, <3>3 DEF w
  <2>3. \E y \in Slot : y = (IF x.age = a THEN x ELSE w) /\ y.failure <= y.total
    BY <1>4, <2>2
  <2> QED  BY <2>2, <2>3
<1>6. PICK e \in {0, 1} : e = IF failed THEN 1 ELSE 0
  OBVIOUS
<1>7. PICK z \in Slot : /\ z = [y EXCEPT !.total = y.total + 1, !.failure = y.failure + e]
                        /\ z.failure <= z.total
  <2>1. y.total \in Nat /\ y.failure \in Nat
    BY DEF Slot
  <2>2. y.total + 1 \in Nat /\ y.failure + e \in Nat /\ y.failure + e <= y.total + 1
    BY <1>5, <1>6, <2>1
  <2>3. /\ [y EXCEPT !.total = y.total + 1, !.failure = y.failure + e] \in Slot
        /\ [y EXCEPT !.total = y.total + 1, !.failure = y.failure + e].failure = y.failure + e
        /\ [y EXCEPT !.total = y.total + 1, !.failure = y.failure + e].total = y.total + 1
    BY <2>2 DEF Slot
  <2> QED  BY <2>2, <2>3
<1>8. addSample(k, failed) = [k EXCEPT !.buckets[j] = z]
  BY <1>1, <1>2, <1>4, <1>5, <1>6, <1>7 DEF addSample
<1> DEFINE ring == [k.buckets EXCEPT ![j] = z]
<1>9. /\ ring \in [0 .. BucketCount - 1 -> Slot]
      /\ \A i \in 0 .. BucketCount - 1 : ring[i].failure <= ring[i].total
  BY <1>3, <1>7 DEF Counted
<1>10. [k EXCEPT !.buckets[j] = z] = [k EXCEPT !.buckets = ring]
  BY DEF Breaker
<1> HIDE DEF ring
<1>11. /\ [k EXCEPT !.buckets = ring] \in Breaker
       /\ [k EXCEPT !.buckets = ring].buckets = ring
       /\ [k EXCEPT !.buckets = ring].state = k.state
  BY <1>9 DEF Breaker
<1> QED  BY <1>8, <1>9, <1>10, <1>11 DEF Counted

\* recordHalfOpen: a result frees a slot, and may open or close the breaker.
LEMMA HalfOpenRecorded ==
  ASSUME NEW k \in Breaker, Counted(k), NEW failed \in BOOLEAN
  PROVE  LET f == recordHalfOpen(k, failed)
         IN  /\ f \in Breaker /\ Counted(f)
             /\ f.state = "open" /\ k.state = "half_open" => f.openAge = 0
             /\ f.state = "half_open" => f.inUse = IF k.inUse > 0 THEN k.inUse - 1 ELSE k.inUse
<1>1. k.inUse \in 0 .. HalfOpenMax /\ k.success \in 0 .. SuccessThreshold - 1
  BY DEF Breaker
<1>2. PICK i \in 0 .. HalfOpenMax : i = IF k.inUse > 0 THEN k.inUse - 1 ELSE k.inUse
  BY <1>1, Configured
<1> DEFINE used == [k EXCEPT !.inUse = i]
           won == [used EXCEPT !.success = used.success + 1]
<1>3. /\ used \in Breaker /\ used.buckets = k.buckets /\ used.state = k.state
      /\ used.inUse = i /\ used.success = k.success
  BY DEF Breaker
<1>4. Counted(used)
  BY <1>3 DEF Counted
<1>5. recordHalfOpen(k, failed) = IF failed THEN open(used)
                                  ELSE IF won.success >= SuccessThreshold THEN close(won) ELSE won
  BY <1>2 DEF recordHalfOpen
<1> HIDE DEF used
<1>6. used.success + 1 \in Nat
  BY <1>1, <1>3, Configured
<1>7. /\ won \in [state : {"closed", "open", "half_open"},
                  buckets : [0 .. BucketCount - 1 -> Slot],
                  openAge : 0 .. OpenTimeoutSeconds, inUse : 0 .. HalfOpenMax, success : Nat]
      /\ won.success = used.success + 1 /\ won.inUse = i /\ won.state = k.state
      /\ won.buckets = k.buckets
  BY <1>3, <1>6 DEF Breaker
<1>8. CASE failed
  <2>1. recordHalfOpen(k, failed) = open(used)
    BY <1>5, <1>8
  <2> QED  BY <1>3, <1>4, <2>1, Opened
<1>9. CASE ~failed /\ won.success >= SuccessThreshold
  <2>1. recordHalfOpen(k, failed) = close(won)
    BY <1>5, <1>9
  <2> HIDE DEF won
  <2> QED  BY <1>7, <2>1, ClosedAgain
<1>10. CASE ~failed /\ ~(won.success >= SuccessThreshold)
  <2>1. recordHalfOpen(k, failed) = won
    BY <1>5, <1>10
  <2>2. used.success + 1 \in 0 .. SuccessThreshold - 1
    BY <1>6, <1>7, <1>10, Configured
  <2>3. won \in Breaker
    BY <1>3, <2>2 DEF Breaker
  <2> HIDE DEF won
  <2>4. Counted(won)
    BY <1>7 DEF Counted
  <2>5. ~(won.state = "open" /\ k.state = "half_open")
    BY <1>7
  <2> QED  BY <1>2, <1>7, <2>1, <2>3, <2>4, <2>5
<1> QED  BY <1>8, <1>9, <1>10

\* record: what a result makes of a breaker.
LEMMA Recorded ==
  ASSUME NEW k \in Breaker, Counted(k), NEW failed \in BOOLEAN, clock \in 0 .. Turn - 1
  PROVE  LET f == record(k, failed)
         IN  /\ f \in Breaker /\ Counted(f)
             /\ k.state = "open" => f = k
             /\ f.state = "open" /\ k.state # "open" => f.openAge = 0
             /\ f.state = "half_open" =>
                  /\ k.state = "half_open"
                  /\ f.inUse = IF k.inUse > 0 THEN k.inUse - 1 ELSE k.inUse
<1>1. k.state \in {"closed", "open", "half_open"}
  BY DEF Breaker
<1>2. CASE k.state = "half_open"
  <2>1. record(k, failed) = recordHalfOpen(k, failed)
    BY <1>2 DEF record
  <2> QED  BY <1>2, <2>1, HalfOpenRecorded
<1>3. CASE k.state = "open"
  <2>1. record(k, failed) = k
    BY <1>3 DEF record
  <2> QED  BY <1>3, <2>1
<1>4. CASE k.state = "closed"
  <2> DEFINE g == addSample(k, failed)
  <2>1. g \in Breaker /\ Counted(g) /\ g.state = "closed"
    BY <1>4, SampleAdded
  <2>2. record(k, failed) = IF shouldOpen(g) THEN open(g) ELSE g
    BY <1>4 DEF record, recordClosed
  <2> HIDE DEF g
  <2>3. CASE shouldOpen(g)
    <3>1. record(k, failed) = open(g)  BY <2>2, <2>3
    <3> QED  BY <1>4, <2>1, <3>1, Opened
  <2>4. CASE ~shouldOpen(g)
    <3>1. record(k, failed) = g  BY <2>2, <2>4
    <3> QED  BY <1>4, <2>1, <3>1
  <2> QED  BY <2>3, <2>4
<1> QED  BY <1>1, <1>2, <1>3, <1>4

\* markSelected: a half-open breaker with a free slot gives it away.
LEMMA Marked ==
  ASSUME NEW k \in Breaker, Counted(k), canSelect(k)
  PROVE  LET f == markSelected(k)
         IN  /\ f \in Breaker /\ Counted(f) /\ f.state = k.state
             /\ k.state # "half_open" => f = k
             /\ k.state = "half_open" => f.inUse = k.inUse + 1
<1>1. CASE k.state = "half_open"
  <2> DEFINE f == [k EXCEPT !.inUse = k.inUse + 1]
  <2>1. markSelected(k) = f
    BY <1>1 DEF markSelected
  <2>2. k.inUse + 1 \in 0 .. HalfOpenMax
    <3>1. k.inUse \in 0 .. HalfOpenMax /\ k.inUse < HalfOpenMax
      BY <1>1 DEF canSelect, Breaker
    <3> QED  BY <3>1, Configured
  <2>3. f \in Breaker /\ f.state = k.state /\ f.inUse = k.inUse + 1 /\ f.buckets = k.buckets
    BY <2>2 DEF Breaker
  <2> HIDE DEF f
  <2> QED  BY <1>1, <2>1, <2>3 DEF Counted
<1>2. CASE k.state # "half_open"
  <2>1. markSelected(k) = k
    BY <1>2 DEF markSelected
  <2> QED  BY <1>2, <2>1
<1> QED  BY <1>1, <1>2

-----------------------------------------------------------------------------
(* The breaker, the requests and the time *)

TrialsOf(q) == {r \in Req : q[r] = "trial"}

\* What the step of one request does to the number of trials.
LEMMA TrialCount ==
  ASSUME NEW q \in [Req -> ReqState], NEW r \in Req, NEW v \in ReqState
  PROVE  LET w == [q EXCEPT ![r] = v]
         IN  /\ w \in [Req -> ReqState]
             /\ Cardinality(TrialsOf(q)) \in Nat /\ Cardinality(TrialsOf(w)) \in Nat
             /\ q[r] # "trial" /\ v # "trial" => TrialsOf(w) = TrialsOf(q)
             /\ q[r] # "trial" /\ v = "trial"
                  => Cardinality(TrialsOf(w)) = Cardinality(TrialsOf(q)) + 1
             /\ v # "trial" => Cardinality(TrialsOf(w)) >= Cardinality(TrialsOf(q)) - 1
<1> DEFINE w == [q EXCEPT ![r] = v]
<1>1. w \in [Req -> ReqState] /\ w[r] = v /\ \A x \in Req : x # r => w[x] = q[x]
  OBVIOUS
<1>2. IsFiniteSet(Req)
  BY BreakerAssumption
<1> HIDE DEF w
<1>3. IsFiniteSet(TrialsOf(q)) /\ IsFiniteSet(TrialsOf(w))
  BY <1>2, FS_Subset DEF TrialsOf
<1>4. Cardinality(TrialsOf(q)) \in Nat /\ Cardinality(TrialsOf(w)) \in Nat
  BY <1>3, FS_CardinalityType
<1>5. q[r] # "trial" /\ v # "trial" => TrialsOf(w) = TrialsOf(q)
  BY <1>1 DEF TrialsOf
<1>6. ASSUME q[r] # "trial", v = "trial"
      PROVE  Cardinality(TrialsOf(w)) = Cardinality(TrialsOf(q)) + 1
  <2>1. TrialsOf(w) = TrialsOf(q) \cup {r} /\ r \notin TrialsOf(q)
    BY <1>1, <1>6 DEF TrialsOf
  <2> QED  BY <1>3, <2>1, FS_AddElement
<1>7. ASSUME v # "trial"
      PROVE  Cardinality(TrialsOf(w)) >= Cardinality(TrialsOf(q)) - 1
  <2>1. TrialsOf(w) = TrialsOf(q) \ {r}
    BY <1>1, <1>7 DEF TrialsOf
  <2>2. Cardinality(TrialsOf(q) \ {r})
          = IF r \in TrialsOf(q) THEN Cardinality(TrialsOf(q)) - 1 ELSE Cardinality(TrialsOf(q))
    BY <1>3, FS_RemoveElement
  <2> QED  BY <1>4, <2>1, <2>2
<1> QED  BY <1>1, <1>4, <1>5, <1>6, <1>7 DEF w

\* A step that leaves breaker k and requests q keeps the invariant, if the breaker
\* opened afresh or stayed as it was.
LEMMA BreakerStep ==
  ASSUME BreakerInv, NEW k \in Breaker, Counted(k), NEW q \in [Req -> ReqState], Becomes(k, q),
         k.state = "open" =>
           IF refreshState(b).state = "open" THEN k = refreshState(b) ELSE k.openAge = 0,
         k.state = "half_open" => refreshState(b).state = "half_open",
         ~silent => Balanced(k, q)
  PROVE  BreakerInv'
<1>1. /\ b \in Breaker /\ Counted(b) /\ Timed(b, sinceOpen)
      /\ sinceOpen \in 0 .. OpenTimeoutSeconds
  BY DEF BreakerInv
<1>2. PICK f \in Breaker :
        /\ f = refreshState(b)
        /\ \/ f = b /\ ~(b.state = "open" /\ b.openAge >= OpenTimeoutSeconds)
           \/ b.state = "open" /\ b.openAge = OpenTimeoutSeconds /\ f.state = "half_open"
  BY <1>1, Refreshed
<1>3. /\ b' = k /\ req' = Retag(q, b, k) /\ clock' = clock /\ silent' = silent
      /\ sinceOpen' = IF f.state # "open" /\ k.state = "open" THEN 0 ELSE sinceOpen
  BY <1>2 DEF Becomes
<1>4. req' \in [Req -> ReqState]
  BY <1>3 DEF Retag, ReqState
<1>5. sinceOpen' \in 0 .. OpenTimeoutSeconds
  BY <1>1, <1>3, Configured
<1>6. Timed(b', sinceOpen')
  <2>1. CASE k.state = "open" /\ f.state # "open"
    BY <1>2, <1>3, <2>1 DEF Timed
  <2>2. CASE k.state = "open" /\ f.state = "open"
    BY <1>1, <1>2, <1>3, <2>2 DEF Timed
  <2>3. CASE k.state = "half_open"
    BY <1>1, <1>2, <1>3, <2>3 DEF Timed
  <2>4. CASE k.state # "open" /\ k.state # "half_open"
    BY <1>3, <2>4 DEF Timed
  <2> QED  BY <2>1, <2>2, <2>3, <2>4
<1>7. ~silent' => Balanced(b', req')
  <2> SUFFICES ASSUME ~silent, k.state = "half_open" PROVE Balanced(k, req')
    BY <1>3 DEF Balanced
  <2>1. req' = q
    BY <1>3 DEF Retag
  <2> QED  BY <2>1
<1>8. Counted(b')
  BY <1>3
<1> QED  BY <1>3, <1>4, <1>5, <1>6, <1>7, <1>8 DEF BreakerInv

\* The breaker and its requests after the refresh that begins every method.
LEMMA AfterRefresh ==
  ASSUME BreakerInv
  PROVE  \E f \in Breaker :
           /\ f = refreshState(b) /\ Counted(f)
           /\ ~silent => Balanced(f, req)
           /\ f.state = "half_open" =>
                b.state = "half_open" \/ (b.state = "open" /\ sinceOpen = OpenTimeoutSeconds)
           /\ f.state = "closed" => b.state = "closed"
<1>1. /\ b \in Breaker /\ Counted(b) /\ Timed(b, sinceOpen) /\ req \in [Req -> ReqState]
      /\ ~silent => Balanced(b, req)
  BY DEF BreakerInv
<1>2. PICK f \in Breaker :
        /\ f = refreshState(b) /\ Counted(f)
        /\ \/ f = b
           \/ /\ b.state = "open" /\ b.openAge = OpenTimeoutSeconds
              /\ f.state = "half_open" /\ f.inUse = 0
  BY <1>1, Refreshed
<1>3. Cardinality(TrialsOf(req)) \in Nat
  <2>1. IsFiniteSet(TrialsOf(req))  BY BreakerAssumption, FS_Subset DEF TrialsOf
  <2> QED  BY <2>1, FS_CardinalityType
<1>4. CASE f = b
  BY <1>1, <1>2, <1>4
<1>5. CASE b.state = "open" /\ b.openAge = OpenTimeoutSeconds /\ f.state = "half_open" /\ f.inUse = 0
  <2>1. Balanced(f, req)
    BY <1>3, <1>5 DEF Balanced, TrialsOf
  <2>2. sinceOpen = OpenTimeoutSeconds
    BY <1>1, <1>5 DEF Timed
  <2> QED  BY <1>2, <1>5, <2>1, <2>2
<1> QED  BY <1>2, <1>4, <1>5

\* channelSelectable's question to the breaker.
LEMMA CanSelectStep ==
  ASSUME BreakerInv, NEW r \in Req, CanSelect(r)
  PROVE  BreakerInv'
<1>1. PICK f \in Breaker : f = refreshState(b) /\ Counted(f) /\ (~silent => Balanced(f, req))
  BY AfterRefresh
<1>2. req \in [Req -> ReqState] /\ req[r] = "idle"
  BY DEF BreakerInv, CanSelect
<1>3. PICK q \in [Req -> ReqState] : Becomes(f, q) /\ TrialsOf(q) = TrialsOf(req)
  <2> DEFINE w == [req EXCEPT ![r] = "peeked"]
  <2>1. w \in [Req -> ReqState] /\ TrialsOf(w) = TrialsOf(req)
    BY <1>2 DEF ReqState, TrialsOf
  <2>2. Becomes(f, IF canSelect(f) THEN w ELSE req)
    BY <1>1 DEF CanSelect
  <2> HIDE DEF w
  <2>3. CASE canSelect(f)
    <3>1. Becomes(f, w)  BY <2>2, <2>3
    <3> QED  BY <2>1, <3>1
  <2>4. CASE ~canSelect(f)
    <3>1. Becomes(f, req)  BY <2>2, <2>4
    <3> QED  BY <1>2, <3>1
  <2> QED  BY <2>3, <2>4
<1>4. ~silent => Balanced(f, q)
  BY <1>1, <1>3 DEF Balanced, TrialsOf
<1>5. f.state = "open" => IF refreshState(b).state = "open" THEN f = refreshState(b) ELSE f.openAge = 0
  BY <1>1
<1>6. f.state = "half_open" => refreshState(b).state = "half_open"
  BY <1>1
<1> QED  BY <1>1, <1>3, <1>4, <1>5, <1>6, BreakerStep

\* markChannelSelected: the request becomes a trial exactly when it takes a slot.
LEMMA MarkSelectedStep ==
  ASSUME BreakerInv, NEW r \in Req, MarkSelected(r)
  PROVE  BreakerInv'
<1>1. PICK f \in Breaker : f = refreshState(b) /\ Counted(f) /\ (~silent => Balanced(f, req))
  BY AfterRefresh
<1>2. req \in [Req -> ReqState] /\ req[r] = "peeked"
  BY DEF BreakerInv, MarkSelected
<1>3. CASE canSelect(f)
  <2>1. f.state \in {"closed", "half_open"}
    BY <1>3 DEF canSelect
  <2>2. PICK v \in {"trial", "other"} :
          v = (IF f.state = "half_open" THEN "trial" ELSE "other")
    OBVIOUS
  <2>3. PICK q \in [Req -> ReqState] :
          /\ q = [req EXCEPT ![r] = v]
          /\ Cardinality(TrialsOf(req)) \in Nat /\ Cardinality(TrialsOf(q)) \in Nat
          /\ v = "trial" => Cardinality(TrialsOf(q)) = Cardinality(TrialsOf(req)) + 1
    <3>1. PICK p \in [Req -> ReqState] : p = req /\ p[r] = "peeked"  BY <1>2
    <3>2. v \in ReqState  BY DEF ReqState
    <3> DEFINE w == [p EXCEPT ![r] = v]
    <3>3. /\ w \in [Req -> ReqState]
          /\ Cardinality(TrialsOf(p)) \in Nat /\ Cardinality(TrialsOf(w)) \in Nat
          /\ v = "trial" => Cardinality(TrialsOf(w)) = Cardinality(TrialsOf(p)) + 1
      BY <3>1, <3>2, TrialCount
    <3>4. w = [req EXCEPT ![r] = v]  BY <3>1
    <3> HIDE DEF w
    <3> QED  BY <3>1, <3>3, <3>4
  <2>4. PICK g \in Breaker :
          /\ g = markSelected(f) /\ Counted(g) /\ g.state = f.state
          /\ f.state = "half_open" => g.inUse = f.inUse + 1
    BY <1>1, <1>3, Marked
  <2>5. Becomes(g, q)
    BY <1>1, <1>3, <2>2, <2>3, <2>4 DEF MarkSelected
  <2>6. ~silent => Balanced(g, q)
    <3> SUFFICES ASSUME ~silent, g.state = "half_open"
                 PROVE  g.inUse <= Cardinality(TrialsOf(q))
      BY DEF Balanced, TrialsOf
    <3>1. f.inUse \in Nat /\ f.inUse <= Cardinality(TrialsOf(req))
      BY <1>1, <2>4, Configured DEF Balanced, TrialsOf, Breaker
    <3> QED  BY <2>2, <2>3, <2>4, <3>1
  <2>7. g.state # "open" /\ (g.state = "half_open" => refreshState(b).state = "half_open")
    BY <1>1, <2>1, <2>4
  <2> QED  BY <2>4, <2>5, <2>6, <2>7, BreakerStep
<1>4. CASE ~canSelect(f)
  <2>1. PICK q \in [Req -> ReqState] :
          q = [req EXCEPT ![r] = "idle"] /\ TrialsOf(q) = TrialsOf(req)
    <3> DEFINE w == [req EXCEPT ![r] = "idle"]
    <3>1. w \in [Req -> ReqState] /\ TrialsOf(w) = TrialsOf(req)
      BY <1>2 DEF ReqState, TrialsOf
    <3> HIDE DEF w
    <3> QED  BY <3>1 DEF w
  <2>2. Becomes(f, q)
    BY <1>1, <1>4, <2>1 DEF MarkSelected
  <2>3. ~silent => Balanced(f, q)
    BY <1>1, <2>1 DEF Balanced, TrialsOf
  <2>4. f.state = "open" => IF refreshState(b).state = "open" THEN f = refreshState(b) ELSE f.openAge = 0
    BY <1>1
  <2>5. f.state = "half_open" => refreshState(b).state = "half_open"
    BY <1>1
  <2> QED  BY <1>1, <2>2, <2>3, <2>4, <2>5, BreakerStep
<1> QED  BY <1>3, <1>4

\* A result, whenever it comes: it frees at most the slot of the trial that ends.
LEMMA ReportStep ==
  ASSUME BreakerInv, NEW r \in Req, NEW failed \in BOOLEAN, Report(r, failed)
  PROVE  BreakerInv'
<1>1. PICK f \in Breaker : f = refreshState(b) /\ Counted(f) /\ (~silent => Balanced(f, req))
  BY AfterRefresh
<1>2. req \in [Req -> ReqState] /\ clock \in 0 .. Turn - 1
  BY DEF BreakerInv
<1>3. PICK q \in [Req -> ReqState] :
        /\ q = [req EXCEPT ![r] = "idle"]
        /\ Cardinality(TrialsOf(req)) \in Nat /\ Cardinality(TrialsOf(q)) \in Nat
        /\ Cardinality(TrialsOf(q)) >= Cardinality(TrialsOf(req)) - 1
  <2>1. "idle" \in ReqState  BY DEF ReqState
  <2> QED  BY <1>2, <2>1, TrialCount
<1>4. PICK g \in Breaker :
        /\ g = record(f, failed) /\ Counted(g)
        /\ f.state = "open" => g = f
        /\ g.state = "open" /\ f.state # "open" => g.openAge = 0
        /\ g.state = "half_open" =>
             /\ f.state = "half_open"
             /\ g.inUse = IF f.inUse > 0 THEN f.inUse - 1 ELSE f.inUse
  BY <1>1, <1>2, Recorded
<1>5. Becomes(g, q)
  BY <1>1, <1>3, <1>4 DEF Report
<1>6. ~silent => Balanced(g, q)
  <2> SUFFICES ASSUME ~silent, g.state = "half_open"
               PROVE  g.inUse <= Cardinality(TrialsOf(q))
    BY DEF Balanced, TrialsOf
  <2>1. f.inUse \in Nat /\ f.inUse <= Cardinality(TrialsOf(req))
    BY <1>1, <1>4, Configured DEF Balanced, TrialsOf, Breaker
  <2> QED  BY <1>3, <1>4, <2>1
<1>7. g.state = "open" => IF refreshState(b).state = "open" THEN g = refreshState(b) ELSE g.openAge = 0
  BY <1>1, <1>4
<1>8. g.state = "half_open" => refreshState(b).state = "half_open"
  BY <1>1, <1>4
<1> QED  BY <1>4, <1>5, <1>6, <1>7, <1>8, BreakerStep

LEMMA RemoveStep ==
  ASSUME BreakerInv, Remove
  PROVE  BreakerInv'
<1>1. newBreaker \in Breaker /\ Counted(newBreaker) /\ newBreaker.state = "closed"
  BY NewBreakerType DEF newBreaker
<1>2. req \in [Req -> ReqState] /\ Becomes(newBreaker, req)
  BY DEF BreakerInv, Remove
<1>3. Balanced(newBreaker, req)
  BY <1>1 DEF Balanced
<1> HIDE DEF newBreaker
<1>4. newBreaker.state # "open" /\ newBreaker.state # "half_open"
  BY <1>1
<1> QED  BY <1>1, <1>2, <1>3, <1>4, BreakerStep

\* A request that starts without the breaker, or ends without telling it.
LEMMA UnseenStep ==
  ASSUME BreakerInv, NEW r \in Req, SelectDirectly(r) \/ EndSilently(r)
  PROVE  BreakerInv'
<1>1. req \in [Req -> ReqState]
  BY DEF BreakerInv
<1>2. CASE SelectDirectly(r)
  <2>1. req' \in [Req -> ReqState] /\ TrialsOf(req') = TrialsOf(req)
    BY <1>1, <1>2 DEF SelectDirectly, ReqState, TrialsOf
  <2>2. UNCHANGED <<b, clock, sinceOpen, silent>>
    BY <1>2 DEF SelectDirectly
  <2>3. ~silent => Balanced(b, req')
    BY <2>1 DEF BreakerInv, Balanced, TrialsOf
  <2> QED  BY <2>1, <2>2, <2>3 DEF BreakerInv, Counted, Timed, Balanced
<1>3. CASE EndSilently(r)
  <2>1. req' \in [Req -> ReqState] /\ silent
    BY <1>1, <1>3 DEF EndSilently, ReqState
  <2>2. UNCHANGED <<b, clock, sinceOpen, silent>>
    BY <1>3 DEF EndSilently
  <2> QED  BY <2>1, <2>2 DEF BreakerInv, Counted, Timed
<1> QED  BY <1>2, <1>3

\* A second passes: buckets age, and both ages of the opening advance together.
LEMMA TickStep ==
  ASSUME BreakerInv, Tick
  PROVE  BreakerInv'
<1>1. /\ b \in Breaker /\ Counted(b) /\ Timed(b, sinceOpen) /\ clock \in 0 .. Turn - 1
      /\ sinceOpen \in 0 .. OpenTimeoutSeconds /\ req \in [Req -> ReqState]
  BY DEF BreakerInv
<1>2. clock' \in 0 .. Turn - 1
  <2>1. PICK n \in Nat \ {0} : n = Turn  BY Configured
  <2>2. clock + 1 \in Nat  BY <1>1, <2>1
  <2>3. PICK m \in Nat : m = clock + 1  BY <2>2
  <2>4. m % n \in 0 .. n - 1  OBVIOUS
  <2> QED  BY <2>1, <2>3, <2>4 DEF Tick
<1>3. PICK t \in Nat \ {0} : t = OpenTimeoutSeconds
  BY Configured
<1> DEFINE next(a) == IF a + 1 <= t THEN a + 1 ELSE t
<1>4. \A a \in 0 .. t : Min({a + 1, t}) = next(a) /\ next(a) \in 0 .. t
  <2> SUFFICES ASSUME NEW a \in 0 .. t PROVE Min({a + 1, t}) = next(a) /\ next(a) \in 0 .. t
    OBVIOUS
  <2>1. PICK m \in Nat : m = a + 1  OBVIOUS
  <2>2. Min({m, t}) = IF m <= t THEN m ELSE t  BY MinOfTwo
  <2> QED  BY <2>1, <2>2
<1>5. PICK o \in 0 .. t : o = b.openAge
  BY <1>1, <1>3 DEF Breaker
<1>6. PICK s \in 0 .. t : s = sinceOpen
  BY <1>1, <1>3
<1>7. PICK o2 \in 0 .. t : o2 = next(o) /\ o2 = Min({b.openAge + 1, OpenTimeoutSeconds})
  BY <1>3, <1>4, <1>5
<1>8. PICK s2 \in 0 .. t : s2 = next(s) /\ s2 = Min({sinceOpen + 1, OpenTimeoutSeconds})
  BY <1>3, <1>4, <1>6
<1> DEFINE ring == [i \in 0 .. BucketCount - 1 |-> Aged(b.buckets[i])]
<1>9. \A x \in Slot : x.failure <= x.total => Aged(x) \in Slot /\ Aged(x).failure <= Aged(x).total
  <2> SUFFICES ASSUME NEW x \in Slot, x.failure <= x.total
               PROVE  Aged(x) \in Slot /\ Aged(x).failure <= Aged(x).total
    OBVIOUS
  <2>1. CASE x.age + 1 >= Old
    <3>1. Aged(x) = NoBucket  BY <2>1 DEF Aged
    <3>2. PICK y \in Slot : y = NoBucket /\ y.total = 0 /\ y.failure = 0  BY NewSlot
    <3>3. y.failure <= y.total  BY <3>2
    <3> QED  BY <3>1, <3>2, <3>3
  <2>2. CASE ~(x.age + 1 >= Old)
    <3>1. x.age + 1 \in 0 .. Old
      <4>1. PICK n \in Nat : n = Old  BY Configured
      <4>2. PICK a \in 0 .. n : a = x.age  BY <4>1 DEF Slot
      <4> QED  BY <2>2, <4>1, <4>2
    <3>2. PICK a2 \in 0 .. Old : a2 = x.age + 1  BY <3>1
    <3>3. Aged(x) = [x EXCEPT !.age = a2]  BY <2>2, <3>2 DEF Aged
    <3>4. /\ [x EXCEPT !.age = a2] \in Slot /\ [x EXCEPT !.age = a2].total = x.total
          /\ [x EXCEPT !.age = a2].failure = x.failure
      BY DEF Slot
    <3> QED  BY <3>3, <3>4
  <2> QED  BY <2>1, <2>2
<1>10. b.buckets \in [0 .. BucketCount - 1 -> Slot]
  BY <1>1 DEF Breaker
<1>11. /\ ring \in [0 .. BucketCount - 1 -> Slot]
       /\ \A i \in 0 .. BucketCount - 1 : ring[i].failure <= ring[i].total
  BY <1>1, <1>9, <1>10 DEF Counted
<1>12. b' = [b EXCEPT !.openAge = o2, !.buckets = ring]
  <2>1. DOMAIN b.buckets = 0 .. BucketCount - 1  BY <1>10
  <2>2. b' = [b EXCEPT !.openAge = Min({b.openAge + 1, OpenTimeoutSeconds}),
                       !.buckets = [i \in DOMAIN b.buckets |-> Aged(b.buckets[i])]]
    BY <1>1 DEF Tick, Breaker
  <2> QED  BY <1>7, <2>1, <2>2
<1> HIDE DEF ring
<1>13. /\ b' \in Breaker /\ b'.buckets = ring /\ b'.openAge = o2 /\ b'.state = b.state
       /\ b'.inUse = b.inUse
  BY <1>1, <1>3, <1>11, <1>12 DEF Breaker
<1>14. Counted(b')
  BY <1>11, <1>13 DEF Counted
<1>15. sinceOpen' = s2 /\ req' = req /\ silent' = silent
  BY <1>8 DEF Tick
<1>16. Timed(b', sinceOpen')
  <2>1. b.state = "open" => o2 = s2
    <3>1. b.state = "open" => o = s  BY <1>1, <1>5, <1>6 DEF Timed
    <3> QED  BY <1>7, <1>8, <3>1
  <2>2. b.state = "half_open" => s2 = t
    <3>1. b.state = "half_open" => s = t  BY <1>1, <1>3, <1>6 DEF Timed
    <3>2. next(t) = t  OBVIOUS
    <3> QED  BY <1>8, <3>1, <3>2
  <2> HIDE DEF next
  <2> QED  BY <1>3, <1>13, <1>15, <2>1, <2>2 DEF Timed
<1>17. ~silent' => Balanced(b', req')
  BY <1>13, <1>15 DEF BreakerInv, Balanced
<1>18. sinceOpen' \in 0 .. OpenTimeoutSeconds
  BY <1>3, <1>15
<1> QED  BY <1>1, <1>2, <1>13, <1>14, <1>15, <1>16, <1>17, <1>18 DEF BreakerInv

-----------------------------------------------------------------------------
(* The theorems *)

\* What every step may do to the invariant, by the method that takes it.
LEMMA NextStep ==
  ASSUME BreakerInv, [Next]_vars
  PROVE  BreakerInv'
<1>1. ASSUME NEW r \in Req, CanSelect(r) PROVE BreakerInv'
  BY <1>1, CanSelectStep
<1>2. ASSUME NEW r \in Req, MarkSelected(r) PROVE BreakerInv'
  BY <1>2, MarkSelectedStep
<1>3. ASSUME NEW r \in Req, SelectDirectly(r) \/ EndSilently(r) PROVE BreakerInv'
  BY <1>3, UnseenStep
<1>4. ASSUME NEW r \in Req, MarkSuccess(r) \/ MarkFailure(r) PROVE BreakerInv'
  BY <1>4, ReportStep DEF MarkSuccess, MarkFailure
<1>5. CASE Remove
  BY <1>5, RemoveStep
<1>6. CASE Tick
  BY <1>6, TickStep
<1>7. CASE UNCHANGED vars
  BY <1>7 DEF vars, BreakerInv, Counted, Timed, Balanced
<1> QED  BY <1>1, <1>2, <1>3, <1>4, <1>5, <1>6, <1>7 DEF Next

\* The breaker keeps its counters and its ring within bounds, knows how long ago it
\* opened, and holds no slot that is not a trial's, if every request reports.
THEOREM BreakerInvariant == Spec => []BreakerInv
<1>1. Init => BreakerInv
  <2> SUFFICES ASSUME Init PROVE BreakerInv
    OBVIOUS
  <2>1. newBreaker.state = "closed"
    BY DEF newBreaker
  <2>2. b = newBreaker /\ Timed(newBreaker, sinceOpen) /\ Balanced(newBreaker, req)
    BY <2>1 DEF Init, Timed, Balanced
  <2>3. req \in [Req -> ReqState]
    BY DEF Init, ReqState
  <2>4. sinceOpen \in 0 .. OpenTimeoutSeconds
    BY Configured DEF Init
  <2> HIDE DEF newBreaker
  <2> QED  BY <2>2, <2>3, <2>4, NewBreakerType DEF Init, BreakerInv
<1>2. BreakerInv /\ [Next]_vars => BreakerInv'
  BY NextStep
<1> QED  BY <1>1, <1>2, PTL DEF Spec

\* The half-open counters stay within GetCircuitBreakerSetting's limits, however the
\* results of the requests come in.
THEOREM Bounded == Spec => []TypeOK
<1>1. BreakerInv => TypeOK
  <2> SUFFICES ASSUME BreakerInv PROVE TypeOK
    OBVIOUS
  <2>1. b \in Breaker /\ Counted(b)
    BY DEF BreakerInv
  <2>2. b.buckets \in [0 .. BucketCount - 1 -> Slot]
    BY <2>1 DEF Breaker
  <2>3. \A i \in DOMAIN b.buckets : b.buckets[i].age \in 0 .. Old
                                    /\ b.buckets[i].failure <= b.buckets[i].total
    BY <2>1, <2>2 DEF Counted, Slot
  <2> QED  BY <2>1, <2>3 DEF BreakerInv, TypeOK, Breaker
<1> QED  BY <1>1, BreakerInvariant, PTL

\* A half-open breaker never holds a slot for a request that is gone, if every
\* request reports: late results free slots too soon, never too late.
THEOREM SlotsOfTrials == Spec => []SlotsAreTrials
<1>1. BreakerInv => SlotsAreTrials
  BY DEF BreakerInv, Balanced, SlotsAreTrials, Trials
<1> QED  BY <1>1, BreakerInvariant, PTL

\* MarkSelected is the only way from the filter into flight, and it admits nobody
\* before OpenTimeoutSeconds have passed since the breaker opened.
THEOREM WaitsForTimeout == Spec => AdmitsAfterTimeout
<1> DEFINE P == \A r \in Req : req[r] = "peeked" /\ req'[r] \in {"trial", "other"}
                   => b.state = "closed" \/ sinceOpen >= OpenTimeoutSeconds
<1>1. ASSUME BreakerInv, [Next]_vars PROVE [P]_vars
  <2> SUFFICES ASSUME NEW r \in Req, req[r] = "peeked", req'[r] \in {"trial", "other"}
               PROVE  b.state = "closed" \/ sinceOpen >= OpenTimeoutSeconds
    OBVIOUS
  <2>1. /\ req \in [Req -> ReqState] /\ Timed(b, sinceOpen)
        /\ sinceOpen \in 0 .. OpenTimeoutSeconds /\ OpenTimeoutSeconds \in Nat
    BY <1>1, Configured DEF BreakerInv
  <2>2. ASSUME NEW k, NEW q \in [Req -> ReqState], Becomes(k, q) PROVE q[r] \in {"trial", "other"}
    BY <2>2 DEF Becomes, Retag
  <2>3. CASE MarkSelected(r)
    <3>1. PICK f \in Breaker :
            /\ f = refreshState(b)
            /\ f.state = "half_open" =>
                 b.state = "half_open" \/ (b.state = "open" /\ sinceOpen = OpenTimeoutSeconds)
            /\ f.state = "closed" => b.state = "closed"
      BY <1>1, AfterRefresh
    <3>2. canSelect(f)
      <4> SUFFICES ASSUME ~canSelect(f) PROVE FALSE
        OBVIOUS
      <4>1. Becomes(f, [req EXCEPT ![r] = "idle"])
        BY <2>3, <3>1 DEF MarkSelected
      <4>2. [req EXCEPT ![r] = "idle"] \in [Req -> ReqState] /\ [req EXCEPT ![r] = "idle"][r] = "idle"
        BY <2>1 DEF ReqState
      <4> QED  BY <2>2, <4>1, <4>2
    <3>3. f.state \in {"closed", "half_open"}
      BY <3>2 DEF canSelect
    <3> QED  BY <2>1, <3>1, <3>3 DEF Timed
  <2>4. ASSUME NEW x \in Req, x # r, MarkSelected(x) PROVE FALSE
    <3>1. \E v \in ReqState : \E k : Becomes(k, [req EXCEPT ![x] = v])
      <4>1. CASE canSelect(refreshState(b))
        <5>1. PICK v \in ReqState :
                v = IF refreshState(b).state = "half_open" THEN "trial" ELSE "other"
          BY DEF ReqState
        <5>2. Becomes(markSelected(refreshState(b)), [req EXCEPT ![x] = v])
          BY <2>4, <4>1, <5>1 DEF MarkSelected
        <5> QED  BY <5>2
      <4>2. CASE ~canSelect(refreshState(b))
        <5>1. Becomes(refreshState(b), [req EXCEPT ![x] = "idle"]) /\ "idle" \in ReqState
          BY <2>4, <4>2 DEF MarkSelected, ReqState
        <5> QED  BY <5>1
      <4> QED  BY <4>1, <4>2
    <3> PICK v \in ReqState : \E k : Becomes(k, [req EXCEPT ![x] = v])
      BY <3>1
    <3>2. [req EXCEPT ![x] = v] \in [Req -> ReqState] /\ [req EXCEPT ![x] = v][r] = "peeked"
      BY <2>1, <2>4
    <3> QED  BY <2>2, <3>2
  <2>5. ASSUME NEW x \in Req, CanSelect(x) PROVE FALSE
    <3>1. PICK q \in [Req -> ReqState] : q[r] = "peeked" /\ Becomes(refreshState(b), q)
      <4> DEFINE w == [req EXCEPT ![x] = "peeked"]
      <4>1. w \in [Req -> ReqState] /\ w[r] = "peeked"
        BY <2>1 DEF ReqState
      <4>2. Becomes(refreshState(b), IF canSelect(refreshState(b)) THEN w ELSE req)
        BY <2>5 DEF CanSelect
      <4> QED  BY <2>1, <4>1, <4>2
    <3> QED  BY <2>2, <3>1
  <2>6. ASSUME NEW x \in Req, SelectDirectly(x) \/ EndSilently(x) PROVE FALSE
    BY <2>1, <2>6 DEF SelectDirectly, EndSilently
  <2>7. ASSUME NEW x \in Req, NEW failed \in BOOLEAN, Report(x, failed) PROVE FALSE
    <3>1. PICK k : Becomes(k, [req EXCEPT ![x] = "idle"])
      BY <2>7 DEF Report
    <3>2. [req EXCEPT ![x] = "idle"] \in [Req -> ReqState]
          /\ [req EXCEPT ![x] = "idle"][r] \in {"idle", "peeked"}
      BY <2>1 DEF ReqState
    <3> QED  BY <2>2, <3>1, <3>2
  <2>8. CASE Remove
    <3>1. Becomes(newBreaker, req)  BY <2>8 DEF Remove
    <3> QED  BY <2>1, <2>2, <3>1
  <2>9. ~Tick /\ ~UNCHANGED vars
    BY DEF Tick, vars
  <2> QED  BY <1>1, <2>3, <2>4, <2>5, <2>6, <2>7, <2>8, <2>9 DEF Next, MarkSuccess, MarkFailure
<1>2. Spec => [][P]_vars
  BY <1>1, BreakerInvariant, PTL DEF Spec
<1> QED  BY <1>2 DEF AdmitsAfterTimeout

-----------------------------------------------------------------------------
(***************************************************************************)
(* Sums over a set, as MapThenSumSet computes them: by taking out the      *)
(* element that CHOOSE picks.  Induction is over the subsets of a finite   *)
(* set, in the form of a set B of those for which the claim holds.         *)
(***************************************************************************)
\* The sum of w over S, as MapThenSumSet adds it up; Sums: f is the recursive function
\* that the fold computes with, on the sets of D.
SumOf(w, S) == MapThenSumSet(LAMBDA x : w[x], S)
Pick(t) == CHOOSE x \in t : TRUE
Sums(w, D, f) == f = [t \in D |-> IF t = {} THEN 0 ELSE w[Pick(t)] + f[t \ {Pick(t)}]]

\* The fold in terms of that function.
LEMMA SumIs ==
  ASSUME NEW w, NEW S
  PROVE  SumOf(w, S) = (CHOOSE f : Sums(w, SUBSET S, f))[S]
BY DEF SumOf, MapThenSumSet, MapThenFoldSet, Sums, Pick

\* Induction over the natural numbers, with the set of those that satisfy the claim.
LEMMA CountUp ==
  ASSUME NEW B, 0 \in B, \A n \in Nat : n \in B => n + 1 \in B
  PROVE  Nat \subseteq B
<1>1. SUFFICES ASSUME Nat \ B # {} PROVE FALSE OBVIOUS
<1>2. \E x \in Nat \ B : \A y \in Nat \ B : ~ (<<y, x>> \in OpToRel(<, Nat))
  BY <1>1, NatLessThanWellFounded, WFMin, Zenon
<1>3. PICK x \in Nat \ B : \A y \in Nat \ B : ~ (<<y, x>> \in OpToRel(<, Nat)) BY <1>2
<1>4. x # 0 /\ x - 1 \in Nat OBVIOUS
<1>5. PICK y : y = x - 1 OBVIOUS
<1>6. y \in Nat /\ y < x /\ x = y + 1 BY <1>4, <1>5
<1>7. <<y, x>> \in OpToRel(<, Nat) BY <1>6 DEF OpToRel
<1>8. y \in B BY <1>3, <1>6, <1>7, Zenon
<1> QED BY <1>6, <1>8

\* Induction over the subsets of a finite set.
LEMMA GrowSet ==
  ASSUME NEW S, IsFiniteSet(S), NEW B,
         \A t \in SUBSET S : (\A u \in SUBSET t : u # t => u \in B) => t \in B
  PROVE  SUBSET S \subseteq B
<1> DEFINE N == {n \in Nat : \A t \in SUBSET S : Cardinality(t) < n => t \in B}
<1>0. ASSUME NEW t \in SUBSET S PROVE IsFiniteSet(t) /\ Cardinality(t) \in Nat
  BY FS_Subset, FS_CardinalityType
<1>1. 0 \in N BY <1>0
<1>2. ASSUME NEW n \in Nat, n \in N PROVE n + 1 \in N
  <2>1. ASSUME NEW t \in SUBSET S, Cardinality(t) < n + 1 PROVE t \in B
    <3>1. ASSUME NEW u \in SUBSET t, u # t PROVE u \in B
      <4>1. IsFiniteSet(t) /\ Cardinality(t) \in Nat BY <1>0
      <4>2. Cardinality(u) \in Nat /\ Cardinality(u) < Cardinality(t)
        BY <3>1, <4>1, FS_Subset, FS_CardinalityType
      <4>3. u \in SUBSET S /\ Cardinality(u) < n BY <2>1, <4>1, <4>2
      <4> QED BY <1>2, <4>3
    <3> QED BY <3>1
  <2> QED BY <2>1
<1>3. Nat \subseteq N
  <2> HIDE DEF N
  <2> QED BY <1>1, <1>2, CountUp
<1>4. ASSUME NEW t \in SUBSET S PROVE t \in B
  <2>1. Cardinality(t) + 1 \in N /\ Cardinality(t) \in Nat BY <1>0, <1>3
  <2> QED BY <2>1
<1> QED BY <1>4

\* CHOOSE picks an element.
LEMMA PickIn ==
  ASSUME NEW t, t # {}
  PROVE  Pick(t) \in t
BY DEF Pick

\* The function exists on the subsets of at most n elements, for every n.
Upto(S, n) == {t \in SUBSET S : Cardinality(t) <= n}

\* By induction on n.
LEMMA SumsUpto ==
  ASSUME NEW w, NEW S, IsFiniteSet(S), NEW m \in Nat
  PROVE  \E f : Sums(w, Upto(S, m), f)
<1> DEFINE N == {n \in Nat : \E f : Sums(w, Upto(S, n), f)}
<1>0. ASSUME NEW t \in SUBSET S PROVE IsFiniteSet(t) /\ Cardinality(t) \in Nat
  BY FS_Subset, FS_CardinalityType
<1>1. 0 \in N
  <2> DEFINE g == [t \in Upto(S, 0) |-> 0]
  <2>1. \A t \in Upto(S, 0) : t = {} BY <1>0, FS_EmptySet DEF Upto
  <2>2. Sums(w, Upto(S, 0), g) BY <2>1 DEF Sums
  <2> QED BY <2>2
<1>2. ASSUME NEW n \in Nat, n \in N PROVE n + 1 \in N
  <2>1. PICK f : Sums(w, Upto(S, n), f) BY <1>2
  <2> DEFINE g == [t \in Upto(S, n + 1) |-> IF t = {} THEN 0 ELSE w[Pick(t)] + f[t \ {Pick(t)}]]
  <2>2. ASSUME NEW t \in Upto(S, n + 1), t # {}
        PROVE  t \ {Pick(t)} \in Upto(S, n) /\ t \ {Pick(t)} \in Upto(S, n + 1)
    <3>1. Pick(t) \in t BY <2>2, PickIn
    <3>2. IsFiniteSet(t) /\ Cardinality(t) \in Nat /\ Cardinality(t) <= n + 1 BY <1>0 DEF Upto
    <3>3. Cardinality(t \ {Pick(t)}) = Cardinality(t) - 1 BY <3>1, <3>2, FS_RemoveElement
    <3>4. t \ {Pick(t)} \in SUBSET S BY DEF Upto
    <3> QED BY <3>2, <3>3, <3>4 DEF Upto
  <2>3. ASSUME NEW u \in Upto(S, n), u \in Upto(S, n + 1) PROVE g[u] = f[u]
    <3>1. f = [t \in Upto(S, n) |-> IF t = {} THEN 0 ELSE w[Pick(t)] + f[t \ {Pick(t)}]] BY <2>1 DEF Sums
    <3>2. f[u] = IF u = {} THEN 0 ELSE w[Pick(u)] + f[u \ {Pick(u)}] BY <3>1, Zenon
    <3>3. g[u] = IF u = {} THEN 0 ELSE w[Pick(u)] + f[u \ {Pick(u)}] BY <2>3
    <3> QED BY <3>2, <3>3
  <2>4. PICK h : h = g OBVIOUS
  <2>5. ASSUME NEW t \in Upto(S, n + 1), t # {}
        PROVE  h[t \ {Pick(t)}] = f[t \ {Pick(t)}]
    BY <2>2, <2>3, <2>4, <2>5, Zenon
  <2>6. Sums(w, Upto(S, n + 1), h) BY <2>4, <2>5 DEF Sums
  <2> QED BY <2>6
<1>3. Nat \subseteq N
  <2> HIDE DEF N
  <2> QED BY <1>1, <1>2, CountUp
<1> QED BY <1>3

\* The function that MapThenSumSet computes with exists.
LEMMA SumsExist ==
  ASSUME NEW w, NEW S, IsFiniteSet(S)
  PROVE  Sums(w, SUBSET S, CHOOSE f : Sums(w, SUBSET S, f))
<1>1. Cardinality(S) \in Nat BY FS_CardinalityType
<1>2. Upto(S, Cardinality(S)) = SUBSET S BY <1>1, FS_Subset, FS_CardinalityType DEF Upto
<1>3. PICK f : Sums(w, Upto(S, Cardinality(S)), f) BY <1>1, SumsUpto
<1>4. \E g : Sums(w, SUBSET S, g) BY <1>2, <1>3
<1> QED BY <1>4, Zenon

\* The sum depends on the values on its own set only.
Alike(w, z, D) == \A x \in D : w[x] = z[x]

\* Two such functions agree wherever their values do.
LEMMA SumsAgree ==
  ASSUME NEW w, NEW z, NEW S, NEW D, NEW f, NEW g,
         IsFiniteSet(S), D \in SUBSET S, Sums(w, SUBSET S, f), Sums(z, SUBSET D, g),
         Alike(w, z, D)
  PROVE  f[D] = g[D]
<1> DEFINE B == {t \in SUBSET D : f[t] = g[t]}
<1>0. IsFiniteSet(D) BY FS_Subset
<1>1. ASSUME NEW t \in SUBSET D, \A u \in SUBSET t : u # t => u \in B PROVE t \in B
  <2>1. f = [u \in SUBSET S |-> IF u = {} THEN 0 ELSE w[Pick(u)] + f[u \ {Pick(u)}]] BY DEF Sums
  <2>2. g = [u \in SUBSET D |-> IF u = {} THEN 0 ELSE z[Pick(u)] + g[u \ {Pick(u)}]] BY DEF Sums
  <2>3. f[t] = IF t = {} THEN 0 ELSE w[Pick(t)] + f[t \ {Pick(t)}] BY <2>1
  <2>4. g[t] = IF t = {} THEN 0 ELSE z[Pick(t)] + g[t \ {Pick(t)}] BY <2>2
  <2>5. CASE t = {} BY <2>3, <2>4, <2>5
  <2>6. CASE t # {}
    <3>1. Pick(t) \in t BY <2>6, PickIn
    <3>2. t \ {Pick(t)} \in SUBSET t /\ t \ {Pick(t)} # t BY <3>1
    <3>3. f[t \ {Pick(t)}] = g[t \ {Pick(t)}] BY <1>1, <3>2
    <3>4. w[Pick(t)] = z[Pick(t)] BY <3>1 DEF Alike
    <3> QED BY <2>3, <2>4, <2>6, <3>3, <3>4
  <2> QED BY <2>5, <2>6
<1>2. SUBSET D \subseteq B
  <2> HIDE DEF B
  <2> QED BY <1>0, <1>1, GrowSet
<1> QED BY <1>2

\* Two functions alike on a set have one sum over it.
LEMMA SumSame ==
  ASSUME NEW S, IsFiniteSet(S), NEW w, NEW z, Alike(w, z, S)
  PROVE  SumOf(w, S) = SumOf(z, S)
<1>1. Sums(w, SUBSET S, CHOOSE f : Sums(w, SUBSET S, f)) BY SumsExist
<1>2. Sums(z, SUBSET S, CHOOSE f : Sums(z, SUBSET S, f)) BY SumsExist
<1>3. PICK f : f = CHOOSE g : Sums(w, SUBSET S, g) OBVIOUS
<1>4. PICK h : h = CHOOSE g : Sums(z, SUBSET S, g) OBVIOUS
<1>5. Sums(w, SUBSET S, f) /\ Sums(z, SUBSET S, h) BY <1>1, <1>2, <1>3, <1>4, Zenon
<1>6. S \in SUBSET S OBVIOUS
<1>7. f[S] = h[S] BY <1>5, <1>6, SumsAgree, Zenon
<1> QED BY <1>3, <1>4, <1>7, SumIs

\* Nothing adds up to zero.
LEMMA SumEmpty ==
  ASSUME NEW w
  PROVE  SumOf(w, {}) = 0
<1>0. IsFiniteSet({}) BY FS_EmptySet
<1>1. Sums(w, SUBSET {}, CHOOSE f : Sums(w, SUBSET {}, f)) BY <1>0, SumsExist
<1>2. PICK f : f = CHOOSE g : Sums(w, SUBSET {}, g) OBVIOUS
<1>3. f[{}] = 0 BY <1>1, <1>2 DEF Sums
<1> QED BY <1>2, <1>3, SumIs

\* One element of the sum.
LEMMA SumPick ==
  ASSUME NEW S, IsFiniteSet(S), S # {}, NEW w
  PROVE  SumOf(w, S) = w[Pick(S)] + SumOf(w, S \ {Pick(S)})
<1> DEFINE D == S \ {Pick(S)}
<1>0. IsFiniteSet(D) /\ D \in SUBSET S BY FS_Subset
<1>1. Sums(w, SUBSET S, CHOOSE f : Sums(w, SUBSET S, f)) BY SumsExist
<1>2. Sums(w, SUBSET D, CHOOSE f : Sums(w, SUBSET D, f)) BY <1>0, SumsExist
<1>3. PICK f : f = CHOOSE g : Sums(w, SUBSET S, g) OBVIOUS
<1>4. PICK h : h = CHOOSE g : Sums(w, SUBSET D, g) OBVIOUS
<1>5. f[D] = h[D]
  <2>1. Sums(w, SUBSET S, f) /\ Sums(w, SUBSET D, h) BY <1>1, <1>2, <1>3, <1>4, Zenon
  <2>2. Alike(w, w, D) BY DEF Alike
  <2> HIDE DEF D
  <2> QED BY <1>0, <2>1, <2>2, SumsAgree, Zenon
<1>6. f[S] = w[Pick(S)] + f[D] BY <1>1, <1>3 DEF Sums
<1>7. SumOf(w, D) = h[D] BY <1>4, SumIs
<1>8. SumOf(w, S) = f[S] BY <1>3, SumIs
<1> QED BY <1>5, <1>6, <1>7, <1>8

\* A sum of integers is an integer.
LEMMA SumInt ==
  ASSUME NEW S, IsFiniteSet(S), NEW w, \A x \in S : w[x] \in Int
  PROVE  SumOf(w, S) \in Int
<1> DEFINE B == {t \in SUBSET S : SumOf(w, t) \in Int}
<1>1. ASSUME NEW t \in SUBSET S, \A u \in SUBSET t : u # t => u \in B PROVE t \in B
  <2>1. CASE t = {} BY <2>1, SumEmpty
  <2>2. CASE t # {}
    <3>1. Pick(t) \in t BY <2>2, PickIn
    <3>2. t \ {Pick(t)} \in SUBSET t /\ t \ {Pick(t)} # t BY <3>1
    <3>3. SumOf(w, t \ {Pick(t)}) \in Int BY <1>1, <3>2
    <3>4. IsFiniteSet(t) BY FS_Subset
    <3>5. SumOf(w, t) = w[Pick(t)] + SumOf(w, t \ {Pick(t)}) BY <2>2, <3>4, SumPick
    <3>6. w[Pick(t)] \in Int BY <3>1
    <3> QED BY <3>3, <3>5, <3>6
  <2> QED BY <2>1, <2>2
<1>2. SUBSET S \subseteq B
  <2> HIDE DEF B
  <2> QED BY <1>1, GrowSet
<1> QED BY <1>2

\* Any element may be taken out first.
LEMMA SumRemove ==
  ASSUME NEW S, IsFiniteSet(S), NEW w, \A x \in S : w[x] \in Int, NEW y \in S
  PROVE  SumOf(w, S) = w[y] + SumOf(w, S \ {y})
<1> DEFINE B == {t \in SUBSET S : \A x \in t : SumOf(w, t) = w[x] + SumOf(w, t \ {x})}
<1>1. ASSUME NEW t \in SUBSET S, \A u \in SUBSET t : u # t => u \in B, NEW x \in t
      PROVE  SumOf(w, t) = w[x] + SumOf(w, t \ {x})
  <2>1. PICK c : c = Pick(t) OBVIOUS
  <2>2. c \in t BY <2>1, PickIn
  <2>3. IsFiniteSet(t) BY FS_Subset
  <2>4. SumOf(w, t) = w[c] + SumOf(w, t \ {c}) BY <2>1, <2>3, SumPick
  <2>5. CASE c = x BY <2>4, <2>5
  <2>6. CASE c # x
    <3>1. t \ {c} \in SUBSET t /\ t \ {c} # t /\ x \in t \ {c} BY <2>2, <2>6
    <3>2. SumOf(w, t \ {c}) = w[x] + SumOf(w, (t \ {c}) \ {x}) BY <1>1, <3>1
    <3>3. t \ {x} \in SUBSET t /\ t \ {x} # t /\ c \in t \ {x} BY <2>2, <2>6
    <3>4. SumOf(w, t \ {x}) = w[c] + SumOf(w, (t \ {x}) \ {c}) BY <1>1, <3>3
    <3>5. PICK u : u = (t \ {c}) \ {x} OBVIOUS
    <3>6. (t \ {x}) \ {c} = u BY <3>5
    <3>7. IsFiniteSet(u) /\ u \subseteq S BY <2>3, <3>5, FS_Subset
    <3>8. w[x] \in Int /\ w[c] \in Int /\ SumOf(w, u) \in Int BY <2>2, <3>7, SumInt
    <3>9. PICK a, e, v : a = w[x] /\ e = w[c] /\ v = SumOf(w, u) OBVIOUS
    <3>10. a + (e + v) = e + (a + v) BY <3>8, <3>9
    <3>11. SumOf(w, t) = e + (a + v) BY <2>4, <3>2, <3>5, <3>9
    <3>12. SumOf(w, t \ {x}) = e + v BY <3>4, <3>6, <3>9
    <3> QED BY <3>9, <3>10, <3>11, <3>12
  <2> QED BY <2>5, <2>6
<1>2. SUBSET S \subseteq B
  <2>1. ASSUME NEW t \in SUBSET S, \A u \in SUBSET t : u # t => u \in B PROVE t \in B BY <1>1, <2>1
  <2> HIDE DEF B
  <2> QED BY <2>1, GrowSet
<1> QED BY <1>2

\* The sum over two sets without a common element.
LEMMA SumUnion ==
  ASSUME NEW A, NEW D, IsFiniteSet(A), IsFiniteSet(D), A \cap D = {},
         NEW w, \A x \in A \cup D : w[x] \in Int
  PROVE  SumOf(w, A \cup D) = SumOf(w, A) + SumOf(w, D)
<1> DEFINE B == {t \in SUBSET A : SumOf(w, t \cup D) = SumOf(w, t) + SumOf(w, D)}
<1>0. SumOf(w, D) \in Int BY SumInt
<1>1. ASSUME NEW t \in SUBSET A, \A u \in SUBSET t : u # t => u \in B
      PROVE  SumOf(w, t \cup D) = SumOf(w, t) + SumOf(w, D)
  <2>1. CASE t = {}
    <3>1. t \cup D = D BY <2>1
    <3>2. SumOf(w, t) = 0 BY <2>1, SumEmpty
    <3>3. SumOf(w, t \cup D) = SumOf(w, D) BY <3>1, Zenon
    <3> QED BY <1>0, <3>2, <3>3
  <2>2. CASE t # {}
    <3>1. PICK x : x \in t BY <2>2
    <3>2. PICK u : u = t \ {x} OBVIOUS
    <3>3. u \in SUBSET t /\ u # t /\ IsFiniteSet(t) /\ IsFiniteSet(u) BY <3>1, <3>2, FS_Subset
    <3>4. PICK T : T = t \cup D OBVIOUS
    <3>5. IsFiniteSet(T) /\ x \in T /\ T \ {x} = u \cup D
      BY <3>1, <3>2, <3>3, <3>4, FS_Union
    <3>6. \A y \in T : w[y] \in Int BY <3>4
    <3>7. SumOf(w, T) = w[x] + SumOf(w, T \ {x}) BY <3>5, <3>6, SumRemove
    <3>8. \A y \in t : w[y] \in Int OBVIOUS
    <3>9. SumOf(w, t) = w[x] + SumOf(w, u) BY <3>1, <3>2, <3>3, <3>8, SumRemove
    <3>10. SumOf(w, u \cup D) = SumOf(w, u) + SumOf(w, D) BY <1>1, <3>3
    <3>11. \A y \in u : w[y] \in Int BY <3>2, <3>8
    <3>12. SumOf(w, u) \in Int /\ w[x] \in Int BY <3>1, <3>3, <3>8, <3>11, SumInt
    <3>13. PICK m, n, d : m = w[x] /\ n = SumOf(w, u) /\ d = SumOf(w, D) OBVIOUS
    <3>14. m + (n + d) = (m + n) + d BY <1>0, <3>12, <3>13
    <3> QED BY <3>4, <3>5, <3>7, <3>9, <3>10, <3>13, <3>14
  <2> QED BY <2>1, <2>2
<1>2. SUBSET A \subseteq B
  <2>1. ASSUME NEW t \in SUBSET A, \A u \in SUBSET t : u # t => u \in B PROVE t \in B BY <1>1, <2>1
  <2> HIDE DEF B
  <2> QED BY <2>1, GrowSet
<1> QED BY <1>2

\* The sum of one value.
LEMMA SumOne ==
  ASSUME NEW w, NEW y, w[y] \in Int
  PROVE  SumOf(w, {y}) = w[y]
<1>1. IsFiniteSet({y}) /\ {y} \ {y} = {} /\ y \in {y} BY FS_Singleton
<1>2. \A x \in {y} : w[x] \in Int OBVIOUS
<1>3. SumOf(w, {y}) = w[y] + SumOf(w, {}) BY <1>1, <1>2, SumRemove
<1> QED BY <1>3, SumEmpty

\* Values that all move one place on keep their sum.
Up(S) == {a + 1 : a \in S}
Moved(w, z, S) == \A a \in S : z[a + 1] = w[a]

\* Moving on commutes with taking out.
LEMMA UpRemove ==
  ASSUME NEW S \in SUBSET Nat, IsFiniteSet(S), NEW x \in S
  PROVE  IsFiniteSet(Up(S)) /\ x + 1 \in Up(S) /\ Up(S) \ {x + 1} = Up(S \ {x})
<1>1. IsFiniteSet(Up(S))
  <2>1. PICK F : F = [a \in S |-> a + 1] OBVIOUS
  <2>2. F \in Surjection(S, Up(S))
    <3>1. F \in [S -> Up(S)] BY <2>1 DEF Up
    <3>2. \A y \in Up(S) : \E a \in S : F[a] = y BY <2>1 DEF Up
    <3> QED BY <3>1, <3>2 DEF Surjection
  <2> QED BY <2>2, FS_Surjection
<1>2. x + 1 \in Up(S) BY DEF Up
<1>3. \A a \in S : a # x => a + 1 # x + 1 OBVIOUS
<1>4. ASSUME NEW y \in Up(S), y # x + 1 PROVE y \in Up(S \ {x}) BY <1>4 DEF Up
<1>5. ASSUME NEW y \in Up(S \ {x}) PROVE y \in Up(S) /\ y # x + 1 BY <1>3 DEF Up
<1> QED BY <1>1, <1>2, <1>4, <1>5

\* The moved values have the same sum.
LEMMA SumMoved ==
  ASSUME NEW S \in SUBSET Nat, IsFiniteSet(S), NEW w, NEW z,
         \A a \in S : w[a] \in Int, Moved(w, z, S)
  PROVE  SumOf(z, Up(S)) = SumOf(w, S)
<1> DEFINE B == {t \in SUBSET S : SumOf(z, Up(t)) = SumOf(w, t)}
<1>1. ASSUME NEW t \in SUBSET S, \A u \in SUBSET t : u # t => u \in B
      PROVE  SumOf(z, Up(t)) = SumOf(w, t)
  <2>1. CASE t = {}
    <3>1. Up(t) = {} BY <2>1 DEF Up
    <3> QED BY <2>1, <3>1, SumEmpty
  <2>2. CASE t # {}
    <3>1. PICK x : x \in t BY <2>2
    <3>2. PICK u : u = t \ {x} OBVIOUS
    <3>3. u \in SUBSET t /\ u # t /\ IsFiniteSet(t) /\ t \in SUBSET Nat BY <3>1, <3>2, FS_Subset
    <3>4. IsFiniteSet(Up(t)) /\ x + 1 \in Up(t) /\ Up(t) \ {x + 1} = Up(u)
      BY <3>1, <3>2, <3>3, UpRemove
    <3>5. ASSUME NEW y \in Up(t) PROVE z[y] \in Int
      <4>1. PICK a \in t : y = a + 1 BY DEF Up
      <4> QED BY <4>1 DEF Moved
    <3>6. SumOf(z, Up(t)) = z[x + 1] + SumOf(z, Up(u)) BY <3>4, <3>5, SumRemove
    <3>7. \A y \in t : w[y] \in Int OBVIOUS
    <3>8. SumOf(w, t) = w[x] + SumOf(w, u) BY <3>1, <3>2, <3>3, <3>7, SumRemove
    <3>9. SumOf(z, Up(u)) = SumOf(w, u) BY <1>1, <3>3
    <3>10. z[x + 1] = w[x] BY <3>1 DEF Moved
    <3> QED BY <3>6, <3>8, <3>9, <3>10
  <2> QED BY <2>1, <2>2
<1>2. SUBSET S \subseteq B
  <2>1. ASSUME NEW t \in SUBSET S, \A u \in SUBSET t : u # t => u \in B PROVE t \in B BY <1>1, <2>1
  <2> HIDE DEF B
  <2> QED BY <2>1, GrowSet
<1> QED BY <1>2

\* The sum of the sums over disjoint sets.
Apart(P, J) == \A i \in J, j \in J : i # j => P[i] \cap P[j] = {}
Covers(P, J) == UNION {P[i] : i \in J}
SumsOf(v, w, P, J) == \A i \in J : v[i] = SumOf(w, P[i])

\* The sum over the cover is the sum of the parts'.
LEMMA SumOfSums ==
  ASSUME NEW J, IsFiniteSet(J), NEW P, Apart(P, J), \A i \in J : IsFiniteSet(P[i]),
         NEW w, \A i \in J : \A x \in P[i] : w[x] \in Int,
         NEW v, SumsOf(v, w, P, J)
  PROVE  SumOf(v, J) = SumOf(w, Covers(P, J))
<1> DEFINE B == {t \in SUBSET J : /\ SumOf(v, t) = SumOf(w, Covers(P, t))
                                  /\ IsFiniteSet(Covers(P, t))}
<1>0. ASSUME NEW i \in J PROVE SumOf(w, P[i]) \in Int BY SumInt
<1>1. ASSUME NEW t \in SUBSET J, \A u \in SUBSET t : u # t => u \in B
      PROVE  SumOf(v, t) = SumOf(w, Covers(P, t)) /\ IsFiniteSet(Covers(P, t))
  <2>1. CASE t = {}
    <3>1. Covers(P, t) = {} BY <2>1 DEF Covers
    <3> QED BY <2>1, <3>1, SumEmpty, FS_EmptySet
  <2>2. CASE t # {}
    <3>1. PICK x : x \in t BY <2>2
    <3>2. PICK u : u = t \ {x} OBVIOUS
    <3>3. u \in SUBSET t /\ u # t /\ IsFiniteSet(t) BY <3>1, <3>2, FS_Subset
    <3>4. SumOf(v, u) = SumOf(w, Covers(P, u)) /\ IsFiniteSet(Covers(P, u)) BY <1>1, <3>3
    <3>5. PICK D : D = Covers(P, u) OBVIOUS
    <3>6. Covers(P, t) = P[x] \cup D BY <3>1, <3>2, <3>5 DEF Covers
    <3>7. P[x] \cap D = {} BY <3>1, <3>2, <3>5 DEF Apart, Covers
    <3>8. \A y \in P[x] \cup D : w[y] \in Int BY <3>1, <3>2, <3>5 DEF Covers
    <3>9. IsFiniteSet(P[x]) /\ IsFiniteSet(D) BY <3>1, <3>4, <3>5
    <3>10. SumOf(w, P[x] \cup D) = SumOf(w, P[x]) + SumOf(w, D) BY <3>7, <3>8, <3>9, SumUnion
    <3>11. ASSUME NEW y \in t PROVE v[y] \in Int BY <1>0 DEF SumsOf
    <3>12. SumOf(v, t) = v[x] + SumOf(v, u) BY <3>1, <3>2, <3>3, <3>11, SumRemove
    <3>13. v[x] = SumOf(w, P[x]) BY <3>1 DEF SumsOf
    <3>14. IsFiniteSet(P[x] \cup D) BY <3>9, FS_Union
    <3> QED BY <3>4, <3>5, <3>6, <3>10, <3>12, <3>13, <3>14
  <2> QED BY <2>1, <2>2
<1>2. SUBSET J \subseteq B
  <2>1. ASSUME NEW t \in SUBSET J, \A u \in SUBSET t : u # t => u \in B PROVE t \in B BY <1>1, <2>1
  <2> HIDE DEF B
  <2> QED BY <2>1, GrowSet
<1> QED BY <1>2

\* A sum may leave out members that count nothing.
LEMMA SumWithout ==
  ASSUME NEW S, IsFiniteSet(S), NEW w, \A x \in S : w[x] \in Int,
         NEW T \in SUBSET S, \A x \in S \ T : w[x] = 0
  PROVE  SumOf(w, S) = SumOf(w, T)
<1>0. PICK D : D = S \ T OBVIOUS
<1> DEFINE B == {t \in SUBSET D : SumOf(w, t) = 0}
<1>1. ASSUME NEW t \in SUBSET D, \A u \in SUBSET t : u # t => u \in B PROVE SumOf(w, t) = 0
  <2>1. CASE t = {} BY <2>1, SumEmpty
  <2>2. CASE t # {}
    <3>1. PICK x : x \in t BY <2>2
    <3>2. t \ {x} \in SUBSET t /\ t \ {x} # t BY <3>1
    <3>3. IsFiniteSet(t) BY <1>0, FS_Subset
    <3>4. \A y \in t : w[y] \in Int BY <1>0
    <3>5. SumOf(w, t) = w[x] + SumOf(w, t \ {x}) BY <3>1, <3>3, <3>4, SumRemove
    <3>6. SumOf(w, t \ {x}) = 0 BY <1>1, <3>2
    <3>7. w[x] = 0 BY <1>0, <3>1
    <3> QED BY <3>5, <3>6, <3>7
  <2> QED BY <2>1, <2>2
<1>2. IsFiniteSet(D) /\ IsFiniteSet(T) BY <1>0, FS_Subset
<1>3. SUBSET D \subseteq B
  <2>1. ASSUME NEW t \in SUBSET D, \A u \in SUBSET t : u # t => u \in B PROVE t \in B BY <1>1, <2>1
  <2> HIDE DEF B
  <2> QED BY <1>2, <2>1, GrowSet
<1>4. SumOf(w, D) = 0 BY <1>3
<1>6. D \cap T = {} /\ D \cup T = S BY <1>0
<1>7. \A x \in D \cup T : w[x] \in Int BY <1>6
<1>8. SumOf(w, S) = SumOf(w, D) + SumOf(w, T) BY <1>2, <1>6, <1>7, SumUnion
<1>9. SumOf(w, T) \in Int BY <1>2, SumInt
<1> QED BY <1>4, <1>8, <1>9

-----------------------------------------------------------------------------
(***************************************************************************)
(* The ring of buckets as a sliding window.  The history variable log has  *)
(* every sample by its age; each bucket is shown to count the samples of   *)
(* its own stretch of time, or to be so old that it is not counted.        *)
(***************************************************************************)
\* One of the two counts of a bucket or of a second.
Field == {"total", "failure"}
Column(r, f) == [x \in DOMAIN r |-> IF f = "total" THEN r[x].total ELSE r[x].failure]

\* When bucket i starts in a turn of the ring, how long ago that last was, and the ages
\* of the samples that fell into it since.
Slots == 0 .. BucketCount - 1
Start(i) == Bucket * i
StartAge(c, i) == IF Start(i) <= c THEN c - Start(i) ELSE c - Start(i) + Turn
Span(c, i) == {a \in 0 .. Turn - 1 : a <= StartAge(c, i) /\ StartAge(c, i) < a + Bucket}

\* Bucket i is of its present turn, or of an earlier one.
Live(c, ring, i) == ring[i].age = StartAge(c, i)
Gone(c, ring, i) == ring[i].age >= StartAge(c, i) + Turn \/ ring[i].age = Old

\* Every bucket counts the samples of its span, or is gone and the span has none.
Matches(c, ring, l) ==
    \A i \in Slots :
        /\ Live(c, ring, i) \/ Gone(c, ring, i)
        /\ \A f \in Field :
             SumOf(Column(l, f), Span(c, i))
               = IF Live(c, ring, i) THEN Column(ring, f)[i] ELSE 0

Log == [0 .. Turn - 1 -> [total : Nat, failure : Nat]]

RingInv ==
    /\ log \in Log
    /\ Bucket <= WindowSeconds /\ b.state = "closed" => Matches(clock, b.buckets, log)

\* The samples' counts as the folds of windowCounts and WindowOf add them up.
SumsTotal(r, D, f) ==
    f = [t \in D |-> IF t = {} THEN 0 ELSE r[Pick(t)].total + f[t \ {Pick(t)}]]
SumsFailure(r, D, f) ==
    f = [t \in D |-> IF t = {} THEN 0 ELSE r[Pick(t)].failure + f[t \ {Pick(t)}]]

\* Folding over records is summing over a column.
LEMMA TotalIsSum ==
  ASSUME NEW S, IsFiniteSet(S), NEW r, S \subseteq DOMAIN r
  PROVE  MapThenSumSet(LAMBDA x : r[x].total, S) = SumOf(Column(r, "total"), S)
<1>1. PICK w : w = Column(r, "total") OBVIOUS
<1>2. \A t \in SUBSET S : t # {} => w[Pick(t)] = r[Pick(t)].total
  BY <1>1, PickIn DEF Column
<1>3. ASSUME NEW f PROVE SumsTotal(r, SUBSET S, f) <=> Sums(w, SUBSET S, f)
  BY <1>2 DEF SumsTotal, Sums
<1>4. MapThenSumSet(LAMBDA x : r[x].total, S) = (CHOOSE f : SumsTotal(r, SUBSET S, f))[S]
  BY DEF MapThenSumSet, MapThenFoldSet, SumsTotal, Pick
<1>5. Sums(w, SUBSET S, CHOOSE f : Sums(w, SUBSET S, f)) BY SumsExist
<1>6. \E f : SumsTotal(r, SUBSET S, f) BY <1>3, <1>5
<1>7. PICK f : f = CHOOSE g : SumsTotal(r, SUBSET S, g) OBVIOUS
<1>8. SumsTotal(r, SUBSET S, f) BY <1>6, <1>7, Zenon
<1>9. PICK g : g = CHOOSE k : Sums(w, SUBSET S, k) OBVIOUS
<1>10. Sums(w, SUBSET S, f) /\ Sums(w, SUBSET S, g) BY <1>3, <1>5, <1>8, <1>9
<1>11. S \in SUBSET S /\ Alike(w, w, S) BY DEF Alike
<1>12. f[S] = g[S] BY <1>10, <1>11, SumsAgree, Zenon
<1>13. SumOf(w, S) = g[S] BY <1>9, SumIs
<1> QED BY <1>1, <1>4, <1>7, <1>12, <1>13

\* The same of the failures.
LEMMA FailureIsSum ==
  ASSUME NEW S, IsFiniteSet(S), NEW r, S \subseteq DOMAIN r
  PROVE  MapThenSumSet(LAMBDA x : r[x].failure, S) = SumOf(Column(r, "failure"), S)
<1>1. PICK w : w = Column(r, "failure") OBVIOUS
<1>2. \A t \in SUBSET S : t # {} => w[Pick(t)] = r[Pick(t)].failure
  BY <1>1, PickIn DEF Column
<1>3. ASSUME NEW f PROVE SumsFailure(r, SUBSET S, f) <=> Sums(w, SUBSET S, f)
  BY <1>2 DEF SumsFailure, Sums
<1>4. MapThenSumSet(LAMBDA x : r[x].failure, S) = (CHOOSE f : SumsFailure(r, SUBSET S, f))[S]
  BY DEF MapThenSumSet, MapThenFoldSet, SumsFailure, Pick
<1>5. Sums(w, SUBSET S, CHOOSE f : Sums(w, SUBSET S, f)) BY SumsExist
<1>6. \E f : SumsFailure(r, SUBSET S, f) BY <1>3, <1>5
<1>7. PICK f : f = CHOOSE g : SumsFailure(r, SUBSET S, g) OBVIOUS
<1>8. SumsFailure(r, SUBSET S, f) BY <1>6, <1>7, Zenon
<1>9. PICK g : g = CHOOSE k : Sums(w, SUBSET S, k) OBVIOUS
<1>10. Sums(w, SUBSET S, f) /\ Sums(w, SUBSET S, g) BY <1>3, <1>5, <1>8, <1>9
<1>11. S \in SUBSET S /\ Alike(w, w, S) BY DEF Alike
<1>12. f[S] = g[S] BY <1>10, <1>11, SumsAgree, Zenon
<1>13. SumOf(w, S) = g[S] BY <1>9, SumIs
<1> QED BY <1>1, <1>4, <1>7, <1>12, <1>13

-----------------------------------------------------------------------------
(* How the buckets of the ring lie in time. *)

\* A window that is not shorter than a bucket is the ring's turn and less than one
\* bucket more.
LEMMA WindowIsTurn ==
  ASSUME Bucket <= WindowSeconds
  PROVE  Turn <= WindowSeconds /\ WindowSeconds < Turn + Bucket
<1>1. PICK d \in Nat \ {0} : d = Bucket BY Configured
<1>2. PICK v \in Nat \ {0} : v = WindowSeconds /\ d <= v BY <1>1, BreakerAssumption
<1>3. PICK q \in Nat : q = v \div d OBVIOUS
<1>4. PICK e \in Nat : e = v % d /\ e < d OBVIOUS
<1>5. v = d * q + e BY <1>3, <1>4
<1>6. q # 0 BY <1>2, <1>4, <1>5
<1>7. BucketCount = q
  <2>1. Max({q, 1}) = IF q >= 1 THEN q ELSE 1 BY MaxOfTwo
  <2> QED BY <1>1, <1>2, <1>3, <1>6, <2>1 DEF BucketCount
<1>8. d * q \in Nat OBVIOUS
<1>9. Turn = d * q BY <1>1, <1>7 DEF Turn
<1> QED BY <1>1, <1>2, <1>4, <1>5, <1>8, <1>9

\* Buckets start Bucket seconds apart, and the last ends with the turn.
LEMMA StartsApart ==
  ASSUME NEW i \in Slots, NEW j \in Slots, i < j
  PROVE  Start(i) + Bucket <= Start(j)
<1>1. PICK d \in Nat \ {0} : d = Bucket BY Configured
<1>2. i \in Nat /\ j \in Nat BY Configured DEF Slots
<1>3. PICK u \in Nat : j = i + 1 + u
  <2>1. j - i - 1 \in Nat BY <1>2
  <2> QED BY <1>2, <2>1
<1>4. d * (i + 1 + u) = d * i + d + d * u /\ d * u \in Nat /\ d * i \in Nat BY <1>2, <1>3
<1> QED BY <1>1, <1>3, <1>4 DEF Start

\* Every bucket lies within a turn.
LEMMA StartInTurn ==
  ASSUME NEW i \in Slots
  PROVE  Start(i) \in Nat /\ Start(i) + Bucket <= Turn
<1>1. PICK d \in Nat \ {0} : d = Bucket BY Configured
<1>2. PICK n \in Nat \ {0} : n = BucketCount BY Configured
<1>3. i \in Nat /\ i < n BY <1>2 DEF Slots
<1>4. PICK u \in Nat : n = i + 1 + u
  <2>1. n - i - 1 \in Nat BY <1>3
  <2> QED BY <1>3, <2>1
<1>5. d * (i + 1 + u) = d * i + d + d * u /\ d * u \in Nat /\ d * i \in Nat BY <1>3, <1>4
<1> QED BY <1>1, <1>2, <1>4, <1>5 DEF Start, Turn

\* The bucket of second c, and its start.
LEMMA IndexStart ==
  ASSUME NEW c \in 0 .. Turn - 1
  PROVE  \E j \in Slots, e \in 0 .. Bucket - 1 :
           j = c \div Bucket /\ e = c % Bucket /\ c = Start(j) + e
<1>1. PICK d \in Nat \ {0} : d = Bucket BY Configured
<1>2. c \in Nat BY Configured
<1>3. PICK q \in Nat : q = c \div d BY <1>2
<1>4. PICK e \in Nat : e = c % d /\ e < d BY <1>2
<1>5. c = d * q + e BY <1>2, <1>3, <1>4
<1>6. q = c \div Bucket /\ e = c % Bucket BY <1>1, <1>3, <1>4
<1>7. q \in Slots /\ e \in 0 .. Bucket - 1 BY <1>6, IndexInRing DEF Slots
<1>8. c = Start(q) + e BY <1>1, <1>5 DEF Start
<1> QED BY <1>6, <1>7, <1>8

\* The present bucket started less than a bucket ago, every other one earlier, and none
\* before the window.
LEMMA StartAges ==
  ASSUME NEW c \in 0 .. Turn - 1, NEW i \in Slots
  PROVE  /\ StartAge(c, i) \in 0 .. Turn - 1
         /\ StartAge(c, i) <= (c % Bucket) + Turn - Bucket
         /\ i = c \div Bucket => StartAge(c, i) = c % Bucket
         /\ i # c \div Bucket => StartAge(c, i) >= Bucket
<1>1. PICK d \in Nat \ {0} : d = Bucket BY Configured
<1>2. PICK m \in Nat \ {0} : m = Turn BY Configured
<1>3. PICK j \in Slots, e \in 0 .. Bucket - 1 :
        j = c \div Bucket /\ e = c % Bucket /\ c = Start(j) + e
  BY IndexStart
<1>4. e \in 0 .. d - 1 BY <1>1, <1>3
<1>5. PICK s \in Nat : s = Start(i) /\ s + d <= m BY <1>1, <1>2, StartInTurn
<1>6. PICK p \in Nat : p = Start(j) /\ p + d <= m BY <1>1, <1>2, StartInTurn
<1>7. c = p + e /\ c \in 0 .. m - 1 BY <1>2, <1>3, <1>6
<1>8. PICK x : x = StartAge(c, i) OBVIOUS
<1>9. x = IF s <= c THEN c - s ELSE c - s + m BY <1>2, <1>5, <1>8 DEF StartAge
<1>10. x \in 0 .. m - 1 /\ x <= e + m - d /\ (i = j => x = e) /\ (i # j => x >= d)
  <2>1. CASE i = j
    <3>1. s = p BY <1>5, <1>6, <2>1
    <3>2. x = e BY <1>4, <1>6, <1>7, <1>9, <3>1
    <3> QED BY <1>4, <1>6, <2>1, <3>2
  <2>2. CASE i # j
    <3>1. i < j \/ j < i BY <2>2, Configured DEF Slots
    <3>2. i < j => s + d <= p BY <1>1, <1>5, <1>6, StartsApart
    <3>3. j < i => p + d <= s BY <1>1, <1>5, <1>6, StartsApart
    <3>4. s + d <= p \/ p + d <= s BY <3>1, <3>2, <3>3
    <3> QED BY <1>4, <1>5, <1>6, <1>7, <1>9, <2>2, <3>4
  <2> QED BY <2>1, <2>2
<1> QED BY <1>1, <1>2, <1>3, <1>8, <1>10

\* No second belongs to two buckets.
LEMMA SpansApart ==
  ASSUME NEW c \in 0 .. Turn - 1, NEW i \in Slots, NEW j \in Slots, i < j
  PROVE  Span(c, i) \cap Span(c, j) = {}
<1>1. PICK d \in Nat \ {0} : d = Bucket BY Configured
<1>2. PICK m \in Nat \ {0} : m = Turn BY Configured
<1>3. PICK s \in Nat : s = Start(i) /\ s + d <= m BY <1>1, <1>2, StartInTurn
<1>4. PICK p \in Nat : p = Start(j) /\ p + d <= m BY <1>1, <1>2, StartInTurn
<1>5. s + d <= p BY <1>1, <1>3, <1>4, StartsApart
<1>6. PICK x : x = StartAge(c, i) OBVIOUS
<1>7. PICK y : y = StartAge(c, j) OBVIOUS
<1>8. x = (IF s <= c THEN c - s ELSE c - s + m) /\ y = (IF p <= c THEN c - p ELSE c - p + m)
  BY <1>2, <1>3, <1>4, <1>6, <1>7 DEF StartAge
<1>9. c \in Nat BY <1>2
<1>10. x \in Int /\ y \in Int /\ (y + d <= x \/ x + d <= y) BY <1>1, <1>2, <1>3, <1>4, <1>5, <1>8, <1>9
<1>11. ASSUME NEW a \in Int, a <= x, x < a + d, a <= y, y < a + d PROVE FALSE BY <1>1, <1>10, <1>11
<1>12. ASSUME NEW a \in Span(c, i), a \in Span(c, j) PROVE FALSE
  BY <1>1, <1>2, <1>6, <1>7, <1>11, <1>12 DEF Span
<1> QED BY <1>12

\* Together they are the seconds of the last BucketCount buckets.
Spans(c) == [i \in Slots |-> Span(c, i)]

\* They leave none out and take none in.
LEMMA SpansCover ==
  ASSUME NEW c \in 0 .. Turn - 1
  PROVE  Covers(Spans(c), Slots) = {a \in 0 .. Turn - 1 : a <= (c % Bucket) + Turn - Bucket}
<1>1. PICK d \in Nat \ {0} : d = Bucket BY Configured
<1>2. PICK m \in Nat \ {0} : m = Turn BY Configured
<1>3. PICK j \in Slots, e \in 0 .. d - 1 :
        j = c \div Bucket /\ e = c % Bucket /\ c = Start(j) + e
  BY <1>1, IndexStart
<1>4. ASSUME NEW i \in Slots, NEW a \in Span(c, i) PROVE a \in 0 .. m - 1 /\ a <= e + m - d
  <2>1. PICK x \in 0 .. m - 1 : x = StartAge(c, i) /\ x <= e + m - d
    BY <1>1, <1>2, <1>3, StartAges
  <2> QED BY <1>1, <1>2, <2>1 DEF Span
<1>5. ASSUME NEW a \in 0 .. m - 1, a <= e + m - d PROVE \E i \in Slots : a \in Span(c, i)
  <2>0. c \in 0 .. m - 1 BY <1>2
  <2>1. PICK t \in 0 .. m - 1 : t = IF a <= c THEN c - a ELSE c - a + m
    <3>1. (IF a <= c THEN c - a ELSE c - a + m) \in 0 .. m - 1 BY <1>5, <2>0
    <3> QED BY <3>1
  <2>2. PICK i \in Slots, u \in 0 .. d - 1 : t = Start(i) + u
    <3>1. t \in 0 .. Turn - 1 BY <1>2
    <3>2. PICK k \in Slots, u \in 0 .. Bucket - 1 : t = Start(k) + u BY <3>1, IndexStart
    <3> QED BY <1>1, <3>2
  <2>4. PICK s \in Nat : s = Start(i) /\ s + d <= m BY <1>1, <1>2, StartInTurn
  <2>5. t = s + u BY <2>2, <2>4
  <2>7. PICK p \in Nat : p = Start(j) /\ p + d <= m BY <1>1, <1>2, StartInTurn
  <2>8. c = p + e BY <1>3, <2>7
  <2>9. s + d <= p \/ p + d <= s \/ s = p
    <3>1. i < j \/ j < i \/ i = j BY Configured DEF Slots
    <3>2. i < j => s + d <= p BY <1>1, <2>4, <2>7, StartsApart
    <3>3. j < i => p + d <= s BY <1>1, <2>4, <2>7, StartsApart
    <3> QED BY <2>4, <2>7, <3>1, <3>2, <3>3
  <2>10. PICK x : x = StartAge(c, i) OBVIOUS
  <2>11. x = IF s <= c THEN c - s ELSE c - s + m BY <1>2, <2>4, <2>10 DEF StartAge
  <2>12. a <= x /\ x < a + d BY <1>3, <1>5, <2>0, <2>1, <2>2, <2>4, <2>5, <2>7, <2>8, <2>9, <2>11
  <2> QED BY <1>1, <1>2, <2>10, <2>12 DEF Span
<1>6. ASSUME NEW a PROVE a \in Covers(Spans(c), Slots) <=> \E i \in Slots : a \in Span(c, i)
  BY DEF Covers, Spans
<1> QED BY <1>1, <1>2, <1>3, <1>4, <1>5, <1>6

-----------------------------------------------------------------------------
(* The ring and the samples. *)

\* The counts are natural numbers.
LEMMA ColumnsOf ==
  ASSUME NEW f \in Field
  PROVE  /\ \A l \in Log : Column(l, f) \in [0 .. Turn - 1 -> Nat]
         /\ \A ring \in [Slots -> Slot] : Column(ring, f) \in [Slots -> Nat]
BY DEF Log, Slot, Column

\* Everything that is summed over is finite.
LEMMA SpanFinite ==
  ASSUME NEW c, NEW i
  PROVE  /\ IsFiniteSet(Span(c, i)) /\ Span(c, i) \subseteq 0 .. Turn - 1
         /\ IsFiniteSet(0 .. Turn - 1) /\ 0 .. Turn - 1 \subseteq Nat /\ IsFiniteSet(Slots)
<1>1. Turn \in Nat /\ BucketCount \in Nat BY Configured
<1>2. IsFiniteSet(0 .. Turn - 1) BY <1>1, FS_Interval
<1>3. IsFiniteSet(Slots) BY <1>1, FS_Interval DEF Slots
<1>4. Span(c, i) \subseteq 0 .. Turn - 1 BY DEF Span
<1>5. 0 .. Turn - 1 \subseteq Nat BY <1>1
<1> QED BY <1>2, <1>3, <1>4, <1>5, FS_Subset

\* An empty ring counts what an empty log does.
LEMMA EmptyMatches ==
  ASSUME NEW c \in 0 .. Turn - 1
  PROVE  EmptyLog \in Log /\ Matches(c, EmptyRing, EmptyLog)
<1>1. EmptyLog \in Log BY DEF EmptyLog, Log
<1>2. ASSUME NEW i \in Slots PROVE Gone(c, EmptyRing, i)
  BY DEF Gone, EmptyRing, NoBucket, Slots
<1>3. ASSUME NEW i \in Slots, NEW f \in Field
      PROVE  SumOf(Column(EmptyLog, f), Span(c, i)) = 0 /\ Column(EmptyRing, f)[i] = 0
  <2>1. Column(EmptyRing, f)[i] = 0 BY DEF Column, EmptyRing, NoBucket, Slots
  <2>2. PICK w : w = Column(EmptyLog, f) OBVIOUS
  <2>3. \A a \in 0 .. Turn - 1 : w[a] = 0 BY <2>2 DEF Column, EmptyLog
  <2>4. PICK S : S = Span(c, i) OBVIOUS
  <2>5. IsFiniteSet(S) /\ \A a \in S : w[a] = 0 /\ w[a] \in Int BY <2>3, <2>4, SpanFinite
  <2>6. {} \in SUBSET S /\ S \ {} = S OBVIOUS
  <2>7. SumOf(w, S) = SumOf(w, {}) BY <2>5, <2>6, SumWithout
  <2> QED BY <2>1, <2>2, <2>4, <2>7, SumEmpty
<1> QED BY <1>1, <1>2, <1>3 DEF Matches

\* A second later every start is a second older, but for the bucket that starts anew.
LEMMA StartAgeTick ==
  ASSUME NEW c \in 0 .. Turn - 1, NEW i \in Slots
  PROVE  /\ (c + 1) % Turn \in 0 .. Turn - 1
         /\ StartAge((c + 1) % Turn, i)
              = IF StartAge(c, i) = Turn - 1 THEN 0 ELSE StartAge(c, i) + 1
<1>1. PICK m \in Nat \ {0} : m = Turn BY Configured
<1>2. c \in 0 .. m - 1 BY <1>1
<1>3. PICK n \in 0 .. m - 1 : n = (c + 1) % Turn /\ n = IF c = m - 1 THEN 0 ELSE c + 1
  <2>1. CASE c = m - 1
    <3>1. m % m = 0 OBVIOUS
    <3>2. c + 1 = m BY <2>1, <1>2
    <3> QED BY <1>1, <2>1, <3>1, <3>2
  <2>2. CASE c # m - 1
    <3>1. PICK k \in 0 .. m - 1 : k = c + 1 BY <1>2, <2>2
    <3>2. k % m = k OBVIOUS
    <3> QED BY <1>1, <2>2, <3>1, <3>2
  <2> QED BY <2>1, <2>2
<1>4. PICK d \in Nat \ {0} : d = Bucket BY Configured
<1>5. PICK s \in Nat : s = Start(i) /\ s + d <= m BY <1>1, <1>4, StartInTurn
<1>6. StartAge(c, i) = IF s <= c THEN c - s ELSE c - s + m BY <1>1, <1>5 DEF StartAge
<1>7. StartAge(n, i) = IF s <= n THEN n - s ELSE n - s + m BY <1>1, <1>5 DEF StartAge
<1>8. PICK x, y : x = StartAge(c, i) /\ y = StartAge(n, i) OBVIOUS
<1>9. y = IF x = m - 1 THEN 0 ELSE x + 1 BY <1>2, <1>3, <1>4, <1>5, <1>6, <1>7, <1>8
<1> QED BY <1>1, <1>3, <1>8, <1>9

\* The span moves with its start; a bucket that starts anew has the present second only.
LEMMA SpanTick ==
  ASSUME NEW c \in 0 .. Turn - 1, NEW i \in Slots, NEW n, n = (c + 1) % Turn
  PROVE  /\ StartAge(c, i) = Turn - 1 => Span(n, i) = {0}
         /\ StartAge(c, i) # Turn - 1 => Span(n, i) \ {0} = Up(Span(c, i))
<1>1. PICK m \in Nat \ {0} : m = Turn BY Configured
<1>2. PICK d \in Nat \ {0} : d = Bucket BY Configured
<1>3. PICK x \in 0 .. m - 1 : x = StartAge(c, i) BY <1>1, StartAges
<1>4. StartAge(n, i) = IF x = m - 1 THEN 0 ELSE x + 1 BY <1>1, <1>3, StartAgeTick
<1>5. Span(c, i) = {a \in 0 .. m - 1 : a <= x /\ x < a + d} BY <1>1, <1>2, <1>3 DEF Span
<1>6. CASE x = m - 1
  <2>1. Span(n, i) = {a \in 0 .. m - 1 : a <= 0 /\ 0 < a + d} BY <1>1, <1>2, <1>4, <1>6 DEF Span
  <2>2. Span(n, i) = {0} BY <2>1
  <2> QED BY <1>1, <1>3, <1>6, <2>2
<1>7. CASE x # m - 1
  <2>1. PICK y \in 1 .. m - 1 : y = x + 1 BY <1>3, <1>7
  <2>2. Span(n, i) = {a \in 0 .. m - 1 : a <= y /\ y < a + d} BY <1>1, <1>2, <1>4, <1>7, <2>1 DEF Span
  <2>3. ASSUME NEW a \in Span(n, i) \ {0} PROVE a \in Up(Span(c, i))
    <3>1. a \in 1 .. m - 1 /\ a <= y /\ y < a + d BY <2>2
    <3>2. PICK u \in 0 .. m - 1 : a = u + 1 /\ u <= x /\ x < u + d
      <4>1. a - 1 \in 0 .. m - 1 /\ a = (a - 1) + 1 /\ a - 1 <= x /\ x < (a - 1) + d BY <2>1, <3>1
      <4> QED BY <4>1
    <3>3. u \in Span(c, i) BY <1>5, <3>2
    <3> QED BY <3>2, <3>3 DEF Up
  <2>4. ASSUME NEW a \in Up(Span(c, i)) PROVE a \in Span(n, i) \ {0}
    <3>1. PICK u \in Span(c, i) : a = u + 1 BY DEF Up
    <3>2. u \in 0 .. m - 1 /\ u <= x /\ x < u + d BY <1>5
    <3>3. a \in 0 .. m - 1 /\ a <= y /\ y < a + d /\ a # 0 BY <1>3, <1>7, <2>1, <3>1, <3>2
    <3> QED BY <2>2, <3>3
  <2> QED BY <1>1, <1>3, <1>7, <2>3, <2>4
<1> QED BY <1>6, <1>7

\* The log a second later.
Later(l) == [a \in 0 .. Turn - 1 |-> IF a = 0 THEN EmptyLog[0] ELSE l[a - 1]]

\* A span keeps its count when time passes, and a new one begins with none.
LEMMA SumTick ==
  ASSUME NEW c \in 0 .. Turn - 1, NEW i \in Slots, NEW n, n = (c + 1) % Turn,
         NEW l \in Log, NEW f \in Field
  PROVE  /\ Later(l) \in Log
         /\ SumOf(Column(Later(l), f), Span(n, i))
              = IF StartAge(c, i) = Turn - 1 THEN 0 ELSE SumOf(Column(l, f), Span(c, i))
<1>1. PICK m \in Nat \ {0} : m = Turn BY Configured
<1>2. Later(l) \in Log BY <1>1 DEF Later, Log, EmptyLog
<1>3. PICK w \in [0 .. m - 1 -> Nat] : w = Column(l, f) BY <1>1, ColumnsOf
<1>4. PICK z \in [0 .. m - 1 -> Nat] : z = Column(Later(l), f) BY <1>1, <1>2, ColumnsOf
<1>5. z[0] = 0 BY <1>1, <1>4 DEF Column, Later, EmptyLog
<1>6. ASSUME NEW a \in 0 .. m - 1, a + 1 \in 0 .. m - 1 PROVE z[a + 1] = w[a]
  <2>1. PICK k \in 0 .. m - 1 : k = a + 1 BY <1>6
  <2>2. k # 0 /\ k - 1 = a BY <2>1
  <2>3. Later(l)[k] = l[a] BY <1>1, <2>2 DEF Later
  <2>4. DOMAIN Later(l) = 0 .. m - 1 /\ DOMAIN l = 0 .. m - 1 BY <1>1, <1>2 DEF Log
  <2>5. z[k] = w[a] BY <1>3, <1>4, <2>3, <2>4 DEF Column
  <2> QED BY <2>1, <2>5
<1>7. PICK S : S = Span(c, i) OBVIOUS
<1>8. PICK T : T = Span(n, i) OBVIOUS
<1>9. IsFiniteSet(S) /\ IsFiniteSet(T) /\ S \subseteq 0 .. m - 1 /\ T \subseteq 0 .. m - 1
  BY <1>1, <1>7, <1>8, SpanFinite
<1>10. CASE StartAge(c, i) = Turn - 1
  <2>1. T = {0} BY <1>8, <1>10, SpanTick
  <2>2. SumOf(z, {0}) = z[0] BY <1>5, SumOne
  <2> QED BY <1>2, <1>4, <1>5, <1>8, <1>10, <2>1, <2>2
<1>11. CASE StartAge(c, i) # Turn - 1
  <2>1. T \ {0} = Up(S) BY <1>7, <1>8, <1>11, SpanTick
  <2>2. \A a \in T : z[a] \in Int BY <1>9
  <2>3. T \ {0} \in SUBSET T /\ \A a \in T \ (T \ {0}) : z[a] = 0 BY <1>5
  <2>4. PICK D : D = T \ {0} OBVIOUS
  <2>5. SumOf(z, T) = SumOf(z, D) BY <1>9, <2>2, <2>3, <2>4, SumWithout
  <2>6. ASSUME NEW a \in S PROVE w[a] \in Int /\ z[a + 1] = w[a]
    <3>1. a + 1 \in T BY <2>1 DEF Up
    <3> QED BY <1>6, <1>9, <3>1
  <2>7. Moved(w, z, S) BY <2>6 DEF Moved
  <2>8. S \in SUBSET Nat BY <1>9
  <2>9. \A a \in S : w[a] \in Int BY <2>6
  <2>10. SumOf(z, Up(S)) = SumOf(w, S) BY <1>9, <2>7, <2>8, <2>9, SumMoved
  <2> QED BY <1>2, <1>3, <1>4, <1>7, <1>8, <1>11, <2>1, <2>4, <2>5, <2>10
<1> QED BY <1>10, <1>11

\* One bucket a second later: Aged keeps what is counted and forgets what is gone.
LEMMA AgedBucket ==
  ASSUME Bucket <= WindowSeconds, NEW x \in Slot, NEW s \in 0 .. Turn - 1,
         x.age = s \/ x.age >= s + Turn \/ x.age = Old,
         NEW n, n = IF s = Turn - 1 THEN 0 ELSE s + 1
  PROVE  /\ Aged(x).age = n \/ Aged(x).age >= n + Turn \/ Aged(x).age = Old
         /\ Aged(x).age = n <=> (x.age = s /\ s # Turn - 1)
         /\ x.age = s => Aged(x).total = x.total /\ Aged(x).failure = x.failure
<1>1. PICK m \in Nat \ {0} : m = Turn BY Configured
<1>2. PICK d \in Nat \ {0} : d = Bucket BY Configured
<1>3. PICK v \in Nat : v = WindowSeconds /\ m <= v BY <1>1, WindowIsTurn, BreakerAssumption
<1>4. PICK o \in Nat : o = Old /\ o = v + d BY <1>2, <1>3 DEF Old
<1>5. PICK a \in 0 .. o : a = x.age BY <1>4 DEF Slot
<1>6. s \in 0 .. m - 1 /\ n = (IF s = m - 1 THEN 0 ELSE s + 1) BY <1>1
<1>7. a = s \/ a >= s + m \/ a = o BY <1>1, <1>4, <1>5
<1>8. CASE a + 1 >= o
  <2>1. Aged(x) = NoBucket BY <1>4, <1>5, <1>8 DEF Aged
  <2>2. Aged(x).age = o
    <3>1. NoBucket.age = Old BY DEF NoBucket
    <3> QED BY <1>4, <2>1, <3>1
  <2>3. o # n /\ a # s BY <1>3, <1>4, <1>6, <1>8
  <2> QED BY <1>4, <1>5, <2>2, <2>3
<1>9. CASE ~(a + 1 >= o)
  <2>1. Aged(x) = [x EXCEPT !.age = x.age + 1] BY <1>4, <1>5, <1>9 DEF Aged
  <2>2. Aged(x).age = a + 1 /\ Aged(x).total = x.total /\ Aged(x).failure = x.failure
    BY <1>5, <2>1 DEF Slot
  <2>3. a + 1 = n \/ a + 1 >= n + m BY <1>6, <1>7, <1>9
  <2>4. a + 1 = n <=> (a = s /\ s # m - 1) BY <1>6, <1>7, <1>9
  <2> QED BY <1>1, <1>5, <2>2, <2>3, <2>4
<1> QED BY <1>8, <1>9

\* The clock's step keeps ring and log in agreement.
LEMMA MatchesTick ==
  ASSUME Bucket <= WindowSeconds, NEW c \in 0 .. Turn - 1, NEW ring \in [Slots -> Slot],
         NEW l \in Log, Matches(c, ring, l)
  PROVE  Matches((c + 1) % Turn, [i \in Slots |-> Aged(ring[i])], Later(l))
<1>1. PICK n : n = (c + 1) % Turn OBVIOUS
<1>2. PICK old : old = [i \in Slots |-> Aged(ring[i])] OBVIOUS
<1>3. ASSUME NEW i \in Slots
      PROVE  /\ Live(n, old, i) \/ Gone(n, old, i)
             /\ \A f \in Field : SumOf(Column(Later(l), f), Span(n, i))
                                   = IF Live(n, old, i) THEN Column(old, f)[i] ELSE 0
  <2>1. PICK s \in 0 .. Turn - 1 : s = StartAge(c, i) BY StartAges
  <2>2. PICK y : y = StartAge(n, i) /\ y = IF s = Turn - 1 THEN 0 ELSE s + 1
    BY <1>1, <2>1, StartAgeTick
  <2>3. PICK x \in Slot : x = ring[i] OBVIOUS
  <2>4. x.age = s \/ x.age >= s + Turn \/ x.age = Old
    BY <2>1, <2>3 DEF Matches, Live, Gone
  <2>5. PICK x2 : x2 = Aged(x) /\ x2 = old[i] BY <1>2, <2>3
  <2>6. /\ x2.age = y \/ x2.age >= y + Turn \/ x2.age = Old
        /\ x2.age = y <=> (x.age = s /\ s # Turn - 1)
        /\ x.age = s => x2.total = x.total /\ x2.failure = x.failure
    <3>1. /\ Aged(x).age = y \/ Aged(x).age >= y + Turn \/ Aged(x).age = Old
          /\ Aged(x).age = y <=> (x.age = s /\ s # Turn - 1)
          /\ x.age = s => Aged(x).total = x.total /\ Aged(x).failure = x.failure
      BY <2>2, <2>4, AgedBucket, Zenon
    <3> QED BY <2>5, <3>1, Zenon
  <2>7. Live(n, old, i) \/ Gone(n, old, i) BY <2>2, <2>5, <2>6 DEF Live, Gone
  <2>8. Live(n, old, i) <=> (Live(c, ring, i) /\ s # Turn - 1)
    BY <2>1, <2>2, <2>3, <2>5, <2>6 DEF Live
  <2>9. ASSUME NEW f \in Field
        PROVE  SumOf(Column(Later(l), f), Span(n, i))
                 = IF Live(n, old, i) THEN Column(old, f)[i] ELSE 0
    <3>1. SumOf(Column(Later(l), f), Span(n, i))
            = IF s = Turn - 1 THEN 0 ELSE SumOf(Column(l, f), Span(c, i))
      BY <1>1, <2>1, SumTick
    <3>2. SumOf(Column(l, f), Span(c, i)) = IF Live(c, ring, i) THEN Column(ring, f)[i] ELSE 0
      BY DEF Matches
    <3>3. Live(c, ring, i) => Column(old, f)[i] = Column(ring, f)[i]
      <4>1. Live(c, ring, i) => x.age = s BY <2>1, <2>3 DEF Live
      <4>2. DOMAIN old = Slots /\ DOMAIN ring = Slots BY <1>2
      <4>3. Column(old, f)[i] = (IF f = "total" THEN x2.total ELSE x2.failure)
        BY <2>5, <4>2 DEF Column
      <4>4. Column(ring, f)[i] = (IF f = "total" THEN x.total ELSE x.failure)
        BY <2>3, <4>2 DEF Column
      <4> QED BY <2>6, <4>1, <4>3, <4>4
    <3> QED BY <2>8, <3>1, <3>2, <3>3
  <2> QED BY <2>7, <2>9
<1>4. Matches(n, old, Later(l)) BY <1>3 DEF Matches
<1> QED BY <1>1, <1>2, <1>4

\* The log with one more result of the present second.
Noted(l, failed) ==
    [l EXCEPT ![0] = [total |-> l[0].total + 1,
                      failure |-> l[0].failure + (IF failed THEN 1 ELSE 0)]]
One(failed, f) == IF f = "total" THEN 1 ELSE IF failed THEN 1 ELSE 0

\* It adds one to the present second and leaves the others.
LEMMA NotedColumn ==
  ASSUME NEW l \in Log, NEW failed \in BOOLEAN, NEW f \in Field
  PROVE  /\ Noted(l, failed) \in Log /\ One(failed, f) \in Nat
         /\ Column(Noted(l, failed), f)[0] = Column(l, f)[0] + One(failed, f)
         /\ Alike(Column(Noted(l, failed), f), Column(l, f), (0 .. Turn - 1) \ {0})
<1>1. 0 \in 0 .. Turn - 1 BY Configured
<1>2. PICK t \in Nat : t = l[0].total BY <1>1 DEF Log
<1>3. PICK g \in Nat : g = l[0].failure BY <1>1 DEF Log
<1>4. PICK e \in Nat : e = IF failed THEN 1 ELSE 0 OBVIOUS
<1>5. Noted(l, failed) = [l EXCEPT ![0] = [total |-> t + 1, failure |-> g + e]]
  BY <1>2, <1>3, <1>4 DEF Noted
<1>6. [total |-> t + 1, failure |-> g + e] \in [total : Nat, failure : Nat] OBVIOUS
<1>7. Noted(l, failed) \in Log BY <1>5, <1>6 DEF Log
<1>8. DOMAIN l = 0 .. Turn - 1 /\ DOMAIN Noted(l, failed) = 0 .. Turn - 1 BY <1>7 DEF Log
<1>9. Noted(l, failed)[0].total = t + 1 /\ Noted(l, failed)[0].failure = g + e BY <1>1, <1>5, <1>8
<1>10. \A a \in (0 .. Turn - 1) \ {0} : Noted(l, failed)[a] = l[a] BY <1>5, <1>8
<1>11. Column(Noted(l, failed), f)[0] = Column(l, f)[0] + One(failed, f)
  BY <1>1, <1>2, <1>3, <1>4, <1>8, <1>9 DEF Column, One
<1>12. Alike(Column(Noted(l, failed), f), Column(l, f), (0 .. Turn - 1) \ {0})
  BY <1>8, <1>10 DEF Alike, Column
<1>13. One(failed, f) \in Nat BY DEF One
<1> QED BY <1>7, <1>11, <1>12, <1>13

\* It changes the sum of the spans that contain the present second.
LEMMA NotedSum ==
  ASSUME NEW l \in Log, NEW failed \in BOOLEAN, NEW f \in Field, NEW S \in SUBSET (0 .. Turn - 1)
  PROVE  SumOf(Column(Noted(l, failed), f), S)
           = SumOf(Column(l, f), S) + (IF 0 \in S THEN One(failed, f) ELSE 0)
<1>1. PICK w : w = Column(l, f) OBVIOUS
<1>2. PICK z : z = Column(Noted(l, failed), f) OBVIOUS
<1>3. PICK e \in Nat : e = One(failed, f) BY NotedColumn
<1>4. z[0] = w[0] + e /\ Alike(z, w, (0 .. Turn - 1) \ {0}) BY <1>1, <1>2, <1>3, NotedColumn
<1>5. w \in [0 .. Turn - 1 -> Nat] /\ z \in [0 .. Turn - 1 -> Nat] BY <1>1, <1>2, ColumnsOf, NotedColumn
<1>6. PICK D : D = S \ {0} OBVIOUS
<1>7. IsFiniteSet(S) /\ IsFiniteSet(D) /\ D \subseteq 0 .. Turn - 1 BY <1>6, SpanFinite, FS_Subset
<1>8. Alike(z, w, D) BY <1>4, <1>6 DEF Alike
<1>9. SumOf(z, D) = SumOf(w, D) BY <1>7, <1>8, SumSame
<1>10. \A a \in S : w[a] \in Int /\ z[a] \in Int BY <1>5
<1>11. \A a \in D : w[a] \in Int BY <1>5, <1>7
<1>12. SumOf(w, D) \in Int BY <1>7, <1>11, SumInt
<1>13. CASE 0 \in S
  <2>1. SumOf(w, S) = w[0] + SumOf(w, D) BY <1>6, <1>7, <1>10, <1>13, SumRemove
  <2>2. SumOf(z, S) = z[0] + SumOf(z, D) BY <1>6, <1>7, <1>10, <1>13, SumRemove
  <2>3. PICK m, n : m = w[0] /\ n = SumOf(w, D) OBVIOUS
  <2>4. m \in Int /\ n \in Int BY <1>10, <1>12, <1>13, <2>3
  <2>5. (m + e) + n = (m + n) + e BY <2>4
  <2> QED BY <1>1, <1>2, <1>3, <1>4, <1>9, <1>13, <2>1, <2>2, <2>3, <2>5
<1>14. CASE 0 \notin S
  <2>1. D = S BY <1>6, <1>14
  <2> QED BY <1>1, <1>2, <1>9, <1>12, <1>14, <2>1
<1> QED BY <1>13, <1>14

\* addSample: the present bucket counts one more, from nothing if it is a past turn's.
LEMMA SampleBucket ==
  ASSUME NEW k \in Breaker, NEW failed \in BOOLEAN, clock \in 0 .. Turn - 1,
         NEW j \in Slots, j = clock \div Bucket
  PROVE  LET ring == addSample(k, failed).buckets
         IN  /\ ring \in [Slots -> Slot] /\ \A i \in Slots : i # j => ring[i] = k.buckets[i]
             /\ ring[j].age = clock % Bucket
             /\ \A f \in Field :
                  Column(ring, f)[j] =
                    (IF k.buckets[j].age = clock % Bucket THEN Column(k.buckets, f)[j] ELSE 0)
                      + One(failed, f)
<1>1. PICK a : a = clock % Bucket OBVIOUS
<1>2. a \in 0 .. Old
  <2>1. clock % Bucket \in 0 .. Bucket - 1 BY IndexInRing
  <2> QED BY <1>1, <2>1, Configured
<1>3. k.buckets \in [Slots -> Slot] BY DEF Breaker, Slots
<1>4. PICK x \in Slot : x = k.buckets[j] BY <1>3
<1>5. PICK t, g : /\ t = IF x.age = a THEN x.total ELSE 0
                  /\ g = IF x.age = a THEN x.failure ELSE 0
  OBVIOUS
<1>6. t \in Nat /\ g \in Nat BY <1>5 DEF Slot
<1>7. PICK y \in Slot : /\ y = IF x.age = a THEN x ELSE [NoBucket EXCEPT !.age = a]
                        /\ y = [age |-> a, total |-> t, failure |-> g]
  <2>1. CASE x.age = a
    <3>1. x = [age |-> a, total |-> t, failure |-> g] BY <1>5, <2>1 DEF Slot
    <3> QED BY <2>1, <3>1
  <2>2. CASE x.age # a
    <3>1. [NoBucket EXCEPT !.age = a] = [age |-> a, total |-> 0, failure |-> 0] BY DEF NoBucket
    <3>2. [age |-> a, total |-> t, failure |-> g] \in Slot BY <1>2, <1>6 DEF Slot
    <3> QED BY <1>5, <2>2, <3>1, <3>2
  <2> QED BY <2>1, <2>2
<1>8. PICK e \in {0, 1} : e = IF failed THEN 1 ELSE 0 OBVIOUS
<1>9. PICK z \in Slot : /\ z = [y EXCEPT !.total = y.total + 1, !.failure = y.failure + e]
                        /\ z.age = a /\ z.total = t + 1 /\ z.failure = g + e
  <2>1. y = [age |-> a, total |-> t, failure |-> g] BY <1>7
  <2>2. y.age = a /\ y.total = t /\ y.failure = g BY <2>1
  <2>3. y.total + 1 \in Nat /\ y.failure + e \in Nat BY <1>6, <2>2
  <2>4. /\ [y EXCEPT !.total = y.total + 1, !.failure = y.failure + e] \in Slot
        /\ [y EXCEPT !.total = y.total + 1, !.failure = y.failure + e].age = y.age
        /\ [y EXCEPT !.total = y.total + 1, !.failure = y.failure + e].total = y.total + 1
        /\ [y EXCEPT !.total = y.total + 1, !.failure = y.failure + e].failure = y.failure + e
    BY <2>3 DEF Slot
  <2> QED BY <2>2, <2>4
<1>10. addSample(k, failed) = [k EXCEPT !.buckets[j] = z]
  BY <1>1, <1>4, <1>7, <1>8, <1>9 DEF addSample
<1>11. PICK ring : ring = [k.buckets EXCEPT ![j] = z] OBVIOUS
<1>12. addSample(k, failed).buckets = ring BY <1>10, <1>11 DEF Breaker
<1>13. ring \in [Slots -> Slot] /\ ring[j] = z /\ \A i \in Slots : i # j => ring[i] = k.buckets[i]
  BY <1>3, <1>11
<1>14. ASSUME NEW f \in Field
       PROVE  Column(ring, f)[j] =
                (IF x.age = a THEN Column(k.buckets, f)[j] ELSE 0) + One(failed, f)
  <2>1. DOMAIN ring = Slots /\ DOMAIN k.buckets = Slots BY <1>3, <1>13
  <2>2. Column(ring, f)[j] = IF f = "total" THEN t + 1 ELSE g + e
    BY <1>9, <1>13, <2>1 DEF Column
  <2>3. Column(k.buckets, f)[j] = IF f = "total" THEN x.total ELSE x.failure
    BY <1>4, <2>1 DEF Column
  <2>4. One(failed, f) = IF f = "total" THEN 1 ELSE e BY <1>8 DEF One
  <2> QED BY <1>5, <2>2, <2>3, <2>4
<1>15. ring[j].age = a BY <1>9, <1>13
<1> QED BY <1>1, <1>4, <1>12, <1>13, <1>14, <1>15

\* The sample is noted in the ring as in the log.
LEMMA MatchesNoted ==
  ASSUME NEW k \in Breaker, NEW failed \in BOOLEAN, clock \in 0 .. Turn - 1,
         NEW l \in Log, Matches(clock, k.buckets, l)
  PROVE  Matches(clock, addSample(k, failed).buckets, Noted(l, failed))
<1>1. PICK ring : ring = addSample(k, failed).buckets OBVIOUS
<1>2. PICK j \in Slots : j = clock \div Bucket BY IndexStart
<1>3. /\ ring \in [Slots -> Slot] /\ \A i \in Slots : i # j => ring[i] = k.buckets[i]
      /\ ring[j].age = clock % Bucket
      /\ \A f \in Field :
           Column(ring, f)[j] =
             (IF k.buckets[j].age = clock % Bucket THEN Column(k.buckets, f)[j] ELSE 0)
               + One(failed, f)
  BY <1>1, <1>2, SampleBucket
<1>4. k.buckets \in [Slots -> Slot] BY DEF Breaker, Slots
<1>5. 0 \in 0 .. Turn - 1 BY Configured
<1>6. ASSUME NEW i \in Slots, i # j
      PROVE  /\ Live(clock, ring, i) \/ Gone(clock, ring, i)
             /\ \A f \in Field : SumOf(Column(Noted(l, failed), f), Span(clock, i))
                                   = IF Live(clock, ring, i) THEN Column(ring, f)[i] ELSE 0
  <2>1. ring[i] = k.buckets[i] BY <1>3, <1>6
  <2>2. /\ Live(clock, ring, i) <=> Live(clock, k.buckets, i)
        /\ Gone(clock, ring, i) <=> Gone(clock, k.buckets, i)
    BY <2>1 DEF Live, Gone
  <2>3. 0 \notin Span(clock, i)
    <3>1. PICK d \in Nat \ {0} : d = Bucket BY Configured
    <3>2. PICK x \in Int : x = StartAge(clock, i) /\ x >= d
      <4>1. StartAge(clock, i) \in 0 .. Turn - 1 /\ StartAge(clock, i) >= Bucket
        BY <1>2, <1>6, StartAges
      <4>2. Turn \in Nat BY Configured
      <4> QED BY <3>1, <4>1, <4>2
    <3>3. ~(x < 0 + d) BY <3>1, <3>2
    <3> QED BY <3>1, <3>2, <3>3 DEF Span
  <2>4. ASSUME NEW f \in Field
        PROVE  SumOf(Column(Noted(l, failed), f), Span(clock, i))
                 = IF Live(clock, ring, i) THEN Column(ring, f)[i] ELSE 0
    <3>1. PICK S \in SUBSET (0 .. Turn - 1) : S = Span(clock, i) /\ 0 \notin S BY <2>3, SpanFinite
    <3>2. SumOf(Column(Noted(l, failed), f), S) = SumOf(Column(l, f), S) + 0
      BY <3>1, NotedSum
    <3>3. SumOf(Column(l, f), S) = IF Live(clock, k.buckets, i) THEN Column(k.buckets, f)[i] ELSE 0
      BY <3>1 DEF Matches
    <3>4. Column(k.buckets, f)[i] \in Nat BY <1>4, ColumnsOf
    <3>5. Column(ring, f)[i] = Column(k.buckets, f)[i] BY <1>3, <1>4, <2>1 DEF Column
    <3> QED BY <2>2, <3>1, <3>2, <3>3, <3>4, <3>5
  <2>5. Live(clock, ring, i) \/ Gone(clock, ring, i) BY <2>2 DEF Matches
  <2> QED BY <2>4, <2>5
<1>7. StartAge(clock, j) = clock % Bucket BY <1>2, StartAges
<1>8. Live(clock, ring, j) BY <1>3, <1>7 DEF Live
<1>9. 0 \in Span(clock, j)
  <2>1. PICK d \in Nat \ {0} : d = Bucket BY Configured
  <2>2. PICK x \in 0 .. d - 1 : x = StartAge(clock, j) BY <1>7, <2>1, IndexInRing
  <2>3. 0 <= x /\ x < 0 + d BY <2>1, <2>2
  <2> QED BY <1>5, <2>1, <2>2, <2>3 DEF Span
<1>10. ASSUME NEW f \in Field
       PROVE  SumOf(Column(Noted(l, failed), f), Span(clock, j)) = Column(ring, f)[j]
  <2>1. PICK S \in SUBSET (0 .. Turn - 1) : S = Span(clock, j) /\ 0 \in S BY <1>9, SpanFinite
  <2>2. SumOf(Column(Noted(l, failed), f), S) = SumOf(Column(l, f), S) + One(failed, f)
    BY <2>1, NotedSum
  <2>3. SumOf(Column(l, f), S) = IF Live(clock, k.buckets, j) THEN Column(k.buckets, f)[j] ELSE 0
    BY <2>1 DEF Matches
  <2>4. Live(clock, k.buckets, j) <=> k.buckets[j].age = clock % Bucket BY <1>7 DEF Live
  <2> QED BY <1>3, <2>1, <2>2, <2>3, <2>4
<1>11. ASSUME NEW i \in Slots
       PROVE  /\ Live(clock, ring, i) \/ Gone(clock, ring, i)
              /\ \A f \in Field : SumOf(Column(Noted(l, failed), f), Span(clock, i))
                                    = IF Live(clock, ring, i) THEN Column(ring, f)[i] ELSE 0
  <2>1. CASE i = j BY <1>8, <1>10, <2>1
  <2>2. CASE i # j BY <1>6, <2>2
  <2> QED BY <2>1, <2>2
<1> QED BY <1>1, <1>11 DEF Matches

\* The recent buckets of the ring and the seconds of the window add up to the same.
LEMMA CountsMatch ==
  ASSUME Bucket <= WindowSeconds, NEW c \in 0 .. Turn - 1, NEW ring \in [Slots -> Slot],
         NEW l \in Log, Matches(c, ring, l), ring[c \div Bucket].age = c % Bucket,
         NEW f \in Field
  PROVE  SumOf(Column(ring, f), {i \in Slots : ring[i].age <= WindowSeconds})
           = SumOf(Column(l, f), {a \in 0 .. Turn - 1 : a <= (c % Bucket) + Turn - Bucket})
<1>1. PICK m \in Nat \ {0} : m = Turn BY Configured
<1>2. PICK d \in Nat \ {0} : d = Bucket BY Configured
<1>3. PICK v \in Nat : v = WindowSeconds /\ m <= v /\ v < m + d
  BY <1>1, <1>2, WindowIsTurn, BreakerAssumption
<1>4. ASSUME NEW i \in Slots PROVE ring[i].age <= WindowSeconds <=> Live(c, ring, i)
  <2>1. PICK a \in Nat : a = ring[i].age BY Configured DEF Slot
  <2>2. PICK x \in 0 .. m - 1 : /\ x = StartAge(c, i)
                                /\ i = c \div Bucket => x = c % Bucket
                                /\ i # c \div Bucket => x >= d
    BY <1>1, <1>2, StartAges
  <2>3. a = x \/ a >= x + m \/ a = v + d BY <1>1, <1>2, <1>3, <2>1, <2>2 DEF Matches, Live, Gone, Old
  <2>4. i = c \div Bucket => a = x BY <2>1, <2>2
  <2>5. a <= v <=> a = x BY <1>3, <2>2, <2>3, <2>4
  <2> QED BY <1>3, <2>1, <2>2, <2>5 DEF Live
<1>5. PICK w \in [0 .. m - 1 -> Nat] : w = Column(l, f) BY <1>1, ColumnsOf
<1>6. PICK u \in [Slots -> Nat] : u = Column(ring, f) BY ColumnsOf
<1>7. PICK z : z = [i \in Slots |-> IF Live(c, ring, i) THEN u[i] ELSE 0] OBVIOUS
<1>8. PICK T : T = {i \in Slots : ring[i].age <= WindowSeconds} OBVIOUS
<1>9. SumOf(z, Slots) = SumOf(z, T)
  <2>1. IsFiniteSet(Slots) /\ T \in SUBSET Slots BY <1>8, SpanFinite
  <2>2. \A i \in Slots : z[i] \in Int BY <1>6, <1>7
  <2>3. \A i \in Slots \ T : z[i] = 0 BY <1>4, <1>7, <1>8
  <2> QED BY <2>1, <2>2, <2>3, SumWithout
<1>10. SumOf(z, T) = SumOf(u, T)
  <2>1. IsFiniteSet(T) BY <1>8, SpanFinite, FS_Subset
  <2>2. Alike(z, u, T) BY <1>4, <1>7, <1>8 DEF Alike
  <2> QED BY <2>1, <2>2, SumSame
<1>11. PICK P : P = Spans(c) OBVIOUS
<1>12. SumOf(z, Slots) = SumOf(w, Covers(P, Slots))
  <2>1. IsFiniteSet(Slots) /\ \A i \in Slots : IsFiniteSet(P[i]) BY <1>11, SpanFinite DEF Spans
  <2>2. Apart(P, Slots)
    <3>1. ASSUME NEW i \in Slots, NEW j \in Slots, i # j PROVE P[i] \cap P[j] = {}
      <4>1. P[i] = Span(c, i) /\ P[j] = Span(c, j) BY <1>11 DEF Spans
      <4>2. i < j \/ j < i BY <3>1, Configured DEF Slots
      <4>3. i < j => Span(c, i) \cap Span(c, j) = {} BY SpansApart
      <4>4. j < i => Span(c, j) \cap Span(c, i) = {} BY SpansApart
      <4> QED BY <4>1, <4>2, <4>3, <4>4
    <3> QED BY <3>1 DEF Apart
  <2>3. \A i \in Slots : \A x \in P[i] : w[x] \in Int BY <1>1, <1>11, SpanFinite DEF Spans
  <2>4. SumsOf(z, w, P, Slots)
    <3>1. ASSUME NEW i \in Slots PROVE z[i] = SumOf(w, P[i])
      <4>1. SumOf(w, Span(c, i)) = IF Live(c, ring, i) THEN u[i] ELSE 0
        BY <1>5, <1>6 DEF Matches
      <4>2. P[i] = Span(c, i) BY <1>11 DEF Spans
      <4> QED BY <1>7, <4>1, <4>2
    <3> QED BY <3>1 DEF SumsOf
  <2> QED BY <2>1, <2>2, <2>3, <2>4, SumOfSums
<1> QED BY <1>5, <1>6, <1>8, <1>9, <1>10, <1>11, <1>12, SpansCover

\* shouldOpen looks at the counts of the window, whatever the ring has been through.
LEMMA OpensOnCounts ==
  ASSUME Bucket <= WindowSeconds, NEW k, k.buckets \in [Slots -> Slot], clock \in 0 .. Turn - 1,
         NEW l \in Log, Matches(clock, k.buckets, l), k.buckets[clock \div Bucket].age = clock % Bucket
  PROVE  shouldOpen(k) <=> Exceeds(WindowOf(l))
<1>1. PICK ring \in [Slots -> Slot] : ring = k.buckets OBVIOUS
<1>2. PICK T : T = {i \in Slots : ring[i].age <= WindowSeconds} OBVIOUS
<1>3. PICK S : S = {a \in 0 .. Turn - 1 : a <= (clock % Bucket) + Turn - Bucket} OBVIOUS
<1>4. /\ SumOf(Column(ring, "total"), T) = SumOf(Column(l, "total"), S)
      /\ SumOf(Column(ring, "failure"), T) = SumOf(Column(l, "failure"), S)
  <2>1. \A f \in Field : SumOf(Column(ring, f), T) = SumOf(Column(l, f), S)
    BY <1>1, <1>2, <1>3, CountsMatch
  <2> QED BY <2>1 DEF Field
<1>5. DOMAIN ring = Slots /\ DOMAIN l = 0 .. Turn - 1 BY DEF Log
<1>6. IsFiniteSet(T) /\ IsFiniteSet(S) /\ T \subseteq DOMAIN ring /\ S \subseteq DOMAIN l
  BY <1>2, <1>3, <1>5, SpanFinite, FS_Subset
<1>7. windowCounts(k) = [total |-> MapThenSumSet(LAMBDA i : ring[i].total, T),
                         failure |-> MapThenSumSet(LAMBDA i : ring[i].failure, T)]
  BY <1>1, <1>2, <1>5 DEF windowCounts
<1>8. WindowOf(l) = [total |-> MapThenSumSet(LAMBDA a : l[a].total, S),
                     failure |-> MapThenSumSet(LAMBDA a : l[a].failure, S)]
  BY <1>3, <1>5 DEF WindowOf
<1>9. windowCounts(k) = [total |-> SumOf(Column(ring, "total"), T),
                         failure |-> SumOf(Column(ring, "failure"), T)]
  BY <1>6, <1>7, TotalIsSum, FailureIsSum
<1>10. WindowOf(l) = [total |-> SumOf(Column(l, "total"), S),
                      failure |-> SumOf(Column(l, "failure"), S)]
  BY <1>6, <1>8, TotalIsSum, FailureIsSum
<1>11. windowCounts(k) = WindowOf(l) BY <1>4, <1>9, <1>10
<1> QED BY <1>11 DEF shouldOpen

\* A result reported to a closed breaker.
LEMMA ReportClosed ==
  ASSUME BreakerInv, RingInv, b.state = "closed", NEW r \in Req, NEW failed \in BOOLEAN,
         Report(r, failed)
  PROVE  /\ log' = Noted(log, failed) /\ log' \in Log /\ clock' = clock
         /\ Bucket <= WindowSeconds =>
              /\ b'.state = "open" <=> Exceeds(WindowOf(Noted(log, failed)))
              /\ b'.state = "closed" => Matches(clock, b'.buckets, Noted(log, failed))
<1>1. b \in Breaker /\ Counted(b) /\ clock \in 0 .. Turn - 1 BY DEF BreakerInv
<1>2. refreshState(b) = b BY DEF refreshState
<1>3. log \in Log BY DEF RingInv
<1>4. PICK g \in Breaker : g = addSample(b, failed) /\ Counted(g) /\ g.state = "closed"
  BY <1>1, SampleAdded
<1>5. b' = IF shouldOpen(g) THEN open(g) ELSE g
  BY <1>2, <1>4 DEF Report, Becomes, record, recordClosed
<1>6. log' = Noted(log, failed)
  <2>1. log' = [log EXCEPT ![0] =
                 [total |-> @.total + 1, failure |-> @.failure + (IF failed THEN 1 ELSE 0)]]
    BY <1>2 DEF Report
  <2> QED BY <1>3, <2>1 DEF Noted
<1>7. Noted(log, failed) \in Log
  <2>1. "total" \in Field BY DEF Field
  <2> QED BY <1>3, <2>1, NotedColumn
<1>8. clock' = clock BY DEF Report, Becomes
<1>9. ASSUME Bucket <= WindowSeconds
      PROVE  /\ b'.state = "open" <=> Exceeds(WindowOf(Noted(log, failed)))
             /\ b'.state = "closed" => Matches(clock, b'.buckets, Noted(log, failed))
  <2>1. Matches(clock, b.buckets, log) BY <1>9 DEF RingInv
  <2>2. Matches(clock, g.buckets, Noted(log, failed)) BY <1>1, <1>3, <1>4, <2>1, MatchesNoted
  <2>3. PICK j \in Slots : j = clock \div Bucket BY <1>1, IndexStart
  <2>4. g.buckets \in [Slots -> Slot] /\ g.buckets[clock \div Bucket].age = clock % Bucket
    BY <1>1, <1>4, <2>3, SampleBucket
  <2>5. shouldOpen(g) <=> Exceeds(WindowOf(Noted(log, failed)))
    BY <1>1, <1>7, <1>9, <2>2, <2>4, OpensOnCounts
  <2>6. open(g).state = "open" BY <1>4, Opened
  <2>7. CASE shouldOpen(g)
    <3>1. b'.state = "open" BY <1>5, <2>6, <2>7
    <3> QED BY <2>5, <2>7, <3>1
  <2>8. CASE ~shouldOpen(g)
    <3>1. b' = g BY <1>5, <2>8
    <3> QED BY <1>4, <2>2, <2>5, <2>8, <3>1
  <2> QED BY <2>7, <2>8
<1> QED BY <1>6, <1>7, <1>8, <1>9

\* The clock's step, and what it makes of the log.
LEMMA TickLog ==
  ASSUME BreakerInv, RingInv, Tick
  PROVE  /\ log' = Later(log) /\ log' \in Log /\ b'.state = b.state
         /\ b'.buckets = [i \in Slots |-> Aged(b.buckets[i])]
<1>1. b \in Breaker /\ log \in Log /\ clock \in 0 .. Turn - 1 BY DEF BreakerInv, RingInv
<1>2. DOMAIN log = 0 .. Turn - 1 /\ DOMAIN b.buckets = Slots BY <1>1 DEF Log, Breaker, Slots
<1>3. log' = Later(log) BY <1>2 DEF Tick, Later
<1>4. Later(log) \in Log
  <2>1. "total" \in Field /\ 0 \in Slots BY Configured DEF Field, Slots
  <2> QED BY <1>1, <2>1, SumTick
<1>5. b'.state = b.state /\ b'.buckets = [i \in Slots |-> Aged(b.buckets[i])]
  <2>1. PICK o : o = Min({b.openAge + 1, OpenTimeoutSeconds}) OBVIOUS
  <2>2. b' = [b EXCEPT !.openAge = o, !.buckets = [i \in DOMAIN b.buckets |-> Aged(b.buckets[i])]]
    BY <1>1, <2>1 DEF Tick, Breaker
  <2> QED BY <1>1, <1>2, <2>2 DEF Breaker
<1> QED BY <1>3, <1>4, <1>5

\* The ring's invariant, method by method.
LEMMA RingReport ==
  ASSUME BreakerInv, RingInv, NEW r \in Req, NEW failed \in BOOLEAN, Report(r, failed)
  PROVE  RingInv'
<1>1. clock' = clock /\ clock \in 0 .. Turn - 1 BY DEF Report, Becomes, BreakerInv
<1>2. CASE b.state = "closed"
  BY <1>1, <1>2, ReportClosed DEF RingInv
<1>3. CASE b.state # "closed"
  <2>1. PICK f \in Breaker : /\ f = refreshState(b) /\ Counted(f)
                             /\ f.state = "closed" => b.state = "closed"
    BY AfterRefresh
  <2>2. b' = record(f, failed) BY <2>1 DEF Report, Becomes
  <2>3. log' = IF b'.state = "closed" THEN EmptyLog ELSE log BY <1>3, <2>1, <2>2 DEF Report
  <2>4. b'.state = "closed" => b'.buckets = EmptyRing
    <3> SUFFICES ASSUME b'.state = "closed" PROVE b'.buckets = EmptyRing OBVIOUS
    <3>1. f.state \in {"open", "half_open"} BY <1>3, <2>1 DEF Breaker
    <3>2. f.state = "half_open"
      <4>1. f.state = "open" => record(f, failed) = f BY DEF record
      <4> QED BY <2>2, <3>1, <4>1
    <3>3. b' = recordHalfOpen(f, failed) BY <2>2, <3>2 DEF record
    <3> QED BY <3>2, <3>3 DEF recordHalfOpen, open, close, Breaker
  <2>5. log \in Log BY DEF RingInv
  <2> QED BY <1>1, <2>3, <2>4, <2>5, EmptyMatches DEF RingInv
<1> QED BY <1>2, <1>3

\* No method leaves ring and log in disagreement.
LEMMA RingNext ==
  ASSUME BreakerInv, RingInv, [Next]_vars
  PROVE  RingInv'
<1>1. ASSUME NEW r \in Req, NEW failed \in BOOLEAN, Report(r, failed) PROVE RingInv'
  BY <1>1, RingReport
<1>2. ASSUME NEW k, NEW q, Becomes(k, q), log' = log,
             k.state = "closed" => k.buckets = b.buckets /\ b.state = "closed"
      PROVE  RingInv'
  BY <1>2 DEF Becomes, RingInv
<1>3. PICK f \in Breaker : f = refreshState(b) /\ Counted(f) /\ (f.state = "closed" => b.state = "closed")
  BY AfterRefresh
<1>4. f.buckets = b.buckets
  BY <1>3, Refreshed DEF BreakerInv
<1>5. ASSUME NEW r \in Req, CanSelect(r) PROVE RingInv'
  BY <1>2, <1>3, <1>4, <1>5 DEF CanSelect
<1>6. ASSUME NEW r \in Req, MarkSelected(r) PROVE RingInv'
  <2>1. markSelected(f).state = f.state /\ markSelected(f).buckets = f.buckets
    BY DEF markSelected, Breaker
  <2>2. \E k, q : Becomes(k, q) /\ k.state = f.state /\ k.buckets = f.buckets
    BY <1>3, <1>6, <2>1 DEF MarkSelected
  <2>3. log' = log BY <1>6 DEF MarkSelected
  <2> QED BY <1>2, <1>3, <1>4, <2>2, <2>3
<1>7. ASSUME NEW r \in Req, SelectDirectly(r) \/ EndSilently(r) PROVE RingInv'
  BY <1>7 DEF SelectDirectly, EndSilently, RingInv
<1>8. CASE Remove
  <2>1. b' = newBreaker /\ log' = EmptyLog /\ clock' = clock BY <1>8 DEF Remove, Becomes
  <2>2. b'.buckets = EmptyRing BY <2>1 DEF newBreaker
  <2>3. clock \in 0 .. Turn - 1 BY DEF BreakerInv
  <2> QED BY <2>1, <2>2, <2>3, EmptyMatches DEF RingInv
<1>9. CASE Tick
  <2>1. /\ log' = Later(log) /\ log' \in Log /\ b'.state = b.state
        /\ b'.buckets = [i \in Slots |-> Aged(b.buckets[i])]
    BY <1>9, TickLog
  <2>2. clock' = (clock + 1) % Turn BY <1>9 DEF Tick
  <2>3. clock \in 0 .. Turn - 1 /\ b.buckets \in [Slots -> Slot] /\ log \in Log
    BY DEF BreakerInv, RingInv, Breaker, Slots
  <2>4. ASSUME Bucket <= WindowSeconds, b'.state = "closed" PROVE Matches(clock', b'.buckets, log')
    <3>1. Matches(clock, b.buckets, log) BY <2>1, <2>4 DEF RingInv
    <3>2. PICK ring \in [Slots -> Slot] : ring = b.buckets BY <2>3
    <3>3. Matches((clock + 1) % Turn, [i \in Slots |-> Aged(ring[i])], Later(log))
      BY <2>3, <2>4, <3>1, <3>2, MatchesTick
    <3> QED BY <2>1, <2>2, <3>2, <3>3
  <2> QED BY <2>1, <2>4 DEF RingInv
<1>10. CASE UNCHANGED vars
  BY <1>10 DEF vars, RingInv
<1> QED BY <1>1, <1>5, <1>6, <1>7, <1>8, <1>9, <1>10 DEF Next, MarkSuccess, MarkFailure

\* The ring of buckets counts exactly the samples of its window, as long as a bucket is
\* not longer than the window.
THEOREM RingInvariant == Spec => []RingInv
<1>1. Init => RingInv
  <2> SUFFICES ASSUME Init PROVE RingInv OBVIOUS
  <2>1. b.buckets = EmptyRing /\ log = EmptyLog /\ clock \in 0 .. Turn - 1 BY DEF Init, newBreaker
  <2> QED BY <2>1, EmptyMatches DEF RingInv
<1>2. BreakerInv /\ RingInv /\ [Next]_vars => RingInv'
  BY RingNext
<1> QED BY <1>1, <1>2, BreakerInvariant, PTL DEF Spec

\* recordClosed opens the breaker exactly when the samples of the window, counted one by
\* one, exceed the threshold: for every window, bucket and threshold for which a bucket is
\* not longer than the window (GetCircuitBreakerSetting leaves it longer only when the
\* window is shorter than the default bucket), and however long the ring has turned.
THEOREM OpensExactlyOnWindow ==
  ASSUME Bucket <= WindowSeconds
  PROVE  Spec => OpensOnWindow
<1> DEFINE P == b.state = "closed" /\ clock' = clock /\ log' # log /\ log' # EmptyLog
                  => (b'.state = "open" <=> Exceeds(WindowOf(log')))
<1>1. ASSUME BreakerInv, RingInv, [Next]_vars PROVE [P]_vars
  <2> SUFFICES ASSUME b.state = "closed", clock' = clock, log' # log, log' # EmptyLog
               PROVE  b'.state = "open" <=> Exceeds(WindowOf(log'))
    OBVIOUS
  <2>1. ASSUME NEW r \in Req, NEW failed \in BOOLEAN, Report(r, failed)
        PROVE  b'.state = "open" <=> Exceeds(WindowOf(log'))
    BY <1>1, <2>1, ReportClosed
  <2>2. CASE Tick
    <3>1. clock' = (clock + 1) % Turn /\ log' = Later(log) BY <1>1, <2>2, TickLog DEF Tick
    <3>2. PICK m \in Nat \ {0} : m = Turn BY Configured
    <3>3. clock \in 0 .. m - 1 BY <1>1, <3>2 DEF BreakerInv
    <3>4. m = 1
      <4> SUFFICES ASSUME m # 1 PROVE FALSE OBVIOUS
      <4>1. CASE clock = m - 1
        <5>1. clock + 1 = m BY <3>3, <4>1
        <5>2. m % m = 0 OBVIOUS
        <5> QED BY <3>1, <3>2, <4>1, <5>1, <5>2
      <4>2. CASE clock # m - 1
        <5>1. PICK k \in 0 .. m - 1 : k = clock + 1 BY <3>3, <4>2
        <5>2. k % m = k OBVIOUS
        <5> QED BY <3>1, <3>2, <3>3, <5>1, <5>2
      <4> QED BY <4>1, <4>2
    <3>5. Later(log) = EmptyLog BY <3>2, <3>4 DEF Later, EmptyLog
    <3> QED BY <3>1, <3>5
  <2>3. CASE Remove BY <2>3 DEF Remove
  <2>4. ASSUME NEW r \in Req, CanSelect(r) \/ MarkSelected(r) \/ SelectDirectly(r) \/ EndSilently(r)
        PROVE  log' = log
    BY <2>4 DEF CanSelect, MarkSelected, SelectDirectly, EndSilently
  <2>5. CASE UNCHANGED vars BY <2>5 DEF vars
  <2> QED BY <1>1, <2>1, <2>2, <2>3, <2>4, <2>5 DEF Next, MarkSuccess, MarkFailure
<1>2. Spec => [][P]_vars
  <2> HIDE DEF P
  <2> QED BY <1>1, BreakerInvariant, RingInvariant, PTL DEF Spec
<1> QED BY <1>2 DEF OpensOnWindow
=============================================================================
