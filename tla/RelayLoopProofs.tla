--------------------------- MODULE RelayLoopProofs ---------------------------
(***************************************************************************)
(* The slots, the billing sessions and the attempts of a request, for any  *)
(* number of requests, channels, groups, priorities and retries.           *)
(*                                                                         *)
(* The argument is about one request at a time.  Sound says what the three *)
(* counters in its context (the group index, the retry counter and its     *)
(* reset) have to do with each other and with the attempts made and the    *)
(* last selection; Held says which slots it has.  A step changes the       *)
(* counters of the limiter by the difference of Held before and after it.  *)
(***************************************************************************)
EXTENDS RelayLoop, FiniteSetTheorems, TLAPS

\* Attempts that n groups allow.
Full(n) == (RetryTimes + 1) * n

Bounded(x) == x.used <= Full(IF x.source = "plain" THEN 1 ELSE Len(AutoGroups))

\* What the attempts made say of the group index and the retry counter.
Attempts(x) ==
    /\ Bounded(x)
    /\ x.pc = "select" => x.used <= Full(x.i - 1) + x.retry
    /\ x.pc \in {"attempt", "wait"} =>
         x.used <= Full(x.index - 1) + (IF x.reset THEN 0 ELSE x.retry + 1)

\* What is left of the last selection.
Selected(x) ==
    x.pick.group # 0 =>
      /\ x.pick.group <= x.index
      /\ x.pick.group = x.index => ~x.reset /\ x.pick.retry <= x.retry
      /\ x.pick.level = Level(AutoGroups[x.pick.group], x.pick.retry)

\* The request's counters and where it is.
Placed(x) ==
    /\ x.retry <= RetryTimes
    /\ x.source = "plain" => x.index = 1 /\ ~x.reset
    /\ x.pc \in {"new", "enter"} => x.used = 0 /\ x.retry = 0 /\ ~x.reset
    /\ x.pc = "new" => x.pick.group = 0 /\ x.index = 1
    /\ x.pc \in {"attempt", "wait"} => x.used >= 1
    /\ x.pc = "select" =>
         /\ x.i = x.index /\ x.start <= x.i /\ ~x.reset
         /\ x.start < x.i \/ x.used = 0 => x.retry = 0
    /\ x.pc = "new" \/ (x.pc = "select" /\ x.used = 0) => x.dist = NoChan
    /\ x.pc # "done" => x.bill \in {"none", "open"}
    /\ x.pc = "wait" => x.err # "none"

Sound(x) == Placed(x) /\ Attempts(x) /\ Selected(x)

\* The slots a request has of a channel.
Held(x, c) == (IF x.pc # "done" /\ x.dist = c THEN 1 ELSE 0) + (IF Own(x) = c THEN 1 ELSE 0)

RelayInv ==
    /\ \A r \in Req : Sound(req[r])
    /\ SlotsAreBalanced /\ SessionsAreClosed

-----------------------------------------------------------------------------
(* Arithmetic of attempts and of priority levels. *)

LEMMA FullStep ==
  /\ \A n \in Nat : Full(n) \in Nat /\ Full(n + 1) = Full(n) + RetryTimes + 1
  /\ \A n \in Nat \ {0} : Full(n - 1) \in Nat /\ Full(n) = Full(n - 1) + RetryTimes + 1
  /\ \A m, n \in Nat : m <= n => Full(m) <= Full(n)
<1>1. RetryTimes \in Nat  BY RelayAssumption
<1>2. \A n \in Nat : Full(n) \in Nat /\ Full(n + 1) = Full(n) + RetryTimes + 1
  BY <1>1 DEF Full
<1>3. ASSUME NEW m \in Nat, NEW n \in Nat, m <= n PROVE Full(m) <= Full(n)
  <2>1. PICK d \in Nat : n = m + d  BY <1>3
  <2>2. (RetryTimes + 1) * d \in Nat  BY <1>1
  <2>3. Full(n) = Full(m) + (RetryTimes + 1) * d  BY <1>1, <2>1 DEF Full
  <2> QED  BY <1>1, <1>2, <2>2, <2>3
<1>4. \A n \in Nat \ {0} : Full(n - 1) \in Nat /\ Full(n) = Full(n - 1) + RetryTimes + 1
  BY <1>1 DEF Full
<1> QED  BY <1>2, <1>3, <1>4

LEMMA MinOfTwo ==
  ASSUME NEW m \in Int, NEW n \in Int
  PROVE  Min({m, n}) = IF m <= n THEN m ELSE n
<1>1. \E x \in {m, n} : \A y \in {m, n} : x <= y  OBVIOUS
<1>2. Min({m, n}) \in {m, n} /\ \A y \in {m, n} : Min({m, n}) <= y  BY <1>1 DEF Min
<1> QED  BY <1>2

\* A later retry of a group never goes to a higher priority.
LEMMA Levels ==
  ASSUME NEW i \in 1 .. Len(AutoGroups), ChannelsOf(AutoGroups[i]) # {}
  PROVE  /\ \A m \in Nat : Level(AutoGroups[i], m) \in Nat
         /\ \A m, n \in Nat : m <= n => Level(AutoGroups[i], m) <= Level(AutoGroups[i], n)
<1> DEFINE g == AutoGroups[i]
<1>1. ChannelsOf(g) \in SUBSET Chan /\ ChannelsOf(g) # {}  BY RelayAssumption
<1>2. IsFiniteSet(ChannelsOf(g))  BY <1>1, RelayAssumption, FS_Subset
<1>3. IsFiniteSet(Priorities(g))
  <2> DEFINE f == [c \in ChannelsOf(g) |-> Priority(c)]
  <2>1. f \in [ChannelsOf(g) -> Priorities(g)]  BY DEF Priorities
  <2>2. \A p \in Priorities(g) : \E c \in ChannelsOf(g) : f[c] = p  BY DEF Priorities
  <2>3. f \in Surjection(ChannelsOf(g), Priorities(g))  BY <2>1, <2>2 DEF Surjection
  <2> QED  BY <1>2, <2>3, FS_Surjection
<1>4. Priorities(g) # {}  BY <1>1 DEF Priorities
<1>5. Cardinality(Priorities(g)) - 1 \in Nat
  BY <1>3, <1>4, FS_CardinalityType, FS_EmptySet
<1>6. \A m \in Nat : Level(g, m) = IF m <= Cardinality(Priorities(g)) - 1 THEN m
                                   ELSE Cardinality(Priorities(g)) - 1
  BY <1>5, MinOfTwo DEF Level
<1> QED  BY <1>5, <1>6

-----------------------------------------------------------------------------
(* Slots: the limiter's counters and the requests that hold them. *)

LEMMA OneChanges ==
  ASSUME NEW S \in SUBSET Req, NEW T \in SUBSET Req, NEW r \in Req,
         \A q \in Req : q # r => (q \in S <=> q \in T)
  PROVE  /\ Cardinality(S) \in Nat /\ Cardinality(T) \in Nat
         /\ Cardinality(S) >= (IF r \in S THEN 1 ELSE 0)
         /\ Cardinality(T) = Cardinality(S) - (IF r \in S THEN 1 ELSE 0)
                                            + (IF r \in T THEN 1 ELSE 0)
<1> DEFINE U == S \ {r}
<1>1. IsFiniteSet(S) /\ IsFiniteSet(T) /\ IsFiniteSet(U)
  BY RelayAssumption, FS_Subset
<1>2. Cardinality(U) \in Nat /\ Cardinality(S) \in Nat /\ Cardinality(T) \in Nat
  BY <1>1, FS_CardinalityType
<1>3. U = T \ {r}  OBVIOUS
<1>4. Cardinality(S) = Cardinality(U) + (IF r \in S THEN 1 ELSE 0)
  <2>1. CASE r \in S  BY <1>1, <1>2, <2>1, FS_RemoveElement
  <2>2. CASE r \notin S
    <3>1. U = S  BY <2>2
    <3> QED  BY <1>2, <2>2, <3>1
  <2> QED  BY <2>1, <2>2
<1>5. Cardinality(T) = Cardinality(U) + (IF r \in T THEN 1 ELSE 0)
  <2>1. CASE r \in T  BY <1>1, <1>2, <1>3, <2>1, FS_RemoveElement
  <2>2. CASE r \notin T
    <3>1. U = T  BY <1>3, <2>2
    <3> HIDE DEF U
    <3> QED  BY <1>2, <2>2, <3>1
  <2> QED  BY <2>1, <2>2
<1> HIDE DEF U
<1> QED  BY <1>2, <1>4, <1>5

LEMMA OneMoves ==
  ASSUME TypeOK, NEW r \in Req, NEW y \in Request, Set(r, y)
  PROVE  /\ req' \in [Req -> Request] /\ req'[r] = y
         /\ \A q \in Req : q # r => req'[q] = req[q]
BY DEF TypeOK, Set

LEMMA HoldersStep ==
  ASSUME TypeOK, NEW r \in Req, NEW y \in Request, Set(r, y), NEW c \in Chan
  PROVE  /\ Holders(c) \in Nat /\ Holders(c) >= Held(req[r], c)
         /\ Holders(c)' = Holders(c) - Held(req[r], c) + Held(y, c)
<1>1. req'[r] = y /\ \A q \in Req : q # r => req'[q] = req[q]  BY OneMoves
<1> DEFINE D == {q \in Req : req[q].pc # "done" /\ req[q].dist = c}
           E == {q \in Req : req'[q].pc # "done" /\ req'[q].dist = c}
           O == {q \in Req : Own(req[q]) = c}
           P == {q \in Req : Own(req'[q]) = c}
<1>2. Holders(c) = Cardinality(D) + Cardinality(O)  BY DEF Holders
<1>3. Holders(c)' = Cardinality(E) + Cardinality(P)  BY DEF Holders, Own
<1>4. /\ Cardinality(D) \in Nat /\ Cardinality(D) >= (IF r \in D THEN 1 ELSE 0)
      /\ Cardinality(E) = Cardinality(D) - (IF r \in D THEN 1 ELSE 0)
                                         + (IF r \in E THEN 1 ELSE 0)
  <2>1. \A q \in Req : q # r => (q \in D <=> q \in E)  BY <1>1
  <2>2. D \in SUBSET Req /\ E \in SUBSET Req  OBVIOUS
  <2> HIDE DEF D, E
  <2> QED  BY <2>1, <2>2, OneChanges
<1>5. /\ Cardinality(O) \in Nat /\ Cardinality(O) >= (IF r \in O THEN 1 ELSE 0)
      /\ Cardinality(P) = Cardinality(O) - (IF r \in O THEN 1 ELSE 0)
                                         + (IF r \in P THEN 1 ELSE 0)
  <2>1. \A q \in Req : q # r => (q \in O <=> q \in P)  BY <1>1
  <2>2. O \in SUBSET Req /\ P \in SUBSET Req  OBVIOUS
  <2> HIDE DEF O, P
  <2> QED  BY <2>1, <2>2, OneChanges
<1>6. /\ r \in D <=> req[r].pc # "done" /\ req[r].dist = c
      /\ r \in E <=> y.pc # "done" /\ y.dist = c
      /\ r \in O <=> Own(req[r]) = c
      /\ r \in P <=> Own(y) = c
  BY <1>1
<1> HIDE DEF D, E, O, P
<1> QED  BY <1>2, <1>3, <1>4, <1>5, <1>6 DEF Held

\* A release of one or of two slots that are held is exact.
LEMMA MinusStep ==
  ASSUME NEW f \in [Chan -> 0 .. MaxConcurrent], NEW c \in Chan \cup {NoChan}
  PROVE  /\ Minus(f, c) \in [Chan -> 0 .. MaxConcurrent]
         /\ \A d \in Chan : f[d] >= (IF c = d THEN 1 ELSE 0)
                              => Minus(f, c)[d] = f[d] - (IF c = d THEN 1 ELSE 0)
<1>1. NoChan \notin Chan /\ MaxConcurrent \in Nat  BY RelayAssumption
<1>2. CASE c = NoChan  BY <1>1, <1>2 DEF Minus
<1>3. CASE c # NoChan
  <2>1. c \in Chan /\ f[c] \in 0 .. MaxConcurrent  BY <1>3
  <2>2. (IF f[c] > 0 THEN f[c] - 1 ELSE 0) \in 0 .. MaxConcurrent  BY <1>1, <2>1
  <2>3. Minus(f, c) = [f EXCEPT ![c] = IF f[c] > 0 THEN f[c] - 1 ELSE 0]  BY <1>3 DEF Minus
  <2>4. Minus(f, c) \in [Chan -> 0 .. MaxConcurrent]  BY <2>1, <2>2, <2>3
  <2>5. \A d \in Chan : Minus(f, c)[d] = IF c = d THEN (IF f[c] > 0 THEN f[c] - 1 ELSE 0) ELSE f[d]
    BY <2>1, <2>3
  <2> QED  BY <2>1, <2>4, <2>5
<1> QED  BY <1>2, <1>3

-----------------------------------------------------------------------------
(* What a step has to show. *)

Closed(x) == x.bill \in (IF x.err = "none" THEN {"none", "settled"} ELSE {"none", "refunded"})

\* Request r becomes y, and the counters change by what it holds.
LEMMA Kept ==
  ASSUME RelayInv, NEW r \in Req, NEW y \in Request, Set(r, y), Sound(y),
         UNCHANGED memoryCache, clean' \in BOOLEAN, count' \in [Chan -> 0 .. MaxConcurrent],
         clean' => clean /\ (y.pc = "done" => Closed(y)),
         ASSUME clean', memoryCache, NEW c \in Chan, count[c] >= Held(req[r], c)
         PROVE  count'[c] = count[c] - Held(req[r], c) + Held(y, c)
  PROVE  RelayInv'
<1>1. TypeOK  BY DEF RelayInv, SlotsAreBalanced
<1>2. req' \in [Req -> Request] /\ req'[r] = y /\ \A q \in Req : q # r => req'[q] = req[q]
  BY <1>1, OneMoves
<1>3. TypeOK'  BY <1>1, <1>2 DEF TypeOK
<1>4. \A q \in Req : Sound(req'[q])  BY <1>2 DEF RelayInv
<1>5. ASSUME memoryCache', clean', NEW c \in Chan PROVE count'[c] = Holders(c)'
  <2>1. count[c] = Holders(c)  BY <1>5 DEF RelayInv, SlotsAreBalanced
  <2>2. /\ Holders(c) \in Nat /\ Holders(c) >= Held(req[r], c)
        /\ Holders(c)' = Holders(c) - Held(req[r], c) + Held(y, c)
    BY <1>1, HoldersStep
  <2>3. count'[c] = count[c] - Held(req[r], c) + Held(y, c)  BY <1>5, <2>1, <2>2
  <2> QED  BY <2>1, <2>2, <2>3
<1>6. SessionsAreClosed'
  BY <1>2 DEF RelayInv, SessionsAreClosed, Closed
<1>7. \A q \in Req : Sound(req[q])'
  <2>1. ASSUME NEW q \in Req PROVE Sound(req[q])' <=> Sound(req'[q])
    BY DEF Sound, Placed, Attempts, Selected
  <2> QED  BY <1>4, <2>1
<1> QED  BY <1>3, <1>5, <1>6, <1>7 DEF RelayInv, SlotsAreBalanced

LEMMA Constants ==
  /\ RetryTimes \in Nat /\ Len(AutoGroups) \in Nat /\ Len(AutoGroups) >= 1
  /\ MaxConcurrent \in Nat /\ NoChan \notin Chan
BY RelayAssumption

LEMMA Fields ==
  ASSUME NEW x \in Request
  PROVE  /\ x.pc \in {"new", "select", "enter", "attempt", "wait", "done"}
         /\ x.retry \in Nat /\ x.reset \in BOOLEAN /\ x.used \in Nat
         /\ x.index \in 1 .. Len(AutoGroups) + 1 /\ x.start \in 1 .. Len(AutoGroups) + 1
         /\ x.i \in 1 .. Len(AutoGroups) + 1
         /\ x.index - 1 \in Nat /\ x.i - 1 \in Nat
         /\ x.pick.group \in 0 .. Len(AutoGroups) /\ x.pick.retry \in Nat
         /\ x.pick.level \in Nat
<1>1. /\ x.pc \in {"new", "select", "enter", "attempt", "wait", "done"}
      /\ x.retry \in 0 .. RetryTimes + 1 /\ x.reset \in BOOLEAN /\ x.used \in Nat
      /\ x.index \in 1 .. Len(AutoGroups) + 1 /\ x.start \in 1 .. Len(AutoGroups) + 1
      /\ x.i \in 1 .. Len(AutoGroups) + 1
      /\ x.pick \in [group : 0 .. Len(AutoGroups), level : Nat, retry : 0 .. RetryTimes]
  BY DEF Request
<1>2. /\ x.pick.group \in 0 .. Len(AutoGroups) /\ x.pick.level \in Nat
      /\ x.pick.retry \in 0 .. RetryTimes
  BY <1>1
<1>3. x.retry \in Nat /\ x.pick.retry \in Nat  BY <1>1, <1>2, Constants
<1>4. x.index - 1 \in Nat /\ x.i - 1 \in Nat  BY <1>1, Constants
<1> QED  BY <1>1, <1>2, <1>3, <1>4

LEMMA NewRequestType == NewRequest \in Request
BY Constants DEF NewRequest, Request, Sources, Errors

\* What is left of a request that ended.
LEMMA FinishedState ==
  ASSUME NEW z \in Request, Bounded(z)
  PROVE  /\ Finished(z) \in Request /\ Sound(Finished(z)) /\ Finished(z).pc = "done"
         /\ Finished(z).bill = Refunded(z) /\ Finished(z).err = z.err
         /\ Finished(z).pick.group = 0
         /\ \A c \in Chan : Held(Finished(z), c) = 0
<1>1. Refunded(z) \in {"none", "open", "settled", "refunded"}  BY DEF Refunded, Request
<1> DEFINE y == Finished(z)
<1>2. /\ y.pc = "done" /\ y.bill = Refunded(z) /\ y.err = z.err /\ y.kind = z.kind
      /\ y.source = z.source /\ y.used = z.used /\ y.retry = 0 /\ y.reset = FALSE /\ y.index = 1
      /\ y.dist = NoChan /\ y.pick = [group |-> 0, level |-> 0, retry |-> 0]
  BY DEF Finished, NewRequest
<1>3. y \in Request  BY <1>1, NewRequestType DEF Finished, Request
<1> HIDE DEF y
<1>4. Sound(y)
  <2>1. Placed(y)  BY <1>2, Constants DEF Placed
  <2>2. Attempts(y)  BY <1>2 DEF Attempts, Bounded
  <2>3. Selected(y)  BY <1>2 DEF Selected
  <2> QED  BY <2>1, <2>2, <2>3 DEF Sound
<1>5. \A c \in Chan : Held(y, c) = 0  BY <1>2, Constants DEF Held, Own
<1> QED  BY <1>2, <1>3, <1>4, <1>5 DEF y

LEMMA EndedState ==
  ASSUME NEW z \in Request, Bounded(z)
  PROVE  /\ Ended(z) \in Request /\ Sound(Ended(z)) /\ Ended(z).pc = "done"
         /\ Ended(z).pick.group = 0
         /\ \A c \in Chan : Held(Ended(z), c) = 0
         /\ z.bill \in (IF z.err = "none" THEN {"none", "settled"} ELSE {"none", "open"})
              => Closed(Ended(z))
<1> DEFINE w == IF Unified(z) THEN [z EXCEPT !.err = "unified"] ELSE z
<1>1. /\ w \in Request /\ w.used = z.used /\ w.source = z.source /\ w.bill = z.bill
      /\ w.err = "none" <=> z.err = "none"
  BY DEF Unified, Request, Errors
<1>2. Ended(z) = Finished(w)  BY DEF Ended
<1> HIDE DEF w
<1>3. Bounded(w)  BY <1>1 DEF Bounded
<1> QED  BY <1>1, <1>2, <1>3, FinishedState DEF Closed, Refunded

LEMMA OwnType == ASSUME NEW x \in Request PROVE Own(x) \in Chan \cup {NoChan}
BY DEF Own, Request

\* z is x with another error, session or retry counter.
SameRun(x, z) ==
    z.kind = x.kind /\ z.source = x.source /\ z.used = x.used /\ z.dist = x.dist

\* The end of a request: it gives back what it held, and closes its session.
LEMMA EndStep ==
  ASSUME RelayInv, NEW r \in Req, NEW z \in Request, End(r, z), req[r].pc # "done",
         SameRun(req[r], z),
         z.bill \in (IF z.err = "none" THEN {"none", "settled"} ELSE {"none", "open"})
  PROVE  RelayInv'
<1>1. /\ TypeOK /\ Sound(req[r]) /\ req[r] \in Request /\ count \in [Chan -> 0 .. MaxConcurrent]
  BY DEF RelayInv, SlotsAreBalanced, TypeOK
<1>2. Bounded(z)  BY <1>1 DEF Bounded, Sound, Attempts, SameRun
<1> DEFINE y == Ended(z)
<1>3. /\ y \in Request /\ Sound(y) /\ y.pc = "done" /\ Closed(y)
      /\ \A c \in Chan : Held(y, c) = 0
  BY <1>2, EndedState
<1>4. /\ Set(r, y) /\ UNCHANGED <<memoryCache, clean>>
       /\ count' = Minus(Minus(count, Own(req[r])), req[r].dist)
  BY DEF End, SameRun
<1> HIDE DEF y
<1>5. Own(req[r]) \in Chan \cup {NoChan} /\ req[r].dist \in Chan \cup {NoChan}
  BY <1>1, OwnType DEF Request
<1> DEFINE f == Minus(count, Own(req[r]))
<1>6. /\ f \in [Chan -> 0 .. MaxConcurrent]
       /\ \A d \in Chan : count[d] >= (IF Own(req[r]) = d THEN 1 ELSE 0)
                            => f[d] = count[d] - (IF Own(req[r]) = d THEN 1 ELSE 0)
  BY <1>1, <1>5, MinusStep
<1> HIDE DEF f
<1>7. /\ count' \in [Chan -> 0 .. MaxConcurrent]
       /\ \A d \in Chan : f[d] >= (IF req[r].dist = d THEN 1 ELSE 0)
                            => count'[d] = f[d] - (IF req[r].dist = d THEN 1 ELSE 0)
  BY <1>4, <1>5, <1>6, MinusStep DEF f
<1>8. ASSUME NEW c \in Chan, count[c] >= Held(req[r], c)
       PROVE  count'[c] = count[c] - Held(req[r], c) + Held(y, c)
  <2>1. Held(req[r], c) = (IF req[r].dist = c THEN 1 ELSE 0) + (IF Own(req[r]) = c THEN 1 ELSE 0)
    BY DEF Held
  <2>2. count[c] \in Nat  BY <1>1, Constants
  <2>3. f[c] = count[c] - (IF Own(req[r]) = c THEN 1 ELSE 0)  BY <1>6, <1>8, <2>1, <2>2
  <2> QED  BY <1>3, <1>7, <1>8, <2>1, <2>2, <2>3
<1>9. clean' \in BOOLEAN  BY <1>1, <1>4 DEF TypeOK
<1> QED  BY <1>3, <1>4, <1>7, <1>8, <1>9, Kept

\* Between two attempts only the distributor's slot is held.
LEMMA BetweenStep ==
  ASSUME RelayInv, NEW r \in Req, NEW y \in Request, Set(r, y), Sound(y),
         req[r].pc # "done", y.pc \in {"select", "wait"}, y.dist = req[r].dist,
         count' = Minus(count, Own(req[r])), UNCHANGED <<memoryCache, clean>>
  PROVE  RelayInv'
<1>1. /\ TypeOK /\ req[r] \in Request /\ count \in [Chan -> 0 .. MaxConcurrent]
  BY DEF RelayInv, SlotsAreBalanced, TypeOK
<1>2. /\ count' \in [Chan -> 0 .. MaxConcurrent]
      /\ \A d \in Chan : count[d] >= (IF Own(req[r]) = d THEN 1 ELSE 0)
                           => count'[d] = count[d] - (IF Own(req[r]) = d THEN 1 ELSE 0)
  BY <1>1, OwnType, MinusStep
<1>3. ASSUME NEW c \in Chan, count[c] >= Held(req[r], c)
      PROVE  count'[c] = count[c] - Held(req[r], c) + Held(y, c)
  <2>1. Held(req[r], c) = (IF req[r].dist = c THEN 1 ELSE 0) + (IF Own(req[r]) = c THEN 1 ELSE 0)
    BY DEF Held
  <2>2. Held(y, c) = (IF req[r].dist = c THEN 1 ELSE 0)  BY Constants DEF Held, Own
  <2>3. count[c] \in Nat  BY <1>1, Constants
  <2> QED  BY <1>2, <1>3, <2>1, <2>2, <2>3
<1>4. clean' \in BOOLEAN  BY <1>1 DEF TypeOK
<1> QED  BY <1>2, <1>3, <1>4, Kept

\* z is the request x, in the loop, with another error or session.
Failed(x, z) ==
    /\ SameRun(x, z) /\ z.retry = x.retry /\ z.reset = x.reset /\ z.index = x.index
    /\ z.pick = x.pick /\ z.err # "none" /\ z.bill \in {"none", "open"}

\* The next round of the loop, or the end of it.
LEMMA ContinueStep ==
  ASSUME RelayInv, NEW r \in Req, NEW z \in Request, req[r].pc \in {"attempt", "wait"},
         Failed(req[r], z), Continue(r, z)
  PROVE  RelayInv'
<1>1. TypeOK /\ Sound(req[r]) /\ req[r] \in Request  BY DEF RelayInv, SlotsAreBalanced, TypeOK
<1> DEFINE x == req[r]
           y == IncreaseRetry(z)
<1>2. Placed(x) /\ Attempts(x) /\ Selected(x)  BY <1>1 DEF Sound
<1>3. /\ y \in Request /\ SameRun(x, y) /\ y.reset = FALSE /\ y.index = x.index
      /\ y.retry = (IF x.reset THEN x.retry ELSE x.retry + 1)
      /\ y.pick = x.pick /\ y.err = z.err /\ y.bill = z.bill
  <2>1. x.retry \in 0 .. RetryTimes /\ x.reset \in BOOLEAN
    <3>1. x.retry \in Nat /\ x.reset \in BOOLEAN  BY <1>1, Fields
    <3>2. x.retry <= RetryTimes  BY <1>2 DEF Placed
    <3> QED  BY <3>1, <3>2, Constants
  <2>2. CASE x.reset
    <3>1. y = [z EXCEPT !.reset = FALSE]  BY <2>2 DEF IncreaseRetry, Failed
    <3> QED  BY <2>1, <2>2, <3>1 DEF Failed, SameRun, Request
  <2>3. CASE ~x.reset
    <3>1. y = [z EXCEPT !.retry = z.retry + 1]  BY <2>3 DEF IncreaseRetry, Failed
    <3>2. x.retry + 1 \in 0 .. RetryTimes + 1  BY <2>1, Constants
    <3>3. z.retry + 1 \in 0 .. RetryTimes + 1  BY <3>2 DEF Failed
    <3>4. y \in Request  BY <3>1, <3>3 DEF Request
    <3>5. /\ y.retry = z.retry + 1 /\ y.kind = z.kind /\ y.source = z.source /\ y.used = z.used
          /\ y.dist = z.dist /\ y.reset = z.reset /\ y.index = z.index /\ y.pick = z.pick
          /\ y.err = z.err /\ y.bill = z.bill
      BY <3>1 DEF Request
    <3> QED  BY <2>1, <2>3, <3>4, <3>5 DEF Failed, SameRun
  <2> QED  BY <2>2, <2>3
<1>4. IF y.retry <= RetryTimes
      THEN /\ Set(r, Select(y))
           /\ count' = Minus(count, Own(req[r]))
           /\ UNCHANGED <<memoryCache, clean>>
      ELSE End(r, y)
  BY DEF Continue
<1> HIDE DEF y
<1>5. CASE y.retry <= RetryTimes
  <2> DEFINE w == Select(y)
  <2>1. /\ w \in Request /\ w.pc = "select" /\ w.start = y.index /\ w.i = y.index
        /\ w.index = y.index /\ w.retry = y.retry /\ w.reset = FALSE /\ SameRun(x, w)
        /\ w.pick = x.pick /\ w.bill = y.bill
    BY <1>3 DEF Select, Request, SameRun
  <2> HIDE DEF w
  <2>2. /\ x.retry \in Nat /\ x.used \in Nat /\ x.index \in Nat /\ x.index >= 1
        /\ x.reset \in BOOLEAN /\ x.pick.retry \in Nat /\ x.pick.group \in Nat
        /\ x.index - 1 \in Nat
    BY <1>1, Fields, Constants
  <2>3. Placed(w)
    BY <1>2, <1>3, <1>5, <2>1, <2>2 DEF Placed, Failed, SameRun
  <2>4. Attempts(w)
    <3>1. w.used <= Full(x.index - 1) + w.retry
      <4>1. Full(x.index - 1) \in Nat  BY <2>2, FullStep
      <4> QED  BY <1>2, <1>3, <2>1, <2>2, <4>1 DEF Attempts, SameRun
    <3> QED  BY <1>2, <1>3, <2>1, <3>1 DEF Attempts, Bounded, SameRun
  <2>5. Selected(w)  BY <1>2, <1>3, <2>1, <2>2 DEF Selected
  <2>6. Sound(w)  BY <2>3, <2>4, <2>5 DEF Sound
  <2> QED  BY <1>4, <1>5, <2>1, <2>6, BetweenStep DEF w, SameRun
<1>6. CASE ~(y.retry <= RetryTimes)
  <2>1. End(r, y)  BY <1>4, <1>6
  <2> QED  BY <1>3, <2>1, EndStep DEF Failed
<1> QED  BY <1>5, <1>6

-----------------------------------------------------------------------------
(* Initial states *)

LEMMA RelayInit == Init => RelayInv
<1> SUFFICES ASSUME Init PROVE RelayInv
  OBVIOUS
<1>0. memoryCache \in BOOLEAN /\ count = [c \in Chan |-> 0] /\ clean = TRUE  BY DEF Init
<1>1. PICK k \in [Req -> {"relay", "task"}], s \in [Req -> Sources] :
        req = [r \in Req |-> [NewRequest EXCEPT !.kind = k[r], !.source = s[r]]]
  BY DEF Init
<1>2. ASSUME NEW r \in Req
      PROVE  /\ req[r] \in Request /\ req[r].pc = "new" /\ req[r].retry = 0
             /\ req[r].reset = FALSE /\ req[r].index = 1 /\ req[r].used = 0
             /\ req[r].dist = NoChan /\ req[r].bill = "none" /\ req[r].pick.group = 0
  <2>1. req[r] = [NewRequest EXCEPT !.kind = k[r], !.source = s[r]]  BY <1>1
  <2>2. k[r] \in {"relay", "task"} /\ s[r] \in Sources  BY <1>1
  <2>3. req[r] \in Request  BY <2>1, <2>2, NewRequestType DEF Request
  <2> QED  BY <2>1, <2>3 DEF NewRequest
<1>3. TypeOK
  <2>1. req \in [Req -> Request]  BY <1>1, <1>2
  <2>2. count \in [Chan -> 0 .. MaxConcurrent]  BY <1>0, Constants
  <2> QED  BY <1>0, <2>1, <2>2 DEF TypeOK
<1>4. ASSUME NEW r \in Req PROVE Sound(req[r])
  <2>1. Full(1) \in Nat /\ Full(Len(AutoGroups)) \in Nat  BY FullStep, Constants
  <2> DEFINE x == req[r]
  <2>2. /\ x.pc = "new" /\ x.retry = 0 /\ x.reset = FALSE /\ x.index = 1 /\ x.used = 0
        /\ x.dist = NoChan /\ x.bill = "none" /\ x.pick.group = 0
    BY <1>2
  <2> HIDE DEF x
  <2>3. Placed(x)  BY <2>2, Constants DEF Placed
  <2>4. Attempts(x)  BY <2>1, <2>2 DEF Attempts, Bounded
  <2>5. Selected(x)  BY <2>2 DEF Selected
  <2> QED  BY <2>3, <2>4, <2>5 DEF Sound, x
<1>5. ASSUME NEW c \in Chan PROVE count[c] = Holders(c)
  <2>1. {r \in Req : req[r].pc # "done" /\ req[r].dist = c} = {}  BY <1>2, Constants
  <2>2. {r \in Req : Own(req[r]) = c} = {}  BY <1>2, Constants DEF Own
  <2>3. Holders(c) = Cardinality({}) + Cardinality({})  BY <2>1, <2>2 DEF Holders
  <2> QED  BY <1>0, <2>3, FS_EmptySet
<1>6. SessionsAreClosed  BY <1>2 DEF SessionsAreClosed
<1> QED  BY <1>3, <1>4, <1>5, <1>6 DEF RelayInv, SlotsAreBalanced

-----------------------------------------------------------------------------
(* Each action keeps the invariant. *)

LEMMA Now ==
  ASSUME RelayInv, NEW r \in Req
  PROVE  /\ TypeOK /\ req[r] \in Request /\ Sound(req[r])
         /\ Placed(req[r]) /\ Attempts(req[r]) /\ Selected(req[r]) /\ Bounded(req[r])
         /\ memoryCache \in BOOLEAN /\ clean \in BOOLEAN
         /\ count \in [Chan -> 0 .. MaxConcurrent]
BY DEF RelayInv, SlotsAreBalanced, TypeOK, Sound, Attempts

\* A slot is taken.
LEMMA PlusStep ==
  ASSUME RelayInv, NEW c \in Chan, Free(c), count' = Plus(c)
  PROVE  /\ count' \in [Chan -> 0 .. MaxConcurrent]
         /\ \A d \in Chan : count'[d] = count[d] + (IF c = d THEN 1 ELSE 0)
<1>1. count \in [Chan -> 0 .. MaxConcurrent]  BY DEF RelayInv, SlotsAreBalanced, TypeOK
<1>2. count[c] + 1 \in 0 .. MaxConcurrent  BY <1>1, Constants DEF Free
<1>3. count' = [count EXCEPT ![c] = count[c] + 1]  BY DEF Plus
<1> QED  BY <1>1, <1>2, <1>3

LEMMA DistributeStep == ASSUME RelayInv, NEW r \in Req, Distribute(r) PROVE RelayInv'
<1> DEFINE x == req[r]
<1>1. /\ x \in Request /\ Placed(x) /\ Attempts(x) /\ Selected(x) /\ Bounded(x)
      /\ count \in [Chan -> 0 .. MaxConcurrent] /\ clean \in BOOLEAN
  BY Now
<1>2. x.pc = "new" /\ UNCHANGED <<memoryCache, clean>>  BY DEF Distribute
<1>3. /\ x.used = 0 /\ x.retry = 0 /\ x.reset = FALSE /\ x.pick.group = 0 /\ x.index = 1
      /\ x.dist = NoChan /\ x.bill \in {"none", "open"}
  BY <1>1, <1>2, Fields DEF Placed
<1>4. Full(0) \in Nat /\ Full(1) \in Nat /\ Full(Len(AutoGroups)) \in Nat
  BY FullStep, Constants
<1>5. CASE Set(r, Select(x)) /\ UNCHANGED count
  <2> DEFINE y == Select(x)
  <2>1. /\ y \in Request /\ y.pc = "select" /\ y.start = 1 /\ y.i = 1 /\ y.index = 1
        /\ y.retry = 0 /\ y.reset = FALSE /\ y.used = 0 /\ y.source = x.source
        /\ y.pick = x.pick /\ y.bill = x.bill /\ y.dist = NoChan
    BY <1>1, <1>3 DEF Select, Request
  <2> HIDE DEF y
  <2>2. Placed(y)  BY <1>3, <2>1, Constants DEF Placed
  <2>3. Attempts(y)  BY <1>4, <2>1 DEF Attempts, Bounded
  <2>4. Selected(y)  BY <1>3, <2>1 DEF Selected
  <2>5. count' = Minus(count, Own(req[r]))  BY <1>2, <1>5 DEF Own, Minus
  <2> QED  BY <1>2, <1>3, <1>5, <2>1, <2>2, <2>3, <2>4, <2>5, BetweenStep DEF y, Sound
<1>6. ASSUME NEW c \in Chan, NEW p \in BOOLEAN, Free(c), count' = Plus(c),
             Set(r, [x EXCEPT !.pc = "enter", !.dist = c, !.pinned = p])
      PROVE  RelayInv'
  <2> DEFINE y == [x EXCEPT !.pc = "enter", !.dist = c, !.pinned = p]
  <2>1. /\ y \in Request /\ y.pc = "enter" /\ y.index = x.index
        /\ y.retry = 0 /\ y.reset = FALSE /\ y.used = 0 /\ y.source = x.source
        /\ y.pick = x.pick /\ y.bill = x.bill /\ y.dist = c
    BY <1>1, <1>3 DEF Request
  <2>2. Set(r, y)  BY <1>6
  <2> HIDE DEF y
  <2>3. Placed(y)  BY <1>1, <1>3, <2>1, Constants DEF Placed
  <2>4. Attempts(y)  BY <1>4, <2>1 DEF Attempts, Bounded
  <2>5. Selected(y)  BY <1>3, <2>1 DEF Selected
  <2>6. /\ count' \in [Chan -> 0 .. MaxConcurrent]
        /\ \A d \in Chan : count'[d] = count[d] + (IF c = d THEN 1 ELSE 0)
    BY <1>6, PlusStep
  <2>7. \A d \in Chan : Held(x, d) = 0 /\ Held(y, d) = (IF c = d THEN 1 ELSE 0)
    BY <1>2, <1>3, <2>1, Constants DEF Held, Own
  <2>8. \A d \in Chan : count[d] \in Nat  BY <1>1, Constants
  <2>9. \A d \in Chan : count'[d] = count[d] - Held(x, d) + Held(y, d)
    BY <2>6, <2>7, <2>8
  <2> QED  BY <1>1, <1>2, <2>1, <2>2, <2>3, <2>4, <2>5, <2>6, <2>9, Kept DEF Sound
<1>7. CASE UNCHANGED count /\ Set(r, Finished([x EXCEPT !.err = "nochannel"]))
  <2> DEFINE z == [x EXCEPT !.err = "nochannel"]
  <2>1. /\ z \in Request /\ z.used = x.used /\ z.source = x.source /\ z.err = "nochannel"
        /\ z.bill = x.bill
    BY <1>1 DEF Request, Errors
  <2>2. Set(r, Finished(z))  BY <1>7
  <2> HIDE DEF z
  <2>3. Bounded(z)  BY <1>1, <2>1 DEF Bounded
  <2> DEFINE y == Finished(z)
  <2>4. /\ y \in Request /\ Sound(y) /\ y.pc = "done" /\ y.bill = Refunded(z) /\ y.err = z.err
        /\ \A c \in Chan : Held(y, c) = 0
    BY <2>1, <2>3, FinishedState
  <2>5. Closed(y)  BY <1>3, <2>1, <2>4 DEF Closed, Refunded
  <2> HIDE DEF y
  <2>6. \A d \in Chan : Held(x, d) = 0  BY <1>2, <1>3, Constants DEF Held, Own
  <2>7. \A d \in Chan : count'[d] = count[d] - Held(x, d) + Held(y, d)
    <3>1. \A d \in Chan : count[d] \in Nat  BY <1>1, Constants
    <3> QED  BY <1>7, <2>4, <2>6, <3>1
  <2> QED  BY <1>1, <1>2, <1>7, <2>2, <2>4, <2>5, <2>7, Kept DEF y
<1> QED  BY <1>5, <1>6, <1>7 DEF Distribute

\* A request with another error.
LEMMA WithOnlyError ==
  ASSUME NEW x \in Request, NEW e \in Errors
  PROVE  LET z == [x EXCEPT !.err = e] IN
         /\ z \in Request /\ SameRun(x, z) /\ z.err = e /\ z.bill = x.bill
BY DEF Request, SameRun

\* The request ends with an error.
LEMMA ErrorEnds ==
  ASSUME RelayInv, NEW r \in Req, req[r].pc # "done", NEW e \in Errors \ {"none"},
         End(r, [req[r] EXCEPT !.err = e])
  PROVE  RelayInv'
<1> DEFINE z == [req[r] EXCEPT !.err = e]
<1>1. req[r] \in Request /\ Placed(req[r])  BY Now
<1>2. z \in Request /\ SameRun(req[r], z) /\ z.err = e /\ z.bill = req[r].bill
  BY <1>1, WithOnlyError
<1>3. z.bill \in {"none", "open"}  BY <1>1, <1>2 DEF Placed
<1> HIDE DEF z
<1> QED  BY <1>2, <1>3, EndStep DEF z

LEMMA EnterStep == ASSUME RelayInv, NEW r \in Req, Enter(r) PROVE RelayInv'
<1> DEFINE x == req[r]
<1>1. /\ x \in Request /\ Placed(x) /\ Attempts(x) /\ Selected(x) /\ Bounded(x)
      /\ count \in [Chan -> 0 .. MaxConcurrent] /\ clean \in BOOLEAN
  BY Now
<1>2. x.pc = "enter"  BY DEF Enter
<1>3. CASE End(r, [x EXCEPT !.err = "other"])
  BY <1>2, <1>3, ErrorEnds DEF Errors
<1>4. ASSUME NEW b \in IF x.kind = "relay" THEN {"none", "open"} ELSE {"none"},
             Set(r, [x EXCEPT !.pc = "attempt", !.chan = x.dist, !.used = 1, !.bill = b]),
             UNCHANGED <<memoryCache, count, clean>>
      PROVE  RelayInv'
  <2> DEFINE y == [x EXCEPT !.pc = "attempt", !.chan = x.dist, !.used = 1, !.bill = b]
  <2>1. b \in {"none", "open"}  BY <1>4
  <2>2. /\ y \in Request /\ y.pc = "attempt" /\ y.used = 1 /\ y.bill = b /\ y.retry = x.retry
        /\ y.reset = x.reset /\ y.index = x.index /\ y.source = x.source /\ y.pick = x.pick
        /\ y.dist = x.dist
    BY <1>1, <2>1 DEF Request
  <2>3. Set(r, y)  BY <1>4
  <2> HIDE DEF y
  <2>4. x.retry = 0 /\ x.reset = FALSE /\ x.index - 1 \in Nat
    BY <1>1, <1>2, Fields DEF Placed
  <2>5. Placed(y)  BY <1>1, <2>1, <2>2, <2>4, Constants DEF Placed
  <2>6. Attempts(y)
    <3>1. Full(1) = Full(0) + RetryTimes + 1 /\ Full(0) \in Nat  BY FullStep
    <3>2. Full(1) \in Nat /\ Full(1) >= 1  BY <3>1, Constants
    <3>3. Full(1) <= Full(Len(AutoGroups)) /\ Full(Len(AutoGroups)) \in Nat  BY FullStep, Constants
    <3>4. Full(x.index - 1) \in Nat  BY <2>4, FullStep
    <3>5. 1 <= Full(Len(AutoGroups))  BY <3>2, <3>3
    <3>6. 1 <= Full(x.index - 1) + 1  BY <3>4
    <3> QED  BY <2>2, <2>4, <3>2, <3>5, <3>6 DEF Attempts, Bounded
  <2>7. Selected(y)  BY <1>1, <2>2 DEF Selected
  <2>8. \A d \in Chan : Held(y, d) = Held(x, d) /\ Held(x, d) \in Nat
    BY <1>2, <2>2, Constants DEF Held, Own
  <2>9. \A d \in Chan : count'[d] = count[d] - Held(x, d) + Held(y, d)
    <3>1. \A d \in Chan : count[d] \in Nat  BY <1>1, Constants
    <3> QED  BY <1>4, <2>8, <3>1
  <2> QED  BY <1>1, <1>4, <2>2, <2>3, <2>5, <2>6, <2>7, <2>9, Kept DEF Sound
<1> QED  BY <1>3, <1>4 DEF Enter

LEMMA NoneInGroupStep == ASSUME RelayInv, NEW r \in Req, NoneInGroup(r) PROVE RelayInv'
<1> DEFINE x == req[r]
           y == NextGroup(x)
<1>1. x \in Request /\ Placed(x) /\ Attempts(x) /\ Selected(x)  BY Now
<1>2. /\ x.pc = "select" /\ x.source # "plain" /\ x.i <= Len(AutoGroups) /\ Set(r, y)
      /\ UNCHANGED <<memoryCache, count, clean>>
  BY DEF NoneInGroup
<1>3. /\ x.i \in 1 .. Len(AutoGroups) + 1 /\ x.index \in 1 .. Len(AutoGroups) + 1
      /\ x.start \in 1 .. Len(AutoGroups) + 1 /\ x.i - 1 \in Nat /\ x.used \in Nat
      /\ x.retry \in Nat /\ x.pick.group \in 0 .. Len(AutoGroups)
      /\ x.reset \in BOOLEAN
  BY <1>1, Fields
<1>4. x.i + 1 \in 1 .. Len(AutoGroups) + 1  BY <1>2, <1>3, Constants
<1>5. /\ y \in Request /\ y.pc = "select" /\ y.i = x.i + 1 /\ y.index = x.i + 1 /\ y.retry = 0
      /\ y.reset = x.reset /\ y.used = x.used /\ y.source = x.source /\ y.start = x.start
      /\ y.pick = x.pick /\ y.bill = x.bill /\ y.dist = x.dist
  <2>1. y = [x EXCEPT !.i = x.i + 1, !.index = x.i + 1, !.retry = 0]  BY DEF NextGroup
  <2>2. 0 \in 0 .. RetryTimes + 1  BY Constants
  <2>3. y \in Request  BY <1>1, <1>4, <2>1, <2>2 DEF Request
  <2> QED  BY <1>1, <1>2, <2>1, <2>3 DEF Request
<1> HIDE DEF y
<1>6. x.i = x.index /\ x.start <= x.i /\ ~x.reset /\ x.retry <= RetryTimes
  BY <1>1, <1>2 DEF Placed
<1>7. Placed(y)  BY <1>1, <1>2, <1>3, <1>5, <1>6, Constants DEF Placed
<1>8. Attempts(y)
  <2>0. x.i \in Nat \ {0} /\ x.i \in Nat  BY <1>3, Constants
  <2>1. Full(x.i - 1) \in Nat /\ Full(x.i) = Full(x.i - 1) + RetryTimes + 1
    BY <2>0, FullStep
  <2>2. (x.i + 1) - 1 = x.i  BY <2>0
  <2>3. x.used <= Full(x.i - 1) + x.retry  BY <1>1, <1>2 DEF Attempts
  <2>4. x.used <= Full(x.i)  BY <1>3, <1>6, <2>1, <2>2, <2>3, Constants
  <2>5. Full(x.i) \in Nat  BY <2>0, FullStep
  <2>6. y.used <= Full(y.i - 1) + y.retry  BY <1>5, <2>2, <2>4, <2>5
  <2> QED  BY <1>1, <1>5, <2>6 DEF Attempts, Bounded
<1>9. Selected(y)  BY <1>1, <1>3, <1>5, <1>6, Constants DEF Selected
<1>10. count' = Minus(count, Own(x))  BY <1>2 DEF Own, Minus
<1> QED  BY <1>2, <1>5, <1>7, <1>8, <1>9, <1>10, BetweenStep DEF Sound

\* The session after a call is none or open.
LEMMA RateLimitedStep == ASSUME RelayInv, NEW r \in Req, RateLimited(r) PROVE RelayInv'
<1> DEFINE x == req[r]
<1>1. /\ x \in Request /\ Placed(x) /\ Attempts(x) /\ Selected(x)
      /\ count \in [Chan -> 0 .. MaxConcurrent] /\ clean \in BOOLEAN
  BY Now
<1>2. x.pc = "attempt"  BY DEF RateLimited
<1>3. PICK b \in {"none", "open"} :
        IF x.retry < RateLimitRetryTimes
        THEN /\ Set(r, [[x EXCEPT !.err = "rate", !.bill = b] EXCEPT !.pc = "wait"])
             /\ count' = Minus(count, Own(x))
             /\ UNCHANGED <<memoryCache, clean>>
        ELSE End(r, [x EXCEPT !.err = "rate", !.bill = b])
  BY DEF RateLimited
<1> DEFINE z == [x EXCEPT !.err = "rate", !.bill = b]
<1>4. /\ z \in Request /\ SameRun(x, z) /\ z.err = "rate" /\ z.bill = b
      /\ z.pc = x.pc /\ z.retry = x.retry /\ z.reset = x.reset /\ z.index = x.index
      /\ z.pick = x.pick
  BY <1>1 DEF Request, SameRun, Errors
<1>5. IF x.retry < RateLimitRetryTimes
      THEN /\ Set(r, [z EXCEPT !.pc = "wait"])
           /\ count' = Minus(count, Own(x))
           /\ UNCHANGED <<memoryCache, clean>>
      ELSE End(r, z)
  BY <1>3
<1> HIDE DEF z
<1>6. CASE x.retry < RateLimitRetryTimes
  <2> DEFINE y == [z EXCEPT !.pc = "wait"]
  <2>1. /\ y \in Request /\ y.pc = "wait" /\ y.used = x.used /\ y.source = x.source
        /\ y.dist = x.dist /\ y.err = "rate" /\ y.bill = b /\ y.retry = x.retry
        /\ y.reset = x.reset /\ y.index = x.index /\ y.pick = x.pick
    BY <1>4 DEF Request, SameRun
  <2>2. Set(r, y)  BY <1>5, <1>6
  <2> HIDE DEF y
  <2>3. Placed(y)  BY <1>1, <1>2, <2>1 DEF Placed
  <2>4. Attempts(y)  BY <1>1, <1>2, <2>1 DEF Attempts, Bounded
  <2>5. Selected(y)  BY <1>1, <2>1 DEF Selected
  <2> QED  BY <1>2, <1>5, <1>6, <2>1, <2>2, <2>3, <2>4, <2>5, BetweenStep DEF Sound
<1>7. CASE ~(x.retry < RateLimitRetryTimes)
  BY <1>2, <1>4, <1>5, <1>7, EndStep
<1> QED  BY <1>6, <1>7

\* A failed attempt is repeated, or it is the last.
LEMMA RetryStep ==
  ASSUME RelayInv, NEW r \in Req, req[r].pc = "attempt", NEW e \in Errors \ {"none"},
         NEW b \in {"none", "open"},
         \/ Continue(r, [req[r] EXCEPT !.err = e, !.bill = b])
         \/ End(r, [req[r] EXCEPT !.err = e, !.bill = b])
  PROVE  RelayInv'
<1> DEFINE z == [req[r] EXCEPT !.err = e, !.bill = b]
<1>1. req[r] \in Request  BY Now
<1>2. /\ z \in Request /\ SameRun(req[r], z) /\ z.err = e /\ z.bill = b
      /\ z.pc = req[r].pc /\ z.retry = req[r].retry /\ z.reset = req[r].reset
      /\ z.index = req[r].index /\ z.pick = req[r].pick
  BY <1>1 DEF Request, SameRun, Errors
<1>3. Continue(r, z) \/ End(r, z)  OBVIOUS
<1> HIDE DEF z
<1>4. Failed(req[r], z)  BY <1>2 DEF Failed
<1>5. CASE Continue(r, z)  BY <1>2, <1>4, <1>5, ContinueStep
<1>6. CASE End(r, z)  BY <1>2, <1>6, EndStep
<1> QED  BY <1>3, <1>5, <1>6

LEMMA FailedAttempts ==
  ASSUME RelayInv, NEW r \in Req, BodyFails(r) \/ AuthFails(r) \/ OtherError(r)
  PROVE  RelayInv'
<1>1. CASE BodyFails(r)  BY <1>1, ErrorEnds DEF BodyFails, Errors
<1>2. CASE AuthFails(r)
  <2>1. PICK b \in {"none", "open"} :
          \/ Continue(r, [req[r] EXCEPT !.err = "auth", !.bill = b])
          \/ End(r, [req[r] EXCEPT !.err = "auth", !.bill = b])
    BY <1>2 DEF AuthFails
  <2>2. req[r].pc = "attempt"  BY <1>2 DEF AuthFails
  <2> QED  BY <2>1, <2>2, RetryStep DEF Errors
<1>3. CASE OtherError(r)
  <2>1. PICK b \in {"none", "open"} :
          \/ Continue(r, [req[r] EXCEPT !.err = "other", !.bill = b])
          \/ End(r, [req[r] EXCEPT !.err = "other", !.bill = b])
    BY <1>3 DEF OtherError
  <2>2. req[r].pc = "attempt"  BY <1>3 DEF OtherError
  <2> QED  BY <2>1, <2>2, RetryStep DEF Errors
<1> QED  BY <1>1, <1>2, <1>3

LEMMA SucceedsStep == ASSUME RelayInv, NEW r \in Req, Succeeds(r) PROVE RelayInv'
<1>1. req[r] \in Request  BY Now
<1>2. req[r].pc = "attempt"  BY DEF Succeeds
<1>3. PICK b \in {"none", "open"} :
        End(r, [req[r] EXCEPT !.err = "none", !.bill = IF b = "open" THEN "settled" ELSE b])
  BY DEF Succeeds
<1>4. PICK s \in {"none", "settled"} : s = IF b = "open" THEN "settled" ELSE b  OBVIOUS
<1> DEFINE z == [req[r] EXCEPT !.err = "none", !.bill = s]
<1>5. z \in Request /\ SameRun(req[r], z) /\ z.err = "none" /\ z.bill = s
  BY <1>1 DEF Request, SameRun, Errors
<1>6. End(r, z)  BY <1>3, <1>4
<1> HIDE DEF z
<1> QED  BY <1>2, <1>5, <1>6, EndStep

LEMMA WaitedStep == ASSUME RelayInv, NEW r \in Req, Waited(r) PROVE RelayInv'
<1>1. req[r] \in Request /\ Placed(req[r])  BY Now
<1>2. req[r].pc = "wait" /\ Continue(r, req[r])  BY DEF Waited
<1>3. Failed(req[r], req[r])  BY <1>1, <1>2 DEF Failed, SameRun, Placed
<1> QED  BY <1>1, <1>2, <1>3, ContinueStep

LEMMA NoChannelStep == ASSUME RelayInv, NEW r \in Req, NoChannel(r) PROVE RelayInv'
BY ErrorEnds DEF NoChannel, Errors

\* The client is gone: the distributor's slot is all that is held.
LEMMA ClientGoneStep == ASSUME RelayInv, NEW r \in Req, ClientGone(r) PROVE RelayInv'
<1> DEFINE x == req[r]
           y == Finished(x)
<1>1. /\ x \in Request /\ Placed(x) /\ Bounded(x)
      /\ count \in [Chan -> 0 .. MaxConcurrent] /\ clean \in BOOLEAN
  BY Now
<1>2. /\ x.pc = "wait" /\ Set(r, y) /\ count' = Minus(count, x.dist)
      /\ UNCHANGED <<memoryCache, clean>>
  BY DEF ClientGone
<1>3. /\ y \in Request /\ Sound(y) /\ y.pc = "done" /\ y.bill = Refunded(x) /\ y.err = x.err
      /\ \A c \in Chan : Held(y, c) = 0
  BY <1>1, FinishedState
<1> HIDE DEF y
<1>4. Closed(y)  BY <1>1, <1>2, <1>3 DEF Closed, Refunded, Placed
<1>5. x.dist \in Chan \cup {NoChan}  BY <1>1 DEF Request
<1>6. /\ count' \in [Chan -> 0 .. MaxConcurrent]
      /\ \A d \in Chan : count[d] >= (IF x.dist = d THEN 1 ELSE 0)
                           => count'[d] = count[d] - (IF x.dist = d THEN 1 ELSE 0)
  BY <1>1, <1>2, <1>5, MinusStep
<1>7. \A d \in Chan : Held(x, d) = (IF x.dist = d THEN 1 ELSE 0)
  BY <1>2, Constants DEF Held, Own
<1>8. \A d \in Chan : count[d] >= Held(x, d) => count'[d] = count[d] - Held(x, d) + Held(y, d)
  <2>1. \A d \in Chan : count[d] \in Nat  BY <1>1, Constants
  <2> QED  BY <1>3, <1>6, <1>7, <2>1
<1> QED  BY <1>1, <1>2, <1>3, <1>4, <1>6, <1>8, Kept

LEMMA PanicsStep == ASSUME RelayInv, NEW r \in Req, Panics(r) PROVE RelayInv'
<1> DEFINE y == Finished(req[r])
<1>1. req[r] \in Request /\ Bounded(req[r]) /\ count \in [Chan -> 0 .. MaxConcurrent]  BY Now
<1>2. y \in Request /\ Sound(y)  BY <1>1, FinishedState
<1>3. Set(r, y) /\ clean' = FALSE /\ UNCHANGED <<memoryCache, count>>  BY DEF Panics
<1> HIDE DEF y
<1> QED  BY <1>1, <1>2, <1>3, Kept

-----------------------------------------------------------------------------
(* A channel is found. *)

\* The counter that selects the priority is the retry counter, for a group that
\* was searched after another one started from zero.
LEMMA Searching ==
  ASSUME NEW x \in Request, Sound(x), x.pc = "select", x.i <= Len(AutoGroups)
  PROVE  /\ x.i \in 1 .. Len(AutoGroups) /\ x.i = x.index /\ x.reset = FALSE
         /\ x.retry \in 0 .. RetryTimes /\ priorityRetry(x) = x.retry
         /\ GroupOf(x) = AutoGroups[x.i]
         /\ ChannelsOf(GroupOf(x)) \subseteq Chan
<1>1. /\ x.i \in 1 .. Len(AutoGroups) + 1 /\ x.retry \in Nat /\ x.reset \in BOOLEAN
      /\ x.start \in 1 .. Len(AutoGroups) + 1
  BY Fields
<1>2. /\ x.retry <= RetryTimes /\ x.i = x.index /\ ~x.reset
      /\ x.start < x.i => x.retry = 0
      /\ x.source = "plain" => x.index = 1
  BY DEF Sound, Placed
<1>3. x.i \in 1 .. Len(AutoGroups) /\ x.retry \in 0 .. RetryTimes  BY <1>1, <1>2, Constants
<1>4. priorityRetry(x) = x.retry  BY <1>1, <1>2, Constants DEF priorityRetry
<1>5. GroupOf(x) = AutoGroups[x.i]  BY <1>2 DEF GroupOf
<1>6. ChannelsOf(AutoGroups[x.i]) \in SUBSET Chan  BY <1>3, RelayAssumption
<1> QED  BY <1>1, <1>2, <1>3, <1>4, <1>5, <1>6

\* What the selection leaves for the next retry: the same group, or the next one
\* after the last retry of this one.
LEMMA PreparedState ==
  ASSUME NEW x \in Request, Sound(x), x.pc = "select", x.i <= Len(AutoGroups)
  PROVE  LET p == Prepared(x) IN
         /\ p \in Request /\ SameRun(x, p) /\ p.pc = x.pc /\ p.bill = x.bill /\ p.i = x.i
         /\ \/ p.reset = FALSE /\ p.index = x.i /\ p.retry = x.retry
            \/ /\ p.reset = TRUE /\ p.index = x.i + 1 /\ p.retry = 0
               /\ x.retry = RetryTimes /\ x.source = "cross"
<1>1. /\ x.i \in 1 .. Len(AutoGroups) /\ x.i = x.index /\ x.reset = FALSE
      /\ x.retry \in 0 .. RetryTimes /\ priorityRetry(x) = x.retry
  BY Searching
<1> DEFINE p == Prepared(x)
<1>2. CASE x.source = "plain"
  <2>1. p = x  BY <1>2 DEF Prepared
  <2> QED  BY <1>1, <2>1 DEF SameRun
<1>3. CASE x.source = "cross" /\ x.retry >= RetryTimes
  <2>1. p = [x EXCEPT !.index = x.i + 1, !.retry = 0, !.reset = TRUE]
    BY <1>1, <1>3 DEF Prepared
  <2>2. x.i + 1 \in 1 .. Len(AutoGroups) + 1 /\ 0 \in 0 .. RetryTimes + 1
        /\ x.retry = RetryTimes
    BY <1>1, <1>3, Constants
  <2>3. p \in Request  BY <2>1, <2>2 DEF Request
  <2>4. /\ p.index = x.i + 1 /\ p.retry = 0 /\ p.reset = TRUE /\ p.pc = x.pc /\ p.bill = x.bill
        /\ p.i = x.i /\ SameRun(x, p)
    BY <2>1 DEF Request, SameRun
  <2> QED  BY <1>3, <2>2, <2>3, <2>4
<1>4. CASE x.source # "plain" /\ ~(x.source = "cross" /\ x.retry >= RetryTimes)
  <2>1. p = [x EXCEPT !.index = x.i]  BY <1>1, <1>4 DEF Prepared
  <2>2. p \in Request  BY <1>1, <2>1 DEF Request
  <2>3. /\ p.index = x.i /\ p.retry = x.retry /\ p.reset = x.reset /\ p.pc = x.pc
        /\ p.bill = x.bill /\ p.i = x.i /\ SameRun(x, p)
    BY <2>1 DEF Request, SameRun
  <2> QED  BY <1>1, <2>2, <2>3
<1> QED  BY <1>2, <1>3, <1>4

LEMMA PickedState ==
  ASSUME NEW x \in Request, Sound(x), x.pc = "select", x.i <= Len(AutoGroups), NEW c \in Chan,
         c \in ChannelsOf(AutoGroups[x.i])
  PROVE  \E y \in Request :
           /\ y = Picked(x, c) /\ SameRun(x, y) /\ y.bill = x.bill /\ y.chan = c
           /\ y.pick.group = x.i /\ y.pick.retry = x.retry
           /\ y.pick.level = Level(AutoGroups[x.i], x.retry)
           /\ \/ y.reset = FALSE /\ y.index = x.i /\ y.retry = x.retry
              \/ /\ y.reset = TRUE /\ y.index = x.i + 1 /\ y.retry = 0
                 /\ x.retry = RetryTimes /\ x.source = "cross"
<1>1. /\ x.i \in 1 .. Len(AutoGroups) /\ x.retry \in 0 .. RetryTimes
      /\ priorityRetry(x) = x.retry /\ GroupOf(x) = AutoGroups[x.i]
  BY Searching
<1>2. PICK p \in Request :
        /\ p = Prepared(x) /\ SameRun(x, p) /\ p.bill = x.bill
        /\ \/ p.reset = FALSE /\ p.index = x.i /\ p.retry = x.retry
           \/ /\ p.reset = TRUE /\ p.index = x.i + 1 /\ p.retry = 0
              /\ x.retry = RetryTimes /\ x.source = "cross"
  BY PreparedState
<1>3. PICK q : q = [group |-> x.i, level |-> Level(AutoGroups[x.i], x.retry), retry |-> x.retry]
  OBVIOUS
<1>4. q \in [group : 0 .. Len(AutoGroups), level : Nat, retry : 0 .. RetryTimes]
  <2>0. x.retry \in Nat  BY <1>1, Constants
  <2>1. Level(AutoGroups[x.i], x.retry) \in Nat  BY <1>1, <2>0, Levels
  <2>2. x.i \in 0 .. Len(AutoGroups)  BY <1>1, Constants
  <2> QED  BY <1>1, <1>3, <2>1, <2>2
<1> DEFINE y == Picked(x, c)
<1>5. y = [p EXCEPT !.chan = c, !.i = 1, !.start = 1, !.pick = q]
  BY <1>1, <1>2, <1>3 DEF Picked
<1>6. 1 \in 1 .. Len(AutoGroups) + 1  BY Constants
<1>7. y \in Request
  <2>1. p \in Request  BY <1>2
  <2> HIDE DEF y
  <2>2. [p EXCEPT !.pick = q] \in Request  BY <1>4, <2>1 DEF Request
  <2>3. [[p EXCEPT !.pick = q] EXCEPT !.chan = c, !.i = 1, !.start = 1] \in Request
    BY <1>6, <2>2 DEF Request
  <2>4. y = [[p EXCEPT !.pick = q] EXCEPT !.chan = c, !.i = 1, !.start = 1]
    BY <1>5, <2>1 DEF Request
  <2> QED  BY <2>3, <2>4
<1>8. /\ y.chan = c /\ y.pick = q /\ y.bill = p.bill /\ y.reset = p.reset /\ y.index = p.index
      /\ y.retry = p.retry /\ SameRun(p, y)
  BY <1>2, <1>5 DEF Request, SameRun
<1> HIDE DEF y
<1>9. SameRun(x, y)  BY <1>2, <1>8 DEF SameRun
<1>10. y.pick.group = x.i /\ y.pick.retry = x.retry
       /\ y.pick.level = Level(AutoGroups[x.i], x.retry)
  BY <1>3, <1>8
<1>11. y = Picked(x, c)  BY DEF y
<1> QED  BY <1>2, <1>7, <1>8, <1>9, <1>10, <1>11

\* The attempt after a selection is within what the groups so far allow.
LEMMA OneMoreAttempt ==
  ASSUME NEW x \in Request, Sound(x), x.pc = "select", x.i <= Len(AutoGroups)
  PROVE  /\ x.used + 1 <= Full(x.i - 1) + x.retry + 1
         /\ x.used + 1 <= Full(x.i)
         /\ x.used + 1 <= Full(IF x.source = "plain" THEN 1 ELSE Len(AutoGroups))
<1>1. x.i \in 1 .. Len(AutoGroups) /\ x.i = x.index /\ x.retry \in 0 .. RetryTimes
  BY Searching
<1>2. x.i \in Nat \ {0} /\ x.i \in Nat /\ x.used \in Nat  BY <1>1, Fields, Constants
<1>3. Full(x.i - 1) \in Nat /\ Full(x.i) = Full(x.i - 1) + RetryTimes + 1  BY <1>2, FullStep
<1>4. x.used <= Full(x.i - 1) + x.retry  BY DEF Sound, Attempts
<1>5. x.used + 1 <= Full(x.i - 1) + x.retry + 1 /\ x.used + 1 <= Full(x.i)
  BY <1>1, <1>2, <1>3, <1>4, Constants
<1>6. Full(x.i) <= Full(Len(AutoGroups)) /\ Full(Len(AutoGroups)) \in Nat /\ Full(x.i) \in Nat
  BY <1>1, <1>2, FullStep, Constants
<1>7. x.source = "plain" => x.i = 1  BY <1>1 DEF Sound, Placed
<1> QED  BY <1>2, <1>5, <1>6, <1>7

LEMMA FoundStep == ASSUME RelayInv, NEW r \in Req, Found(r) PROVE RelayInv'
<1> DEFINE x == req[r]
<1>1. /\ x \in Request /\ Sound(x) /\ Placed(x) /\ Attempts(x) /\ Selected(x) /\ Bounded(x)
      /\ count \in [Chan -> 0 .. MaxConcurrent] /\ clean \in BOOLEAN /\ memoryCache \in BOOLEAN
  BY Now
<1>2. x.pc = "select" /\ x.i <= Len(AutoGroups)  BY DEF Found
<1>3. PICK c \in Target(GroupOf(x), Level(GroupOf(x), priorityRetry(x))) :
        /\ Taken(c)
        /\ \/ /\ x.used = 0
              /\ Set(r, [Picked(x, c) EXCEPT !.pc = "enter", !.dist = c, !.retry = 0,
                                             !.reset = FALSE])
              /\ UNCHANGED <<memoryCache, clean>>
           \/ /\ x.used > 0
              /\ Set(r, [Picked(x, c) EXCEPT !.pc = "attempt", !.used = @ + 1])
              /\ UNCHANGED <<memoryCache, clean>>
  BY DEF Found
<1>4. c \in Chan /\ c \in ChannelsOf(AutoGroups[x.i])
  <2>1. c \in ChannelsOf(GroupOf(x))  BY <1>3 DEF Target
  <2> QED  BY <1>1, <1>2, <2>1, Searching
<1>5. PICK p \in Request :
        /\ p = Picked(x, c) /\ SameRun(x, p) /\ p.bill = x.bill /\ p.chan = c
        /\ p.pick.group = x.i /\ p.pick.retry = x.retry
        /\ p.pick.level = Level(AutoGroups[x.i], x.retry)
        /\ \/ p.reset = FALSE /\ p.index = x.i /\ p.retry = x.retry
           \/ /\ p.reset = TRUE /\ p.index = x.i + 1 /\ p.retry = 0
              /\ x.retry = RetryTimes /\ x.source = "cross"
  BY <1>1, <1>2, <1>4, PickedState
<1>6. /\ x.i \in 1 .. Len(AutoGroups) /\ x.i = x.index /\ x.retry \in 0 .. RetryTimes
      /\ x.reset = FALSE /\ x.i \in Nat \ {0} /\ x.i \in Nat /\ x.used \in Nat
  <2>1. /\ x.i \in 1 .. Len(AutoGroups) /\ x.i = x.index /\ x.retry \in 0 .. RetryTimes
        /\ x.reset = FALSE
    BY <1>1, <1>2, Searching
  <2>2. x.used \in Nat  BY <1>1, Fields
  <2> QED  BY <2>1, <2>2, Constants
<1>7. /\ count' \in [Chan -> 0 .. MaxConcurrent]
      /\ memoryCache => \A d \in Chan : count'[d] = count[d] + (IF c = d THEN 1 ELSE 0)
  BY <1>1, <1>3, <1>4, PlusStep DEF Taken
<1>8. \A d \in Chan : count[d] \in Nat  BY <1>1, Constants
<1>9. x.bill \in {"none", "open"} /\ (x.used = 0 => x.dist = NoChan /\ x.retry = 0)
      /\ (x.source = "plain" => x.index = 1)
  BY <1>1, <1>2 DEF Placed
<1>10. CASE x.used = 0 /\ Set(r, [p EXCEPT !.pc = "enter", !.dist = c, !.retry = 0, !.reset = FALSE])
            /\ UNCHANGED <<memoryCache, clean>>
  <2> DEFINE y == [p EXCEPT !.pc = "enter", !.dist = c, !.retry = 0, !.reset = FALSE]
  <2>1. p \in Request /\ SameRun(x, p)  BY <1>5
  <2>2. 0 \in 0 .. RetryTimes + 1  BY Constants
  <2>3. y \in Request  BY <1>4, <2>1, <2>2 DEF Request
  <2>4. /\ y.pc = "enter" /\ y.dist = c /\ y.retry = 0 /\ y.reset = FALSE /\ y.used = p.used
        /\ y.source = p.source /\ y.index = p.index /\ y.bill = p.bill /\ y.pick = p.pick
    BY <2>1 DEF Request
  <2>5. Set(r, y) /\ UNCHANGED <<memoryCache, clean>>  BY <1>10
  <2> HIDE DEF y
  <2>6. Placed(y)  BY <1>5, <1>6, <1>9, <1>10, <2>4, Constants DEF Placed, SameRun
  <2>7. Attempts(y)  BY <1>1, <1>5, <2>4 DEF Attempts, Bounded, SameRun
  <2>8. Selected(y)
    <3>1. x.i <= p.index /\ (x.i = p.index => p.reset = FALSE)  BY <1>5, <1>6
    <3> QED  BY <1>5, <1>9, <1>10, <2>4, <3>1 DEF Selected
  <2>9. \A d \in Chan : Held(x, d) = 0 /\ Held(y, d) = (IF c = d THEN 1 ELSE 0)
    BY <1>2, <1>9, <1>10, <2>4, Constants DEF Held, Own
  <2>10. memoryCache => \A d \in Chan : count'[d] = count[d] - Held(x, d) + Held(y, d)
    BY <1>7, <1>8, <2>9
  <2> QED  BY <1>1, <1>7, <2>3, <2>4, <2>5, <2>6, <2>7, <2>8, <2>10, Kept DEF Sound
<1>11. CASE x.used > 0 /\ Set(r, [p EXCEPT !.pc = "attempt", !.used = @ + 1])
            /\ UNCHANGED <<memoryCache, clean>>
  <2> DEFINE y == [p EXCEPT !.pc = "attempt", !.used = @ + 1]
  <2>1. p \in Request /\ SameRun(x, p)  BY <1>5
  <2>2. p.used + 1 \in Nat  BY <1>6, <2>1 DEF SameRun
  <2>3. y = [p EXCEPT !.pc = "attempt", !.used = p.used + 1]  OBVIOUS
  <2>4. Set(r, y) /\ UNCHANGED <<memoryCache, clean>>  BY <1>11
  <2> HIDE DEF y
  <2>5. y \in Request  BY <2>1, <2>2, <2>3 DEF Request
  <2>6. /\ y.pc = "attempt" /\ y.dist = p.dist /\ y.retry = p.retry /\ y.reset = p.reset
        /\ y.used = p.used + 1 /\ y.source = p.source /\ y.index = p.index /\ y.bill = p.bill
        /\ y.pick = p.pick /\ y.chan = p.chan
    BY <2>1, <2>3 DEF Request
  <2>7. y.used = x.used + 1 /\ y.source = x.source /\ y.dist = x.dist  BY <2>1, <2>6 DEF SameRun
  <2>8. Placed(y)
    <3>1. y.retry <= RetryTimes /\ (y.source = "plain" => y.index = 1 /\ ~y.reset)
      BY <1>5, <1>6, <1>9, <2>6, <2>7, Constants
    <3> QED  BY <1>5, <1>6, <1>9, <2>6, <2>7, <3>1 DEF Placed
  <2>9. Attempts(y)
    <3>1. /\ x.used + 1 <= Full(x.i - 1) + x.retry + 1 /\ x.used + 1 <= Full(x.i)
          /\ x.used + 1 <= Full(IF x.source = "plain" THEN 1 ELSE Len(AutoGroups))
      BY <1>1, <1>2, OneMoreAttempt
    <3>2. Bounded(y)  BY <2>7, <3>1 DEF Bounded
    <3>3. y.used <= Full(y.index - 1) + (IF y.reset THEN 0 ELSE y.retry + 1)
      <4>1. CASE p.reset = FALSE /\ p.index = x.i /\ p.retry = x.retry
        <5>1. y.index = x.i /\ y.reset = FALSE /\ y.retry = x.retry  BY <2>6, <4>1
        <5>2. Full(x.i - 1) \in Nat  BY <1>6, FullStep
        <5>3. Full(x.i - 1) + x.retry + 1 = Full(x.i - 1) + (x.retry + 1)  BY <1>6, <5>2, Constants
        <5> QED  BY <2>7, <3>1, <5>1, <5>3
      <4>2. CASE p.reset = TRUE /\ p.index = x.i + 1
        <5>1. y.index - 1 = x.i /\ y.reset = TRUE  BY <1>6, <2>6, <4>2
        <5>2. Full(x.i) \in Nat  BY <1>6, FullStep
        <5> QED  BY <2>7, <3>1, <5>1, <5>2
      <4> QED  BY <1>5, <4>1, <4>2
    <3> QED  BY <2>6, <3>2, <3>3 DEF Attempts
  <2>10. Selected(y)
    <3>1. x.i <= p.index /\ (x.i = p.index => p.reset = FALSE /\ p.retry = x.retry)
      BY <1>5, <1>6
    <3>2. x.retry <= x.retry  BY <1>6, Constants
    <3> QED  BY <1>5, <2>6, <3>1, <3>2 DEF Selected
  <2>11. \A d \in Chan : /\ Held(x, d) = (IF x.dist = d THEN 1 ELSE 0)
                         /\ Held(y, d) = (IF x.dist = d THEN 1 ELSE 0) + (IF c = d THEN 1 ELSE 0)
    <3>1. y.used > 1 /\ y.chan = c  BY <1>5, <1>6, <1>11, <2>6, <2>7
    <3>2. Own(x) = NoChan /\ Own(y) = c  BY <1>2, <2>6, <3>1 DEF Own
    <3> QED  BY <1>2, <2>6, <2>7, <3>2, Constants DEF Held
  <2>12. memoryCache => \A d \in Chan : count'[d] = count[d] - Held(x, d) + Held(y, d)
    BY <1>7, <1>8, <2>11
  <2> QED  BY <1>1, <1>7, <2>4, <2>5, <2>6, <2>8, <2>9, <2>10, <2>12, Kept DEF Sound
<1> QED  BY <1>3, <1>5, <1>10, <1>11

LEMMA FoundWithoutKeyStep == ASSUME RelayInv, NEW r \in Req, FoundWithoutKey(r) PROVE RelayInv'
<1> DEFINE x == req[r]
<1>1. /\ x \in Request /\ Sound(x) /\ Bounded(x) /\ count \in [Chan -> 0 .. MaxConcurrent]
      /\ memoryCache \in BOOLEAN
  BY Now
<1>2. /\ x.pc = "select" /\ x.i <= Len(AutoGroups) /\ clean' = FALSE /\ UNCHANGED memoryCache
  BY DEF FoundWithoutKey
<1>3. PICK c \in Target(GroupOf(x), Level(GroupOf(x), priorityRetry(x))) :
        /\ memoryCache => Free(c)
        /\ Set(r, Ended([Prepared(x) EXCEPT !.err = "nochannel"]))
        /\ count' = Minus(IF memoryCache THEN Plus(c) ELSE count, x.dist)
  BY DEF FoundWithoutKey
<1>4. c \in Chan /\ c \in ChannelsOf(AutoGroups[x.i])
  <2>1. c \in ChannelsOf(GroupOf(x))  BY <1>3 DEF Target
  <2> QED  BY <1>1, <1>2, <2>1, Searching
<1>5. PICK p \in Request : p = Prepared(x) /\ SameRun(x, p)  BY <1>1, <1>2, PreparedState
<1> DEFINE z == [p EXCEPT !.err = "nochannel"]
<1>6. z \in Request /\ SameRun(p, z)
  BY <1>5, WithOnlyError DEF Errors
<1>7. Set(r, Ended(z))  BY <1>3, <1>5
<1> HIDE DEF z
<1>8. Bounded(z)  BY <1>1, <1>5, <1>6 DEF Bounded, SameRun
<1> DEFINE y == Ended(z)
<1>9. y \in Request /\ Sound(y)  BY <1>6, <1>8, EndedState
<1> HIDE DEF y
<1>10. count' \in [Chan -> 0 .. MaxConcurrent]
  <2>1. (IF memoryCache THEN Plus(c) ELSE count) \in [Chan -> 0 .. MaxConcurrent]
    <3>1. CASE memoryCache
      <4>1. count[c] + 1 \in 0 .. MaxConcurrent  BY <1>1, <1>3, <1>4, <3>1, Constants DEF Free
      <4> QED  BY <1>1, <1>4, <3>1, <4>1 DEF Plus
    <3>2. CASE ~memoryCache  BY <1>1, <3>2
    <3> QED  BY <3>1, <3>2
  <2>2. x.dist \in Chan \cup {NoChan}  BY <1>1 DEF Request
  <2> QED  BY <1>3, <2>1, <2>2, MinusStep
<1> QED  BY <1>2, <1>7, <1>9, <1>10, Kept DEF y

LEMMA RelayStep == RelayInv /\ [Next]_vars => RelayInv'
<1> SUFFICES ASSUME RelayInv, [Next]_vars PROVE RelayInv'
  OBVIOUS
<1>1. ASSUME NEW r \in Req, Step(r) PROVE RelayInv'
  BY <1>1, DistributeStep, EnterStep, FoundStep, FoundWithoutKeyStep, NoneInGroupStep,
     NoChannelStep, FailedAttempts, SucceedsStep, RateLimitedStep, WaitedStep, ClientGoneStep,
     PanicsStep DEF Step
<1>2. CASE UNCHANGED vars
  <2>1. UNCHANGED <<memoryCache, count, req, clean>>  BY <1>2 DEF vars
  <2>2. \A r \in Req : Sound(req[r])'
    BY <2>1 DEF RelayInv, Sound, Placed, Attempts, Bounded, Selected
  <2>3. SlotsAreBalanced'
    BY <2>1 DEF RelayInv, SlotsAreBalanced, TypeOK, Holders, Own
  <2>4. SessionsAreClosed'  BY <2>1 DEF RelayInv, SessionsAreClosed
  <2> QED  BY <2>2, <2>3, <2>4 DEF RelayInv
<1> QED  BY <1>1, <1>2 DEF Next

-----------------------------------------------------------------------------
(* Selections *)

LEMMA EndPick == ASSUME TypeOK, NEW r \in Req, NEW z, End(r, z) PROVE req'[r].pick.group = 0
<1>1. \A w : Finished(w).pick.group = 0  BY DEF Finished, NewRequest
<1>2. Ended(z).pick.group = 0  BY <1>1 DEF Ended
<1>3. req'[r] = Ended(z)  BY DEF End, Set, TypeOK
<1> QED  BY <1>2, <1>3

LEMMA ContinuePick ==
  ASSUME TypeOK, NEW r \in Req, NEW z \in Request, z.pick = req[r].pick, Continue(r, z)
  PROVE  req'[r].pick = req[r].pick \/ req'[r].pick.group = 0
<1> DEFINE y == IncreaseRetry(z)
<1>1. Set(r, Select(y)) \/ End(r, y)  BY DEF Continue
<1>2. Select(y).pick = z.pick  BY DEF Select, IncreaseRetry, Request
<1>3. CASE Set(r, Select(y))
  <2>1. req'[r] = Select(y)  BY <1>3 DEF Set, TypeOK
  <2> QED  BY <1>2, <2>1
<1> QED  BY <1>1, <1>3, EndPick

\* Only Found selects.
LEMMA OtherPick ==
  ASSUME RelayInv, NEW r \in Req, Step(r), ~Found(r)
  PROVE  req'[r].pick = req[r].pick \/ req'[r].pick.group = 0
<1> DEFINE x == req[r]
<1>1. x \in Request /\ TypeOK  BY Now
<1>2. ASSUME NEW y, Set(r, y) PROVE req'[r] = y  BY <1>1, <1>2 DEF Set, TypeOK
<1>3. \A w : Finished(w).pick.group = 0  BY DEF Finished, NewRequest
<1>4. \A w : Ended(w).pick.group = 0  BY <1>3 DEF Ended
<1>5. CASE Distribute(r)
  <2>1. Select(x).pick = x.pick  BY <1>1 DEF Select, Request
  <2>2. \A c, p : [x EXCEPT !.pc = "enter", !.dist = c, !.pinned = p].pick = x.pick
    BY <1>1 DEF Request
  <2>3. CASE Set(r, Select(x))  BY <1>2, <2>1, <2>3
  <2>4. ASSUME NEW c, NEW p, Set(r, [x EXCEPT !.pc = "enter", !.dist = c, !.pinned = p])
        PROVE  req'[r].pick = x.pick
    <3>1. req'[r] = [x EXCEPT !.pc = "enter", !.dist = c, !.pinned = p]  BY <1>2, <2>4
    <3> QED  BY <2>2, <3>1
  <2>5. ASSUME NEW w, Set(r, Finished(w)) PROVE req'[r].pick.group = 0  BY <1>2, <1>3, <2>5
  <2> QED  BY <1>5, <2>3, <2>4, <2>5 DEF Distribute
<1>6. CASE Enter(r)
  <2>1. ASSUME NEW b, Set(r, [x EXCEPT !.pc = "attempt", !.chan = x.dist, !.used = 1, !.bill = b])
        PROVE  req'[r].pick = x.pick
    BY <1>1, <1>2, <2>1 DEF Request
  <2> QED  BY <1>1, <1>6, <2>1, EndPick DEF Enter
<1>7. CASE FoundWithoutKey(r)
  <2>1. ASSUME NEW w, Set(r, Ended(w)) PROVE req'[r].pick.group = 0  BY <1>2, <1>4, <2>1
  <2> QED  BY <1>7, <2>1 DEF FoundWithoutKey
<1>8. CASE NoneInGroup(r)
  <2>1. NextGroup(x).pick = x.pick  BY <1>1 DEF NextGroup, Request
  <2>2. req'[r] = NextGroup(x)  BY <1>2, <1>8 DEF NoneInGroup
  <2> QED  BY <2>1, <2>2
<1>9. CASE NoChannel(r) \/ BodyFails(r) \/ Succeeds(r)
  BY <1>1, <1>9, EndPick DEF NoChannel, BodyFails, Succeeds
<1>10. ASSUME NEW e \in Errors, NEW b \in {"none", "open"}
       PROVE  [x EXCEPT !.err = e, !.bill = b] \in Request
              /\ [x EXCEPT !.err = e, !.bill = b].pick = x.pick
  BY <1>1 DEF Request
<1>11. CASE RateLimited(r)
  <2>1. PICK b \in {"none", "open"} :
          \/ Set(r, [[x EXCEPT !.err = "rate", !.bill = b] EXCEPT !.pc = "wait"])
          \/ End(r, [x EXCEPT !.err = "rate", !.bill = b])
    BY <1>11 DEF RateLimited
  <2>2. [[x EXCEPT !.err = "rate", !.bill = b] EXCEPT !.pc = "wait"].pick = x.pick
    BY <1>1 DEF Request
  <2> QED  BY <1>1, <1>2, <2>1, <2>2, EndPick
<1>12. ASSUME NEW e \in Errors, NEW b \in {"none", "open"},
              \/ Continue(r, [x EXCEPT !.err = e, !.bill = b])
              \/ End(r, [x EXCEPT !.err = e, !.bill = b])
       PROVE  req'[r].pick = x.pick \/ req'[r].pick.group = 0
  BY <1>1, <1>10, <1>12, ContinuePick, EndPick
<1>13. CASE AuthFails(r)
  <2>1. PICK b \in {"none", "open"} :
          \/ Continue(r, [x EXCEPT !.err = "auth", !.bill = b])
          \/ End(r, [x EXCEPT !.err = "auth", !.bill = b])
    BY <1>13 DEF AuthFails
  <2> QED  BY <1>12, <2>1 DEF Errors
<1>14. CASE OtherError(r)
  <2>1. PICK b \in {"none", "open"} :
          \/ Continue(r, [x EXCEPT !.err = "other", !.bill = b])
          \/ End(r, [x EXCEPT !.err = "other", !.bill = b])
    BY <1>14 DEF OtherError
  <2> QED  BY <1>12, <2>1 DEF Errors
<1>15. CASE Waited(r)  BY <1>1, <1>15, ContinuePick DEF Waited
<1>16. CASE ClientGone(r) \/ Panics(r)
  <2>1. req'[r] = Finished(x)  BY <1>2, <1>16 DEF ClientGone, Panics
  <2> QED  BY <1>3, <2>1
<1> QED  BY <1>5, <1>6, <1>7, <1>8, <1>9, <1>11, <1>13, <1>14, <1>15, <1>16 DEF Step

\* A selection is of a later group than the one before, or of the same with no
\* smaller retry counter.
LEMMA FoundPick ==
  ASSUME RelayInv, NEW r \in Req, Found(r), req[r].pick.group # 0
  PROVE  \/ req'[r].pick.group > req[r].pick.group
         \/ /\ req'[r].pick.group = req[r].pick.group
            /\ req'[r].pick.level >= req[r].pick.level
<1> DEFINE x == req[r]
<1>1. x \in Request /\ TypeOK /\ Sound(x) /\ Selected(x)  BY Now
<1>2. x.pc = "select" /\ x.i <= Len(AutoGroups)  BY DEF Found
<1>3. PICK c \in Target(GroupOf(x), Level(GroupOf(x), priorityRetry(x))) :
        \/ Set(r, [Picked(x, c) EXCEPT !.pc = "enter", !.dist = c, !.retry = 0, !.reset = FALSE])
        \/ Set(r, [Picked(x, c) EXCEPT !.pc = "attempt", !.used = @ + 1])
  BY DEF Found
<1>4. c \in Chan /\ c \in ChannelsOf(AutoGroups[x.i])
  <2>1. c \in ChannelsOf(GroupOf(x))  BY <1>3 DEF Target
  <2> QED  BY <1>1, <1>2, <2>1, Searching
<1>5. PICK p \in Request :
        /\ p = Picked(x, c) /\ SameRun(x, p) /\ p.bill = x.bill /\ p.chan = c
        /\ p.pick.group = x.i /\ p.pick.retry = x.retry
        /\ p.pick.level = Level(AutoGroups[x.i], x.retry)
        /\ \/ p.reset = FALSE /\ p.index = x.i /\ p.retry = x.retry
           \/ /\ p.reset = TRUE /\ p.index = x.i + 1 /\ p.retry = 0
              /\ x.retry = RetryTimes /\ x.source = "cross"
  BY <1>1, <1>2, <1>4, PickedState
<1>6. req'[r].pick = p.pick
  <2>1. \/ Set(r, [p EXCEPT !.pc = "enter", !.dist = c, !.retry = 0, !.reset = FALSE])
        \/ Set(r, [p EXCEPT !.pc = "attempt", !.used = @ + 1])
    BY <1>3, <1>5
  <2>2. /\ [p EXCEPT !.pc = "enter", !.dist = c, !.retry = 0, !.reset = FALSE].pick = p.pick
        /\ [p EXCEPT !.pc = "attempt", !.used = @ + 1].pick = p.pick
    BY <1>5 DEF Request
  <2>3. ASSUME NEW y, Set(r, y) PROVE req'[r] = y  BY <1>1, <2>3 DEF Set, TypeOK
  <2> QED  BY <2>1, <2>2, <2>3
<1>7. x.i \in 1 .. Len(AutoGroups) /\ x.i = x.index /\ x.retry \in 0 .. RetryTimes
  BY <1>1, <1>2, Searching
<1>8. x.pick.group \in 0 .. Len(AutoGroups) /\ x.pick.retry \in Nat /\ x.retry \in Nat
  BY <1>1, Fields
<1>9. /\ x.pick.group <= x.i
      /\ x.pick.group = x.i => x.pick.retry <= x.retry
      /\ x.pick.level = Level(AutoGroups[x.pick.group], x.pick.retry)
  BY <1>1, <1>7 DEF Selected
<1>10. CASE x.pick.group = x.i
  <2>1. Level(AutoGroups[x.i], x.pick.retry) <= Level(AutoGroups[x.i], x.retry)
    BY <1>4, <1>7, <1>8, <1>9, <1>10, Levels
  <2>2. Level(AutoGroups[x.i], x.pick.retry) \in Nat /\ Level(AutoGroups[x.i], x.retry) \in Nat
    BY <1>4, <1>7, <1>8, Levels
  <2> QED  BY <1>5, <1>6, <1>9, <1>10, <2>1, <2>2
<1>11. CASE x.pick.group # x.i
  <2>1. x.i > x.pick.group  BY <1>7, <1>8, <1>9, <1>11, Constants
  <2> QED  BY <1>5, <1>6, <2>1
<1> QED  BY <1>10, <1>11

-----------------------------------------------------------------------------
(* The theorems *)

\* The invariant of the requests and of the limiter's counters.
THEOREM RelayInvariant == Spec => []RelayInv
BY RelayInit, RelayStep, PTL DEF Spec

\* The limiter counts exactly the requests in flight: every way out of Distribute
\* and of the loop gives back the slots it took and no other.
THEOREM Slots == Spec => []SlotsAreBalanced
<1>1. RelayInv => SlotsAreBalanced  BY DEF RelayInv
<1> QED  BY <1>1, RelayInvariant, PTL

\* However a request ends, its session is settled if it succeeded and refunded if
\* not.
THEOREM Sessions == Spec => []SessionsAreClosed
<1>1. RelayInv => SessionsAreClosed  BY DEF RelayInv
<1> QED  BY <1>1, RelayInvariant, PTL

\* The resets of the retry counter do not add attempts: RetryTimes + 1 for each
\* group that "auto" has.
THEOREM AttemptsOfGroups == Spec => []AttemptsBounded
<1>1. RelayInv => AttemptsBounded
  BY DEF RelayInv, Sound, Attempts, Bounded, Full, AttemptsBounded
<1> QED  BY <1>1, RelayInvariant, PTL

\* A retry goes to a later group or, in the same, to no higher priority.
THEOREM OnlyForward == Spec => NeverBackwards
<1> DEFINE Forward(old, new) ==
             old # new /\ old.group # 0 /\ new.group # 0 =>
               \/ new.group > old.group
               \/ new.group = old.group /\ new.level >= old.level
<1>1. ASSUME RelayInv, Next, NEW r \in Req PROVE Forward(req[r].pick, req'[r].pick)
  <2>1. PICK q \in Req : Step(q)  BY <1>1 DEF Next
  <2>2. CASE q = r
    <3>1. CASE Found(r)  BY <1>1, <3>1, FoundPick
    <3>2. CASE ~Found(r)  BY <1>1, <2>1, <2>2, <3>2, OtherPick
    <3> QED  BY <3>1, <3>2
  <2>3. CASE q # r
    <3>1. \E y : Set(q, y)
      BY <2>1 DEF Step, Distribute, Enter, Found, FoundWithoutKey, NoneInGroup, NoChannel,
         BodyFails, Succeeds, RateLimited, AuthFails, OtherError, Waited, ClientGone, Panics,
         Continue, End
    <3>2. TypeOK  BY <1>1, Now
    <3>3. req'[r] = req[r]  BY <2>3, <3>1, <3>2 DEF Set, TypeOK
    <3> QED  BY <3>3
  <2> QED  BY <2>2, <2>3
<1>2. RelayInv /\ [Next]_vars => [\A r \in Req : Forward(req[r].pick, req'[r].pick)]_vars
  BY <1>1
<1> QED  BY <1>2, RelayInvariant, PTL DEF Spec, NeverBackwards
=============================================================================
