------------------------- MODULE BillingSessionProofs -------------------------
(***************************************************************************)
(* What a request pays, for any number of requests, any amounts, balances, *)
(* preferences and faults.                                                 *)
(*                                                                         *)
(* The argument is the account of one request: what the session has noted  *)
(* as taken (Progress), what must then at least have been taken whatever   *)
(* failed (Solvent), and what exactly was taken if nothing failed (Exact). *)
(* Every statement changes the account of its own request only.            *)
(*                                                                         *)
(* Then what the requests on a subscription took together: with the row    *)
(* locked, AmountUsed is never less than that sum nor more than the total. *)
(***************************************************************************)
EXTENDS BillingSession, FiniteSetTheorems, WellFoundedInduction, TLAPS

Early == {"new", "try", "token", "token_take", "fund", "rollback"}
Owned == {"open", "reserve_fund", "settle_fund", "refund_fund"}
Topped == {"reserve_token", "reserve_take", "reserve_back"}
Later == {"settle_token", "refund_mark", "refund_extra", "refund_token"}

Session ==
    [pc : Early \cup Owned \cup Topped \cup Later \cup {"done"},
     plan : Seq({"wallet", "subscription"}), playground : BOOLEAN, forced : BOOLEAN,
     unlimited : BOOLEAN, rich : BOOLEAN, seen : Int, want : Nat, quota : Nat,
     insufficient : BOOLEAN, preConsumed : Nat, tokenConsumed : Nat, extraReserved : Nat,
     taken : Nat, trusted : BOOLEAN, delta : Int, actual : Nat, tries : 0 .. MaxAttempts,
     result : {"none", "rejected", "settled", "unsettled", "refunded", "lost"}]

\* The source in use is the wallet; false before there is a plan.
Wallet(x) == x.plan # <<>> /\ Head(x.plan) = "wallet"

\* What the fields of a session have to do with each other.
Progress(x) ==
    /\ x.seen >= NotRead /\ (x.pc \notin {"new", "done"} => x.plan # <<>>)
    /\ x.pc # "done" => x.result = "none"
    /\ x.pc \in {"new", "try", "token", "token_take"} => x.tokenConsumed = 0
    /\ x.pc = "fund" => x.tokenConsumed = x.quota
    /\ x.pc \in {"token_take", "reserve_take"} => ~x.playground
    /\ x.pc \in Early => x.extraReserved = 0
    /\ x.pc \in Owned \cup Topped \cup Later => x.tokenConsumed = x.preConsumed
    /\ x.pc \in Owned \cup Topped \cup Later /\ ~Wallet(x) =>
         x.preConsumed = x.taken + x.extraReserved
    /\ x.pc \in {"reserve_fund"} \cup Topped => x.delta > 0
    /\ x.pc \in {"settle_fund", "settle_token"} => x.delta = x.actual - x.preConsumed
    /\ x.pc \in {"refund_fund", "refund_mark"} => x.tries < MaxAttempts
    /\ x.pc \in Early \cup Topped \cup {"open", "reserve_fund"} => x.tries = 0
    /\ x.pc = "refund_mark" => ~Wallet(x)

\* What was at least taken, whatever failed.
Solvent(x, p) ==
    /\ p.token >= 0
    /\ x.pc # "done" /\ ~x.playground => p.token >= x.tokenConsumed
    /\ x.pc \in Early => p.fund = 0
    /\ Wallet(x) =>
         /\ p.fund >= 0
         /\ x.pc \in Owned => p.fund = x.taken /\ x.taken >= x.preConsumed
         /\ x.pc \in Topped => p.fund = x.taken /\ x.taken >= x.preConsumed + x.delta

\* What was taken if nothing failed; c: the record of a subscription's pre-consumption.
Exact(x, p, c) ==
    /\ x.pc # "done" => p.token = IF x.playground THEN 0 ELSE x.tokenConsumed
    /\ x.pc \in Owned => p.fund = x.preConsumed
    /\ x.pc \in Topped => p.fund = x.preConsumed + x.delta
    /\ x.pc = "settle_token" => p.fund = x.actual
    /\ x.pc \in {"refund_mark", "refund_extra"} =>
         p.fund = IF Wallet(x) THEN 0 ELSE x.extraReserved
    /\ x.pc = "refund_token" => p.fund = 0
    /\ x.pc \in Owned \cup Topped \cup {"refund_mark"} /\ ~Wallet(x) => c = "consumed"
    /\ x.result \in {"settled", "refunded", "rejected"} =>
         LET price == IF x.result = "settled" THEN x.actual ELSE 0
         IN  p.fund = price /\ p.token = IF x.playground THEN 0 ELSE price

Account(x, p, c, n) == Progress(x) /\ Solvent(x, p) /\ (n = 0 => Exact(x, p, c))

Payment == [fund : Int, token : Int]

BillingInv ==
    /\ TypeOK
    /\ s \in [Req -> Session] /\ paid \in [Req -> Payment]
    /\ \A r \in Req : Account(s[r], paid[r], rec[r], faults)

-----------------------------------------------------------------------------
(* Statements and steps *)

\* A step of r moves f from the funding source and t from the token, and leaves
\* the record c.
Moves(r, f, t, c) ==
    /\ paid' = [paid EXCEPT ![r] = [fund |-> paid[r].fund + f, token |-> paid[r].token + t]]
    /\ rec' = [rec EXCEPT ![r] = c]
    /\ wallet' \in Int /\ token' \in Int /\ used' \in Nat

Fault(o) == faults' \in faults .. MaxFaults /\ (o # "ok" => faults' > 0)

\* Nothing is moved without a statement.
LEMMA NothingMoves ==
  ASSUME BillingInv, NEW r \in Req, NoStatement
  PROVE  Moves(r, 0, 0, rec[r]) /\ Fault("ok")
BY BillingAssumption DEF BillingInv, Payment, TypeOK, NoStatement, Moves, Fault

\* A failed statement is counted (Counts).
LEMMA FaultCounted ==
  ASSUME BillingInv, NEW o \in Outcome, Counts(o)
  PROVE  Fault(o)
BY BillingAssumption DEF BillingInv, Payment, TypeOK, Outcome, Counts, Fault

\* What the statements do to the payments, in the form of Moves.
LEMMA PaidForms ==
  ASSUME BillingInv, NEW r \in Req, NEW d \in Int
  PROVE  /\ paid = [paid EXCEPT ![r] = [fund |-> paid[r].fund + 0, token |-> paid[r].token + 0]]
         /\ [paid EXCEPT ![r].fund = @ + d]
              = [paid EXCEPT ![r] = [fund |-> paid[r].fund + d, token |-> paid[r].token + 0]]
         /\ [paid EXCEPT ![r].token = @ + d]
              = [paid EXCEPT ![r] = [fund |-> paid[r].fund + 0, token |-> paid[r].token + d]]
         /\ rec = [rec EXCEPT ![r] = rec[r]]
<1>1. paid \in [Req -> [fund : Int, token : Int]]
      /\ rec \in [Req -> {"none", "consumed", "refunded"}]
  BY DEF BillingInv, Payment, TypeOK
<1>2. paid[r] \in [fund : Int, token : Int] /\ paid[r].fund \in Int /\ paid[r].token \in Int
  BY <1>1
<1>3. paid[r] = [fund |-> paid[r].fund + 0, token |-> paid[r].token + 0]
  BY <1>2
<1>4. [paid[r] EXCEPT !.fund = @ + d] = [fund |-> paid[r].fund + d, token |-> paid[r].token + 0]
  BY <1>2
<1>5. [paid[r] EXCEPT !.token = @ + d] = [fund |-> paid[r].fund + 0, token |-> paid[r].token + d]
  BY <1>2
<1> QED  BY <1>1, <1>3, <1>4, <1>5

\* DecreaseUserQuota, IncreaseUserQuota move from the wallet or fail.
LEMMA WalletMoves ==
  ASSUME BillingInv, NEW r \in Req, NEW d \in Int, NEW o \in Outcome, TakeWallet(r, d, o)
  PROVE  Moves(r, IF o = "ok" THEN d ELSE 0, 0, rec[r]) /\ Fault(o)
<1>1. Fault(o)  BY FaultCounted DEF TakeWallet
<1>2. Moves(r, IF o = "ok" THEN d ELSE 0, 0, rec[r])
  <2>1. CASE o = "ok"
    <3>1. paid' = [paid EXCEPT ![r] = [fund |-> paid[r].fund + d, token |-> paid[r].token + 0]]
      BY <2>1, PaidForms, Zenon DEF TakeWallet
    <3>2. rec' = [rec EXCEPT ![r] = rec[r]]
      BY <2>1, PaidForms, Zenon DEF TakeWallet
    <3>3. wallet' \in Int /\ token' \in Int /\ used' \in Nat
      BY <2>1 DEF BillingInv, Payment, TypeOK, TakeWallet
    <3>4. Moves(r, d, 0, rec[r])  BY <3>1, <3>2, <3>3 DEF Moves
    <3> QED  BY <2>1, <3>4
  <2>2. CASE o # "ok"  BY <2>2, PaidForms DEF BillingInv, Payment, TypeOK, TakeWallet, Moves
  <2> QED  BY <2>1, <2>2
<1> QED  BY <1>1, <1>2

\* DecreaseTokenQuota, IncreaseTokenQuota move from the token or fail.
LEMMA TokenMoves ==
  ASSUME BillingInv, NEW r \in Req, NEW d \in Int, NEW o \in Outcome, TakeToken(r, d, o)
  PROVE  Moves(r, 0, IF o = "ok" THEN d ELSE 0, rec[r]) /\ Fault(o)
<1>1. Fault(o)  BY FaultCounted DEF TakeToken
<1>2. Moves(r, 0, IF o = "ok" THEN d ELSE 0, rec[r])
  <2>1. CASE o = "ok"
    <3>1. paid' = [paid EXCEPT ![r] = [fund |-> paid[r].fund + 0, token |-> paid[r].token + d]]
      BY <2>1, PaidForms, Zenon DEF TakeToken
    <3>2. rec' = [rec EXCEPT ![r] = rec[r]]
      BY <2>1, PaidForms, Zenon DEF TakeToken
    <3>3. wallet' \in Int /\ token' \in Int /\ used' \in Nat
      BY <2>1 DEF BillingInv, Payment, TypeOK, TakeToken
    <3>4. Moves(r, 0, d, rec[r])  BY <3>1, <3>2, <3>3 DEF Moves
    <3> QED  BY <2>1, <3>4
  <2>2. CASE o # "ok"  BY <2>2, PaidForms DEF BillingInv, Payment, TypeOK, TakeToken, Moves
  <2> QED  BY <2>1, <2>2
<1> QED  BY <1>1, <1>2

\* What a transaction read of the subscription is a natural number.
LEMMA ReadIsNat ==
  ASSUME BillingInv, NEW r \in Req, HasRead(r)
  PROVE  UsedRead(r) \in Nat
BY DEF BillingInv, Payment, TypeOK, HasRead, UsedRead, Session, Account, Progress, NotRead

\* PostConsumeUserSubscriptionDelta moves from the subscription or fails.
LEMMA SubMoves ==
  ASSUME BillingInv, NEW r \in Req, NEW d \in Int, NEW o \in Outcome, TakeSub(r, d, o)
  PROVE  Moves(r, IF o = "ok" THEN d ELSE 0, 0, rec[r]) /\ Fault(o)
<1>1. Fault(o)  BY FaultCounted DEF TakeSub
<1>2. UsedRead(r) \in Nat  BY ReadIsNat DEF TakeSub
<1>3. Moves(r, IF o = "ok" THEN d ELSE 0, 0, rec[r])
  <2>1. CASE o = "ok"
    <3>1. paid' = [paid EXCEPT ![r] = [fund |-> paid[r].fund + d, token |-> paid[r].token + 0]]
      BY <2>1, PaidForms, Zenon DEF TakeSub
    <3>2. rec' = [rec EXCEPT ![r] = rec[r]]
      BY <2>1, PaidForms, Zenon DEF TakeSub
    <3>3. wallet' \in Int /\ token' \in Int /\ used' \in Nat
      BY <1>2, <2>1 DEF BillingInv, Payment, TypeOK, TakeSub, Clamped
    <3>4. Moves(r, d, 0, rec[r])  BY <3>1, <3>2, <3>3 DEF Moves
    <3> QED  BY <2>1, <3>4
  <2>2. CASE o # "ok"  BY <2>2, PaidForms DEF BillingInv, Payment, TypeOK, TakeSub, Moves
  <2> QED  BY <2>1, <2>2
<1> QED  BY <1>1, <1>3

\* PreConsumeUserSubscription moves and notes it, or fails.
LEMMA PreConsumeSubMoves ==
  ASSUME BillingInv, NEW r \in Req, NEW d \in Nat, NEW o \in Outcome, PreConsumeSub(r, d, o)
  PROVE  /\ Moves(r, IF o = "ok" THEN d ELSE 0, 0, IF o = "ok" THEN "consumed" ELSE rec[r])
         /\ Fault(o)
<1>1. Fault(o)  BY FaultCounted DEF PreConsumeSub
<1>2. UsedRead(r) \in Nat  BY ReadIsNat DEF PreConsumeSub
<1>3. Moves(r, IF o = "ok" THEN d ELSE 0, 0, IF o = "ok" THEN "consumed" ELSE rec[r])
  <2>1. CASE o = "ok"
    <3>1. paid' = [paid EXCEPT ![r] = [fund |-> paid[r].fund + d, token |-> paid[r].token + 0]]
      <4>1. paid' = [paid EXCEPT ![r].fund = @ + d]  BY <2>1, Zenon DEF PreConsumeSub
      <4>2. d \in Int  OBVIOUS
      <4> QED  BY <4>1, <4>2, PaidForms, Zenon
    <3>2. rec' = [rec EXCEPT ![r] = "consumed"]
      BY <2>1, PaidForms, Zenon DEF PreConsumeSub
    <3>3. wallet' \in Int /\ token' \in Int /\ used' \in Nat
      BY <1>2, <2>1 DEF BillingInv, Payment, TypeOK, PreConsumeSub
    <3>4. Moves(r, d, 0, "consumed")  BY <3>1, <3>2, <3>3 DEF Moves
    <3> QED  BY <2>1, <3>4
  <2>2. CASE o # "ok"  BY <2>2, PaidForms DEF BillingInv, Payment, TypeOK, PreConsumeSub, Moves
  <2> QED  BY <2>1, <2>2
<1> QED  BY <1>1, <1>3

\* An account in order stays in order when other requests have faults.
LEMMA AccountKept ==
  ASSUME NEW x, NEW p, NEW c, NEW n \in Nat, NEW m \in Nat, m >= n, Account(x, p, c, n)
  PROVE  Account(x, p, c, m)
BY DEF Account

\* A step of r keeps the invariant when it keeps the account of r.
LEMMA OneRequest ==
  ASSUME BillingInv, NEW r \in Req, NEW x \in Session, NEW f \in Int, NEW t \in Int,
         NEW c \in {"none", "consumed", "refunded"}, NEW o,
         s' = [s EXCEPT ![r] = x], Moves(r, f, t, c), Fault(o), locked' = locked,
         Account(x, [fund |-> paid[r].fund + f, token |-> paid[r].token + t], c, faults')
  PROVE  BillingInv'
<1> DEFINE p == [fund |-> paid[r].fund + f, token |-> paid[r].token + t]
<1>1. s \in [Req -> Session] /\ paid \in [Req -> [fund : Int, token : Int]]
      /\ rec \in [Req -> {"none", "consumed", "refunded"}]
  BY DEF BillingInv, Payment, TypeOK
<1>2. p \in [fund : Int, token : Int]
  BY <1>1
<1>3. s' \in [Req -> Session] /\ s'[r] = x /\ \A q \in Req : q # r => s'[q] = s[q]
  BY <1>1
<1>4. paid' \in [Req -> [fund : Int, token : Int]] /\ paid'[r] = p
      /\ \A q \in Req : q # r => paid'[q] = paid[q]
  BY <1>1, <1>2 DEF Moves
<1>5. rec' \in [Req -> {"none", "consumed", "refunded"}] /\ rec'[r] = c
      /\ \A q \in Req : q # r => rec'[q] = rec[q]
  BY <1>1 DEF Moves
<1>6. faults \in Nat /\ faults' \in Nat /\ faults' >= faults /\ faults' <= MaxFaults
  BY BillingAssumption DEF BillingInv, Payment, TypeOK, Fault
<1>7. TypeOK'
  <2>1. \A q \in Req : s'[q].taken \in Nat /\ s'[q].tries \in 0 .. MaxAttempts
    BY <1>3 DEF Session
  <2> QED  BY <2>1, <1>5, <1>6 DEF TypeOK, BillingInv, Moves, Fault
<1>8. \A q \in Req : Account(s'[q], paid'[q], rec'[q], faults')
  <2> SUFFICES ASSUME NEW q \in Req PROVE Account(s'[q], paid'[q], rec'[q], faults')
    OBVIOUS
  <2>1. CASE q = r  BY <2>1, <1>3, <1>4, <1>5
  <2>2. CASE q # r
    <3>1. Account(s[q], paid[q], rec[q], faults)  BY DEF BillingInv, Payment
    <3>2. Account(s[q], paid[q], rec[q], faults')  BY <3>1, <1>6, AccountKept
    <3> QED  BY <2>2, <3>2, <1>3, <1>4, <1>5
  <2> QED  BY <2>1, <2>2
<1> QED  BY <1>3, <1>4, <1>7, <1>8 DEF BillingInv, Payment

-----------------------------------------------------------------------------
(* The account of a request at each step of its session *)

LEMMA NoSessionType == NoSession \in Session
<1>1. <<>> \in Seq({"wallet", "subscription"})
  OBVIOUS
<1> QED  BY <1>1 DEF NoSession, Session, NotRead, MaxAttempts, Early

\* Initially nothing is taken.
LEMMA BillingInit == Init => BillingInv
<1> SUFFICES ASSUME Init PROVE BillingInv
  OBVIOUS
<1>2. NoSession \in Session
  BY NoSessionType
<1>3. Account(NoSession, [fund |-> 0, token |-> 0], "none", 0)
  BY DEF Account, Progress, Solvent, Exact, NoSession, NotRead, Early, Owned, Topped, Later,
         MaxAttempts, Wallet
<1>4. s \in [Req -> Session] /\ paid \in [Req -> [fund : Int, token : Int]]
      /\ \A r \in Req : s[r] = NoSession /\ paid[r] = [fund |-> 0, token |-> 0] /\ rec[r] = "none"
  BY <1>2 DEF Init
<1>5. TypeOK
  BY <1>4, <1>2, BillingAssumption DEF Init, TypeOK, Session
<1>6. \A r \in Req : Account(s[r], paid[r], rec[r], faults)
  BY <1>3, <1>4 DEF Init
<1> QED  BY <1>4, <1>5, <1>6 DEF BillingInv, Payment

\* A step ends the transaction of the session (Becomes); the account is the same.
LEMMA ReadForgotten ==
  ASSUME NEW x \in Session, NEW p, NEW c, NEW n, Account(x, p, c, n), NEW k \in Int, k >= NotRead
  PROVE  [x EXCEPT !.seen = k] \in Session /\ Account([x EXCEPT !.seen = k], p, c, n)
<1> DEFINE y == [x EXCEPT !.seen = k]
<1>1. y \in Session
  BY DEF Session
<1>2. /\ y.pc = x.pc /\ y.plan = x.plan /\ y.playground = x.playground /\ y.quota = x.quota
      /\ y.preConsumed = x.preConsumed /\ y.tokenConsumed = x.tokenConsumed
      /\ y.extraReserved = x.extraReserved /\ y.taken = x.taken /\ y.delta = x.delta
      /\ y.actual = x.actual /\ y.tries = x.tries /\ y.result = x.result /\ y.seen = k
  BY DEF Session
<1> HIDE DEF y
<1>3. Account(y, p, c, n)
  BY <1>2 DEF Account, Progress, Solvent, Exact, Wallet
<1> QED  BY <1>1, <1>3 DEF y

\* Session y with what was moved for it is in order.
Fits(y, p, f, t, c, n) ==
    /\ y \in Session
    /\ Account(y, [fund |-> p.fund + f, token |-> p.token + t], c, n)

\* A step of r keeps the invariant when what becomes of the session fits what it moved.
LEMMA SessionStep ==
  ASSUME BillingInv, NEW r \in Req, NEW y, NEW f \in Int, NEW t \in Int,
         NEW c \in {"none", "consumed", "refunded"}, NEW o,
         Becomes(r, y), Moves(r, f, t, c), Fault(o), locked' = locked,
         Fits(y, paid[r], f, t, c, faults')
  PROVE  BillingInv'
<1> DEFINE z == [y EXCEPT !.seen = NotRead]
<1>1. /\ z \in Session
      /\ Account(z, [fund |-> paid[r].fund + f, token |-> paid[r].token + t], c, faults')
  <2>1. NotRead \in Int /\ NotRead >= NotRead  BY DEF NotRead
  <2> QED  BY <2>1, ReadForgotten DEF Fits
<1>2. s' = [s EXCEPT ![r] = z]
  BY DEF Becomes
<1> HIDE DEF z
<1> QED  BY <1>1, <1>2, OneRequest

\* The account of r before a step, in constants; m: the faults after it.
Given(x, p, c, n, m) ==
    /\ x \in Session /\ p \in Payment /\ c \in {"none", "consumed", "refunded"}
    /\ n \in Nat /\ m \in Nat /\ m >= n /\ Account(x, p, c, n)

LEMMA Before ==
  ASSUME BillingInv, NEW r \in Req, NEW o, Fault(o)
  PROVE  \E x \in Session, p \in Payment, c \in {"none", "consumed", "refunded"}, n, m \in Nat :
           /\ s[r] = x /\ paid[r] = p /\ rec[r] = c /\ faults = n /\ faults' = m
           /\ Given(x, p, c, n, m) /\ (o # "ok" => m > 0)
<1>1. faults \in Nat /\ faults' \in Nat /\ faults' >= faults /\ (o # "ok" => faults' > 0)
  BY BillingAssumption DEF BillingInv, TypeOK, Fault
<1>2. s[r] \in Session /\ paid[r] \in Payment /\ rec[r] \in {"none", "consumed", "refunded"}
      /\ Account(s[r], paid[r], rec[r], faults)
  BY DEF BillingInv, TypeOK
<1> QED  BY <1>1, <1>2 DEF Given

\* The fields of a session that the account is about are numbers and flags.
Numbers(x) ==
    /\ x.quota \in Nat /\ x.preConsumed \in Nat /\ x.tokenConsumed \in Nat
    /\ x.extraReserved \in Nat /\ x.taken \in Nat /\ x.delta \in Int /\ x.actual \in Nat
    /\ x.tries \in 0 .. 3 /\ x.playground \in BOOLEAN

LEMMA Typed ==
  ASSUME NEW x, NEW p, NEW c, NEW n, NEW m, Given(x, p, c, n, m)
  PROVE  /\ x \in Session /\ n \in Nat /\ m \in Nat /\ m >= n /\ Numbers(x)
         /\ p \in Payment /\ p.fund \in Int /\ p.token \in Int
         /\ Progress(x) /\ Solvent(x, p) /\ (n = 0 => Exact(x, p, c))
BY DEF Session, MaxAttempts, Given, Account, Numbers, Payment

\* Fields that a step leaves alone.
SameStart(x, y) ==
    y.plan = x.plan /\ y.playground = x.playground /\ y.seen = x.seen /\ y.quota = x.quota
SameBooks(x, y) ==
    /\ y.preConsumed = x.preConsumed /\ y.tokenConsumed = x.tokenConsumed
    /\ y.extraReserved = x.extraReserved /\ y.taken = x.taken
SameEnd(x, y) ==
    y.delta = x.delta /\ y.actual = x.actual /\ y.tries = x.tries /\ y.result = x.result

\* A source is tried; with nothing to take the token is not asked.
LEMMA Tried ==
  ASSUME NEW x, NEW p, NEW c, NEW n, NEW m, Given(x, p, c, n, m),
         NEW k \in Nat, NEW h, x.pc = "try", h = IF k > 0 THEN "token" ELSE "fund"
  PROVE  Fits([x EXCEPT !.quota = k, !.pc = h],
              p, 0, 0, c, m)
<1> DEFINE y == [x EXCEPT !.quota = k, !.pc = h]
           q == [fund |-> p.fund + 0, token |-> p.token + 0]
<1>1. /\ x \in Session /\ n \in Nat /\ m \in Nat /\ m >= n /\ Numbers(x)
      /\ p.fund \in Int /\ p.token \in Int
      /\ Progress(x) /\ Solvent(x, p) /\ (n = 0 => Exact(x, p, c))
  BY Typed
<1>2. /\ y \in Session /\ y.quota = k /\ y.pc = h /\ y.plan = x.plan
      /\ y.playground = x.playground /\ y.seen = x.seen /\ SameBooks(x, y) /\ SameEnd(x, y)
  BY <1>1 DEF Session, Numbers, Early, Owned, Topped, Later, SameBooks, SameEnd
<1>3. q.fund = p.fund /\ q.token = p.token
  BY <1>1 DEF Numbers
<1> HIDE DEF y, q
<1>4. Progress(y)
    BY <1>1, <1>2 DEF Progress, Wallet, MaxAttempts, Numbers, Early, Owned, Topped, Later,
     SameBooks, SameEnd
<1>5. Solvent(y, q)
    BY <1>1, <1>2, <1>3 DEF Solvent, Progress, Wallet, Numbers, Early, Owned, Topped, Later,
     SameBooks, SameEnd
<1>6. ASSUME m = 0 PROVE Exact(y, q, c)
    BY <1>1, <1>2, <1>3, <1>6 DEF Exact, Solvent, Progress, Wallet, Numbers, Early, Owned, Topped,
     Later, SameBooks, SameEnd
<1> QED  BY <1>2, <1>4, <1>5, <1>6 DEF y, q, Account, Fits

\* A playground request notes what it does not take.
LEMMA TokenNoted ==
  ASSUME NEW x, NEW p, NEW c, NEW n, NEW m, Given(x, p, c, n, m),
         x.pc = "token", x.playground
  PROVE  Fits([x EXCEPT !.tokenConsumed = x.quota, !.pc = "fund"],
              p, 0, 0, c, m)
<1> DEFINE y == [x EXCEPT !.tokenConsumed = x.quota, !.pc = "fund"]
           q == [fund |-> p.fund + 0, token |-> p.token + 0]
<1>1. /\ x \in Session /\ n \in Nat /\ m \in Nat /\ m >= n /\ Numbers(x)
      /\ p.fund \in Int /\ p.token \in Int
      /\ Progress(x) /\ Solvent(x, p) /\ (n = 0 => Exact(x, p, c))
  BY Typed
<1>2. /\ y \in Session /\ y.tokenConsumed = x.quota /\ y.pc = "fund" /\ SameStart(x, y)
      /\ y.preConsumed = x.preConsumed /\ y.extraReserved = x.extraReserved
      /\ y.taken = x.taken /\ SameEnd(x, y)
  BY <1>1 DEF Session, Numbers, Early, Owned, Topped, Later, SameStart, SameEnd
<1>3. q.fund = p.fund /\ q.token = p.token
  BY <1>1 DEF Numbers
<1> HIDE DEF y, q
<1>4. Progress(y)
    BY <1>1, <1>2 DEF Progress, Wallet, MaxAttempts, Numbers, Early, Owned, Topped, Later,
     SameStart, SameEnd
<1>5. Solvent(y, q)
    BY <1>1, <1>2, <1>3 DEF Solvent, Progress, Wallet, Numbers, Early, Owned, Topped, Later,
     SameStart, SameEnd
<1>6. ASSUME m = 0 PROVE Exact(y, q, c)
    BY <1>1, <1>2, <1>3, <1>6 DEF Exact, Solvent, Progress, Wallet, Numbers, Early, Owned, Topped,
     Later, SameStart, SameEnd
<1> QED  BY <1>2, <1>4, <1>5, <1>6 DEF y, q, Account, Fits

\* The token has enough.
LEMMA TokenChecked ==
  ASSUME NEW x, NEW p, NEW c, NEW n, NEW m, Given(x, p, c, n, m),
         x.pc = "token", ~x.playground
  PROVE  Fits([x EXCEPT !.pc = "token_take"],
              p, 0, 0, c, m)
<1> DEFINE y == [x EXCEPT !.pc = "token_take"]
           q == [fund |-> p.fund + 0, token |-> p.token + 0]
<1>1. /\ x \in Session /\ n \in Nat /\ m \in Nat /\ m >= n /\ Numbers(x)
      /\ p.fund \in Int /\ p.token \in Int
      /\ Progress(x) /\ Solvent(x, p) /\ (n = 0 => Exact(x, p, c))
  BY Typed
<1>2. /\ y \in Session /\ y.pc = "token_take" /\ SameStart(x, y) /\ SameBooks(x, y)
      /\ SameEnd(x, y)
  BY <1>1 DEF Session, Numbers, Early, Owned, Topped, Later, SameStart, SameBooks, SameEnd
<1>3. q.fund = p.fund /\ q.token = p.token
  BY <1>1 DEF Numbers
<1> HIDE DEF y, q
<1>4. Progress(y)
    BY <1>1, <1>2 DEF Progress, Wallet, MaxAttempts, Numbers, Early, Owned, Topped, Later,
     SameStart, SameBooks, SameEnd
<1>5. Solvent(y, q)
    BY <1>1, <1>2, <1>3 DEF Solvent, Progress, Wallet, Numbers, Early, Owned, Topped, Later,
     SameStart, SameBooks, SameEnd
<1>6. ASSUME m = 0 PROVE Exact(y, q, c)
    BY <1>1, <1>2, <1>3, <1>6 DEF Exact, Solvent, Progress, Wallet, Numbers, Early, Owned, Topped,
     Later, SameStart, SameBooks, SameEnd
<1> QED  BY <1>2, <1>4, <1>5, <1>6 DEF y, q, Account, Fits

\* DecreaseTokenQuota for PreConsumeTokenQuota.
LEMMA TokenTaken ==
  ASSUME NEW x, NEW p, NEW c, NEW n, NEW m, Given(x, p, c, n, m),
         x.pc = "token_take"
  PROVE  Fits([x EXCEPT !.tokenConsumed = x.quota, !.pc = "fund"],
              p, 0, x.quota, c, m)
<1> DEFINE y == [x EXCEPT !.tokenConsumed = x.quota, !.pc = "fund"]
           q == [fund |-> p.fund + 0, token |-> p.token + x.quota]
<1>1. /\ x \in Session /\ n \in Nat /\ m \in Nat /\ m >= n /\ Numbers(x)
      /\ p.fund \in Int /\ p.token \in Int
      /\ Progress(x) /\ Solvent(x, p) /\ (n = 0 => Exact(x, p, c))
  BY Typed
<1>2. /\ y \in Session /\ y.tokenConsumed = x.quota /\ y.pc = "fund" /\ SameStart(x, y)
      /\ y.preConsumed = x.preConsumed /\ y.extraReserved = x.extraReserved
      /\ y.taken = x.taken /\ SameEnd(x, y)
  BY <1>1 DEF Session, Numbers, Early, Owned, Topped, Later, SameStart, SameEnd
<1>3. q.fund = p.fund /\ q.token = p.token + x.quota
  BY <1>1 DEF Numbers
<1> HIDE DEF y, q
<1>4. Progress(y)
    BY <1>1, <1>2 DEF Progress, Wallet, MaxAttempts, Numbers, Early, Owned, Topped, Later,
     SameStart, SameEnd
<1>5. Solvent(y, q)
    BY <1>1, <1>2, <1>3 DEF Solvent, Progress, Wallet, Numbers, Early, Owned, Topped, Later,
     SameStart, SameEnd
<1>6. ASSUME m = 0 PROVE Exact(y, q, c)
    BY <1>1, <1>2, <1>3, <1>6 DEF Exact, Solvent, Progress, Wallet, Numbers, Early, Owned, Topped,
     Later, SameStart, SameEnd
<1> QED  BY <1>2, <1>4, <1>5, <1>6 DEF y, q, Account, Fits

\* A request without a source or a token ends; its token part is back.
LEMMA Rejected ==
  ASSUME NEW x, NEW p, NEW c, NEW n, NEW m, Given(x, p, c, n, m),
         NEW t \in Int, x.pc \in Early, p.token + t >= 0, m = 0 => p.token + t = 0
  PROVE  Fits([x EXCEPT !.pc = "done", !.result = "rejected"],
              p, 0, t, c, m)
<1> DEFINE y == [x EXCEPT !.pc = "done", !.result = "rejected"]
           q == [fund |-> p.fund + 0, token |-> p.token + t]
<1>1. /\ x \in Session /\ n \in Nat /\ m \in Nat /\ m >= n /\ Numbers(x)
      /\ p.fund \in Int /\ p.token \in Int
      /\ Progress(x) /\ Solvent(x, p) /\ (n = 0 => Exact(x, p, c))
  BY Typed
<1>2. /\ y \in Session /\ y.pc = "done" /\ y.result = "rejected" /\ SameStart(x, y)
      /\ SameBooks(x, y) /\ y.delta = x.delta /\ y.actual = x.actual /\ y.tries = x.tries
  BY <1>1 DEF Session, Numbers, Early, Owned, Topped, Later, SameStart, SameBooks
<1>3. q.fund = p.fund /\ q.token = p.token + t
  BY <1>1 DEF Numbers
<1> HIDE DEF y, q
<1>4. Progress(y)
    BY <1>1, <1>2 DEF Progress, Wallet, MaxAttempts, Numbers, Early, Owned, Topped, Later,
     SameStart, SameBooks
<1>5. Solvent(y, q)
    BY <1>1, <1>2, <1>3 DEF Solvent, Progress, Wallet, Numbers, Early, Owned, Topped, Later,
     SameStart, SameBooks
<1>6. ASSUME m = 0 PROVE Exact(y, q, c)
    BY <1>1, <1>2, <1>3, <1>6 DEF Exact, Solvent, Progress, Wallet, Numbers, Early, Owned, Topped,
     Later, SameStart, SameBooks
<1> QED  BY <1>2, <1>4, <1>5, <1>6 DEF y, q, Account, Fits

\* The wallet paid the estimate.
LEMMA OpenedWallet ==
  ASSUME NEW x, NEW p, NEW c, NEW n, NEW m, Given(x, p, c, n, m),
         x.pc = "fund", Wallet(x)
  PROVE  Fits([x EXCEPT !.taken = x.quota, !.preConsumed = x.quota, !.pc = "open"],
              p, x.quota, 0, c, m)
<1> DEFINE y == [x EXCEPT !.taken = x.quota, !.preConsumed = x.quota, !.pc = "open"]
           q == [fund |-> p.fund + x.quota, token |-> p.token + 0]
<1>1. /\ x \in Session /\ n \in Nat /\ m \in Nat /\ m >= n /\ Numbers(x)
      /\ p.fund \in Int /\ p.token \in Int
      /\ Progress(x) /\ Solvent(x, p) /\ (n = 0 => Exact(x, p, c))
  BY Typed
<1>2. /\ y \in Session /\ y.taken = x.quota /\ y.preConsumed = x.quota /\ y.pc = "open"
      /\ SameStart(x, y) /\ y.tokenConsumed = x.tokenConsumed
      /\ y.extraReserved = x.extraReserved /\ SameEnd(x, y)
  BY <1>1 DEF Session, Numbers, Early, Owned, Topped, Later, SameStart, SameEnd
<1>3. q.fund = p.fund + x.quota /\ q.token = p.token
  BY <1>1 DEF Numbers
<1> HIDE DEF y, q
<1>4. Progress(y)
    BY <1>1, <1>2 DEF Progress, Wallet, MaxAttempts, Numbers, Early, Owned, Topped, Later,
     SameStart, SameEnd
<1>5. Solvent(y, q)
    BY <1>1, <1>2, <1>3 DEF Solvent, Progress, Wallet, Numbers, Early, Owned, Topped, Later,
     SameStart, SameEnd
<1>6. ASSUME m = 0 PROVE Exact(y, q, c)
    BY <1>1, <1>2, <1>3, <1>6 DEF Exact, Solvent, Progress, Wallet, Numbers, Early, Owned, Topped,
     Later, SameStart, SameEnd
<1> QED  BY <1>2, <1>4, <1>5, <1>6 DEF y, q, Account, Fits

\* The subscription paid the estimate.
LEMMA OpenedSub ==
  ASSUME NEW x, NEW p, NEW c, NEW n, NEW m, Given(x, p, c, n, m),
         x.pc = "fund", ~Wallet(x)
  PROVE  Fits([x EXCEPT !.taken = x.quota, !.preConsumed = x.quota, !.pc = "open"],
              p, x.quota, 0, "consumed", m)
<1> DEFINE y == [x EXCEPT !.taken = x.quota, !.preConsumed = x.quota, !.pc = "open"]
           q == [fund |-> p.fund + x.quota, token |-> p.token + 0]
<1>1. /\ x \in Session /\ n \in Nat /\ m \in Nat /\ m >= n /\ Numbers(x)
      /\ p.fund \in Int /\ p.token \in Int
      /\ Progress(x) /\ Solvent(x, p) /\ (n = 0 => Exact(x, p, c))
  BY Typed
<1>2. /\ y \in Session /\ y.taken = x.quota /\ y.preConsumed = x.quota /\ y.pc = "open"
      /\ SameStart(x, y) /\ y.tokenConsumed = x.tokenConsumed
      /\ y.extraReserved = x.extraReserved /\ SameEnd(x, y)
  BY <1>1 DEF Session, Numbers, Early, Owned, Topped, Later, SameStart, SameEnd
<1>3. q.fund = p.fund + x.quota /\ q.token = p.token
  BY <1>1 DEF Numbers
<1> HIDE DEF y, q
<1>4. Progress(y)
    BY <1>1, <1>2 DEF Progress, Wallet, MaxAttempts, Numbers, Early, Owned, Topped, Later,
     SameStart, SameEnd
<1>5. Solvent(y, q)
    BY <1>1, <1>2, <1>3 DEF Solvent, Progress, Wallet, Numbers, Early, Owned, Topped, Later,
     SameStart, SameEnd
<1>6. ASSUME m = 0 PROVE Exact(y, q, "consumed")
    BY <1>1, <1>2, <1>3, <1>6 DEF Exact, Solvent, Progress, Wallet, Numbers, Early, Owned, Topped,
     Later, SameStart, SameEnd
<1> QED  BY <1>2, <1>4, <1>5, <1>6 DEF y, q, Account, Fits

\* The funding source refused or failed.
LEMMA Refused ==
  ASSUME NEW x, NEW p, NEW c, NEW n, NEW m, Given(x, p, c, n, m),
         NEW b \in BOOLEAN, x.pc = "fund"
  PROVE  Fits([x EXCEPT !.insufficient = b, !.pc = "rollback"],
              p, 0, 0, c, m)
<1> DEFINE y == [x EXCEPT !.insufficient = b, !.pc = "rollback"]
           q == [fund |-> p.fund + 0, token |-> p.token + 0]
<1>1. /\ x \in Session /\ n \in Nat /\ m \in Nat /\ m >= n /\ Numbers(x)
      /\ p.fund \in Int /\ p.token \in Int
      /\ Progress(x) /\ Solvent(x, p) /\ (n = 0 => Exact(x, p, c))
  BY Typed
<1>2. /\ y \in Session /\ y.insufficient = b /\ y.pc = "rollback" /\ SameStart(x, y)
      /\ SameBooks(x, y) /\ SameEnd(x, y)
  BY <1>1 DEF Session, Numbers, Early, Owned, Topped, Later, SameStart, SameBooks, SameEnd
<1>3. q.fund = p.fund /\ q.token = p.token
  BY <1>1 DEF Numbers
<1> HIDE DEF y, q
<1>4. Progress(y)
    BY <1>1, <1>2 DEF Progress, Wallet, MaxAttempts, Numbers, Early, Owned, Topped, Later,
     SameStart, SameBooks, SameEnd
<1>5. Solvent(y, q)
    BY <1>1, <1>2, <1>3 DEF Solvent, Progress, Wallet, Numbers, Early, Owned, Topped, Later,
     SameStart, SameBooks, SameEnd
<1>6. ASSUME m = 0 PROVE Exact(y, q, c)
    BY <1>1, <1>2, <1>3, <1>6 DEF Exact, Solvent, Progress, Wallet, Numbers, Early, Owned, Topped,
     Later, SameStart, SameBooks, SameEnd
<1> QED  BY <1>2, <1>4, <1>5, <1>6 DEF y, q, Account, Fits

\* Reserve notes how much more it wants.
LEMMA ReserveStarted ==
  ASSUME NEW x, NEW p, NEW c, NEW n, NEW m, Given(x, p, c, n, m),
         NEW d \in Nat \ {0}, x.pc = "open"
  PROVE  Fits([x EXCEPT !.delta = d, !.pc = "reserve_fund"],
              p, 0, 0, c, m)
<1> DEFINE y == [x EXCEPT !.delta = d, !.pc = "reserve_fund"]
           q == [fund |-> p.fund + 0, token |-> p.token + 0]
<1>1. /\ x \in Session /\ n \in Nat /\ m \in Nat /\ m >= n /\ Numbers(x)
      /\ p.fund \in Int /\ p.token \in Int
      /\ Progress(x) /\ Solvent(x, p) /\ (n = 0 => Exact(x, p, c))
  BY Typed
<1>2. d \in Int /\ d > 0
  BY <1>1 DEF Numbers, Progress, Solvent, MaxAttempts, Early, Owned, Topped
<1>3. /\ y \in Session /\ y.delta = d /\ y.pc = "reserve_fund" /\ SameStart(x, y)
      /\ SameBooks(x, y) /\ y.actual = x.actual /\ y.tries = x.tries /\ y.result = x.result
  BY <1>1, <1>2 DEF Session, Early, Owned, Topped, Later, SameStart, SameBooks
<1>4. q.fund = p.fund /\ q.token = p.token
  BY <1>1 DEF Numbers
<1> HIDE DEF y, q
<1>5. Progress(y)
    BY <1>1, <1>3 DEF Progress, Wallet, MaxAttempts, Numbers, Early, Owned, Topped, Later,
     SameStart, SameBooks
<1>6. Solvent(y, q)
    BY <1>1, <1>3, <1>4 DEF Solvent, Progress, Wallet, Numbers, Early, Owned, Topped, Later,
     SameStart, SameBooks
<1>7. ASSUME m = 0 PROVE Exact(y, q, c)
    BY <1>1, <1>3, <1>4, <1>7 DEF Exact, Solvent, Progress, Wallet, Numbers, Early, Owned, Topped,
     Later, SameStart, SameBooks
<1> QED  BY <1>3, <1>5, <1>6, <1>7 DEF y, q, Account, Fits

\* The wallet paid the reserve.
LEMMA ReservedWallet ==
  ASSUME NEW x, NEW p, NEW c, NEW n, NEW m, Given(x, p, c, n, m),
         x.pc = "reserve_fund", Wallet(x)
  PROVE  Fits([x EXCEPT !.taken = x.taken + x.delta, !.pc = "reserve_token"],
              p, x.delta, 0, c, m)
<1> DEFINE y == [x EXCEPT !.taken = x.taken + x.delta, !.pc = "reserve_token"]
           q == [fund |-> p.fund + x.delta, token |-> p.token + 0]
<1>1. /\ x \in Session /\ n \in Nat /\ m \in Nat /\ m >= n /\ Numbers(x)
      /\ p.fund \in Int /\ p.token \in Int
      /\ Progress(x) /\ Solvent(x, p) /\ (n = 0 => Exact(x, p, c))
  BY Typed
<1>2. x.taken + x.delta \in Nat
  BY <1>1 DEF Numbers, Progress, Solvent, MaxAttempts, Early, Owned, Topped
<1>3. /\ y \in Session /\ y.taken = x.taken + x.delta /\ y.pc = "reserve_token"
      /\ SameStart(x, y) /\ y.preConsumed = x.preConsumed
      /\ y.tokenConsumed = x.tokenConsumed /\ y.extraReserved = x.extraReserved
      /\ SameEnd(x, y)
  BY <1>1, <1>2 DEF Session, Early, Owned, Topped, Later, SameStart, SameEnd
<1>4. q.fund = p.fund + x.delta /\ q.token = p.token
  BY <1>1 DEF Numbers
<1> HIDE DEF y, q
<1>5. Progress(y)
    BY <1>1, <1>3 DEF Progress, Wallet, MaxAttempts, Numbers, Early, Owned, Topped, Later,
     SameStart, SameEnd
<1>6. Solvent(y, q)
    BY <1>1, <1>3, <1>4 DEF Solvent, Progress, Wallet, Numbers, Early, Owned, Topped, Later,
     SameStart, SameEnd
<1>7. ASSUME m = 0 PROVE Exact(y, q, c)
    BY <1>1, <1>3, <1>4, <1>7 DEF Exact, Solvent, Progress, Wallet, Numbers, Early, Owned, Topped,
     Later, SameStart, SameEnd
<1> QED  BY <1>3, <1>5, <1>6, <1>7 DEF y, q, Account, Fits

\* The subscription paid the reserve.
LEMMA ReservedSub ==
  ASSUME NEW x, NEW p, NEW c, NEW n, NEW m, Given(x, p, c, n, m),
         x.pc = "reserve_fund", ~Wallet(x)
  PROVE  Fits([x EXCEPT !.pc = "reserve_token"],
              p, x.delta, 0, c, m)
<1> DEFINE y == [x EXCEPT !.pc = "reserve_token"]
           q == [fund |-> p.fund + x.delta, token |-> p.token + 0]
<1>1. /\ x \in Session /\ n \in Nat /\ m \in Nat /\ m >= n /\ Numbers(x)
      /\ p.fund \in Int /\ p.token \in Int
      /\ Progress(x) /\ Solvent(x, p) /\ (n = 0 => Exact(x, p, c))
  BY Typed
<1>2. /\ y \in Session /\ y.pc = "reserve_token" /\ SameStart(x, y) /\ SameBooks(x, y)
      /\ SameEnd(x, y)
  BY <1>1 DEF Session, Numbers, Early, Owned, Topped, Later, SameStart, SameBooks, SameEnd
<1>3. q.fund = p.fund + x.delta /\ q.token = p.token
  BY <1>1 DEF Numbers
<1> HIDE DEF y, q
<1>4. Progress(y)
    BY <1>1, <1>2 DEF Progress, Wallet, MaxAttempts, Numbers, Early, Owned, Topped, Later,
     SameStart, SameBooks, SameEnd
<1>5. Solvent(y, q)
    BY <1>1, <1>2, <1>3 DEF Solvent, Progress, Wallet, Numbers, Early, Owned, Topped, Later,
     SameStart, SameBooks, SameEnd
<1>6. ASSUME m = 0 PROVE Exact(y, q, c)
    BY <1>1, <1>2, <1>3, <1>6 DEF Exact, Solvent, Progress, Wallet, Numbers, Early, Owned, Topped,
     Later, SameStart, SameBooks, SameEnd
<1> QED  BY <1>2, <1>4, <1>5, <1>6 DEF y, q, Account, Fits

\* The reserve was refused or failed: the session stays as it was.
LEMMA ReserveRefused ==
  ASSUME NEW x, NEW p, NEW c, NEW n, NEW m, Given(x, p, c, n, m),
         x.pc = "reserve_fund"
  PROVE  Fits([x EXCEPT !.pc = "open"],
              p, 0, 0, c, m)
<1> DEFINE y == [x EXCEPT !.pc = "open"]
           q == [fund |-> p.fund + 0, token |-> p.token + 0]
<1>1. /\ x \in Session /\ n \in Nat /\ m \in Nat /\ m >= n /\ Numbers(x)
      /\ p.fund \in Int /\ p.token \in Int
      /\ Progress(x) /\ Solvent(x, p) /\ (n = 0 => Exact(x, p, c))
  BY Typed
<1>2. /\ y \in Session /\ y.pc = "open" /\ SameStart(x, y) /\ SameBooks(x, y)
      /\ SameEnd(x, y)
  BY <1>1 DEF Session, Numbers, Early, Owned, Topped, Later, SameStart, SameBooks, SameEnd
<1>3. q.fund = p.fund /\ q.token = p.token
  BY <1>1 DEF Numbers
<1> HIDE DEF y, q
<1>4. Progress(y)
    BY <1>1, <1>2 DEF Progress, Wallet, MaxAttempts, Numbers, Early, Owned, Topped, Later,
     SameStart, SameBooks, SameEnd
<1>5. Solvent(y, q)
    BY <1>1, <1>2, <1>3 DEF Solvent, Progress, Wallet, Numbers, Early, Owned, Topped, Later,
     SameStart, SameBooks, SameEnd
<1>6. ASSUME m = 0 PROVE Exact(y, q, c)
    BY <1>1, <1>2, <1>3, <1>6 DEF Exact, Solvent, Progress, Wallet, Numbers, Early, Owned, Topped,
     Later, SameStart, SameBooks, SameEnd
<1> QED  BY <1>2, <1>4, <1>5, <1>6 DEF y, q, Account, Fits

\* A playground request takes nothing from the token.
LEMMA ReservedFree ==
  ASSUME NEW x, NEW p, NEW c, NEW n, NEW m, Given(x, p, c, n, m),
         x.pc = "reserve_token", x.playground
  PROVE  Fits([x EXCEPT !.preConsumed = x.preConsumed + x.delta,
                        !.tokenConsumed = x.tokenConsumed + x.delta,
                        !.extraReserved = x.extraReserved + x.delta, !.pc = "open"],
              p, 0, 0, c, m)
<1> DEFINE y == [x EXCEPT !.preConsumed = x.preConsumed + x.delta,
                          !.tokenConsumed = x.tokenConsumed + x.delta,
                          !.extraReserved = x.extraReserved + x.delta, !.pc = "open"]
           q == [fund |-> p.fund + 0, token |-> p.token + 0]
<1>1. /\ x \in Session /\ n \in Nat /\ m \in Nat /\ m >= n /\ Numbers(x)
      /\ p.fund \in Int /\ p.token \in Int
      /\ Progress(x) /\ Solvent(x, p) /\ (n = 0 => Exact(x, p, c))
  BY Typed
<1>2. x.preConsumed + x.delta \in Nat /\ x.tokenConsumed + x.delta \in Nat
      /\ x.extraReserved + x.delta \in Nat
  BY <1>1 DEF Numbers, Progress, Solvent, MaxAttempts, Early, Owned, Topped
<1>3. /\ y \in Session /\ y.preConsumed = x.preConsumed + x.delta
      /\ y.tokenConsumed = x.tokenConsumed + x.delta
      /\ y.extraReserved = x.extraReserved + x.delta /\ y.pc = "open" /\ SameStart(x, y)
      /\ y.taken = x.taken /\ SameEnd(x, y)
  BY <1>1, <1>2 DEF Session, Early, Owned, Topped, Later, SameStart, SameEnd
<1>4. q.fund = p.fund /\ q.token = p.token
  BY <1>1 DEF Numbers
<1> HIDE DEF y, q
<1>5. Progress(y)
    BY <1>1, <1>3 DEF Progress, Wallet, MaxAttempts, Numbers, Early, Owned, Topped, Later,
     SameStart, SameEnd
<1>6. Solvent(y, q)
    BY <1>1, <1>3, <1>4 DEF Solvent, Progress, Wallet, Numbers, Early, Owned, Topped, Later,
     SameStart, SameEnd
<1>7. ASSUME m = 0 PROVE Exact(y, q, c)
    BY <1>1, <1>3, <1>4, <1>7 DEF Exact, Solvent, Progress, Wallet, Numbers, Early, Owned, Topped,
     Later, SameStart, SameEnd
<1> QED  BY <1>3, <1>5, <1>6, <1>7 DEF y, q, Account, Fits

\* The token paid the reserve.
LEMMA ReservedToken ==
  ASSUME NEW x, NEW p, NEW c, NEW n, NEW m, Given(x, p, c, n, m),
         x.pc = "reserve_take"
  PROVE  Fits([x EXCEPT !.preConsumed = x.preConsumed + x.delta,
                        !.tokenConsumed = x.tokenConsumed + x.delta,
                        !.extraReserved = x.extraReserved + x.delta, !.pc = "open"],
              p, 0, x.delta, c, m)
<1> DEFINE y == [x EXCEPT !.preConsumed = x.preConsumed + x.delta,
                          !.tokenConsumed = x.tokenConsumed + x.delta,
                          !.extraReserved = x.extraReserved + x.delta, !.pc = "open"]
           q == [fund |-> p.fund + 0, token |-> p.token + x.delta]
<1>1. /\ x \in Session /\ n \in Nat /\ m \in Nat /\ m >= n /\ Numbers(x)
      /\ p.fund \in Int /\ p.token \in Int
      /\ Progress(x) /\ Solvent(x, p) /\ (n = 0 => Exact(x, p, c))
  BY Typed
<1>2. x.preConsumed + x.delta \in Nat /\ x.tokenConsumed + x.delta \in Nat
      /\ x.extraReserved + x.delta \in Nat
  BY <1>1 DEF Numbers, Progress, Solvent, MaxAttempts, Early, Owned, Topped
<1>3. /\ y \in Session /\ y.preConsumed = x.preConsumed + x.delta
      /\ y.tokenConsumed = x.tokenConsumed + x.delta
      /\ y.extraReserved = x.extraReserved + x.delta /\ y.pc = "open" /\ SameStart(x, y)
      /\ y.taken = x.taken /\ SameEnd(x, y)
  BY <1>1, <1>2 DEF Session, Early, Owned, Topped, Later, SameStart, SameEnd
<1>4. q.fund = p.fund /\ q.token = p.token + x.delta
  BY <1>1 DEF Numbers
<1> HIDE DEF y, q
<1>5. Progress(y)
    BY <1>1, <1>3 DEF Progress, Wallet, MaxAttempts, Numbers, Early, Owned, Topped, Later,
     SameStart, SameEnd
<1>6. Solvent(y, q)
    BY <1>1, <1>3, <1>4 DEF Solvent, Progress, Wallet, Numbers, Early, Owned, Topped, Later,
     SameStart, SameEnd
<1>7. ASSUME m = 0 PROVE Exact(y, q, c)
    BY <1>1, <1>3, <1>4, <1>7 DEF Exact, Solvent, Progress, Wallet, Numbers, Early, Owned, Topped,
     Later, SameStart, SameEnd
<1> QED  BY <1>3, <1>5, <1>6, <1>7 DEF y, q, Account, Fits

\* The token was asked for the reserve.
LEMMA ReserveChecked ==
  ASSUME NEW x, NEW p, NEW c, NEW n, NEW m, Given(x, p, c, n, m),
         NEW k \in {"reserve_back", "reserve_take"}, x.pc \in {"reserve_token", "reserve_take"},
         ~x.playground
  PROVE  Fits([x EXCEPT !.pc = k],
              p, 0, 0, c, m)
<1> DEFINE y == [x EXCEPT !.pc = k]
           q == [fund |-> p.fund + 0, token |-> p.token + 0]
<1>1. /\ x \in Session /\ n \in Nat /\ m \in Nat /\ m >= n /\ Numbers(x)
      /\ p.fund \in Int /\ p.token \in Int
      /\ Progress(x) /\ Solvent(x, p) /\ (n = 0 => Exact(x, p, c))
  BY Typed
<1>2. /\ y \in Session /\ y.pc = k /\ SameStart(x, y) /\ SameBooks(x, y) /\ SameEnd(x, y)
  BY <1>1 DEF Session, Numbers, Early, Owned, Topped, Later, SameStart, SameBooks, SameEnd
<1>3. q.fund = p.fund /\ q.token = p.token
  BY <1>1 DEF Numbers
<1> HIDE DEF y, q
<1>4. Progress(y)
    BY <1>1, <1>2 DEF Progress, Wallet, MaxAttempts, Numbers, Early, Owned, Topped, Later,
     SameStart, SameBooks, SameEnd
<1>5. Solvent(y, q)
    BY <1>1, <1>2, <1>3 DEF Solvent, Progress, Wallet, Numbers, Early, Owned, Topped, Later,
     SameStart, SameBooks, SameEnd
<1>6. ASSUME m = 0 PROVE Exact(y, q, c)
    BY <1>1, <1>2, <1>3, <1>6 DEF Exact, Solvent, Progress, Wallet, Numbers, Early, Owned, Topped,
     Later, SameStart, SameBooks, SameEnd
<1> QED  BY <1>2, <1>4, <1>5, <1>6 DEF y, q, Account, Fits

\* The wallet got the reserve back.
LEMMA ReserveBackWallet ==
  ASSUME NEW x, NEW p, NEW c, NEW n, NEW m, Given(x, p, c, n, m),
         x.pc = "reserve_back", Wallet(x)
  PROVE  Fits([x EXCEPT !.taken = x.taken - x.delta, !.pc = "open"],
              p, -x.delta, 0, c, m)
<1> DEFINE y == [x EXCEPT !.taken = x.taken - x.delta, !.pc = "open"]
           q == [fund |-> p.fund + -x.delta, token |-> p.token + 0]
<1>1. /\ x \in Session /\ n \in Nat /\ m \in Nat /\ m >= n /\ Numbers(x)
      /\ p.fund \in Int /\ p.token \in Int
      /\ Progress(x) /\ Solvent(x, p) /\ (n = 0 => Exact(x, p, c))
  BY Typed
<1>2. x.taken - x.delta \in Nat
  BY <1>1 DEF Numbers, Progress, Solvent, MaxAttempts, Early, Owned, Topped
<1>3. /\ y \in Session /\ y.taken = x.taken - x.delta /\ y.pc = "open" /\ SameStart(x, y)
      /\ y.preConsumed = x.preConsumed /\ y.tokenConsumed = x.tokenConsumed
      /\ y.extraReserved = x.extraReserved /\ SameEnd(x, y)
  BY <1>1, <1>2 DEF Session, Early, Owned, Topped, Later, SameStart, SameEnd
<1>4. q.fund = p.fund - x.delta /\ q.token = p.token
  BY <1>1 DEF Numbers
<1> HIDE DEF y, q
<1>5. Progress(y)
    BY <1>1, <1>3 DEF Progress, Wallet, MaxAttempts, Numbers, Early, Owned, Topped, Later,
     SameStart, SameEnd
<1>6. Solvent(y, q)
    BY <1>1, <1>3, <1>4 DEF Solvent, Progress, Wallet, Numbers, Early, Owned, Topped, Later,
     SameStart, SameEnd
<1>7. ASSUME m = 0 PROVE Exact(y, q, c)
    BY <1>1, <1>3, <1>4, <1>7 DEF Exact, Solvent, Progress, Wallet, Numbers, Early, Owned, Topped,
     Later, SameStart, SameEnd
<1> QED  BY <1>3, <1>5, <1>6, <1>7 DEF y, q, Account, Fits

\* The subscription got the reserve back.
LEMMA ReserveBackSub ==
  ASSUME NEW x, NEW p, NEW c, NEW n, NEW m, Given(x, p, c, n, m),
         x.pc = "reserve_back", ~Wallet(x)
  PROVE  Fits([x EXCEPT !.pc = "open"],
              p, -x.delta, 0, c, m)
<1> DEFINE y == [x EXCEPT !.pc = "open"]
           q == [fund |-> p.fund + -x.delta, token |-> p.token + 0]
<1>1. /\ x \in Session /\ n \in Nat /\ m \in Nat /\ m >= n /\ Numbers(x)
      /\ p.fund \in Int /\ p.token \in Int
      /\ Progress(x) /\ Solvent(x, p) /\ (n = 0 => Exact(x, p, c))
  BY Typed
<1>2. /\ y \in Session /\ y.pc = "open" /\ SameStart(x, y) /\ SameBooks(x, y)
      /\ SameEnd(x, y)
  BY <1>1 DEF Session, Numbers, Early, Owned, Topped, Later, SameStart, SameBooks, SameEnd
<1>3. q.fund = p.fund - x.delta /\ q.token = p.token
  BY <1>1 DEF Numbers
<1> HIDE DEF y, q
<1>4. Progress(y)
    BY <1>1, <1>2 DEF Progress, Wallet, MaxAttempts, Numbers, Early, Owned, Topped, Later,
     SameStart, SameBooks, SameEnd
<1>5. Solvent(y, q)
    BY <1>1, <1>2, <1>3 DEF Solvent, Progress, Wallet, Numbers, Early, Owned, Topped, Later,
     SameStart, SameBooks, SameEnd
<1>6. ASSUME m = 0 PROVE Exact(y, q, c)
    BY <1>1, <1>2, <1>3, <1>6 DEF Exact, Solvent, Progress, Wallet, Numbers, Early, Owned, Topped,
     Later, SameStart, SameBooks, SameEnd
<1> QED  BY <1>2, <1>4, <1>5, <1>6 DEF y, q, Account, Fits

\* The reserve stays taken.
LEMMA ReserveBackFailed ==
  ASSUME NEW x, NEW p, NEW c, NEW n, NEW m, Given(x, p, c, n, m),
         x.pc = "reserve_back", m > 0
  PROVE  Fits([x EXCEPT !.pc = "open"],
              p, 0, 0, c, m)
<1> DEFINE y == [x EXCEPT !.pc = "open"]
           q == [fund |-> p.fund + 0, token |-> p.token + 0]
<1>1. /\ x \in Session /\ n \in Nat /\ m \in Nat /\ m >= n /\ Numbers(x)
      /\ p.fund \in Int /\ p.token \in Int
      /\ Progress(x) /\ Solvent(x, p) /\ (n = 0 => Exact(x, p, c))
  BY Typed
<1>2. /\ y \in Session /\ y.pc = "open" /\ SameStart(x, y) /\ SameBooks(x, y)
      /\ SameEnd(x, y)
  BY <1>1 DEF Session, Numbers, Early, Owned, Topped, Later, SameStart, SameBooks, SameEnd
<1>3. q.fund = p.fund /\ q.token = p.token
  BY <1>1 DEF Numbers
<1> HIDE DEF y, q
<1>4. Progress(y)
    BY <1>1, <1>2 DEF Progress, Wallet, MaxAttempts, Numbers, Early, Owned, Topped, Later,
     SameStart, SameBooks, SameEnd
<1>5. Solvent(y, q)
    BY <1>1, <1>2, <1>3 DEF Solvent, Progress, Wallet, Numbers, Early, Owned, Topped, Later,
     SameStart, SameBooks, SameEnd
<1>6. ASSUME m = 0 PROVE Exact(y, q, c)
    BY <1>1, <1>2, <1>3, <1>6 DEF Exact, Solvent, Progress, Wallet, Numbers, Early, Owned, Topped,
     Later, SameStart, SameBooks, SameEnd
<1> QED  BY <1>2, <1>4, <1>5, <1>6 DEF y, q, Account, Fits

\* The actual cost is what was taken.
LEMMA SettledEven ==
  ASSUME NEW x, NEW p, NEW c, NEW n, NEW m, Given(x, p, c, n, m),
         NEW a \in Nat, x.pc = "open", a = x.preConsumed
  PROVE  Fits([x EXCEPT !.actual = a, !.delta = a - x.preConsumed, !.pc = "done",
                        !.result = "settled"],
              p, 0, 0, c, m)
<1> DEFINE y == [x EXCEPT !.actual = a, !.delta = a - x.preConsumed, !.pc = "done",
                          !.result = "settled"]
           q == [fund |-> p.fund + 0, token |-> p.token + 0]
<1>1. /\ x \in Session /\ n \in Nat /\ m \in Nat /\ m >= n /\ Numbers(x)
      /\ p.fund \in Int /\ p.token \in Int
      /\ Progress(x) /\ Solvent(x, p) /\ (n = 0 => Exact(x, p, c))
  BY Typed
<1>2. a - x.preConsumed \in Int
  BY <1>1 DEF Numbers, Progress, Solvent, MaxAttempts, Early, Owned, Topped
<1>3. /\ y \in Session /\ y.actual = a /\ y.delta = a - x.preConsumed /\ y.pc = "done"
      /\ y.result = "settled" /\ SameStart(x, y) /\ SameBooks(x, y) /\ y.tries = x.tries
  BY <1>1, <1>2 DEF Session, Early, Owned, Topped, Later, SameStart, SameBooks
<1>4. q.fund = p.fund /\ q.token = p.token
  BY <1>1 DEF Numbers
<1> HIDE DEF y, q
<1>5. Progress(y)
    BY <1>1, <1>3 DEF Progress, Wallet, MaxAttempts, Numbers, Early, Owned, Topped, Later,
     SameStart, SameBooks
<1>6. Solvent(y, q)
    BY <1>1, <1>3, <1>4 DEF Solvent, Progress, Wallet, Numbers, Early, Owned, Topped, Later,
     SameStart, SameBooks
<1>7. ASSUME m = 0 PROVE Exact(y, q, c)
    BY <1>1, <1>3, <1>4, <1>7 DEF Exact, Solvent, Progress, Wallet, Numbers, Early, Owned, Topped,
     Later, SameStart, SameBooks
<1> QED  BY <1>3, <1>5, <1>6, <1>7 DEF y, q, Account, Fits

\* Settle notes the difference.
LEMMA SettleStarted ==
  ASSUME NEW x, NEW p, NEW c, NEW n, NEW m, Given(x, p, c, n, m),
         NEW a \in Nat, x.pc = "open"
  PROVE  Fits([x EXCEPT !.actual = a, !.delta = a - x.preConsumed, !.pc = "settle_fund"],
              p, 0, 0, c, m)
<1> DEFINE y == [x EXCEPT !.actual = a, !.delta = a - x.preConsumed, !.pc = "settle_fund"]
           q == [fund |-> p.fund + 0, token |-> p.token + 0]
<1>1. /\ x \in Session /\ n \in Nat /\ m \in Nat /\ m >= n /\ Numbers(x)
      /\ p.fund \in Int /\ p.token \in Int
      /\ Progress(x) /\ Solvent(x, p) /\ (n = 0 => Exact(x, p, c))
  BY Typed
<1>2. a - x.preConsumed \in Int
  BY <1>1 DEF Numbers, Progress, Solvent, MaxAttempts, Early, Owned, Topped
<1>3. /\ y \in Session /\ y.actual = a /\ y.delta = a - x.preConsumed
      /\ y.pc = "settle_fund" /\ SameStart(x, y) /\ SameBooks(x, y) /\ y.tries = x.tries
      /\ y.result = x.result
  BY <1>1, <1>2 DEF Session, Early, Owned, Topped, Later, SameStart, SameBooks
<1>4. q.fund = p.fund /\ q.token = p.token
  BY <1>1 DEF Numbers
<1> HIDE DEF y, q
<1>5. Progress(y)
    BY <1>1, <1>3 DEF Progress, Wallet, MaxAttempts, Numbers, Early, Owned, Topped, Later,
     SameStart, SameBooks
<1>6. Solvent(y, q)
    BY <1>1, <1>3, <1>4 DEF Solvent, Progress, Wallet, Numbers, Early, Owned, Topped, Later,
     SameStart, SameBooks
<1>7. ASSUME m = 0 PROVE Exact(y, q, c)
    BY <1>1, <1>3, <1>4, <1>7 DEF Exact, Solvent, Progress, Wallet, Numbers, Early, Owned, Topped,
     Later, SameStart, SameBooks
<1> QED  BY <1>3, <1>5, <1>6, <1>7 DEF y, q, Account, Fits

\* The funding source took or gave back the difference.
LEMMA SettledFunding ==
  ASSUME NEW x, NEW p, NEW c, NEW n, NEW m, Given(x, p, c, n, m),
         x.pc = "settle_fund"
  PROVE  Fits([x EXCEPT !.pc = "settle_token"],
              p, x.delta, 0, c, m)
<1> DEFINE y == [x EXCEPT !.pc = "settle_token"]
           q == [fund |-> p.fund + x.delta, token |-> p.token + 0]
<1>1. /\ x \in Session /\ n \in Nat /\ m \in Nat /\ m >= n /\ Numbers(x)
      /\ p.fund \in Int /\ p.token \in Int
      /\ Progress(x) /\ Solvent(x, p) /\ (n = 0 => Exact(x, p, c))
  BY Typed
<1>2. /\ y \in Session /\ y.pc = "settle_token" /\ SameStart(x, y) /\ SameBooks(x, y)
      /\ SameEnd(x, y)
  BY <1>1 DEF Session, Numbers, Early, Owned, Topped, Later, SameStart, SameBooks, SameEnd
<1>3. q.fund = p.fund + x.delta /\ q.token = p.token
  BY <1>1 DEF Numbers
<1> HIDE DEF y, q
<1>4. Progress(y)
    BY <1>1, <1>2 DEF Progress, Wallet, MaxAttempts, Numbers, Early, Owned, Topped, Later,
     SameStart, SameBooks, SameEnd
<1>5. Solvent(y, q)
    BY <1>1, <1>2, <1>3 DEF Solvent, Progress, Wallet, Numbers, Early, Owned, Topped, Later,
     SameStart, SameBooks, SameEnd
<1>6. ASSUME m = 0 PROVE Exact(y, q, c)
    BY <1>1, <1>2, <1>3, <1>6 DEF Exact, Solvent, Progress, Wallet, Numbers, Early, Owned, Topped,
     Later, SameStart, SameBooks, SameEnd
<1> QED  BY <1>2, <1>4, <1>5, <1>6 DEF y, q, Account, Fits

\* Settle failed at the funding source.
LEMMA Unsettled ==
  ASSUME NEW x, NEW p, NEW c, NEW n, NEW m, Given(x, p, c, n, m),
         x.pc = "settle_fund"
  PROVE  Fits([x EXCEPT !.pc = "done", !.result = "unsettled"],
              p, 0, 0, c, m)
<1> DEFINE y == [x EXCEPT !.pc = "done", !.result = "unsettled"]
           q == [fund |-> p.fund + 0, token |-> p.token + 0]
<1>1. /\ x \in Session /\ n \in Nat /\ m \in Nat /\ m >= n /\ Numbers(x)
      /\ p.fund \in Int /\ p.token \in Int
      /\ Progress(x) /\ Solvent(x, p) /\ (n = 0 => Exact(x, p, c))
  BY Typed
<1>2. /\ y \in Session /\ y.pc = "done" /\ y.result = "unsettled" /\ SameStart(x, y)
      /\ SameBooks(x, y) /\ y.delta = x.delta /\ y.actual = x.actual /\ y.tries = x.tries
  BY <1>1 DEF Session, Numbers, Early, Owned, Topped, Later, SameStart, SameBooks
<1>3. q.fund = p.fund /\ q.token = p.token
  BY <1>1 DEF Numbers
<1> HIDE DEF y, q
<1>4. Progress(y)
    BY <1>1, <1>2 DEF Progress, Wallet, MaxAttempts, Numbers, Early, Owned, Topped, Later,
     SameStart, SameBooks
<1>5. Solvent(y, q)
    BY <1>1, <1>2, <1>3 DEF Solvent, Progress, Wallet, Numbers, Early, Owned, Topped, Later,
     SameStart, SameBooks
<1>6. ASSUME m = 0 PROVE Exact(y, q, c)
    BY <1>1, <1>2, <1>3, <1>6 DEF Exact, Solvent, Progress, Wallet, Numbers, Early, Owned, Topped,
     Later, SameStart, SameBooks
<1> QED  BY <1>2, <1>4, <1>5, <1>6 DEF y, q, Account, Fits

\* The token took or gave back the difference.
LEMMA SettledToken ==
  ASSUME NEW x, NEW p, NEW c, NEW n, NEW m, Given(x, p, c, n, m),
         x.pc = "settle_token", ~x.playground
  PROVE  Fits([x EXCEPT !.pc = "done", !.result = "settled"],
              p, 0, x.delta, c, m)
<1> DEFINE y == [x EXCEPT !.pc = "done", !.result = "settled"]
           q == [fund |-> p.fund + 0, token |-> p.token + x.delta]
<1>1. /\ x \in Session /\ n \in Nat /\ m \in Nat /\ m >= n /\ Numbers(x)
      /\ p.fund \in Int /\ p.token \in Int
      /\ Progress(x) /\ Solvent(x, p) /\ (n = 0 => Exact(x, p, c))
  BY Typed
<1>2. /\ y \in Session /\ y.pc = "done" /\ y.result = "settled" /\ SameStart(x, y)
      /\ SameBooks(x, y) /\ y.delta = x.delta /\ y.actual = x.actual /\ y.tries = x.tries
  BY <1>1 DEF Session, Numbers, Early, Owned, Topped, Later, SameStart, SameBooks
<1>3. q.fund = p.fund /\ q.token = p.token + x.delta
  BY <1>1 DEF Numbers
<1> HIDE DEF y, q
<1>4. Progress(y)
    BY <1>1, <1>2 DEF Progress, Wallet, MaxAttempts, Numbers, Early, Owned, Topped, Later,
     SameStart, SameBooks
<1>5. Solvent(y, q)
    BY <1>1, <1>2, <1>3 DEF Solvent, Progress, Wallet, Numbers, Early, Owned, Topped, Later,
     SameStart, SameBooks
<1>6. ASSUME m = 0 PROVE Exact(y, q, c)
    BY <1>1, <1>2, <1>3, <1>6 DEF Exact, Solvent, Progress, Wallet, Numbers, Early, Owned, Topped,
     Later, SameStart, SameBooks
<1> QED  BY <1>2, <1>4, <1>5, <1>6 DEF y, q, Account, Fits

\* The token has nothing to settle, or failed.
LEMMA SettledFree ==
  ASSUME NEW x, NEW p, NEW c, NEW n, NEW m, Given(x, p, c, n, m),
         x.pc = "settle_token", x.playground \/ m > 0
  PROVE  Fits([x EXCEPT !.pc = "done", !.result = "settled"],
              p, 0, 0, c, m)
<1> DEFINE y == [x EXCEPT !.pc = "done", !.result = "settled"]
           q == [fund |-> p.fund + 0, token |-> p.token + 0]
<1>1. /\ x \in Session /\ n \in Nat /\ m \in Nat /\ m >= n /\ Numbers(x)
      /\ p.fund \in Int /\ p.token \in Int
      /\ Progress(x) /\ Solvent(x, p) /\ (n = 0 => Exact(x, p, c))
  BY Typed
<1>2. /\ y \in Session /\ y.pc = "done" /\ y.result = "settled" /\ SameStart(x, y)
      /\ SameBooks(x, y) /\ y.delta = x.delta /\ y.actual = x.actual /\ y.tries = x.tries
  BY <1>1 DEF Session, Numbers, Early, Owned, Topped, Later, SameStart, SameBooks
<1>3. q.fund = p.fund /\ q.token = p.token
  BY <1>1 DEF Numbers
<1> HIDE DEF y, q
<1>4. Progress(y)
    BY <1>1, <1>2 DEF Progress, Wallet, MaxAttempts, Numbers, Early, Owned, Topped, Later,
     SameStart, SameBooks
<1>5. Solvent(y, q)
    BY <1>1, <1>2, <1>3 DEF Solvent, Progress, Wallet, Numbers, Early, Owned, Topped, Later,
     SameStart, SameBooks
<1>6. ASSUME m = 0 PROVE Exact(y, q, c)
    BY <1>1, <1>2, <1>3, <1>6 DEF Exact, Solvent, Progress, Wallet, Numbers, Early, Owned, Topped,
     Later, SameStart, SameBooks
<1> QED  BY <1>2, <1>4, <1>5, <1>6 DEF y, q, Account, Fits

\* The request failed and something was taken.
LEMMA RefundStarted ==
  ASSUME NEW x, NEW p, NEW c, NEW n, NEW m, Given(x, p, c, n, m),
         x.pc = "open"
  PROVE  Fits([x EXCEPT !.pc = "refund_fund"],
              p, 0, 0, c, m)
<1> DEFINE y == [x EXCEPT !.pc = "refund_fund"]
           q == [fund |-> p.fund + 0, token |-> p.token + 0]
<1>1. /\ x \in Session /\ n \in Nat /\ m \in Nat /\ m >= n /\ Numbers(x)
      /\ p.fund \in Int /\ p.token \in Int
      /\ Progress(x) /\ Solvent(x, p) /\ (n = 0 => Exact(x, p, c))
  BY Typed
<1>2. /\ y \in Session /\ y.pc = "refund_fund" /\ SameStart(x, y) /\ SameBooks(x, y)
      /\ SameEnd(x, y)
  BY <1>1 DEF Session, Numbers, Early, Owned, Topped, Later, SameStart, SameBooks, SameEnd
<1>3. q.fund = p.fund /\ q.token = p.token
  BY <1>1 DEF Numbers
<1> HIDE DEF y, q
<1>4. Progress(y)
    BY <1>1, <1>2 DEF Progress, Wallet, MaxAttempts, Numbers, Early, Owned, Topped, Later,
     SameStart, SameBooks, SameEnd
<1>5. Solvent(y, q)
    BY <1>1, <1>2, <1>3 DEF Solvent, Progress, Wallet, Numbers, Early, Owned, Topped, Later,
     SameStart, SameBooks, SameEnd
<1>6. ASSUME m = 0 PROVE Exact(y, q, c)
    BY <1>1, <1>2, <1>3, <1>6 DEF Exact, Solvent, Progress, Wallet, Numbers, Early, Owned, Topped,
     Later, SameStart, SameBooks, SameEnd
<1> QED  BY <1>2, <1>4, <1>5, <1>6 DEF y, q, Account, Fits

\* The request failed and nothing was taken.
LEMMA RefundNothing ==
  ASSUME NEW x, NEW p, NEW c, NEW n, NEW m, Given(x, p, c, n, m),
         x.pc = "open", x.tokenConsumed = 0
  PROVE  Fits([x EXCEPT !.pc = "done", !.result = "refunded"],
              p, 0, 0, c, m)
<1> DEFINE y == [x EXCEPT !.pc = "done", !.result = "refunded"]
           q == [fund |-> p.fund + 0, token |-> p.token + 0]
<1>1. /\ x \in Session /\ n \in Nat /\ m \in Nat /\ m >= n /\ Numbers(x)
      /\ p.fund \in Int /\ p.token \in Int
      /\ Progress(x) /\ Solvent(x, p) /\ (n = 0 => Exact(x, p, c))
  BY Typed
<1>2. /\ y \in Session /\ y.pc = "done" /\ y.result = "refunded" /\ SameStart(x, y)
      /\ SameBooks(x, y) /\ y.delta = x.delta /\ y.actual = x.actual /\ y.tries = x.tries
  BY <1>1 DEF Session, Numbers, Early, Owned, Topped, Later, SameStart, SameBooks
<1>3. q.fund = p.fund /\ q.token = p.token
  BY <1>1 DEF Numbers
<1> HIDE DEF y, q
<1>4. Progress(y)
    BY <1>1, <1>2 DEF Progress, Wallet, MaxAttempts, Numbers, Early, Owned, Topped, Later,
     SameStart, SameBooks
<1>5. Solvent(y, q)
    BY <1>1, <1>2, <1>3 DEF Solvent, Progress, Wallet, Numbers, Early, Owned, Topped, Later,
     SameStart, SameBooks
<1>6. ASSUME m = 0 PROVE Exact(y, q, c)
    BY <1>1, <1>2, <1>3, <1>6 DEF Exact, Solvent, Progress, Wallet, Numbers, Early, Owned, Topped,
     Later, SameStart, SameBooks
<1> QED  BY <1>2, <1>4, <1>5, <1>6 DEF y, q, Account, Fits

\* The wallet got back what it paid.
LEMMA RefundedWallet ==
  ASSUME NEW x, NEW p, NEW c, NEW n, NEW m, Given(x, p, c, n, m),
         x.pc = "refund_fund", Wallet(x)
  PROVE  Fits([x EXCEPT !.pc = "refund_extra"],
              p, -x.taken, 0, c, m)
<1> DEFINE y == [x EXCEPT !.pc = "refund_extra"]
           q == [fund |-> p.fund + -x.taken, token |-> p.token + 0]
<1>1. /\ x \in Session /\ n \in Nat /\ m \in Nat /\ m >= n /\ Numbers(x)
      /\ p.fund \in Int /\ p.token \in Int
      /\ Progress(x) /\ Solvent(x, p) /\ (n = 0 => Exact(x, p, c))
  BY Typed
<1>2. /\ y \in Session /\ y.pc = "refund_extra" /\ SameStart(x, y) /\ SameBooks(x, y)
      /\ SameEnd(x, y)
  BY <1>1 DEF Session, Numbers, Early, Owned, Topped, Later, SameStart, SameBooks, SameEnd
<1>3. q.fund = p.fund - x.taken /\ q.token = p.token
  BY <1>1 DEF Numbers
<1> HIDE DEF y, q
<1>4. Progress(y)
    BY <1>1, <1>2 DEF Progress, Wallet, MaxAttempts, Numbers, Early, Owned, Topped, Later,
     SameStart, SameBooks, SameEnd
<1>5. Solvent(y, q)
    BY <1>1, <1>2, <1>3 DEF Solvent, Progress, Wallet, Numbers, Early, Owned, Topped, Later,
     SameStart, SameBooks, SameEnd
<1>6. ASSUME m = 0 PROVE Exact(y, q, c)
    BY <1>1, <1>2, <1>3, <1>6 DEF Exact, Solvent, Progress, Wallet, Numbers, Early, Owned, Topped,
     Later, SameStart, SameBooks, SameEnd
<1> QED  BY <1>2, <1>4, <1>5, <1>6 DEF y, q, Account, Fits

\* The wallet paid nothing, or got nothing back.
LEMMA RefundWalletFailed ==
  ASSUME NEW x, NEW p, NEW c, NEW n, NEW m, Given(x, p, c, n, m),
         x.pc = "refund_fund", Wallet(x), m > 0 \/ x.taken = 0
  PROVE  Fits([x EXCEPT !.pc = "refund_extra"],
              p, 0, 0, c, m)
<1> DEFINE y == [x EXCEPT !.pc = "refund_extra"]
           q == [fund |-> p.fund + 0, token |-> p.token + 0]
<1>1. /\ x \in Session /\ n \in Nat /\ m \in Nat /\ m >= n /\ Numbers(x)
      /\ p.fund \in Int /\ p.token \in Int
      /\ Progress(x) /\ Solvent(x, p) /\ (n = 0 => Exact(x, p, c))
  BY Typed
<1>2. /\ y \in Session /\ y.pc = "refund_extra" /\ SameStart(x, y) /\ SameBooks(x, y)
      /\ SameEnd(x, y)
  BY <1>1 DEF Session, Numbers, Early, Owned, Topped, Later, SameStart, SameBooks, SameEnd
<1>3. q.fund = p.fund /\ q.token = p.token
  BY <1>1 DEF Numbers
<1> HIDE DEF y, q
<1>4. Progress(y)
    BY <1>1, <1>2 DEF Progress, Wallet, MaxAttempts, Numbers, Early, Owned, Topped, Later,
     SameStart, SameBooks, SameEnd
<1>5. Solvent(y, q)
    BY <1>1, <1>2, <1>3 DEF Solvent, Progress, Wallet, Numbers, Early, Owned, Topped, Later,
     SameStart, SameBooks, SameEnd
<1>6. ASSUME m = 0 PROVE Exact(y, q, c)
    BY <1>1, <1>2, <1>3, <1>6 DEF Exact, Solvent, Progress, Wallet, Numbers, Early, Owned, Topped,
     Later, SameStart, SameBooks, SameEnd
<1> QED  BY <1>2, <1>4, <1>5, <1>6 DEF y, q, Account, Fits

\* The subscription got back the estimate.
LEMMA RefundedSub ==
  ASSUME NEW x, NEW p, NEW c, NEW n, NEW m, Given(x, p, c, n, m),
         x.pc = "refund_fund", ~Wallet(x)
  PROVE  Fits([x EXCEPT !.pc = "refund_mark"],
              p, -x.taken, 0, c, m)
<1> DEFINE y == [x EXCEPT !.pc = "refund_mark"]
           q == [fund |-> p.fund + -x.taken, token |-> p.token + 0]
<1>1. /\ x \in Session /\ n \in Nat /\ m \in Nat /\ m >= n /\ Numbers(x)
      /\ p.fund \in Int /\ p.token \in Int
      /\ Progress(x) /\ Solvent(x, p) /\ (n = 0 => Exact(x, p, c))
  BY Typed
<1>2. /\ y \in Session /\ y.pc = "refund_mark" /\ SameStart(x, y) /\ SameBooks(x, y)
      /\ SameEnd(x, y)
  BY <1>1 DEF Session, Numbers, Early, Owned, Topped, Later, SameStart, SameBooks, SameEnd
<1>3. q.fund = p.fund - x.taken /\ q.token = p.token
  BY <1>1 DEF Numbers
<1> HIDE DEF y, q
<1>4. Progress(y)
    BY <1>1, <1>2 DEF Progress, Wallet, MaxAttempts, Numbers, Early, Owned, Topped, Later,
     SameStart, SameBooks, SameEnd
<1>5. Solvent(y, q)
    BY <1>1, <1>2, <1>3 DEF Solvent, Progress, Wallet, Numbers, Early, Owned, Topped, Later,
     SameStart, SameBooks, SameEnd
<1>6. ASSUME m = 0 PROVE Exact(y, q, c)
    BY <1>1, <1>2, <1>3, <1>6 DEF Exact, Solvent, Progress, Wallet, Numbers, Early, Owned, Topped,
     Later, SameStart, SameBooks, SameEnd
<1> QED  BY <1>2, <1>4, <1>5, <1>6 DEF y, q, Account, Fits

\* The record says that the refund was done.
LEMMA RefundSkipped ==
  ASSUME NEW x, NEW p, NEW c, NEW n, NEW m, Given(x, p, c, n, m),
         x.pc = "refund_fund", ~Wallet(x), c = "refunded"
  PROVE  Fits([x EXCEPT !.pc = "refund_extra"],
              p, 0, 0, c, m)
<1> DEFINE y == [x EXCEPT !.pc = "refund_extra"]
           q == [fund |-> p.fund + 0, token |-> p.token + 0]
<1>1. /\ x \in Session /\ n \in Nat /\ m \in Nat /\ m >= n /\ Numbers(x)
      /\ p.fund \in Int /\ p.token \in Int
      /\ Progress(x) /\ Solvent(x, p) /\ (n = 0 => Exact(x, p, c))
  BY Typed
<1>2. /\ y \in Session /\ y.pc = "refund_extra" /\ SameStart(x, y) /\ SameBooks(x, y)
      /\ SameEnd(x, y)
  BY <1>1 DEF Session, Numbers, Early, Owned, Topped, Later, SameStart, SameBooks, SameEnd
<1>3. q.fund = p.fund /\ q.token = p.token
  BY <1>1 DEF Numbers
<1> HIDE DEF y, q
<1>4. Progress(y)
    BY <1>1, <1>2 DEF Progress, Wallet, MaxAttempts, Numbers, Early, Owned, Topped, Later,
     SameStart, SameBooks, SameEnd
<1>5. Solvent(y, q)
    BY <1>1, <1>2, <1>3 DEF Solvent, Progress, Wallet, Numbers, Early, Owned, Topped, Later,
     SameStart, SameBooks, SameEnd
<1>6. ASSUME m = 0 PROVE Exact(y, q, c)
    BY <1>1, <1>2, <1>3, <1>6 DEF Exact, Solvent, Progress, Wallet, Numbers, Early, Owned, Topped,
     Later, SameStart, SameBooks, SameEnd
<1> QED  BY <1>2, <1>4, <1>5, <1>6 DEF y, q, Account, Fits

\* A failed attempt is made again, or given up.
LEMMA RefundAgain ==
  ASSUME NEW x, NEW p, NEW c, NEW n, NEW m, Given(x, p, c, n, m),
         NEW e, NEW h \in {"refund_fund", "refund_extra"},
         x.pc \in {"refund_fund", "refund_mark"}, ~Wallet(x), h = "refund_fund" => x.tries + 1 <
         3, m > 0
  PROVE  Fits([x EXCEPT !.tries = x.tries + 1, !.pc = h],
              p, 0, 0, e, m)
<1> DEFINE y == [x EXCEPT !.tries = x.tries + 1, !.pc = h]
           q == [fund |-> p.fund + 0, token |-> p.token + 0]
<1>1. /\ x \in Session /\ n \in Nat /\ m \in Nat /\ m >= n /\ Numbers(x)
      /\ p.fund \in Int /\ p.token \in Int
      /\ Progress(x) /\ Solvent(x, p) /\ (n = 0 => Exact(x, p, c))
  BY Typed
<1>2. x.tries + 1 \in 0 .. MaxAttempts
  BY <1>1 DEF Numbers, Progress, Solvent, MaxAttempts, Early, Owned, Topped
<1>3. /\ y \in Session /\ y.tries = x.tries + 1 /\ y.pc = h /\ SameStart(x, y)
      /\ SameBooks(x, y) /\ y.delta = x.delta /\ y.actual = x.actual /\ y.result = x.result
  BY <1>1, <1>2 DEF Session, Early, Owned, Topped, Later, SameStart, SameBooks
<1>4. q.fund = p.fund /\ q.token = p.token
  BY <1>1 DEF Numbers
<1> HIDE DEF y, q
<1>5. Progress(y)
    BY <1>1, <1>3 DEF Progress, Wallet, MaxAttempts, Numbers, Early, Owned, Topped, Later,
     SameStart, SameBooks
<1>6. Solvent(y, q)
    BY <1>1, <1>3, <1>4 DEF Solvent, Progress, Wallet, Numbers, Early, Owned, Topped, Later,
     SameStart, SameBooks
<1>7. ASSUME m = 0 PROVE Exact(y, q, e)
    BY <1>1, <1>3, <1>4, <1>7 DEF Exact, Solvent, Progress, Wallet, Numbers, Early, Owned, Topped,
     Later, SameStart, SameBooks
<1> QED  BY <1>3, <1>5, <1>6, <1>7 DEF y, q, Account, Fits

\* The record is marked.
LEMMA RefundMarked ==
  ASSUME NEW x, NEW p, NEW c, NEW n, NEW m, Given(x, p, c, n, m),
         NEW e, x.pc = "refund_mark"
  PROVE  Fits([x EXCEPT !.pc = "refund_extra"],
              p, 0, 0, e, m)
<1> DEFINE y == [x EXCEPT !.pc = "refund_extra"]
           q == [fund |-> p.fund + 0, token |-> p.token + 0]
<1>1. /\ x \in Session /\ n \in Nat /\ m \in Nat /\ m >= n /\ Numbers(x)
      /\ p.fund \in Int /\ p.token \in Int
      /\ Progress(x) /\ Solvent(x, p) /\ (n = 0 => Exact(x, p, c))
  BY Typed
<1>2. /\ y \in Session /\ y.pc = "refund_extra" /\ SameStart(x, y) /\ SameBooks(x, y)
      /\ SameEnd(x, y)
  BY <1>1 DEF Session, Numbers, Early, Owned, Topped, Later, SameStart, SameBooks, SameEnd
<1>3. q.fund = p.fund /\ q.token = p.token
  BY <1>1 DEF Numbers
<1> HIDE DEF y, q
<1>4. Progress(y)
    BY <1>1, <1>2 DEF Progress, Wallet, MaxAttempts, Numbers, Early, Owned, Topped, Later,
     SameStart, SameBooks, SameEnd
<1>5. Solvent(y, q)
    BY <1>1, <1>2, <1>3 DEF Solvent, Progress, Wallet, Numbers, Early, Owned, Topped, Later,
     SameStart, SameBooks, SameEnd
<1>6. ASSUME m = 0 PROVE Exact(y, q, e)
    BY <1>1, <1>2, <1>3, <1>6 DEF Exact, Solvent, Progress, Wallet, Numbers, Early, Owned, Topped,
     Later, SameStart, SameBooks, SameEnd
<1> QED  BY <1>2, <1>4, <1>5, <1>6 DEF y, q, Account, Fits

\* The subscription got back the reserve.
LEMMA ExtraBack ==
  ASSUME NEW x, NEW p, NEW c, NEW n, NEW m, Given(x, p, c, n, m),
         x.pc = "refund_extra", ~Wallet(x)
  PROVE  Fits([x EXCEPT !.pc = "refund_token"],
              p, -x.extraReserved, 0, c, m)
<1> DEFINE y == [x EXCEPT !.pc = "refund_token"]
           q == [fund |-> p.fund + -x.extraReserved, token |-> p.token + 0]
<1>1. /\ x \in Session /\ n \in Nat /\ m \in Nat /\ m >= n /\ Numbers(x)
      /\ p.fund \in Int /\ p.token \in Int
      /\ Progress(x) /\ Solvent(x, p) /\ (n = 0 => Exact(x, p, c))
  BY Typed
<1>2. /\ y \in Session /\ y.pc = "refund_token" /\ SameStart(x, y) /\ SameBooks(x, y)
      /\ SameEnd(x, y)
  BY <1>1 DEF Session, Numbers, Early, Owned, Topped, Later, SameStart, SameBooks, SameEnd
<1>3. q.fund = p.fund - x.extraReserved /\ q.token = p.token
  BY <1>1 DEF Numbers
<1> HIDE DEF y, q
<1>4. Progress(y)
    BY <1>1, <1>2 DEF Progress, Wallet, MaxAttempts, Numbers, Early, Owned, Topped, Later,
     SameStart, SameBooks, SameEnd
<1>5. Solvent(y, q)
    BY <1>1, <1>2, <1>3 DEF Solvent, Progress, Wallet, Numbers, Early, Owned, Topped, Later,
     SameStart, SameBooks, SameEnd
<1>6. ASSUME m = 0 PROVE Exact(y, q, c)
    BY <1>1, <1>2, <1>3, <1>6 DEF Exact, Solvent, Progress, Wallet, Numbers, Early, Owned, Topped,
     Later, SameStart, SameBooks, SameEnd
<1> QED  BY <1>2, <1>4, <1>5, <1>6 DEF y, q, Account, Fits

\* There is no reserve of a subscription, or it stays taken.
LEMMA ExtraKept ==
  ASSUME NEW x, NEW p, NEW c, NEW n, NEW m, Given(x, p, c, n, m),
         x.pc = "refund_extra", Wallet(x) \/ x.extraReserved = 0 \/ m > 0
  PROVE  Fits([x EXCEPT !.pc = "refund_token"],
              p, 0, 0, c, m)
<1> DEFINE y == [x EXCEPT !.pc = "refund_token"]
           q == [fund |-> p.fund + 0, token |-> p.token + 0]
<1>1. /\ x \in Session /\ n \in Nat /\ m \in Nat /\ m >= n /\ Numbers(x)
      /\ p.fund \in Int /\ p.token \in Int
      /\ Progress(x) /\ Solvent(x, p) /\ (n = 0 => Exact(x, p, c))
  BY Typed
<1>2. /\ y \in Session /\ y.pc = "refund_token" /\ SameStart(x, y) /\ SameBooks(x, y)
      /\ SameEnd(x, y)
  BY <1>1 DEF Session, Numbers, Early, Owned, Topped, Later, SameStart, SameBooks, SameEnd
<1>3. q.fund = p.fund /\ q.token = p.token
  BY <1>1 DEF Numbers
<1> HIDE DEF y, q
<1>4. Progress(y)
    BY <1>1, <1>2 DEF Progress, Wallet, MaxAttempts, Numbers, Early, Owned, Topped, Later,
     SameStart, SameBooks, SameEnd
<1>5. Solvent(y, q)
    BY <1>1, <1>2, <1>3 DEF Solvent, Progress, Wallet, Numbers, Early, Owned, Topped, Later,
     SameStart, SameBooks, SameEnd
<1>6. ASSUME m = 0 PROVE Exact(y, q, c)
    BY <1>1, <1>2, <1>3, <1>6 DEF Exact, Solvent, Progress, Wallet, Numbers, Early, Owned, Topped,
     Later, SameStart, SameBooks, SameEnd
<1> QED  BY <1>2, <1>4, <1>5, <1>6 DEF y, q, Account, Fits

\* The token got back what it paid.
LEMMA TokenBack ==
  ASSUME NEW x, NEW p, NEW c, NEW n, NEW m, Given(x, p, c, n, m),
         x.pc = "refund_token", ~x.playground
  PROVE  Fits([x EXCEPT !.pc = "done", !.result = "refunded"],
              p, 0, -x.tokenConsumed, c, m)
<1> DEFINE y == [x EXCEPT !.pc = "done", !.result = "refunded"]
           q == [fund |-> p.fund + 0, token |-> p.token + -x.tokenConsumed]
<1>1. /\ x \in Session /\ n \in Nat /\ m \in Nat /\ m >= n /\ Numbers(x)
      /\ p.fund \in Int /\ p.token \in Int
      /\ Progress(x) /\ Solvent(x, p) /\ (n = 0 => Exact(x, p, c))
  BY Typed
<1>2. /\ y \in Session /\ y.pc = "done" /\ y.result = "refunded" /\ SameStart(x, y)
      /\ SameBooks(x, y) /\ y.delta = x.delta /\ y.actual = x.actual /\ y.tries = x.tries
  BY <1>1 DEF Session, Numbers, Early, Owned, Topped, Later, SameStart, SameBooks
<1>3. q.fund = p.fund /\ q.token = p.token - x.tokenConsumed
  BY <1>1 DEF Numbers
<1> HIDE DEF y, q
<1>4. Progress(y)
    BY <1>1, <1>2 DEF Progress, Wallet, MaxAttempts, Numbers, Early, Owned, Topped, Later,
     SameStart, SameBooks
<1>5. Solvent(y, q)
    BY <1>1, <1>2, <1>3 DEF Solvent, Progress, Wallet, Numbers, Early, Owned, Topped, Later,
     SameStart, SameBooks
<1>6. ASSUME m = 0 PROVE Exact(y, q, c)
    BY <1>1, <1>2, <1>3, <1>6 DEF Exact, Solvent, Progress, Wallet, Numbers, Early, Owned, Topped,
     Later, SameStart, SameBooks
<1> QED  BY <1>2, <1>4, <1>5, <1>6 DEF y, q, Account, Fits

\* The token paid nothing, or got nothing back.
LEMMA TokenKept ==
  ASSUME NEW x, NEW p, NEW c, NEW n, NEW m, Given(x, p, c, n, m),
         x.pc = "refund_token", x.playground \/ x.tokenConsumed = 0 \/ m > 0
  PROVE  Fits([x EXCEPT !.pc = "done", !.result = "refunded"],
              p, 0, 0, c, m)
<1> DEFINE y == [x EXCEPT !.pc = "done", !.result = "refunded"]
           q == [fund |-> p.fund + 0, token |-> p.token + 0]
<1>1. /\ x \in Session /\ n \in Nat /\ m \in Nat /\ m >= n /\ Numbers(x)
      /\ p.fund \in Int /\ p.token \in Int
      /\ Progress(x) /\ Solvent(x, p) /\ (n = 0 => Exact(x, p, c))
  BY Typed
<1>2. /\ y \in Session /\ y.pc = "done" /\ y.result = "refunded" /\ SameStart(x, y)
      /\ SameBooks(x, y) /\ y.delta = x.delta /\ y.actual = x.actual /\ y.tries = x.tries
  BY <1>1 DEF Session, Numbers, Early, Owned, Topped, Later, SameStart, SameBooks
<1>3. q.fund = p.fund /\ q.token = p.token
  BY <1>1 DEF Numbers
<1> HIDE DEF y, q
<1>4. Progress(y)
    BY <1>1, <1>2 DEF Progress, Wallet, MaxAttempts, Numbers, Early, Owned, Topped, Later,
     SameStart, SameBooks
<1>5. Solvent(y, q)
    BY <1>1, <1>2, <1>3 DEF Solvent, Progress, Wallet, Numbers, Early, Owned, Topped, Later,
     SameStart, SameBooks
<1>6. ASSUME m = 0 PROVE Exact(y, q, c)
    BY <1>1, <1>2, <1>3, <1>6 DEF Exact, Solvent, Progress, Wallet, Numbers, Early, Owned, Topped,
     Later, SameStart, SameBooks
<1> QED  BY <1>2, <1>4, <1>5, <1>6 DEF y, q, Account, Fits

\* The process died.
LEMMA Lost ==
  ASSUME NEW x, NEW p, NEW c, NEW n, NEW m, Given(x, p, c, n, m),
         x.pc # "done", m > 0
  PROVE  Fits([x EXCEPT !.pc = "done", !.result = "lost"],
              p, 0, 0, c, m)
<1> DEFINE y == [x EXCEPT !.pc = "done", !.result = "lost"]
           q == [fund |-> p.fund + 0, token |-> p.token + 0]
<1>1. /\ x \in Session /\ n \in Nat /\ m \in Nat /\ m >= n /\ Numbers(x)
      /\ p.fund \in Int /\ p.token \in Int
      /\ Progress(x) /\ Solvent(x, p) /\ (n = 0 => Exact(x, p, c))
  BY Typed
<1>2. /\ y \in Session /\ y.pc = "done" /\ y.result = "lost" /\ SameStart(x, y)
      /\ SameBooks(x, y) /\ y.delta = x.delta /\ y.actual = x.actual /\ y.tries = x.tries
  BY <1>1 DEF Session, Numbers, Early, Owned, Topped, Later, SameStart, SameBooks
<1>3. q.fund = p.fund /\ q.token = p.token
  BY <1>1 DEF Numbers
<1> HIDE DEF y, q
<1>4. Progress(y)
    BY <1>1, <1>2 DEF Progress, Wallet, MaxAttempts, Numbers, Early, Owned, Topped, Later,
     SameStart, SameBooks
<1>5. Solvent(y, q)
    BY <1>1, <1>2, <1>3 DEF Solvent, Progress, Wallet, Numbers, Early, Owned, Topped, Later,
     SameStart, SameBooks
<1>6. ASSUME m = 0 PROVE Exact(y, q, c)
    BY <1>1, <1>2, <1>3, <1>6 DEF Exact, Solvent, Progress, Wallet, Numbers, Early, Owned, Topped,
     Later, SameStart, SameBooks
<1> QED  BY <1>2, <1>4, <1>5, <1>6 DEF y, q, Account, Fits

\* The wallet's trust is not part of the account.
LEMMA TrustNoted ==
  ASSUME NEW x, NEW p, NEW c, NEW n, NEW b \in BOOLEAN, Fits(x, p, 0, 0, c, n)
  PROVE  Fits([x EXCEPT !.trusted = b], p, 0, 0, c, n)
<1> DEFINE y == [x EXCEPT !.trusted = b]
<1>1. x \in Session /\ y \in Session
  BY DEF Session, Fits
<1>2. y.pc = x.pc /\ SameStart(x, y) /\ SameBooks(x, y) /\ SameEnd(x, y)
  BY <1>1 DEF Session, SameStart, SameBooks, SameEnd
<1> HIDE DEF y
<1>3. Account(y, [fund |-> p.fund + 0, token |-> p.token + 0], c, n)
  BY <1>2 DEF Fits, Account, Progress, Solvent, Exact, Wallet, SameStart, SameBooks, SameEnd
<1> QED  BY <1>1, <1>3 DEF Fits, y

\* The session of a source, before it is tried.
Fresh(g, k, b, f, u, w) ==
    [NoSession EXCEPT !.pc = "try", !.plan = g, !.want = k, !.playground = b, !.forced = f,
                      !.unlimited = u, !.rich = w]

\* What the caller says of a session is a flag each, and setting one leaves a session.
LEMMA SessionFlags ==
  ASSUME NEW x \in Session, NEW a \in BOOLEAN, NEW d \in BOOLEAN
  PROVE  /\ [x EXCEPT !.playground = a, !.forced = d] \in Session
         /\ [x EXCEPT !.unlimited = a, !.rich = d] \in Session
<1>1. ASSUME NEW y \in Session, NEW e \in BOOLEAN PROVE [y EXCEPT !.playground = e] \in Session
  BY <1>1 DEF Session
<1>2. ASSUME NEW y \in Session, NEW e \in BOOLEAN PROVE [y EXCEPT !.forced = e] \in Session
  BY <1>2 DEF Session
<1>3. ASSUME NEW y \in Session, NEW e \in BOOLEAN PROVE [y EXCEPT !.unlimited = e] \in Session
  BY <1>3 DEF Session
<1>4. ASSUME NEW y \in Session, NEW e \in BOOLEAN PROVE [y EXCEPT !.rich = e] \in Session
  BY <1>4 DEF Session
<1> QED  BY <1>1, <1>2, <1>3, <1>4

\* A source is tried with nothing taken, or everything given back.
LEMMA FreshFits ==
  ASSUME NEW g, NEW k, NEW b, NEW f, NEW u, NEW w, NEW p, NEW t, NEW c, NEW m,
         g \in Seq({"wallet", "subscription"}), g # <<>>, k \in Nat, b \in BOOLEAN, f \in BOOLEAN,
         u \in BOOLEAN, w \in BOOLEAN, p \in Payment, t \in Int, p.fund = 0,
         p.token + t >= 0, m = 0 => p.token + t = 0
  PROVE  Fits(Fresh(g, k, b, f, u, w), p, 0, t, c, m)
<1> DEFINE y == Fresh(g, k, b, f, u, w)
           q == [fund |-> p.fund + 0, token |-> p.token + t]
<1>1. y \in Session
  <2>1. [NoSession EXCEPT !.pc = "try", !.plan = g, !.want = k] \in Session
    BY NoSessionType DEF Session, Early
  <2>2. PICK z \in Session : z = [NoSession EXCEPT !.pc = "try", !.plan = g, !.want = k]
    BY <2>1
  <2>3. [z EXCEPT !.playground = b, !.forced = f] \in Session
    BY SessionFlags
  <2>4. PICK v \in Session : v = [z EXCEPT !.playground = b, !.forced = f]
    BY <2>3
  <2>5. [v EXCEPT !.unlimited = u, !.rich = w] \in Session
    BY SessionFlags
  <2> QED  BY <2>2, <2>4, <2>5 DEF Fresh
<1>2. /\ y.pc = "try" /\ y.plan = g /\ y.seen = -1 /\ y.result = "none" /\ y.playground = b
      /\ y.tokenConsumed = 0 /\ y.extraReserved = 0 /\ y.tries = 0
  BY DEF NoSession, NotRead, Fresh
<1>3. q.fund = 0 /\ q.token = p.token + t /\ p.token \in Int
  BY DEF Payment
<1> HIDE DEF y, q
<1>4. Progress(y)
  BY <1>2 DEF Progress, NotRead, Early, Owned, Topped, Later
<1>5. Solvent(y, q)
  BY <1>2, <1>3 DEF Solvent, Early, Owned, Topped
<1>6. ASSUME m = 0 PROVE Exact(y, q, c)
  BY <1>2, <1>3, <1>6 DEF Exact, Owned, Topped
<1> QED  BY <1>1, <1>4, <1>5, <1>6 DEF Fits, Account, y, q

\* The next source is tried, or there is none, once the token's part is back.
LEMMA SourceRefused ==
  ASSUME NEW x, NEW p, NEW c, NEW n, NEW m, Given(x, p, c, n, m),
         NEW t \in Int, x.pc \in {"try", "rollback"},
         p.token + t >= 0, m = 0 => p.token + t = 0
  PROVE  Fits(NextSource(x), p, 0, t, c, m)
<1>1. CASE Len(x.plan) > 1
  <2>1. x \in Session /\ p \in Payment /\ Solvent(x, p)
    BY Typed
  <2>2. /\ x.plan \in Seq({"wallet", "subscription"}) /\ x.want \in Nat
        /\ x.playground \in BOOLEAN /\ x.forced \in BOOLEAN
        /\ x.unlimited \in BOOLEAN /\ x.rich \in BOOLEAN
    BY <2>1 DEF Session
  <2>3. Tail(x.plan) \in Seq({"wallet", "subscription"}) /\ Tail(x.plan) # <<>>
    <3>1. PICK g \in Seq({"wallet", "subscription"}) : g = x.plan /\ Len(g) > 1
      BY <2>2, <1>1
    <3>2. g # <<>> /\ Tail(g) \in Seq({"wallet", "subscription"}) /\ Len(Tail(g)) = Len(g) - 1
      BY <3>1
    <3>3. Len(Tail(g)) > 0
      BY <3>1, <3>2
    <3>4. Tail(g) # <<>>
      BY <3>3
    <3> QED  BY <3>1, <3>2, <3>4
  <2>4. p.fund = 0
    BY <2>1 DEF Solvent, Early
  <2>5. NextSource(x) = Fresh(Tail(x.plan), x.want, x.playground, x.forced, x.unlimited, x.rich)
    BY <1>1 DEF NextSource, Fresh
  <2>6. Fits(Fresh(Tail(x.plan), x.want, x.playground, x.forced, x.unlimited, x.rich),
             p, 0, t, c, m)
    BY <2>1, <2>2, <2>3, <2>4, FreshFits
  <2> QED  BY <2>5, <2>6
<1>2. CASE ~(Len(x.plan) > 1)
  <2>1. NextSource(x) = [x EXCEPT !.pc = "done", !.result = "rejected"]
    BY <1>2 DEF NextSource
  <2>2. x.pc \in Early
    BY DEF Early
  <2>3. Fits([x EXCEPT !.pc = "done", !.result = "rejected"], p, 0, t, c, m)
    BY <2>2, Rejected
  <2> QED  BY <2>1, <2>3
<1> QED  BY <1>1, <1>2

\* The plan of a preference is never empty.
LEMMA PlanType ==
  ASSUME NEW pref \in Preferences
  PROVE  Plan(pref) \in Seq({"wallet", "subscription"}) /\ Plan(pref) # <<>>
<1>1. pref \in {"subscription_first", "wallet_first", "subscription_only", "wallet_only"}
  BY BillingAssumption
<1>2. /\ <<"wallet">> \in Seq({"wallet", "subscription"})
      /\ <<"subscription">> \in Seq({"wallet", "subscription"})
      /\ <<"wallet", "subscription">> \in Seq({"wallet", "subscription"})
      /\ <<"subscription", "wallet">> \in Seq({"wallet", "subscription"})
      /\ <<"wallet">> # <<>> /\ <<"subscription">> # <<>>
      /\ <<"wallet", "subscription">> # <<>> /\ <<"subscription", "wallet">> # <<>>
  OBVIOUS
<1> QED  BY <1>1, <1>2, Zenon DEF Plan

\* Once there is a plan, the source of the session is the wallet or it is not.
LEMMA SourceIs ==
  ASSUME NEW x, NEW p, NEW c, NEW n, NEW m, Given(x, p, c, n, m), x.pc \notin {"new", "done"}
  PROVE  Wallet(x) <=> Head(x.plan) = "wallet"
BY DEF Given, Account, Progress, Wallet

-----------------------------------------------------------------------------
(* Every operation keeps the accounts *)

\* Before the token is asked, nothing was taken from it.
LEMMA NothingTaken ==
  ASSUME NEW x, NEW p, NEW c, NEW n, NEW m, Given(x, p, c, n, m),
         x.pc \in {"new", "try", "token", "token_take"}
  PROVE  p.fund = 0 /\ p.token + 0 >= 0 /\ (m = 0 => p.token + 0 = 0) /\ 0 \in Int
<1>1. /\ Numbers(x) /\ p.fund \in Int /\ p.token \in Int /\ n \in Nat /\ m \in Nat /\ m >= n
      /\ Progress(x) /\ Solvent(x, p) /\ (n = 0 => Exact(x, p, c))
  BY Typed
<1>2. x.tokenConsumed = 0 /\ p.token + 0 = p.token
  BY <1>1 DEF Progress
<1> QED  BY <1>1, <1>2 DEF Solvent, Exact, Early

\* The larger of the estimate and 1.
LEMMA MaxOfTwo ==
  ASSUME NEW k \in Nat
  PROVE  Max({k, 1}) \in Nat
<1>1. \E z \in {k, 1} : \A y \in {k, 1} : z >= y
  <2>1. CASE k >= 1  BY <2>1
  <2>2. CASE ~(k >= 1)  BY <2>2
  <2> QED  BY <2>1, <2>2
<1>2. Max({k, 1}) \in {k, 1}
  BY <1>1 DEF Max
<1> QED  BY <1>2

\* A step without a statement.
LEMMA QuietStep ==
  ASSUME BillingInv, NEW r \in Req, NoStatement, locked' = locked, NEW y, Becomes(r, y),
         NEW p, NEW c \in {"none", "consumed", "refunded"}, NEW m,
         paid[r] = p, rec[r] = c, faults' = m, Fits(y, p, 0, 0, c, m)
  PROVE  BillingInv'
<1>1. Moves(r, 0, 0, c) /\ Fault("ok")
  BY NothingMoves
<1>2. Fits(y, paid[r], 0, 0, c, faults') /\ 0 \in Int
  OBVIOUS
<1> QED  BY <1>1, <1>2, SessionStep, Zenon

\* A step with a statement on the wallet.
LEMMA WalletStep ==
  ASSUME BillingInv, NEW r \in Req, NEW d \in Int, NEW o \in Outcome, TakeWallet(r, d, o),
         locked' = locked, NEW y, Becomes(r, y),
         NEW p, NEW c \in {"none", "consumed", "refunded"}, NEW m,
         paid[r] = p, rec[r] = c, faults' = m,
         Fits(y, p, IF o = "ok" THEN d ELSE 0, 0, c, m)
  PROVE  BillingInv'
<1>1. PICK k \in Int : k = IF o = "ok" THEN d ELSE 0
  OBVIOUS
<1>2. Moves(r, k, 0, c) /\ Fault(o)
  BY <1>1, WalletMoves
<1>3. Fits(y, paid[r], k, 0, c, faults') /\ 0 \in Int
  BY <1>1
<1> QED  BY <1>2, <1>3, SessionStep, Zenon

\* A step with a statement on the token.
LEMMA TokenStep ==
  ASSUME BillingInv, NEW r \in Req, NEW d \in Int, NEW o \in Outcome, TakeToken(r, d, o),
         locked' = locked, NEW y, Becomes(r, y),
         NEW p, NEW c \in {"none", "consumed", "refunded"}, NEW m,
         paid[r] = p, rec[r] = c, faults' = m,
         Fits(y, p, 0, IF o = "ok" THEN d ELSE 0, c, m)
  PROVE  BillingInv'
<1>1. PICK k \in Int : k = IF o = "ok" THEN d ELSE 0
  OBVIOUS
<1>2. Moves(r, 0, k, c) /\ Fault(o)
  BY <1>1, TokenMoves
<1>3. Fits(y, paid[r], 0, k, c, faults') /\ 0 \in Int
  BY <1>1
<1> QED  BY <1>2, <1>3, SessionStep, Zenon

\* A step with a transaction on the subscription.
LEMMA SubStep ==
  ASSUME BillingInv, NEW r \in Req, NEW d \in Int, NEW o \in Outcome, TakeSub(r, d, o),
         locked' = locked, NEW y, Becomes(r, y),
         NEW p, NEW c \in {"none", "consumed", "refunded"}, NEW m,
         paid[r] = p, rec[r] = c, faults' = m,
         Fits(y, p, IF o = "ok" THEN d ELSE 0, 0, c, m)
  PROVE  BillingInv'
<1>1. PICK k \in Int : k = IF o = "ok" THEN d ELSE 0
  OBVIOUS
<1>2. Moves(r, k, 0, c) /\ Fault(o)
  BY <1>1, SubMoves
<1>3. Fits(y, paid[r], k, 0, c, faults') /\ 0 \in Int
  BY <1>1
<1> QED  BY <1>2, <1>3, SessionStep, Zenon

LEMMA ReadSubscriptionStep ==
  ASSUME BillingInv, NEW r \in Req, ReadSubscription(r), locked' = locked
  PROVE  BillingInv'
<1>1. Moves(r, 0, 0, rec[r]) /\ Fault("ok")
  BY NothingMoves DEF ReadSubscription
<1>2. PICK x \in Session, p \in Payment, c \in {"none", "consumed", "refunded"}, n, m \in Nat :
        /\ s[r] = x /\ paid[r] = p /\ rec[r] = c /\ faults = n /\ faults' = m
        /\ Given(x, p, c, n, m)
  BY <1>1, Before
<1>3. PICK k \in Nat : k = used
  BY DEF BillingInv, TypeOK
<1> DEFINE y == [x EXCEPT !.seen = k]
<1>4. p = [fund |-> p.fund + 0, token |-> p.token + 0]
  BY DEF Payment
<1>5. Account(x, p, c, m)
  BY <1>2, AccountKept DEF Given
<1>6. y \in Session /\ Account(y, p, c, m)
  <2>1. k \in Int /\ k >= NotRead  BY DEF NotRead
  <2> QED  BY <1>5, <2>1, ReadForgotten
<1>7. s' = [s EXCEPT ![r] = y]
  <2>1. s \in [Req -> Session]  BY DEF BillingInv
  <2>2. s' = [s EXCEPT ![r].seen = k]  BY <1>3 DEF ReadSubscription
  <2> QED  BY <1>2, <2>1, <2>2
<1>8. Account(y, [fund |-> paid[r].fund + 0, token |-> paid[r].token + 0], c, faults')
  BY <1>2, <1>4, <1>6
<1> HIDE DEF y
<1>9. Moves(r, 0, 0, c)
  BY <1>1, <1>2
<1>10. 0 \in Int
  OBVIOUS
<1> QED  BY <1>1, <1>6, <1>7, <1>8, <1>9, <1>10, OneRequest, Zenon

LEMMA NewBillingSessionStep ==
  ASSUME BillingInv, NEW r \in Req, NewBillingSession(r), locked' = locked
  PROVE  BillingInv'
<1>1. Moves(r, 0, 0, rec[r]) /\ Fault("ok")
  BY NothingMoves DEF NewBillingSession
<1>2. PICK x \in Session, p \in Payment, c \in {"none", "consumed", "refunded"}, n, m \in Nat :
        /\ s[r] = x /\ paid[r] = p /\ rec[r] = c /\ faults = n /\ faults' = m
        /\ Given(x, p, c, n, m)
  BY <1>1, Before
<1>3. PICK pref \in Preferences, k \in Estimates, b \in BOOLEAN, f \in BOOLEAN, u \in Unlimited :
        Becomes(r, [NoSession EXCEPT !.pc = "try", !.plan = Plan(pref), !.want = k,
                       !.playground = b, !.forced = f, !.unlimited = u,
                       !.rich = u \/ token > TrustQuota])
  BY DEF NewBillingSession
<1>4. PICK w \in BOOLEAN : w = (u \/ token > TrustQuota)
  OBVIOUS
<1>5. PICK g : g = Plan(pref) /\ g \in Seq({"wallet", "subscription"}) /\ g # <<>>
  BY PlanType
<1>6. k \in Nat /\ u \in BOOLEAN
  BY BillingAssumption
<1>7. p.fund = 0 /\ p.token + 0 >= 0 /\ (m = 0 => p.token + 0 = 0)
  <2>1. x.pc = "new"
    BY <1>2 DEF NewBillingSession, At
  <2> QED  BY <1>2, <2>1, NothingTaken
<1>8. Becomes(r, Fresh(g, k, b, f, u, w))
  BY <1>3, <1>4, <1>5 DEF Fresh
<1>9. 0 \in Int
  OBVIOUS
<1>10. Fits(Fresh(g, k, b, f, u, w), p, 0, 0, c, m)
  BY <1>5, <1>6, <1>7, <1>9, FreshFits
<1>11. Moves(r, 0, 0, c) /\ Fits(Fresh(g, k, b, f, u, w), paid[r], 0, 0, c, faults')
  BY <1>1, <1>2, <1>10
<1> QED  BY <1>1, <1>8, <1>9, <1>11, SessionStep, Zenon

LEMMA TryWalletStep ==
  ASSUME BillingInv, NEW r \in Req, TryWallet(r), locked' = locked
  PROVE  BillingInv'
<1>1. NoStatement /\ Fault("ok")
  BY NothingMoves DEF TryWallet
<1>2. PICK x \in Session, p \in Payment, c \in {"none", "consumed", "refunded"}, n, m \in Nat :
        /\ s[r] = x /\ paid[r] = p /\ rec[r] = c /\ faults = n /\ faults' = m
        /\ Given(x, p, c, n, m)
  BY <1>1, Before
<1>3. x.pc = "try"
  BY <1>2 DEF TryWallet, At
<1>4. CASE wallet <= 0 \/ wallet < x.want
  <2>1. Becomes(r, NextSource(x))
    BY <1>2, <1>4 DEF TryWallet
  <2>2. p.token + 0 >= 0 /\ (m = 0 => p.token + 0 = 0) /\ 0 \in Int
    BY <1>2, <1>3, NothingTaken
  <2>3. Fits(NextSource(x), p, 0, 0, c, m)
    BY <1>2, <1>3, <2>2, SourceRefused
  <2> QED  BY <1>1, <1>2, <2>1, <2>3, QuietStep
<1>5. CASE ~(wallet <= 0 \/ wallet < x.want)
  <2>1. PICK b \in BOOLEAN : b = shouldTrust(r)
    BY DEF shouldTrust
  <2>2. PICK k \in Nat : k = IF b THEN 0 ELSE x.want
    <3>1. x.want \in Nat  BY DEF Session
    <3> QED  BY <3>1
  <2>3. PICK h : h = IF k > 0 THEN "token" ELSE "fund"
    OBVIOUS
  <2>4. Becomes(r, [[x EXCEPT !.quota = k, !.pc = h] EXCEPT !.trusted = b])
    BY <1>2, <1>5, <2>1, <2>2, <2>3 DEF TryWallet, Trying
  <2>5. Fits([x EXCEPT !.quota = k, !.pc = h], p, 0, 0, c, m)
    BY <1>2, <1>3, <2>3, Tried
  <2>6. Fits([[x EXCEPT !.quota = k, !.pc = h] EXCEPT !.trusted = b], p, 0, 0, c, m)
    BY <2>5, TrustNoted
  <2> QED  BY <1>1, <1>2, <2>4, <2>6, QuietStep
<1> QED  BY <1>4, <1>5

LEMMA TrySubscriptionStep ==
  ASSUME BillingInv, NEW r \in Req, TrySubscription(r), locked' = locked
  PROVE  BillingInv'
<1>1. NoStatement /\ Fault("ok")
  BY NothingMoves DEF TrySubscription
<1>2. PICK x \in Session, p \in Payment, c \in {"none", "consumed", "refunded"}, n, m \in Nat :
        /\ s[r] = x /\ paid[r] = p /\ rec[r] = c /\ faults = n /\ faults' = m
        /\ Given(x, p, c, n, m)
  BY <1>1, Before
<1>3. x.pc = "try" /\ x.want \in Nat
  BY <1>2 DEF TrySubscription, At, Session
<1>4. PICK k \in Nat : k = Max({x.want, 1})
  BY <1>3, MaxOfTwo
<1>5. PICK h : h = IF k > 0 THEN "token" ELSE "fund"
  OBVIOUS
<1>6. Becomes(r, [x EXCEPT !.quota = k, !.pc = h])
  BY <1>2, <1>4, <1>5 DEF TrySubscription, Trying
<1>7. Fits([x EXCEPT !.quota = k, !.pc = h], p, 0, 0, c, m)
  BY <1>2, <1>3, <1>5, Tried
<1> QED  BY <1>1, <1>2, <1>6, <1>7, QuietStep

LEMMA TokenCheckStep ==
  ASSUME BillingInv, NEW r \in Req, PreConsumeTokenCheck(r), locked' = locked
  PROVE  BillingInv'
<1>1. NoStatement /\ Fault("ok")
  BY NothingMoves DEF PreConsumeTokenCheck
<1>2. PICK x \in Session, p \in Payment, c \in {"none", "consumed", "refunded"}, n, m \in Nat :
        /\ s[r] = x /\ paid[r] = p /\ rec[r] = c /\ faults = n /\ faults' = m
        /\ Given(x, p, c, n, m)
  BY <1>1, Before
<1>3. x.pc = "token" /\ x.pc \in Early
  BY <1>2 DEF PreConsumeTokenCheck, At, Early
<1>4. CASE x.playground
  <2>1. Becomes(r, [x EXCEPT !.tokenConsumed = x.quota, !.pc = "fund"])
    BY <1>2, <1>4 DEF PreConsumeTokenCheck
  <2>2. Fits([x EXCEPT !.tokenConsumed = x.quota, !.pc = "fund"], p, 0, 0, c, m)
    BY <1>2, <1>3, <1>4, TokenNoted
  <2> QED  BY <1>1, <1>2, <2>1, <2>2, QuietStep
<1>5. CASE ~x.playground /\ ~x.unlimited /\ token < x.quota
  <2>1. Becomes(r, [x EXCEPT !.pc = "done", !.result = "rejected"])
    BY <1>2, <1>5 DEF PreConsumeTokenCheck
  <2>2. p.token + 0 >= 0 /\ (m = 0 => p.token + 0 = 0) /\ 0 \in Int
    BY <1>2, <1>3, NothingTaken
  <2>3. Fits([x EXCEPT !.pc = "done", !.result = "rejected"], p, 0, 0, c, m)
    BY <1>2, <1>3, <2>2, Rejected
  <2> QED  BY <1>1, <1>2, <2>1, <2>3, QuietStep
<1>6. CASE ~x.playground /\ ~(~x.unlimited /\ token < x.quota)
  <2>1. Becomes(r, [x EXCEPT !.pc = "token_take"])
    BY <1>2, <1>6 DEF PreConsumeTokenCheck
  <2>2. Fits([x EXCEPT !.pc = "token_take"], p, 0, 0, c, m)
    BY <1>2, <1>3, <1>6, TokenChecked
  <2> QED  BY <1>1, <1>2, <2>1, <2>2, QuietStep
<1> QED  BY <1>4, <1>5, <1>6

LEMMA TokenTakeStep ==
  ASSUME BillingInv, NEW r \in Req, PreConsumeTokenTake(r), locked' = locked
  PROVE  BillingInv'
<1>1. PICK o \in Outcome :
        /\ TakeToken(r, s[r].quota, o)
        /\ IF o = "ok"
             THEN Becomes(r, [s[r] EXCEPT !.tokenConsumed = s[r].quota, !.pc = "fund"])
             ELSE Ends(r, "rejected")
  BY DEF PreConsumeTokenTake
<1>2. PICK x \in Session, p \in Payment, c \in {"none", "consumed", "refunded"}, n, m \in Nat :
        /\ s[r] = x /\ paid[r] = p /\ rec[r] = c /\ faults = n /\ faults' = m
        /\ Given(x, p, c, n, m) /\ (o # "ok" => m > 0)
  <2>1. Fault(o)  BY <1>1, FaultCounted DEF TakeToken
  <2> QED  BY <2>1, Before
<1>3. x.pc = "token_take" /\ x.pc \in Early /\ x.quota \in Int
  BY <1>2 DEF PreConsumeTokenTake, At, Early, Session
<1>4. CASE o = "ok"
  <2>1. /\ TakeToken(r, x.quota, o)
        /\ Becomes(r, [x EXCEPT !.tokenConsumed = x.quota, !.pc = "fund"])
    BY <1>1, <1>2, <1>4
  <2>2. Fits([x EXCEPT !.tokenConsumed = x.quota, !.pc = "fund"], p, 0, x.quota, c, m)
    BY <1>2, <1>3, TokenTaken
  <2> QED  BY <1>2, <1>3, <1>4, <2>1, <2>2, TokenStep
<1>5. CASE o # "ok"
  <2>1. /\ TakeToken(r, x.quota, o)
        /\ Becomes(r, [x EXCEPT !.pc = "done", !.result = "rejected"])
    BY <1>1, <1>2, <1>5 DEF Ends
  <2>2. p.token + 0 >= 0 /\ (m = 0 => p.token + 0 = 0) /\ 0 \in Int
    BY <1>2, <1>3, NothingTaken
  <2>3. Fits([x EXCEPT !.pc = "done", !.result = "rejected"], p, 0, 0, c, m)
    BY <1>2, <1>3, <2>2, Rejected
  <2> QED  BY <1>2, <1>3, <1>5, <2>1, <2>3, TokenStep
<1> QED  BY <1>4, <1>5

LEMMA FundWalletStep ==
  ASSUME BillingInv, NEW r \in Req, FundWallet(r), locked' = locked
  PROVE  BillingInv'
<1>1. CASE s[r].quota = 0 /\ Becomes(r, Opened(r, 0)) /\ NoStatement
  <2>1. Fault("ok")
    BY <1>1, NothingMoves
  <2>2. PICK x \in Session, p \in Payment, c \in {"none", "consumed", "refunded"}, n, m \in Nat :
          /\ s[r] = x /\ paid[r] = p /\ rec[r] = c /\ faults = n /\ faults' = m
          /\ Given(x, p, c, n, m)
    BY <2>1, Before
  <2>3. x.pc = "fund" /\ Wallet(x) /\ x.quota = 0
    BY <1>1, <2>2, SourceIs DEF FundWallet, At, OnWallet, Source
  <2>4. Becomes(r, [x EXCEPT !.taken = x.quota, !.preConsumed = x.quota, !.pc = "open"])
    BY <1>1, <2>2, <2>3 DEF Opened
  <2>5. Fits([x EXCEPT !.taken = x.quota, !.preConsumed = x.quota, !.pc = "open"],
             p, x.quota, 0, c, m)
    BY <2>2, <2>3, OpenedWallet
  <2> QED  BY <1>1, <2>2, <2>3, <2>4, <2>5, QuietStep
<1>2. ASSUME NEW o \in Outcome, TakeWallet(r, s[r].quota, o),
             Becomes(r, IF o = "ok" THEN Opened(r, s[r].quota) ELSE Rollback(r, FALSE))
      PROVE  BillingInv'
  <2>1. Fault(o)
    BY <1>2, FaultCounted DEF TakeWallet
  <2>2. PICK x \in Session, p \in Payment, c \in {"none", "consumed", "refunded"}, n, m \in Nat :
          /\ s[r] = x /\ paid[r] = p /\ rec[r] = c /\ faults = n /\ faults' = m
          /\ Given(x, p, c, n, m) /\ (o # "ok" => m > 0)
    BY <2>1, Before
  <2>3. x.pc = "fund" /\ Wallet(x) /\ x.quota \in Int
    BY <2>2, SourceIs DEF FundWallet, At, OnWallet, Source, Session
  <2>4. CASE o = "ok"
    <3>1. /\ TakeWallet(r, x.quota, o)
          /\ Becomes(r, [x EXCEPT !.taken = x.quota, !.preConsumed = x.quota, !.pc = "open"])
      BY <1>2, <2>2, <2>4 DEF Opened
    <3>2. Fits([x EXCEPT !.taken = x.quota, !.preConsumed = x.quota, !.pc = "open"],
               p, x.quota, 0, c, m)
      BY <2>2, <2>3, OpenedWallet
    <3> QED  BY <2>2, <2>3, <2>4, <3>1, <3>2, WalletStep
  <2>5. CASE o # "ok"
    <3>1. /\ TakeWallet(r, x.quota, o)
          /\ Becomes(r, [x EXCEPT !.insufficient = FALSE, !.pc = "rollback"])
      BY <1>2, <2>2, <2>5 DEF Rollback
    <3>2. Fits([x EXCEPT !.insufficient = FALSE, !.pc = "rollback"], p, 0, 0, c, m)
      BY <2>2, <2>3, Refused
    <3> QED  BY <2>2, <2>3, <2>5, <3>1, <3>2, WalletStep
  <2> QED  BY <2>4, <2>5
<1> QED  BY <1>1, <1>2 DEF FundWallet

LEMMA FundSubscriptionStep ==
  ASSUME BillingInv, NEW r \in Req, FundSubscription(r), locked' = locked
  PROVE  BillingInv'
<1>1. CASE Becomes(r, Rollback(r, TRUE)) /\ NoStatement
  <2>1. Fault("ok")
    BY <1>1, NothingMoves
  <2>2. PICK x \in Session, p \in Payment, c \in {"none", "consumed", "refunded"}, n, m \in Nat :
          /\ s[r] = x /\ paid[r] = p /\ rec[r] = c /\ faults = n /\ faults' = m
          /\ Given(x, p, c, n, m)
    BY <2>1, Before
  <2>3. x.pc = "fund"
    BY <2>2 DEF FundSubscription, At
  <2>4. Becomes(r, [x EXCEPT !.insufficient = TRUE, !.pc = "rollback"])
    BY <1>1, <2>2 DEF Rollback
  <2>5. Fits([x EXCEPT !.insufficient = TRUE, !.pc = "rollback"], p, 0, 0, c, m)
    BY <2>2, <2>3, Refused
  <2> QED  BY <1>1, <2>2, <2>4, <2>5, QuietStep
<1>2. ASSUME NEW o \in Outcome, NEW short \in BOOLEAN, PreConsumeSub(r, s[r].quota, o),
             Becomes(r, IF o = "ok" THEN Opened(r, s[r].quota) ELSE Rollback(r, short))
      PROVE  BillingInv'
  <2>1. Fault(o)
    BY <1>2, FaultCounted DEF PreConsumeSub
  <2>2. PICK x \in Session, p \in Payment, c \in {"none", "consumed", "refunded"}, n, m \in Nat :
          /\ s[r] = x /\ paid[r] = p /\ rec[r] = c /\ faults = n /\ faults' = m
          /\ Given(x, p, c, n, m) /\ (o # "ok" => m > 0)
    BY <2>1, Before
  <2>3. x.pc = "fund" /\ ~Wallet(x) /\ x.quota \in Nat /\ x.quota \in Int /\ 0 \in Int
    BY <2>2, SourceIs DEF FundSubscription, At, OnWallet, Source, Session
  <2>4. PreConsumeSub(r, x.quota, o)
    BY <1>2, <2>2
  <2>5. CASE o = "ok"
    <3>1. Becomes(r, [x EXCEPT !.taken = x.quota, !.preConsumed = x.quota, !.pc = "open"])
      BY <1>2, <2>2, <2>5 DEF Opened
    <3>2. Fits([x EXCEPT !.taken = x.quota, !.preConsumed = x.quota, !.pc = "open"],
               paid[r], x.quota, 0, "consumed", faults')
      BY <2>2, <2>3, OpenedSub
    <3>3. Moves(r, x.quota, 0, "consumed")
      BY <2>3, <2>4, <2>5, PreConsumeSubMoves
    <3>4. "consumed" \in {"none", "consumed", "refunded"}
      OBVIOUS
    <3> QED  BY <2>1, <2>3, <3>1, <3>2, <3>3, <3>4, SessionStep, Zenon
  <2>6. CASE o # "ok"
    <3>1. Becomes(r, [x EXCEPT !.insufficient = short, !.pc = "rollback"])
      BY <1>2, <2>2, <2>6 DEF Rollback
    <3>2. Fits([x EXCEPT !.insufficient = short, !.pc = "rollback"], paid[r], 0, 0, c, faults')
      BY <2>2, <2>3, Refused
    <3>3. Moves(r, 0, 0, c)
      BY <2>2, <2>3, <2>4, <2>6, PreConsumeSubMoves
    <3> QED  BY <2>1, <2>3, <3>1, <3>2, <3>3, SessionStep, Zenon
  <2> QED  BY <2>5, <2>6
<1> QED  BY <1>1, <1>2 DEF FundSubscription

\* Giving the token back what the refused session took, or failing to.
LEMMA RolledBack ==
  ASSUME NEW x, NEW p, NEW c, NEW n, NEW m, Given(x, p, c, n, m), NEW t \in Int,
         x.pc = "rollback",
         \/ t = -x.tokenConsumed /\ ~x.playground
         \/ t = 0 /\ (x.playground \/ x.tokenConsumed = 0 \/ m > 0),
         NEW y, y = (IF x.insufficient THEN NextSource(x)
                     ELSE [x EXCEPT !.pc = "done", !.result = "rejected"])
  PROVE  Fits(y, p, 0, t, c, m)
<1>1. /\ Numbers(x) /\ p.fund \in Int /\ p.token \in Int /\ n \in Nat /\ m \in Nat /\ m >= n
      /\ Solvent(x, p) /\ (n = 0 => Exact(x, p, c))
  BY Typed
<1>2. p.token + t >= 0
  BY <1>1 DEF Solvent, Numbers
<1>3. m = 0 => p.token + t = 0
  BY <1>1 DEF Exact, Numbers
<1>4. x.pc \in Early
  BY DEF Early
<1>5. Fits(NextSource(x), p, 0, t, c, m)
  BY <1>2, <1>3, SourceRefused
<1>6. Fits([x EXCEPT !.pc = "done", !.result = "rejected"], p, 0, t, c, m)
  BY <1>2, <1>3, <1>4, Rejected
<1> QED  BY <1>5, <1>6

LEMMA RollbackTokenStep ==
  ASSUME BillingInv, NEW r \in Req, RollbackToken(r), locked' = locked
  PROVE  BillingInv'
<1> DEFINE after(x) == IF x.insufficient THEN NextSource(x)
                       ELSE [x EXCEPT !.pc = "done", !.result = "rejected"]
<1>1. Becomes(r, after(s[r])) /\ s[r].pc = "rollback"
  BY DEF RollbackToken, AfterRollback, At
<1> HIDE DEF after
<1>2. CASE NoStatement /\ ~(s[r].tokenConsumed > 0 /\ ~s[r].playground)
  <2>1. Fault("ok")
    BY <1>2, NothingMoves
  <2>2. PICK x \in Session, p \in Payment, c \in {"none", "consumed", "refunded"}, n, m \in Nat :
          /\ s[r] = x /\ paid[r] = p /\ rec[r] = c /\ faults = n /\ faults' = m
          /\ Given(x, p, c, n, m)
    BY <2>1, Before
  <2>3. x.playground \/ x.tokenConsumed = 0
    BY <1>2, <2>2 DEF Session
  <2>4. PICK y : y = after(x) /\ Becomes(r, y)
    BY <1>1, <2>2
  <2>5. 0 \in Int
    OBVIOUS
  <2>6. Fits(y, p, 0, 0, c, m)
    BY <1>1, <2>2, <2>3, <2>4, <2>5, RolledBack DEF after
  <2> QED  BY <1>2, <2>2, <2>4, <2>6, QuietStep
<1>3. ASSUME NEW o \in Outcome, TakeToken(r, -s[r].tokenConsumed, o), ~s[r].playground
      PROVE  BillingInv'
  <2>1. Fault(o)
    BY <1>3, FaultCounted DEF TakeToken
  <2>2. PICK x \in Session, p \in Payment, c \in {"none", "consumed", "refunded"}, n, m \in Nat :
          /\ s[r] = x /\ paid[r] = p /\ rec[r] = c /\ faults = n /\ faults' = m
          /\ Given(x, p, c, n, m) /\ (o # "ok" => m > 0)
    BY <2>1, Before
  <2>3. PICK y : y = after(x) /\ Becomes(r, y)
    BY <1>1, <2>2
  <2>4. PICK d \in Int : d = -x.tokenConsumed
    BY DEF Session
  <2>5. TakeToken(r, d, o) /\ x.pc = "rollback" /\ ~x.playground
    BY <1>1, <1>3, <2>2, <2>4
  <2>6. CASE o = "ok"
    <3>1. Fits(y, p, 0, d, c, m)
      BY <2>2, <2>3, <2>4, <2>5, RolledBack DEF after
    <3> QED  BY <2>2, <2>3, <2>5, <2>6, <3>1, TokenStep
  <2>7. CASE o # "ok"
    <3>1. 0 \in Int /\ m > 0
      BY <2>2, <2>7
    <3>2. Fits(y, p, 0, 0, c, m)
      BY <2>2, <2>3, <2>5, <3>1, RolledBack DEF after
    <3> QED  BY <2>2, <2>3, <2>5, <2>7, <3>2, TokenStep
  <2> QED  BY <2>6, <2>7
<1> QED  BY <1>2, <1>3 DEF RollbackToken

LEMMA ReserveStep ==
  ASSUME BillingInv, NEW r \in Req, Reserve(r), locked' = locked
  PROVE  BillingInv'
<1>1. NoStatement /\ Fault("ok")
  BY NothingMoves DEF Reserve
<1>2. PICK x \in Session, p \in Payment, c \in {"none", "consumed", "refunded"}, n, m \in Nat :
        /\ s[r] = x /\ paid[r] = p /\ rec[r] = c /\ faults = n /\ faults' = m
        /\ Given(x, p, c, n, m)
  BY <1>1, Before
<1>3. PICK t \in Targets :
        /\ t > s[r].preConsumed
        /\ Becomes(r, [s[r] EXCEPT !.delta = t - s[r].preConsumed, !.pc = "reserve_fund"])
  BY DEF Reserve
<1>4. t \in Nat /\ x.preConsumed \in Nat
  BY BillingAssumption DEF Session
<1>5. PICK d \in Nat \ {0} : d = t - x.preConsumed
  BY <1>2, <1>3, <1>4
<1>6. x.pc = "open" /\ Becomes(r, [x EXCEPT !.delta = d, !.pc = "reserve_fund"])
  BY <1>2, <1>3, <1>5 DEF Reserve, At
<1>7. Fits([x EXCEPT !.delta = d, !.pc = "reserve_fund"], p, 0, 0, c, m)
  BY <1>2, <1>6, ReserveStarted
<1> QED  BY <1>1, <1>2, <1>6, <1>7, QuietStep

LEMMA ReserveFundingStep ==
  ASSUME BillingInv, NEW r \in Req, ReserveFunding(r), locked' = locked
  PROVE  BillingInv'
<1>1. ASSUME NEW o \in Outcome, OnWallet(r), TakeWallet(r, s[r].delta, o),
             Becomes(r, IF o = "ok"
                          THEN [s[r] EXCEPT !.taken = @ + s[r].delta, !.pc = "reserve_token"]
                          ELSE [s[r] EXCEPT !.pc = "open"])
      PROVE  BillingInv'
  <2>1. Fault(o)
    BY <1>1, FaultCounted DEF TakeWallet
  <2>2. PICK x \in Session, p \in Payment, c \in {"none", "consumed", "refunded"}, n, m \in Nat :
          /\ s[r] = x /\ paid[r] = p /\ rec[r] = c /\ faults = n /\ faults' = m
          /\ Given(x, p, c, n, m) /\ (o # "ok" => m > 0)
    BY <2>1, Before
  <2>3. /\ x.pc = "reserve_fund" /\ Wallet(x) /\ x.delta \in Int
        /\ TakeWallet(r, x.delta, o)
    BY <1>1, <2>2, SourceIs DEF ReserveFunding, At, OnWallet, Source, Session
  <2>4. CASE o = "ok"
    <3>1. Becomes(r, [x EXCEPT !.taken = x.taken + x.delta, !.pc = "reserve_token"])
      BY <1>1, <2>2, <2>4
    <3>2. Fits([x EXCEPT !.taken = x.taken + x.delta, !.pc = "reserve_token"],
               p, x.delta, 0, c, m)
      BY <2>2, <2>3, ReservedWallet
    <3> QED  BY <2>2, <2>3, <2>4, <3>1, <3>2, WalletStep
  <2>5. CASE o # "ok"
    <3>1. Becomes(r, [x EXCEPT !.pc = "open"])
      BY <1>1, <2>2, <2>5
    <3>2. Fits([x EXCEPT !.pc = "open"], p, 0, 0, c, m)
      BY <2>2, <2>3, ReserveRefused
    <3> QED  BY <2>2, <2>3, <2>5, <3>1, <3>2, WalletStep
  <2> QED  BY <2>4, <2>5
<1>2. CASE Goto(r, "open") /\ NoStatement
  <2>1. Fault("ok")
    BY <1>2, NothingMoves
  <2>2. PICK x \in Session, p \in Payment, c \in {"none", "consumed", "refunded"}, n, m \in Nat :
          /\ s[r] = x /\ paid[r] = p /\ rec[r] = c /\ faults = n /\ faults' = m
          /\ Given(x, p, c, n, m)
    BY <2>1, Before
  <2>3. x.pc = "reserve_fund" /\ Becomes(r, [x EXCEPT !.pc = "open"])
    BY <1>2, <2>2 DEF ReserveFunding, At, Goto
  <2>4. Fits([x EXCEPT !.pc = "open"], p, 0, 0, c, m)
    BY <2>2, <2>3, ReserveRefused
  <2> QED  BY <1>2, <2>2, <2>3, <2>4, QuietStep
<1>3. ASSUME NEW o \in Outcome, ~OnWallet(r), TakeSub(r, s[r].delta, o),
             Goto(r, IF o = "ok" THEN "reserve_token" ELSE "open")
      PROVE  BillingInv'
  <2>1. Fault(o)
    BY <1>3, FaultCounted DEF TakeSub
  <2>2. PICK x \in Session, p \in Payment, c \in {"none", "consumed", "refunded"}, n, m \in Nat :
          /\ s[r] = x /\ paid[r] = p /\ rec[r] = c /\ faults = n /\ faults' = m
          /\ Given(x, p, c, n, m) /\ (o # "ok" => m > 0)
    BY <2>1, Before
  <2>3. /\ x.pc = "reserve_fund" /\ ~Wallet(x) /\ x.delta \in Int
        /\ TakeSub(r, x.delta, o)
    BY <1>3, <2>2, SourceIs DEF ReserveFunding, At, OnWallet, Source, Session
  <2>4. CASE o = "ok"
    <3>1. Becomes(r, [x EXCEPT !.pc = "reserve_token"])
      BY <1>3, <2>2, <2>4 DEF Goto
    <3>2. Fits([x EXCEPT !.pc = "reserve_token"], p, x.delta, 0, c, m)
      BY <2>2, <2>3, ReservedSub
    <3> QED  BY <2>2, <2>3, <2>4, <3>1, <3>2, SubStep
  <2>5. CASE o # "ok"
    <3>1. Becomes(r, [x EXCEPT !.pc = "open"])
      BY <1>3, <2>2, <2>5 DEF Goto
    <3>2. Fits([x EXCEPT !.pc = "open"], p, 0, 0, c, m)
      BY <2>2, <2>3, ReserveRefused
    <3> QED  BY <2>2, <2>3, <2>5, <3>1, <3>2, SubStep
  <2> QED  BY <2>4, <2>5
<1> QED  BY <1>1, <1>2, <1>3 DEF ReserveFunding

LEMMA ReserveTokenCheckStep ==
  ASSUME BillingInv, NEW r \in Req, ReserveTokenCheck(r), locked' = locked
  PROVE  BillingInv'
<1>1. NoStatement /\ Fault("ok")
  BY NothingMoves DEF ReserveTokenCheck
<1>2. PICK x \in Session, p \in Payment, c \in {"none", "consumed", "refunded"}, n, m \in Nat :
        /\ s[r] = x /\ paid[r] = p /\ rec[r] = c /\ faults = n /\ faults' = m
        /\ Given(x, p, c, n, m)
  BY <1>1, Before
<1>3. x.pc = "reserve_token"
  BY <1>2 DEF ReserveTokenCheck, At
<1>4. CASE x.playground
  <2>1. Becomes(r, [x EXCEPT !.preConsumed = x.preConsumed + x.delta,
                           !.tokenConsumed = x.tokenConsumed + x.delta,
                           !.extraReserved = x.extraReserved + x.delta, !.pc = "open"])
    BY <1>2, <1>4 DEF ReserveTokenCheck, Reserved
  <2>2. Fits([x EXCEPT !.preConsumed = x.preConsumed + x.delta,
                      !.tokenConsumed = x.tokenConsumed + x.delta,
                      !.extraReserved = x.extraReserved + x.delta, !.pc = "open"],
             p, 0, 0, c, m)
    BY <1>2, <1>3, <1>4, ReservedFree
  <2> QED  BY <1>1, <1>2, <2>1, <2>2, QuietStep
<1>5. CASE ~x.playground
  <2>1. PICK k \in {"reserve_back", "reserve_take"} :
          k = IF ~x.unlimited /\ token < x.delta THEN "reserve_back" ELSE "reserve_take"
    OBVIOUS
  <2>2. Becomes(r, [x EXCEPT !.pc = k])
    BY <1>2, <1>5, <2>1 DEF ReserveTokenCheck
  <2>3. Fits([x EXCEPT !.pc = k], p, 0, 0, c, m)
    BY <1>2, <1>3, <1>5, ReserveChecked
  <2> QED  BY <1>1, <1>2, <2>2, <2>3, QuietStep
<1> QED  BY <1>4, <1>5

LEMMA ReserveTokenTakeStep ==
  ASSUME BillingInv, NEW r \in Req, ReserveTokenTake(r), locked' = locked
  PROVE  BillingInv'
<1>1. PICK o \in Outcome :
        /\ TakeToken(r, s[r].delta, o)
        /\ Becomes(r, IF o = "ok" THEN Reserved(r) ELSE [s[r] EXCEPT !.pc = "reserve_back"])
  BY DEF ReserveTokenTake
<1>2. PICK x \in Session, p \in Payment, c \in {"none", "consumed", "refunded"}, n, m \in Nat :
        /\ s[r] = x /\ paid[r] = p /\ rec[r] = c /\ faults = n /\ faults' = m
        /\ Given(x, p, c, n, m) /\ (o # "ok" => m > 0)
  <2>1. Fault(o)  BY <1>1, FaultCounted DEF TakeToken
  <2> QED  BY <2>1, Before
<1>3. x.pc = "reserve_take" /\ ~x.playground /\ x.delta \in Int /\ TakeToken(r, x.delta, o)
  <2>1. x.pc = "reserve_take"  BY <1>2 DEF ReserveTokenTake, At
  <2>2. ~x.playground  BY <1>2, <2>1 DEF Given, Account, Progress
  <2> QED  BY <1>1, <1>2, <2>1, <2>2 DEF Session
<1>4. CASE o = "ok"
  <2>1. Becomes(r, [x EXCEPT !.preConsumed = x.preConsumed + x.delta,
                           !.tokenConsumed = x.tokenConsumed + x.delta,
                           !.extraReserved = x.extraReserved + x.delta, !.pc = "open"])
    BY <1>1, <1>2, <1>4 DEF Reserved
  <2>2. Fits([x EXCEPT !.preConsumed = x.preConsumed + x.delta,
                      !.tokenConsumed = x.tokenConsumed + x.delta,
                      !.extraReserved = x.extraReserved + x.delta, !.pc = "open"],
             p, 0, x.delta, c, m)
    BY <1>2, <1>3, ReservedToken
  <2> QED  BY <1>2, <1>3, <1>4, <2>1, <2>2, TokenStep
<1>5. CASE o # "ok"
  <2>1. Becomes(r, [x EXCEPT !.pc = "reserve_back"])
    BY <1>1, <1>2, <1>5
  <2>2. Fits([x EXCEPT !.pc = "reserve_back"], p, 0, 0, c, m)
    BY <1>2, <1>3, ReserveChecked
  <2> QED  BY <1>2, <1>3, <1>5, <2>1, <2>2, TokenStep
<1> QED  BY <1>4, <1>5

LEMMA RollbackFundingReserveStep ==
  ASSUME BillingInv, NEW r \in Req, RollbackFundingReserve(r), locked' = locked
  PROVE  BillingInv'
<1>1. PICK o \in Outcome :
        \/ /\ OnWallet(r) /\ TakeWallet(r, -s[r].delta, o)
           /\ Becomes(r, [s[r] EXCEPT !.taken = IF o = "ok" THEN @ - s[r].delta ELSE @,
                                      !.pc = "open"])
        \/ ~OnWallet(r) /\ TakeSub(r, -s[r].delta, o) /\ Goto(r, "open")
  BY DEF RollbackFundingReserve
<1>2. PICK x \in Session, p \in Payment, c \in {"none", "consumed", "refunded"}, n, m \in Nat :
        /\ s[r] = x /\ paid[r] = p /\ rec[r] = c /\ faults = n /\ faults' = m
        /\ Given(x, p, c, n, m) /\ (o # "ok" => m > 0)
  <2>1. Fault(o)  BY <1>1, FaultCounted DEF TakeWallet, TakeSub
  <2> QED  BY <2>1, Before
<1>3. x.pc = "reserve_back" /\ (Wallet(x) <=> OnWallet(r)) /\ x.taken \in Nat
  BY <1>2, SourceIs DEF RollbackFundingReserve, At, OnWallet, Source, Session
<1>4. PICK d \in Int : d = -x.delta
  BY DEF Session
<1>5. CASE OnWallet(r)
  <2>1. /\ TakeWallet(r, d, o)
        /\ Becomes(r, [x EXCEPT !.taken = IF o = "ok" THEN x.taken - x.delta ELSE x.taken,
                                !.pc = "open"])
    BY <1>1, <1>2, <1>4, <1>5
  <2>2. CASE o = "ok"
    <3>1. Becomes(r, [x EXCEPT !.taken = x.taken - x.delta, !.pc = "open"])
      BY <2>1, <2>2
    <3>2. Fits([x EXCEPT !.taken = x.taken - x.delta, !.pc = "open"], p, -x.delta, 0, c, m)
      BY <1>2, <1>3, <1>5, ReserveBackWallet
    <3> QED  BY <1>2, <1>4, <2>1, <2>2, <3>1, <3>2, WalletStep
  <2>3. CASE o # "ok"
    <3>1. [x EXCEPT !.taken = x.taken, !.pc = "open"] = [x EXCEPT !.pc = "open"]
      BY DEF Session
    <3>2. Becomes(r, [x EXCEPT !.pc = "open"])
      <4>1. Becomes(r, [x EXCEPT !.taken = x.taken, !.pc = "open"])  BY <2>1, <2>3
      <4> QED  BY <3>1, <4>1
    <3>3. Fits([x EXCEPT !.pc = "open"], p, 0, 0, c, m)
      BY <1>2, <1>3, <2>3, ReserveBackFailed
    <3> QED  BY <1>2, <2>1, <2>3, <3>2, <3>3, WalletStep
  <2> QED  BY <2>2, <2>3
<1>6. CASE ~OnWallet(r)
  <2>1. TakeSub(r, d, o) /\ Becomes(r, [x EXCEPT !.pc = "open"])
    BY <1>1, <1>2, <1>4, <1>6 DEF Goto
  <2>2. CASE o = "ok"
    <3>1. Fits([x EXCEPT !.pc = "open"], p, -x.delta, 0, c, m)
      BY <1>2, <1>3, <1>6, ReserveBackSub
    <3> QED  BY <1>2, <1>4, <2>1, <2>2, <3>1, SubStep
  <2>3. CASE o # "ok"
    <3>1. Fits([x EXCEPT !.pc = "open"], p, 0, 0, c, m)
      BY <1>2, <1>3, <2>3, ReserveBackFailed
    <3> QED  BY <1>2, <2>1, <2>3, <3>1, SubStep
  <2> QED  BY <2>2, <2>3
<1> QED  BY <1>5, <1>6

LEMMA SettleStep ==
  ASSUME BillingInv, NEW r \in Req, Settle(r), locked' = locked
  PROVE  BillingInv'
<1>1. NoStatement /\ Fault("ok")
  BY NothingMoves DEF Settle
<1>2. PICK x \in Session, p \in Payment, c \in {"none", "consumed", "refunded"}, n, m \in Nat :
        /\ s[r] = x /\ paid[r] = p /\ rec[r] = c /\ faults = n /\ faults' = m
        /\ Given(x, p, c, n, m)
  BY <1>1, Before
<1>3. PICK a \in Actuals :
        Becomes(r, LET z == [s[r] EXCEPT !.actual = a, !.delta = a - s[r].preConsumed]
                   IN  IF z.delta = 0 THEN [z EXCEPT !.pc = "done", !.result = "settled"]
                       ELSE [z EXCEPT !.pc = "settle_fund"])
  BY DEF Settle
<1>4. a \in Nat /\ x.preConsumed \in Nat /\ x.pc = "open"
  BY <1>2, BillingAssumption DEF Session, Settle, At
<1>5. [x EXCEPT !.actual = a, !.delta = a - x.preConsumed].delta = a - x.preConsumed
  BY DEF Session
<1>6. CASE a = x.preConsumed
  <2>1. a - x.preConsumed = 0
    BY <1>4, <1>6
  <2>2. Becomes(r, [x EXCEPT !.actual = a, !.delta = a - x.preConsumed, !.pc = "done",
                             !.result = "settled"])
    BY <1>2, <1>3, <1>5, <2>1
  <2>3. Fits([x EXCEPT !.actual = a, !.delta = a - x.preConsumed, !.pc = "done",
                       !.result = "settled"], p, 0, 0, c, m)
    BY <1>2, <1>4, <1>6, SettledEven
  <2> QED  BY <1>1, <1>2, <2>2, <2>3, QuietStep
<1>7. CASE a # x.preConsumed
  <2>1. a - x.preConsumed # 0
    BY <1>4, <1>7
  <2>2. Becomes(r, [x EXCEPT !.actual = a, !.delta = a - x.preConsumed, !.pc = "settle_fund"])
    BY <1>2, <1>3, <1>5, <2>1
  <2>3. Fits([x EXCEPT !.actual = a, !.delta = a - x.preConsumed, !.pc = "settle_fund"],
             p, 0, 0, c, m)
    BY <1>2, <1>4, SettleStarted
  <2> QED  BY <1>1, <1>2, <2>2, <2>3, QuietStep
<1> QED  BY <1>6, <1>7

LEMMA SettleFundingStep ==
  ASSUME BillingInv, NEW r \in Req, SettleFunding(r), locked' = locked
  PROVE  BillingInv'
<1>1. ASSUME NEW o \in Outcome, TakeWallet(r, s[r].delta, o) \/ TakeSub(r, s[r].delta, o),
             IF o = "ok" THEN Goto(r, "settle_token") ELSE Ends(r, "unsettled")
      PROVE  BillingInv'
  <2>1. Fault(o)
    BY <1>1, FaultCounted DEF TakeWallet, TakeSub
  <2>2. PICK x \in Session, p \in Payment, c \in {"none", "consumed", "refunded"}, n, m \in Nat :
          /\ s[r] = x /\ paid[r] = p /\ rec[r] = c /\ faults = n /\ faults' = m
          /\ Given(x, p, c, n, m) /\ (o # "ok" => m > 0)
    BY <2>1, Before
  <2>3. /\ x.pc = "settle_fund" /\ x.delta \in Int
        /\ TakeWallet(r, x.delta, o) \/ TakeSub(r, x.delta, o)
    BY <1>1, <2>2 DEF SettleFunding, At, Session
  <2>4. CASE o = "ok"
    <3>1. Becomes(r, [x EXCEPT !.pc = "settle_token"])
      BY <1>1, <2>2, <2>4 DEF Goto
    <3>2. Fits([x EXCEPT !.pc = "settle_token"], p, x.delta, 0, c, m)
      BY <2>2, <2>3, SettledFunding
    <3>3. CASE TakeWallet(r, x.delta, o)
      BY <2>2, <2>3, <2>4, <3>1, <3>2, <3>3, WalletStep
    <3>4. CASE TakeSub(r, x.delta, o)
      BY <2>2, <2>3, <2>4, <3>1, <3>2, <3>4, SubStep
    <3> QED  BY <2>3, <3>3, <3>4
  <2>5. CASE o # "ok"
    <3>1. Becomes(r, [x EXCEPT !.pc = "done", !.result = "unsettled"])
      BY <1>1, <2>2, <2>5 DEF Ends
    <3>2. Fits([x EXCEPT !.pc = "done", !.result = "unsettled"], p, 0, 0, c, m)
      BY <2>2, <2>3, Unsettled
    <3>3. CASE TakeWallet(r, x.delta, o)
      BY <2>2, <2>3, <2>5, <3>1, <3>2, <3>3, WalletStep
    <3>4. CASE TakeSub(r, x.delta, o)
      BY <2>2, <2>3, <2>5, <3>1, <3>2, <3>4, SubStep
    <3> QED  BY <2>3, <3>3, <3>4
  <2> QED  BY <2>4, <2>5
<1>2. CASE Ends(r, "unsettled") /\ NoStatement
  <2>1. Fault("ok")
    BY <1>2, NothingMoves
  <2>2. PICK x \in Session, p \in Payment, c \in {"none", "consumed", "refunded"}, n, m \in Nat :
          /\ s[r] = x /\ paid[r] = p /\ rec[r] = c /\ faults = n /\ faults' = m
          /\ Given(x, p, c, n, m)
    BY <2>1, Before
  <2>3. x.pc = "settle_fund" /\ Becomes(r, [x EXCEPT !.pc = "done", !.result = "unsettled"])
    BY <1>2, <2>2 DEF SettleFunding, At, Ends
  <2>4. Fits([x EXCEPT !.pc = "done", !.result = "unsettled"], p, 0, 0, c, m)
    BY <2>2, <2>3, Unsettled
  <2> QED  BY <1>2, <2>2, <2>3, <2>4, QuietStep
<1> QED  BY <1>1, <1>2 DEF SettleFunding

LEMMA SettleTokenStep ==
  ASSUME BillingInv, NEW r \in Req, SettleToken(r), locked' = locked
  PROVE  BillingInv'
<1>1. Becomes(r, [s[r] EXCEPT !.pc = "done", !.result = "settled"]) /\ s[r].pc = "settle_token"
  BY DEF SettleToken, Ends, At
<1>2. CASE s[r].playground /\ NoStatement
  <2>1. Fault("ok")
    BY <1>2, NothingMoves
  <2>2. PICK x \in Session, p \in Payment, c \in {"none", "consumed", "refunded"}, n, m \in Nat :
          /\ s[r] = x /\ paid[r] = p /\ rec[r] = c /\ faults = n /\ faults' = m
          /\ Given(x, p, c, n, m)
    BY <2>1, Before
  <2>3. Becomes(r, [x EXCEPT !.pc = "done", !.result = "settled"])
    BY <1>1, <2>2
  <2>4. Fits([x EXCEPT !.pc = "done", !.result = "settled"], p, 0, 0, c, m)
    BY <1>1, <1>2, <2>2, SettledFree
  <2> QED  BY <1>2, <2>2, <2>3, <2>4, QuietStep
<1>3. ASSUME NEW o \in Outcome, ~s[r].playground, TakeToken(r, s[r].delta, o)
      PROVE  BillingInv'
  <2>1. Fault(o)
    BY <1>3, FaultCounted DEF TakeToken
  <2>2. PICK x \in Session, p \in Payment, c \in {"none", "consumed", "refunded"}, n, m \in Nat :
          /\ s[r] = x /\ paid[r] = p /\ rec[r] = c /\ faults = n /\ faults' = m
          /\ Given(x, p, c, n, m) /\ (o # "ok" => m > 0)
    BY <2>1, Before
  <2>3. /\ Becomes(r, [x EXCEPT !.pc = "done", !.result = "settled"])
        /\ TakeToken(r, x.delta, o) /\ x.delta \in Int
    BY <1>1, <1>3, <2>2 DEF Session
  <2>4. CASE o = "ok"
    <3>1. Fits([x EXCEPT !.pc = "done", !.result = "settled"], p, 0, x.delta, c, m)
      BY <1>1, <1>3, <2>2, SettledToken
    <3> QED  BY <2>2, <2>3, <2>4, <3>1, TokenStep
  <2>5. CASE o # "ok"
    <3>1. Fits([x EXCEPT !.pc = "done", !.result = "settled"], p, 0, 0, c, m)
      BY <1>1, <2>2, <2>5, SettledFree
    <3> QED  BY <2>2, <2>3, <2>5, <3>1, TokenStep
  <2> QED  BY <2>4, <2>5
<1> QED  BY <1>2, <1>3 DEF SettleToken

LEMMA RefundStep ==
  ASSUME BillingInv, NEW r \in Req, Refund(r), locked' = locked
  PROVE  BillingInv'
<1>1. NoStatement /\ Fault("ok")
  BY NothingMoves DEF Refund
<1>2. PICK x \in Session, p \in Payment, c \in {"none", "consumed", "refunded"}, n, m \in Nat :
        /\ s[r] = x /\ paid[r] = p /\ rec[r] = c /\ faults = n /\ faults' = m
        /\ Given(x, p, c, n, m)
  BY <1>1, Before
<1>3. x.pc = "open"
  BY <1>2 DEF Refund, At
<1>4. CASE NeedsRefund(r)
  <2>1. Becomes(r, [x EXCEPT !.pc = "refund_fund"])
    BY <1>2, <1>4 DEF Refund, Goto
  <2>2. Fits([x EXCEPT !.pc = "refund_fund"], p, 0, 0, c, m)
    BY <1>2, <1>3, RefundStarted
  <2> QED  BY <1>1, <1>2, <2>1, <2>2, QuietStep
<1>5. CASE ~NeedsRefund(r)
  <2>1. Becomes(r, [x EXCEPT !.pc = "done", !.result = "refunded"]) /\ x.tokenConsumed = 0
    BY <1>2, <1>5 DEF Refund, Ends, NeedsRefund, Session
  <2>2. Fits([x EXCEPT !.pc = "done", !.result = "refunded"], p, 0, 0, c, m)
    BY <1>2, <1>3, <2>1, RefundNothing
  <2> QED  BY <1>1, <1>2, <2>1, <2>2, QuietStep
<1> QED  BY <1>4, <1>5

LEMMA RefundWalletStep ==
  ASSUME BillingInv, NEW r \in Req, RefundWallet(r), locked' = locked
  PROVE  BillingInv'
<1>1. /\ Becomes(r, [s[r] EXCEPT !.pc = "refund_extra"])
      /\ s[r].pc = "refund_fund" /\ Head(s[r].plan) = "wallet"
  BY DEF RefundWallet, Goto, At, OnWallet, Source
<1>2. CASE ~(s[r].taken > 0) /\ NoStatement
  <2>1. Fault("ok")
    BY <1>2, NothingMoves
  <2>2. PICK x \in Session, p \in Payment, c \in {"none", "consumed", "refunded"}, n, m \in Nat :
          /\ s[r] = x /\ paid[r] = p /\ rec[r] = c /\ faults = n /\ faults' = m
          /\ Given(x, p, c, n, m)
    BY <2>1, Before
  <2>3. Becomes(r, [x EXCEPT !.pc = "refund_extra"]) /\ Wallet(x) /\ x.taken = 0
    <3>1. Wallet(x)  BY <1>1, <2>2, SourceIs
    <3>2. x.taken = 0  BY <1>2, <2>2 DEF Session
    <3> QED  BY <1>1, <2>2, <3>1, <3>2
  <2>4. Fits([x EXCEPT !.pc = "refund_extra"], p, 0, 0, c, m)
    BY <1>1, <2>2, <2>3, RefundWalletFailed
  <2> QED  BY <1>2, <2>2, <2>3, <2>4, QuietStep
<1>3. ASSUME NEW o \in Outcome, TakeWallet(r, -s[r].taken, o)
      PROVE  BillingInv'
  <2>1. Fault(o)
    BY <1>3, FaultCounted DEF TakeWallet
  <2>2. PICK x \in Session, p \in Payment, c \in {"none", "consumed", "refunded"}, n, m \in Nat :
          /\ s[r] = x /\ paid[r] = p /\ rec[r] = c /\ faults = n /\ faults' = m
          /\ Given(x, p, c, n, m) /\ (o # "ok" => m > 0)
    BY <2>1, Before
  <2>3. PICK d \in Int : d = -x.taken
    BY DEF Session
  <2>4. /\ Becomes(r, [x EXCEPT !.pc = "refund_extra"]) /\ Wallet(x) /\ x.pc = "refund_fund"
        /\ TakeWallet(r, d, o)
    BY <1>1, <1>3, <2>2, <2>3, SourceIs
  <2>5. CASE o = "ok"
    <3>1. Fits([x EXCEPT !.pc = "refund_extra"], p, -x.taken, 0, c, m)
      BY <2>2, <2>4, RefundedWallet
    <3> QED  BY <2>2, <2>3, <2>4, <2>5, <3>1, WalletStep
  <2>6. CASE o # "ok"
    <3>1. Fits([x EXCEPT !.pc = "refund_extra"], p, 0, 0, c, m)
      BY <2>2, <2>4, <2>6, RefundWalletFailed
    <3> QED  BY <2>2, <2>4, <2>6, <3>1, WalletStep
  <2> QED  BY <2>5, <2>6
<1> QED  BY <1>2, <1>3 DEF RefundWallet

\* The session after a failed attempt.
LEMMA AgainFits ==
  ASSUME NEW x, NEW p, NEW c, NEW n, NEW m, Given(x, p, c, n, m), NEW e, m > 0,
         x.pc \in {"refund_fund", "refund_mark"}, ~Wallet(x)
  PROVE  Fits([x EXCEPT !.tries = x.tries + 1,
                 !.pc = IF x.tries + 1 < MaxAttempts THEN "refund_fund" ELSE "refund_extra"],
              p, 0, 0, e, m)
<1>1. PICK h \in {"refund_fund", "refund_extra"} :
        /\ h = IF x.tries + 1 < MaxAttempts THEN "refund_fund" ELSE "refund_extra"
        /\ h = "refund_fund" => x.tries + 1 < 3
  BY DEF MaxAttempts
<1>2. Fits([x EXCEPT !.tries = x.tries + 1, !.pc = h], p, 0, 0, e, m)
  BY <1>1, RefundAgain
<1> QED  BY <1>1, <1>2

LEMMA RefundAmountStep ==
  ASSUME BillingInv, NEW r \in Req, RefundSubscriptionAmount(r), locked' = locked
  PROVE  BillingInv'
<1>1. CASE rec[r] = "refunded" /\ Goto(r, "refund_extra") /\ NoStatement
  <2>1. Fault("ok")
    BY <1>1, NothingMoves
  <2>2. PICK x \in Session, p \in Payment, c \in {"none", "consumed", "refunded"}, n, m \in Nat :
          /\ s[r] = x /\ paid[r] = p /\ rec[r] = c /\ faults = n /\ faults' = m
          /\ Given(x, p, c, n, m)
    BY <2>1, Before
  <2>3. /\ x.pc = "refund_fund" /\ ~Wallet(x) /\ c = "refunded"
        /\ Becomes(r, [x EXCEPT !.pc = "refund_extra"])
    BY <1>1, <2>2, SourceIs DEF RefundSubscriptionAmount, At, OnWallet, Source, Goto
  <2>4. Fits([x EXCEPT !.pc = "refund_extra"], p, 0, 0, c, m)
    BY <2>2, <2>3, RefundSkipped
  <2> QED  BY <1>1, <2>2, <2>3, <2>4, QuietStep
<1>2. ASSUME NEW o \in Outcome, TakeSub(r, -s[r].taken, o),
             IF o = "ok" THEN Goto(r, "refund_mark") ELSE Again(r)
      PROVE  BillingInv'
  <2>1. Fault(o)
    BY <1>2, FaultCounted DEF TakeSub
  <2>2. PICK x \in Session, p \in Payment, c \in {"none", "consumed", "refunded"}, n, m \in Nat :
          /\ s[r] = x /\ paid[r] = p /\ rec[r] = c /\ faults = n /\ faults' = m
          /\ Given(x, p, c, n, m) /\ (o # "ok" => m > 0)
    BY <2>1, Before
  <2>3. PICK d \in Int : d = -x.taken
    BY DEF Session
  <2>4. x.pc = "refund_fund" /\ ~Wallet(x) /\ TakeSub(r, d, o)
    BY <1>2, <2>2, <2>3, SourceIs DEF RefundSubscriptionAmount, At, OnWallet, Source
  <2>5. CASE o = "ok"
    <3>1. Becomes(r, [x EXCEPT !.pc = "refund_mark"])
      BY <1>2, <2>2, <2>5 DEF Goto
    <3>2. Fits([x EXCEPT !.pc = "refund_mark"], p, -x.taken, 0, c, m)
      BY <2>2, <2>4, RefundedSub
    <3> QED  BY <2>2, <2>3, <2>4, <2>5, <3>1, <3>2, SubStep
  <2>6. CASE o # "ok"
    <3> DEFINE y == [x EXCEPT !.tries = x.tries + 1,
                 !.pc = IF x.tries + 1 < MaxAttempts THEN "refund_fund" ELSE "refund_extra"]
    <3>1. Becomes(r, y)
      BY <1>2, <2>2, <2>6 DEF Again
    <3>2. Fits(y, p, 0, 0, c, m)
      BY <2>2, <2>4, <2>6, AgainFits
    <3> HIDE DEF y
    <3> QED  BY <2>2, <2>4, <2>6, <3>1, <3>2, SubStep
  <2> QED  BY <2>5, <2>6
<1> QED  BY <1>1, <1>2 DEF RefundSubscriptionAmount

LEMMA RefundMarkStep ==
  ASSUME BillingInv, NEW r \in Req, RefundSubscriptionMark(r), locked' = locked
  PROVE  BillingInv'
<1>1. PICK o \in Outcome \cup {l \in {"lost"} : faults < MaxFaults} :
        /\ rec' = IF o # "failed" THEN [rec EXCEPT ![r] = "refunded"] ELSE rec
        /\ Counts(o) /\ UNCHANGED <<wallet, token, used, paid>>
        /\ IF o = "ok" THEN Goto(r, "refund_extra") ELSE Again(r)
  BY DEF RefundSubscriptionMark
<1>2. PICK x \in Session, p \in Payment, c \in {"none", "consumed", "refunded"}, n, m \in Nat :
        /\ s[r] = x /\ paid[r] = p /\ rec[r] = c /\ faults = n /\ faults' = m
        /\ Given(x, p, c, n, m) /\ (o # "ok" => m > 0)
  <2>1. Fault(o)
    BY <1>1, BillingAssumption DEF BillingInv, TypeOK, Outcome, Counts, Fault
  <2> QED  BY <2>1, Before
<1>3. Fault(o)
  BY <1>1, BillingAssumption DEF BillingInv, TypeOK, Outcome, Counts, Fault
<1>4. PICK e \in {"none", "consumed", "refunded"} : e = IF o # "failed" THEN "refunded" ELSE c
  OBVIOUS
<1>5. Moves(r, 0, 0, e)
  <2>1. paid' = [paid EXCEPT ![r] = [fund |-> paid[r].fund + 0, token |-> paid[r].token + 0]]
    <3>1. 0 \in Int  OBVIOUS
    <3> QED  BY <1>1, <3>1, PaidForms, Zenon
  <2>2. rec' = [rec EXCEPT ![r] = e]
    <3>1. rec = [rec EXCEPT ![r] = c]  BY <1>2 DEF BillingInv, TypeOK
    <3> QED  BY <1>1, <1>4, <3>1
  <2>3. wallet' \in Int /\ token' \in Int /\ used' \in Nat
    BY <1>1 DEF BillingInv, TypeOK
  <2> QED  BY <2>1, <2>2, <2>3 DEF Moves
<1>6. x.pc = "refund_mark" /\ ~Wallet(x)
  <2>1. x.pc = "refund_mark"  BY <1>2 DEF RefundSubscriptionMark, At
  <2> QED  BY <1>2, <2>1 DEF Given, Account, Progress
<1>7. 0 \in Int
  OBVIOUS
<1>8. CASE o = "ok"
  <2>1. Becomes(r, [x EXCEPT !.pc = "refund_extra"])
    BY <1>1, <1>2, <1>8 DEF Goto
  <2>2. Fits([x EXCEPT !.pc = "refund_extra"], paid[r], 0, 0, e, faults')
    BY <1>2, <1>6, RefundMarked
  <2> QED  BY <1>3, <1>5, <1>7, <2>1, <2>2, SessionStep, Zenon
<1>9. CASE o # "ok"
  <2> DEFINE y == [x EXCEPT !.tries = x.tries + 1,
               !.pc = IF x.tries + 1 < MaxAttempts THEN "refund_fund" ELSE "refund_extra"]
  <2>1. Becomes(r, y)
    BY <1>1, <1>2, <1>9 DEF Again
  <2>2. Fits(y, paid[r], 0, 0, e, faults')
    BY <1>2, <1>6, <1>9, AgainFits
  <2> HIDE DEF y
  <2> QED  BY <1>3, <1>5, <1>7, <2>1, <2>2, SessionStep, Zenon
<1> QED  BY <1>8, <1>9

LEMMA RefundExtraStep ==
  ASSUME BillingInv, NEW r \in Req, RefundExtra(r), locked' = locked
  PROVE  BillingInv'
<1>1. Becomes(r, [s[r] EXCEPT !.pc = "refund_token"]) /\ s[r].pc = "refund_extra"
  BY DEF RefundExtra, Goto, At
<1>2. CASE ~(s[r].extraReserved > 0 /\ ~OnWallet(r)) /\ NoStatement
  <2>1. Fault("ok")
    BY <1>2, NothingMoves
  <2>2. PICK x \in Session, p \in Payment, c \in {"none", "consumed", "refunded"}, n, m \in Nat :
          /\ s[r] = x /\ paid[r] = p /\ rec[r] = c /\ faults = n /\ faults' = m
          /\ Given(x, p, c, n, m)
    BY <2>1, Before
  <2>3. Becomes(r, [x EXCEPT !.pc = "refund_token"]) /\ (Wallet(x) \/ x.extraReserved = 0)
    <3>1. OnWallet(r) <=> Wallet(x)  BY <1>1, <2>2, SourceIs DEF OnWallet, Source
    <3>2. OnWallet(r) \/ x.extraReserved = 0  BY <1>2, <2>2 DEF Session
    <3> QED  BY <1>1, <2>2, <3>1, <3>2
  <2>4. Fits([x EXCEPT !.pc = "refund_token"], p, 0, 0, c, m)
    BY <1>1, <2>2, <2>3, ExtraKept
  <2> QED  BY <1>2, <2>2, <2>3, <2>4, QuietStep
<1>3. ASSUME NEW o \in Outcome, TakeSub(r, -s[r].extraReserved, o), ~OnWallet(r)
      PROVE  BillingInv'
  <2>1. Fault(o)
    BY <1>3, FaultCounted DEF TakeSub
  <2>2. PICK x \in Session, p \in Payment, c \in {"none", "consumed", "refunded"}, n, m \in Nat :
          /\ s[r] = x /\ paid[r] = p /\ rec[r] = c /\ faults = n /\ faults' = m
          /\ Given(x, p, c, n, m) /\ (o # "ok" => m > 0)
    BY <2>1, Before
  <2>3. PICK d \in Int : d = -x.extraReserved
    BY DEF Session
  <2>4. /\ Becomes(r, [x EXCEPT !.pc = "refund_token"]) /\ ~Wallet(x) /\ x.pc = "refund_extra"
        /\ TakeSub(r, d, o)
    BY <1>1, <1>3, <2>2, <2>3, SourceIs DEF OnWallet, Source
  <2>5. CASE o = "ok"
    <3>1. Fits([x EXCEPT !.pc = "refund_token"], p, -x.extraReserved, 0, c, m)
      BY <2>2, <2>4, ExtraBack
    <3> QED  BY <2>2, <2>3, <2>4, <2>5, <3>1, SubStep
  <2>6. CASE o # "ok"
    <3>1. Fits([x EXCEPT !.pc = "refund_token"], p, 0, 0, c, m)
      BY <2>2, <2>4, <2>6, ExtraKept
    <3> QED  BY <2>2, <2>4, <2>6, <3>1, SubStep
  <2> QED  BY <2>5, <2>6
<1> QED  BY <1>2, <1>3 DEF RefundExtra

LEMMA RefundTokenStep ==
  ASSUME BillingInv, NEW r \in Req, RefundToken(r), locked' = locked
  PROVE  BillingInv'
<1>1. Becomes(r, [s[r] EXCEPT !.pc = "done", !.result = "refunded"]) /\ s[r].pc = "refund_token"
  BY DEF RefundToken, Ends, At
<1>2. CASE ~(s[r].tokenConsumed > 0 /\ ~s[r].playground) /\ NoStatement
  <2>1. Fault("ok")
    BY <1>2, NothingMoves
  <2>2. PICK x \in Session, p \in Payment, c \in {"none", "consumed", "refunded"}, n, m \in Nat :
          /\ s[r] = x /\ paid[r] = p /\ rec[r] = c /\ faults = n /\ faults' = m
          /\ Given(x, p, c, n, m)
    BY <2>1, Before
  <2>3. /\ Becomes(r, [x EXCEPT !.pc = "done", !.result = "refunded"])
        /\ x.playground \/ x.tokenConsumed = 0
    BY <1>1, <1>2, <2>2 DEF Session
  <2>4. Fits([x EXCEPT !.pc = "done", !.result = "refunded"], p, 0, 0, c, m)
    BY <1>1, <2>2, <2>3, TokenKept
  <2> QED  BY <1>2, <2>2, <2>3, <2>4, QuietStep
<1>3. ASSUME NEW o \in Outcome, TakeToken(r, -s[r].tokenConsumed, o), ~s[r].playground
      PROVE  BillingInv'
  <2>1. Fault(o)
    BY <1>3, FaultCounted DEF TakeToken
  <2>2. PICK x \in Session, p \in Payment, c \in {"none", "consumed", "refunded"}, n, m \in Nat :
          /\ s[r] = x /\ paid[r] = p /\ rec[r] = c /\ faults = n /\ faults' = m
          /\ Given(x, p, c, n, m) /\ (o # "ok" => m > 0)
    BY <2>1, Before
  <2>3. PICK d \in Int : d = -x.tokenConsumed
    BY DEF Session
  <2>4. /\ Becomes(r, [x EXCEPT !.pc = "done", !.result = "refunded"])
        /\ ~x.playground /\ x.pc = "refund_token" /\ TakeToken(r, d, o)
    BY <1>1, <1>3, <2>2, <2>3
  <2>5. CASE o = "ok"
    <3>1. Fits([x EXCEPT !.pc = "done", !.result = "refunded"], p, 0, -x.tokenConsumed, c, m)
      BY <2>2, <2>4, TokenBack
    <3> QED  BY <2>2, <2>3, <2>4, <2>5, <3>1, TokenStep
  <2>6. CASE o # "ok"
    <3>1. Fits([x EXCEPT !.pc = "done", !.result = "refunded"], p, 0, 0, c, m)
      BY <2>2, <2>4, <2>6, TokenKept
    <3> QED  BY <2>2, <2>4, <2>6, <3>1, TokenStep
  <2> QED  BY <2>5, <2>6
<1> QED  BY <1>2, <1>3 DEF RefundToken

\* A crash ends every session where it is.
LEMMA CrashStep ==
  ASSUME BillingInv, Crash, locked' = locked
  PROVE  BillingInv'
<1>1. faults \in Nat /\ faults' \in 0 .. MaxFaults /\ faults' > 0 /\ faults' >= faults
  <2>1. faults \in 0 .. MaxFaults /\ MaxFaults \in Nat
    BY BillingAssumption DEF BillingInv, TypeOK
  <2>2. faults < MaxFaults /\ faults' = faults + 1
    BY DEF Crash
  <2> QED  BY <2>1, <2>2
<1>2. UNCHANGED <<wallet, token, used, rec, paid>>
  BY DEF Crash, db
<1>3. ASSUME NEW r \in Req
      PROVE  s'[r] \in Session /\ Account(s'[r], paid'[r], rec'[r], faults')
  <2>1. PICK x \in Session, p \in Payment, c \in {"none", "consumed", "refunded"}, n, m \in Nat :
          /\ s[r] = x /\ paid[r] = p /\ rec[r] = c /\ faults = n /\ faults' = m
          /\ Given(x, p, c, n, m)
    <3>1. Fault("failed")  BY <1>1, BillingAssumption DEF Fault
    <3> QED  BY <3>1, Before
  <2>2. paid'[r] = p /\ rec'[r] = c /\ m > 0
    BY <1>1, <1>2, <2>1
  <2>3. CASE x.pc \in {"new", "done"}
    <3>1. s'[r] = x  BY <2>1, <2>3 DEF Crash
    <3>2. Account(x, p, c, m)  BY <2>1, AccountKept DEF Given
    <3> QED  BY <2>1, <2>2, <3>1, <3>2
  <2>4. CASE x.pc \notin {"new", "done"}
    <3> DEFINE y == [x EXCEPT !.pc = "done", !.result = "lost"]
    <3>1. s'[r] = y  BY <2>1, <2>4 DEF Crash
    <3>2. Fits(y, p, 0, 0, c, m)  BY <2>1, <2>2, <2>4, Lost
    <3>3. p = [fund |-> p.fund + 0, token |-> p.token + 0]  BY DEF Payment
    <3> HIDE DEF y
    <3> QED  BY <2>1, <2>2, <3>1, <3>2, <3>3 DEF Fits
  <2> QED  BY <2>3, <2>4
<1>4. s' \in [Req -> Session]
  <2>1. s' = [r \in Req |-> s'[r]]  BY DEF Crash
  <2> QED  BY <1>3, <2>1
<1>5. TypeOK'
  <2>1. \A r \in Req : s'[r].taken \in Nat /\ s'[r].tries \in 0 .. MaxAttempts
    BY <1>3 DEF Session
  <2> QED  BY <1>1, <1>2, <2>1 DEF BillingInv, TypeOK
<1>6. paid' \in [Req -> Payment]
  BY <1>2 DEF BillingInv
<1> QED  BY <1>3, <1>4, <1>5, <1>6 DEF BillingInv

\* Every step keeps the accounts.
LEMMA BillingNext == BillingInv /\ [Next]_vars => BillingInv'
<1> SUFFICES ASSUME BillingInv, [Next]_vars PROVE BillingInv'
  OBVIOUS
<1>1. ASSUME NEW r \in Req, Opening(r), locked' = locked PROVE BillingInv'
  BY <1>1, ReadSubscriptionStep, NewBillingSessionStep, TryWalletStep, TrySubscriptionStep,
     TokenCheckStep, TokenTakeStep, FundWalletStep, FundSubscriptionStep, RollbackTokenStep
     DEF Opening
<1>2. ASSUME NEW r \in Req, Reserving(r), locked' = locked PROVE BillingInv'
  BY <1>2, ReserveStep, ReserveFundingStep, ReserveTokenCheckStep, ReserveTokenTakeStep,
     RollbackFundingReserveStep
     DEF Reserving
<1>3. ASSUME NEW r \in Req, Closing(r), locked' = locked PROVE BillingInv'
  BY <1>3, SettleStep, SettleFundingStep, SettleTokenStep, RefundStep, RefundWalletStep,
     RefundAmountStep, RefundMarkStep, RefundExtraStep, RefundTokenStep
     DEF Closing
<1>4. CASE Crash /\ locked' = locked
  BY <1>4, CrashStep
<1>5. CASE UNCHANGED vars
  BY <1>5 DEF vars, BillingInv, TypeOK
<1>6. CASE AllDone /\ locked' = locked
  BY <1>6 DEF AllDone, db, BillingInv, TypeOK
<1> QED  BY <1>1, <1>2, <1>3, <1>4, <1>5, <1>6 DEF Next

-----------------------------------------------------------------------------
(***************************************************************************)
(* Sums over a set, as MapThenSumSet computes them: by taking out the      *)
(* element that CHOOSE picks.  Induction is over the subsets of a finite   *)
(* set, in the form of a set B of those for which the claim holds.         *)
(***************************************************************************)
\* What the requests of S have paid together, as SubWithinTotal adds it up; Sums: f is
\* the recursive function that the fold computes with, on the sets of D.
Total(p, S) == MapThenSumSet(LAMBDA r : p[r].fund, S)
Pick(t) == CHOOSE x \in t : TRUE
Sums(p, D, f) == f = [t \in D |-> IF t = {} THEN 0 ELSE p[Pick(t)].fund + f[t \ {Pick(t)}]]

\* The fold in terms of that function.
LEMMA TotalIs ==
  ASSUME NEW p, NEW S
  PROVE  Total(p, S) = (CHOOSE f : Sums(p, SUBSET S, f))[S]
BY DEF Total, MapThenSumSet, MapThenFoldSet, Sums, Pick

\* Induction over the natural numbers, with the set of those that satisfy the claim.
LEMMA CountUp ==
  ASSUME NEW B, 0 \in B, \A n \in Nat : n \in B => n + 1 \in B
  PROVE  Nat \subseteq B
<1>1. SUFFICES ASSUME Nat \ B # {} PROVE FALSE OBVIOUS
<1>2. \E x \in Nat \ B : \A y \in Nat \ B : ~ (<<y, x>> \in OpToRel(<, Nat))
  BY <1>1, NatLessThanWellFounded, WFMin, Zenon
<1>3. PICK x \in Nat \ B : \A y \in Nat \ B : ~ (<<y, x>> \in OpToRel(<, Nat)) BY <1>2
<1>4. x # 0 /\ x - 1 \in Nat OBVIOUS
<1>5. PICK y : y = x - 1 OBVIOUS
<1>6. y \in Nat /\ y < x /\ x = y + 1 BY <1>4, <1>5
<1>7. <<y, x>> \in OpToRel(<, Nat) BY <1>6 DEF OpToRel
<1>8. y \in B BY <1>3, <1>6, <1>7, Zenon
<1> QED BY <1>6, <1>8

\* Induction over the subsets of a finite set.
LEMMA GrowSet ==
  ASSUME NEW S, IsFiniteSet(S), NEW B,
         \A t \in SUBSET S : (\A u \in SUBSET t : u # t => u \in B) => t \in B
  PROVE  SUBSET S \subseteq B
<1> DEFINE N == {n \in Nat : \A t \in SUBSET S : Cardinality(t) < n => t \in B}
<1>0. ASSUME NEW t \in SUBSET S PROVE IsFiniteSet(t) /\ Cardinality(t) \in Nat
  BY FS_Subset, FS_CardinalityType
<1>1. 0 \in N BY <1>0
<1>2. ASSUME NEW n \in Nat, n \in N PROVE n + 1 \in N
  <2>1. ASSUME NEW t \in SUBSET S, Cardinality(t) < n + 1 PROVE t \in B
    <3>1. ASSUME NEW u \in SUBSET t, u # t PROVE u \in B
      <4>1. IsFiniteSet(t) /\ Cardinality(t) \in Nat BY <1>0
      <4>2. Cardinality(u) \in Nat /\ Cardinality(u) < Cardinality(t)
        BY <3>1, <4>1, FS_Subset, FS_CardinalityType
      <4>3. u \in SUBSET S /\ Cardinality(u) < n BY <2>1, <4>1, <4>2
      <4> QED BY <1>2, <4>3
    <3> QED BY <3>1
  <2> QED BY <2>1
<1>3. Nat \subseteq N
  <2> HIDE DEF N
  <2> QED BY <1>1, <1>2, CountUp
<1>4. ASSUME NEW t \in SUBSET S PROVE t \in B
  <2>1. Cardinality(t) + 1 \in N /\ Cardinality(t) \in Nat BY <1>0, <1>3
  <2> QED BY <2>1
<1> QED BY <1>4

\* CHOOSE picks an element.
LEMMA PickIn ==
  ASSUME NEW t, t # {}
  PROVE  Pick(t) \in t
BY DEF Pick

\* The function exists on the subsets of at most n elements, for every n.
Upto(S, n) == {t \in SUBSET S : Cardinality(t) <= n}

LEMMA SumsUpto ==
  ASSUME NEW p, NEW S, IsFiniteSet(S), NEW m \in Nat
  PROVE  \E f : Sums(p, Upto(S, m), f)
<1> DEFINE N == {n \in Nat : \E f : Sums(p, Upto(S, n), f)}
<1>0. ASSUME NEW t \in SUBSET S PROVE IsFiniteSet(t) /\ Cardinality(t) \in Nat
  BY FS_Subset, FS_CardinalityType
<1>1. 0 \in N
  <2> DEFINE g == [t \in Upto(S, 0) |-> 0]
  <2>1. \A t \in Upto(S, 0) : t = {} BY <1>0, FS_EmptySet DEF Upto
  <2>2. Sums(p, Upto(S, 0), g) BY <2>1 DEF Sums
  <2> QED BY <2>2
<1>2. ASSUME NEW n \in Nat, n \in N PROVE n + 1 \in N
  <2>1. PICK f : Sums(p, Upto(S, n), f) BY <1>2
  <2> DEFINE g == [t \in Upto(S, n + 1) |-> IF t = {} THEN 0 ELSE p[Pick(t)].fund + f[t \ {Pick(t)}]]
  <2>2. ASSUME NEW t \in Upto(S, n + 1), t # {}
        PROVE  t \ {Pick(t)} \in Upto(S, n) /\ t \ {Pick(t)} \in Upto(S, n + 1)
    <3>1. Pick(t) \in t BY <2>2, PickIn
    <3>2. IsFiniteSet(t) /\ Cardinality(t) \in Nat /\ Cardinality(t) <= n + 1 BY <1>0 DEF Upto
    <3>3. Cardinality(t \ {Pick(t)}) = Cardinality(t) - 1 BY <3>1, <3>2, FS_RemoveElement
    <3>4. t \ {Pick(t)} \in SUBSET S BY DEF Upto
    <3> QED BY <3>2, <3>3, <3>4 DEF Upto
  <2>3. ASSUME NEW u \in Upto(S, n), u \in Upto(S, n + 1) PROVE g[u] = f[u]
    <3>1. f = [t \in Upto(S, n) |-> IF t = {} THEN 0 ELSE p[Pick(t)].fund + f[t \ {Pick(t)}]] BY <2>1 DEF Sums
    <3>2. f[u] = IF u = {} THEN 0 ELSE p[Pick(u)].fund + f[u \ {Pick(u)}] BY <3>1, Zenon
    <3>3. g[u] = IF u = {} THEN 0 ELSE p[Pick(u)].fund + f[u \ {Pick(u)}] BY <2>3
    <3> QED BY <3>2, <3>3
  <2>4. PICK h : h = g OBVIOUS
  <2>5. ASSUME NEW t \in Upto(S, n + 1), t # {}
        PROVE  h[t \ {Pick(t)}] = f[t \ {Pick(t)}]
    BY <2>2, <2>3, <2>4, <2>5, Zenon
  <2>6. Sums(p, Upto(S, n + 1), h) BY <2>4, <2>5 DEF Sums
  <2> QED BY <2>6
<1>3. Nat \subseteq N
  <2> HIDE DEF N
  <2> QED BY <1>1, <1>2, CountUp
<1> QED BY <1>3

\* The function that MapThenSumSet computes with exists.
LEMMA SumsExist ==
  ASSUME NEW p, NEW S, IsFiniteSet(S)
  PROVE  Sums(p, SUBSET S, CHOOSE f : Sums(p, SUBSET S, f))
<1>1. Cardinality(S) \in Nat BY FS_CardinalityType
<1>2. Upto(S, Cardinality(S)) = SUBSET S BY <1>1, FS_Subset, FS_CardinalityType DEF Upto
<1>3. PICK f : Sums(p, Upto(S, Cardinality(S)), f) BY <1>1, SumsUpto
<1>4. \E g : Sums(p, SUBSET S, g) BY <1>2, <1>3
<1> QED BY <1>4, Zenon

\* The sum depends on the payments of its own set only.
Alike(p, q, D) == \A r \in D : p[r].fund = q[r].fund

LEMMA SumsAgree ==
  ASSUME NEW p, NEW q, NEW S, NEW D, NEW f, NEW g,
         IsFiniteSet(S), D \in SUBSET S, Sums(p, SUBSET S, f), Sums(q, SUBSET D, g),
         Alike(p, q, D)
  PROVE  f[D] = g[D]
<1> DEFINE B == {t \in SUBSET D : f[t] = g[t]}
<1>0. IsFiniteSet(D) BY FS_Subset
<1>1. ASSUME NEW t \in SUBSET D, \A u \in SUBSET t : u # t => u \in B PROVE t \in B
  <2>1. f = [u \in SUBSET S |-> IF u = {} THEN 0 ELSE p[Pick(u)].fund + f[u \ {Pick(u)}]] BY DEF Sums
  <2>2. g = [u \in SUBSET D |-> IF u = {} THEN 0 ELSE q[Pick(u)].fund + g[u \ {Pick(u)}]] BY DEF Sums
  <2>3. f[t] = IF t = {} THEN 0 ELSE p[Pick(t)].fund + f[t \ {Pick(t)}] BY <2>1
  <2>4. g[t] = IF t = {} THEN 0 ELSE q[Pick(t)].fund + g[t \ {Pick(t)}] BY <2>2
  <2>5. CASE t = {} BY <2>3, <2>4, <2>5
  <2>6. CASE t # {}
    <3>1. Pick(t) \in t BY <2>6, PickIn
    <3>2. t \ {Pick(t)} \in SUBSET t /\ t \ {Pick(t)} # t BY <3>1
    <3>3. f[t \ {Pick(t)}] = g[t \ {Pick(t)}] BY <1>1, <3>2
    <3>4. p[Pick(t)].fund = q[Pick(t)].fund BY <3>1 DEF Alike
    <3> QED BY <2>3, <2>4, <2>6, <3>3, <3>4
  <2> QED BY <2>5, <2>6
<1>2. SUBSET D \subseteq B
  <2> HIDE DEF B
  <2> QED BY <1>0, <1>1, GrowSet
<1> QED BY <1>2

LEMMA TotalSame ==
  ASSUME NEW S, IsFiniteSet(S), NEW p, NEW q, Alike(p, q, S)
  PROVE  Total(p, S) = Total(q, S)
<1>1. Sums(p, SUBSET S, CHOOSE f : Sums(p, SUBSET S, f)) BY SumsExist
<1>2. Sums(q, SUBSET S, CHOOSE f : Sums(q, SUBSET S, f)) BY SumsExist
<1>3. PICK f : f = CHOOSE g : Sums(p, SUBSET S, g) OBVIOUS
<1>4. PICK h : h = CHOOSE g : Sums(q, SUBSET S, g) OBVIOUS
<1>5. Sums(p, SUBSET S, f) /\ Sums(q, SUBSET S, h) BY <1>1, <1>2, <1>3, <1>4, Zenon
<1>6. S \in SUBSET S OBVIOUS
<1>7. f[S] = h[S] BY <1>5, <1>6, SumsAgree, Zenon
<1> QED BY <1>3, <1>4, <1>7, TotalIs

LEMMA TotalEmpty ==
  ASSUME NEW p
  PROVE  Total(p, {}) = 0
<1>0. IsFiniteSet({}) BY FS_EmptySet
<1>1. Sums(p, SUBSET {}, CHOOSE f : Sums(p, SUBSET {}, f)) BY <1>0, SumsExist
<1>2. PICK f : f = CHOOSE g : Sums(p, SUBSET {}, g) OBVIOUS
<1>3. f[{}] = 0 BY <1>1, <1>2 DEF Sums
<1> QED BY <1>2, <1>3, TotalIs

\* One element of the sum.
LEMMA TotalPick ==
  ASSUME NEW S, IsFiniteSet(S), S # {}, NEW p
  PROVE  Total(p, S) = p[Pick(S)].fund + Total(p, S \ {Pick(S)})
<1> DEFINE D == S \ {Pick(S)}
<1>0. IsFiniteSet(D) /\ D \in SUBSET S BY FS_Subset
<1>1. Sums(p, SUBSET S, CHOOSE f : Sums(p, SUBSET S, f)) BY SumsExist
<1>2. Sums(p, SUBSET D, CHOOSE f : Sums(p, SUBSET D, f)) BY <1>0, SumsExist
<1>3. PICK f : f = CHOOSE g : Sums(p, SUBSET S, g) OBVIOUS
<1>4. PICK h : h = CHOOSE g : Sums(p, SUBSET D, g) OBVIOUS
<1>5. f[D] = h[D]
  <2>1. Sums(p, SUBSET S, f) /\ Sums(p, SUBSET D, h) BY <1>1, <1>2, <1>3, <1>4, Zenon
  <2>2. Alike(p, p, D) BY DEF Alike
  <2> HIDE DEF D
  <2> QED BY <1>0, <2>1, <2>2, SumsAgree, Zenon
<1>6. f[S] = p[Pick(S)].fund + f[D] BY <1>1, <1>3 DEF Sums
<1>7. Total(p, D) = h[D] BY <1>4, TotalIs
<1>8. Total(p, S) = f[S] BY <1>3, TotalIs
<1> QED BY <1>5, <1>6, <1>7, <1>8

LEMMA TotalInt ==
  ASSUME NEW S, IsFiniteSet(S), NEW p, \A r \in S : p[r].fund \in Int
  PROVE  Total(p, S) \in Int
<1> DEFINE B == {t \in SUBSET S : Total(p, t) \in Int}
<1>1. ASSUME NEW t \in SUBSET S, \A u \in SUBSET t : u # t => u \in B PROVE t \in B
  <2>1. CASE t = {} BY <2>1, TotalEmpty
  <2>2. CASE t # {}
    <3>1. Pick(t) \in t BY <2>2, PickIn
    <3>2. t \ {Pick(t)} \in SUBSET t /\ t \ {Pick(t)} # t BY <3>1
    <3>3. Total(p, t \ {Pick(t)}) \in Int BY <1>1, <3>2
    <3>4. IsFiniteSet(t) BY FS_Subset
    <3>5. Total(p, t) = p[Pick(t)].fund + Total(p, t \ {Pick(t)}) BY <2>2, <3>4, TotalPick
    <3>6. p[Pick(t)].fund \in Int BY <3>1
    <3> QED BY <3>3, <3>5, <3>6
  <2> QED BY <2>1, <2>2
<1>2. SUBSET S \subseteq B
  <2> HIDE DEF B
  <2> QED BY <1>1, GrowSet
<1> QED BY <1>2

\* Any element may be taken out first.
LEMMA TotalRemove ==
  ASSUME NEW S, IsFiniteSet(S), NEW p, \A r \in S : p[r].fund \in Int, NEW y \in S
  PROVE  Total(p, S) = p[y].fund + Total(p, S \ {y})
<1> DEFINE B == {t \in SUBSET S : \A x \in t : Total(p, t) = p[x].fund + Total(p, t \ {x})}
<1>1. ASSUME NEW t \in SUBSET S, \A u \in SUBSET t : u # t => u \in B, NEW x \in t
      PROVE  Total(p, t) = p[x].fund + Total(p, t \ {x})
  <2>1. PICK c : c = Pick(t) OBVIOUS
  <2>2. c \in t BY <2>1, PickIn
  <2>3. IsFiniteSet(t) BY FS_Subset
  <2>4. Total(p, t) = p[c].fund + Total(p, t \ {c}) BY <2>1, <2>3, TotalPick
  <2>5. CASE c = x BY <2>4, <2>5
  <2>6. CASE c # x
    <3>1. t \ {c} \in SUBSET t /\ t \ {c} # t /\ x \in t \ {c} BY <2>2, <2>6
    <3>2. Total(p, t \ {c}) = p[x].fund + Total(p, (t \ {c}) \ {x}) BY <1>1, <3>1
    <3>3. t \ {x} \in SUBSET t /\ t \ {x} # t /\ c \in t \ {x} BY <2>2, <2>6
    <3>4. Total(p, t \ {x}) = p[c].fund + Total(p, (t \ {x}) \ {c}) BY <1>1, <3>3
    <3>5. PICK u : u = (t \ {c}) \ {x} OBVIOUS
    <3>6. (t \ {x}) \ {c} = u BY <3>5
    <3>7. IsFiniteSet(u) /\ u \subseteq S BY <2>3, <3>5, FS_Subset
    <3>8. p[x].fund \in Int /\ p[c].fund \in Int /\ Total(p, u) \in Int BY <2>2, <3>7, TotalInt
    <3>9. PICK a, b, v : a = p[x].fund /\ b = p[c].fund /\ v = Total(p, u) OBVIOUS
    <3>10. a + (b + v) = b + (a + v) BY <3>8, <3>9
    <3>11. Total(p, t) = b + (a + v) BY <2>4, <3>2, <3>5, <3>9
    <3>12. Total(p, t \ {x}) = b + v BY <3>4, <3>6, <3>9
    <3> QED BY <3>9, <3>10, <3>11, <3>12
  <2> QED BY <2>5, <2>6
<1>2. SUBSET S \subseteq B
  <2>1. ASSUME NEW t \in SUBSET S, \A u \in SUBSET t : u # t => u \in B PROVE t \in B BY <1>1, <2>1
  <2> HIDE DEF B
  <2> QED BY <2>1, GrowSet
<1> QED BY <1>2

-----------------------------------------------------------------------------
(***************************************************************************)
(* The subscription: what its requests took together.                      *)
(***************************************************************************)
\* The requests that are paid from the subscription.
Draws(x) == x.plan # <<>> /\ Head(x.plan) # "wallet"
OnSub == {r \in Req : Draws(s[r])}

\* With the row locked, AmountUsed covers what the requests took, within the total.
SubInv == locked /\ SubTotal > 0 => Total(paid, OnSub) <= used /\ used <= SubTotal

\* One account and one membership change; the others' sum stays.
LEMMA TotalMoved ==
  ASSUME NEW p \in [Req -> Payment], NEW q \in [Req -> Payment], NEW r \in Req,
         NEW A \in SUBSET Req, NEW B \in SUBSET Req, A \ {r} = B \ {r},
         Alike(p, q, Req \ {r})
  PROVE  /\ Total(p, A) \in Int /\ Total(q, B) \in Int
         /\ Total(q, B) = Total(p, A) - (IF r \in A THEN p[r].fund ELSE 0)
                                      + (IF r \in B THEN q[r].fund ELSE 0)
<1>0. IsFiniteSet(A) /\ IsFiniteSet(B) BY BillingAssumption, FS_Subset
<1>1. PICK D : D = A \ {r} OBVIOUS
<1>2. IsFiniteSet(D) /\ D \subseteq Req /\ D = B \ {r} BY <1>0, <1>1, FS_Subset
<1>3. \A t \in Req : p[t].fund \in Int /\ q[t].fund \in Int BY DEF Payment
<1>4. Alike(p, q, D)
  <2>1. D \subseteq Req \ {r} BY <1>1
  <2> QED BY <2>1 DEF Alike
<1>5. Total(p, D) = Total(q, D) BY <1>2, <1>4, TotalSame
<1>6. Total(p, A) \in Int /\ Total(q, B) \in Int /\ Total(p, D) \in Int BY <1>0, <1>2, <1>3, TotalInt
<1>7. Total(p, A) = (IF r \in A THEN p[r].fund ELSE 0) + Total(p, D)
  <2>1. CASE r \in A
    <3>1. Total(p, A) = p[r].fund + Total(p, A \ {r}) BY <1>0, <1>3, <2>1, TotalRemove
    <3> QED BY <1>1, <2>1, <3>1
  <2>2. CASE r \notin A
    <3>1. D = A BY <1>1, <2>2
    <3> QED BY <1>6, <2>2, <3>1
  <2> QED BY <2>1, <2>2
<1>8. Total(q, B) = (IF r \in B THEN q[r].fund ELSE 0) + Total(q, D)
  <2>1. CASE r \in B
    <3>1. Total(q, B) = q[r].fund + Total(q, B \ {r}) BY <1>0, <1>3, <2>1, TotalRemove
    <3> QED BY <1>2, <2>1, <3>1
  <2>2. CASE r \notin B
    <3>1. D = B BY <1>2, <2>2
    <3> QED BY <1>6, <2>2, <3>1
  <2> QED BY <2>1, <2>2
<1>9. PICK a, b, u, v, w : /\ a = (IF r \in A THEN p[r].fund ELSE 0)
                           /\ b = (IF r \in B THEN q[r].fund ELSE 0)
                           /\ u = Total(p, A) /\ v = Total(q, B) /\ w = Total(p, D)
  OBVIOUS
<1>10. a \in Int /\ b \in Int /\ u \in Int /\ v \in Int /\ w \in Int BY <1>3, <1>6, <1>9
<1>11. u = a + w /\ v = b + w BY <1>5, <1>7, <1>8, <1>9
<1>12. v = u - a + b BY <1>10, <1>11
<1> QED BY <1>6, <1>9, <1>12

\* What a step of r may do to the sum and to AmountUsed: nothing to either; a payment
\* of a request that is not on the subscription; or d from the subscription.
Others(r) == \A q \in Req : q # r => s'[q] = s[q] /\ paid'[q].fund = paid[q].fund
Idle(r) ==
    /\ used' = used /\ paid'[r].fund = paid[r].fund
    /\ s'[r].plan = s[r].plan \/ paid[r].fund = 0
ByWallet(r) == used' = used /\ s'[r].plan = s[r].plan /\ ~Draws(s[r])
BySub(r, d) ==
    /\ s'[r].plan = s[r].plan /\ Draws(s[r]) /\ paid'[r].fund = paid[r].fund + d
    /\ locked => used' = Clamped(used + d)
    /\ locked /\ SubTotal > 0 => d <= 0 \/ used + d <= SubTotal
Ledger(r) == Others(r) /\ (Idle(r) \/ ByWallet(r) \/ \E d \in Int : BySub(r, d))

\* Such a step keeps the sum within AmountUsed, and AmountUsed within the total: a refund
\* that Clamped cuts off at zero lowers AmountUsed by less than it lowers the sum.
LEMMA LedgerKept ==
  ASSUME BillingInv, BillingInv', locked' = locked, SubInv, NEW r \in Req, Ledger(r)
  PROVE  SubInv'
<1> SUFFICES ASSUME locked, SubTotal > 0
             PROVE  Total(paid', OnSub') <= used' /\ used' <= SubTotal
  BY DEF SubInv
<1>0. /\ used \in Nat /\ used' \in Nat /\ SubTotal \in Nat
      /\ paid \in [Req -> Payment] /\ paid' \in [Req -> Payment]
      /\ paid[r].fund \in Int /\ paid'[r].fund \in Int
      /\ Total(paid, OnSub) <= used /\ used <= SubTotal
  BY BillingAssumption DEF BillingInv, TypeOK, SubInv, Payment
<1>1. PICK A, B : A = OnSub /\ B = OnSub' OBVIOUS
<1>2. A \in SUBSET Req /\ B \in SUBSET Req BY <1>1 DEF OnSub
<1>3. A \ {r} = B \ {r} BY <1>1 DEF OnSub, Ledger, Others
<1>4. Alike(paid, paid', Req \ {r}) BY DEF Ledger, Others, Alike
<1>5. r \in A <=> Draws(s[r]) BY <1>1 DEF OnSub
<1>6. r \in B <=> Draws(s'[r]) BY <1>1 DEF OnSub
<1>7. PICK a, b, u, v : /\ a = (IF r \in A THEN paid[r].fund ELSE 0)
                        /\ b = (IF r \in B THEN paid'[r].fund ELSE 0)
                        /\ u = Total(paid, A) /\ v = Total(paid', B)
  OBVIOUS
<1>8. u \in Int /\ v \in Int BY <1>0, <1>2, <1>3, <1>4, <1>7, TotalMoved
<1>9. v = u - a + b BY <1>0, <1>2, <1>3, <1>4, <1>7, TotalMoved
<1>10. a \in Int /\ b \in Int /\ u <= used BY <1>0, <1>1, <1>7
<1>11. v <= used' /\ used' <= SubTotal
  <2>1. CASE Idle(r)
    <3>1. s'[r].plan = s[r].plan => (r \in A <=> r \in B) BY <1>5, <1>6 DEF Draws
    <3>2. a = b BY <1>7, <2>1, <3>1 DEF Idle
    <3> QED BY <1>0, <1>8, <1>9, <1>10, <2>1, <3>2 DEF Idle
  <2>2. CASE ByWallet(r)
    <3>1. r \notin A /\ r \notin B BY <1>5, <1>6, <2>2 DEF Draws, ByWallet
    <3>2. a = 0 /\ b = 0 BY <1>7, <3>1
    <3> QED BY <1>0, <1>8, <1>9, <1>10, <2>2, <3>2 DEF ByWallet
  <2>3. ASSUME NEW d \in Int, BySub(r, d) PROVE v <= used' /\ used' <= SubTotal
    <3>1. r \in A /\ r \in B BY <1>5, <1>6, <2>3 DEF Draws, BySub
    <3>2. b = a + d BY <1>7, <2>3, <3>1 DEF BySub
    <3>3. used' = Clamped(used + d) /\ (d <= 0 \/ used + d <= SubTotal) BY <2>3 DEF BySub
    <3>4. used' >= used + d /\ used' <= SubTotal BY <1>0, <3>3 DEF Clamped
    <3>5. v = u + d BY <1>8, <1>9, <1>10, <3>2
    <3> QED BY <1>0, <1>8, <1>10, <3>4, <3>5
  <2> QED BY <2>1, <2>2, <2>3 DEF Ledger
<1> QED BY <1>1, <1>7, <1>11

-----------------------------------------------------------------------------
\* y is session x with other fields, the plan left alone.
Similar(x, y) == y.plan = x.plan /\ DOMAIN y = DOMAIN x
KeepsPlan(r) == s'[r].plan = s[r].plan /\ \A q \in Req : q # r => s'[q] = s[q]

LEMMA PlanKept ==
  ASSUME BillingInv, NEW r \in Req, NEW y, Becomes(r, y), Similar(s[r], y)
  PROVE  KeepsPlan(r)
<1>1. s \in [Req -> Session] /\ s[r] \in Session BY DEF BillingInv
<1>2. "plan" \in DOMAIN y BY <1>1 DEF Similar, Session
<1> QED BY <1>1, <1>2 DEF Becomes, KeepsPlan, Similar

LEMMA SimilarSessions ==
  ASSUME BillingInv, NEW r \in Req
  PROVE  /\ \A a : Similar(s[r], [s[r] EXCEPT !.pc = a])
         /\ \A a, b : Similar(s[r], [s[r] EXCEPT !.pc = a, !.result = b])
         /\ \A a, b : Similar(s[r], [s[r] EXCEPT !.quota = a, !.pc = b])
         /\ \A a, b, c : Similar(s[r], [[s[r] EXCEPT !.quota = a, !.pc = b] EXCEPT !.trusted = c])
         /\ \A a, b : Similar(s[r], [s[r] EXCEPT !.tokenConsumed = a, !.pc = b])
         /\ \A n : Similar(s[r], Opened(r, n))
         /\ \A n : Similar(s[r], Rollback(r, n))
         /\ \A a, b : Similar(s[r], [s[r] EXCEPT !.delta = a, !.pc = b])
         /\ \A a, b : Similar(s[r], [s[r] EXCEPT !.taken = a, !.pc = b])
         /\ Similar(s[r], Reserved(r))
         /\ \A a, b, c, d : Similar(s[r], [[s[r] EXCEPT !.actual = a, !.delta = b]
                                              EXCEPT !.pc = c, !.result = d])
         /\ \A a, b, c : Similar(s[r], [[s[r] EXCEPT !.actual = a, !.delta = b] EXCEPT !.pc = c])
         /\ \A a, b : Similar(s[r], [s[r] EXCEPT !.tries = a, !.pc = b])
<1>1. s[r] \in Session BY DEF BillingInv
<1> QED BY <1>1 DEF Similar, Session, Opened, Rollback, Reserved

\* Goto, Ends and Again leave the plan alone.
LEMMA GotoKeeps ==
  ASSUME BillingInv, NEW r \in Req, NEW a, Goto(r, a) \/ Ends(r, a) \/ Again(r)
  PROVE  KeepsPlan(r)
BY PlanKept, SimilarSessions DEF Goto, Ends, Again

\* The statements, in the terms of Ledger.
LEMMA NothingLedger ==
  ASSUME BillingInv, NEW r \in Req, UNCHANGED <<used, paid>>, KeepsPlan(r)
  PROVE  Ledger(r)
BY DEF Ledger, Others, Idle, KeepsPlan

LEMMA TokenLedger ==
  ASSUME BillingInv, NEW r \in Req, NEW d \in Int, NEW o, TakeToken(r, d, o)
  PROVE  used' = used /\ \A q \in Req : paid'[q].fund = paid[q].fund
<1>1. paid \in [Req -> [fund : Int, token : Int]] BY DEF BillingInv, Payment
<1> QED BY <1>1 DEF TakeToken

LEMMA TokenKeepsLedger ==
  ASSUME BillingInv, NEW r \in Req, NEW d \in Int, NEW o, TakeToken(r, d, o), KeepsPlan(r)
  PROVE  Ledger(r)
BY TokenLedger DEF Ledger, Others, Idle, KeepsPlan

LEMMA PaidFund ==
  ASSUME BillingInv, NEW r \in Req, NEW d \in Int, paid' = [paid EXCEPT ![r].fund = @ + d]
  PROVE  paid'[r].fund = paid[r].fund + d /\ \A q \in Req : q # r => paid'[q].fund = paid[q].fund
<1>1. paid \in [Req -> [fund : Int, token : Int]] BY DEF BillingInv, Payment
<1> QED BY <1>1

LEMMA WalletLedger ==
  ASSUME BillingInv, NEW r \in Req, NEW d \in Int, NEW o, TakeWallet(r, d, o), KeepsPlan(r), OnWallet(r)
  PROVE  Ledger(r)
<1>1. used' = used /\ ~Draws(s[r]) BY DEF TakeWallet, Draws, OnWallet, Source
<1>2. \A q \in Req : q # r => paid'[q].fund = paid[q].fund
  <2>1. CASE o = "ok" BY <2>1, PaidFund DEF TakeWallet
  <2>2. CASE o # "ok" BY <2>2 DEF TakeWallet
  <2> QED BY <2>1, <2>2
<1> QED BY <1>1, <1>2 DEF Ledger, Others, ByWallet, KeepsPlan

LEMMA SubLedger ==
  ASSUME BillingInv, NEW r \in Req, NEW d \in Int, NEW o,
         TakeSub(r, d, o) \/ (PreConsumeSub(r, d, o) /\ d >= 0), KeepsPlan(r),
         s[r].plan # <<>>, ~OnWallet(r), d <= 0 \/ ~Exceeds(r, d)
  PROVE  Ledger(r)
<1>1. CASE o = "ok"
  <2>1. /\ paid'[r].fund = paid[r].fund + d
        /\ \A q \in Req : q # r => paid'[q].fund = paid[q].fund
    BY <1>1, PaidFund DEF TakeSub, PreConsumeSub
  <2>2. used \in Nat /\ SubTotal \in Nat BY BillingAssumption DEF BillingInv, TypeOK
  <2>3. locked => used' = Clamped(used + d) BY <1>1, <2>2 DEF TakeSub, PreConsumeSub, UsedRead, Clamped
  <2>4. locked /\ SubTotal > 0 => d <= 0 \/ used + d <= SubTotal BY <2>2 DEF Exceeds, UsedRead
  <2>5. Draws(s[r]) BY DEF Draws, OnWallet, Source
  <2>6. BySub(r, d) BY <2>1, <2>3, <2>4, <2>5 DEF BySub, KeepsPlan
  <2> QED BY <2>1, <2>6 DEF Ledger, Others, KeepsPlan
<1>2. CASE o # "ok"
  <2>1. UNCHANGED <<used, paid>> BY <1>2 DEF TakeSub, PreConsumeSub
  <2> QED BY <2>1, NothingLedger
<1> QED BY <1>1, <1>2

\* A change of the plan comes before anything was taken.
LEMMA NewPlanLedger ==
  ASSUME BillingInv, NEW r \in Req, NEW y, Becomes(r, y), s[r].pc \in Early,
         used' = used, \A q \in Req : paid'[q].fund = paid[q].fund
  PROVE  Ledger(r)
<1>1. s \in [Req -> Session] BY DEF BillingInv
<1>2. \A q \in Req : q # r => s'[q] = s[q] BY <1>1 DEF Becomes
<1>3. paid[r].fund = 0 BY DEF BillingInv, Account, Solvent
<1> QED BY <1>2, <1>3 DEF Ledger, Others, Idle

\* The numbers that a step of r moves.
LEMMA AmountsAre ==
  ASSUME BillingInv, NEW r \in Req
  PROVE  /\ s[r].quota \in Nat /\ s[r].delta \in Int /\ s[r].taken \in Nat
         /\ s[r].extraReserved \in Nat /\ s[r].tokenConsumed \in Nat
         /\ -s[r].tokenConsumed \in Int /\ -s[r].delta \in Int
         /\ -s[r].taken \in Int /\ -s[r].taken <= 0
         /\ -s[r].extraReserved \in Int /\ -s[r].extraReserved <= 0
         /\ s[r].pc \notin {"new", "done"} => s[r].plan # <<>>
         /\ s[r].pc = "reserve_back" => -s[r].delta <= 0
<1>1. s[r] \in Session /\ Progress(s[r]) BY DEF BillingInv, Account
<1>2. /\ s[r].quota \in Nat /\ s[r].delta \in Int /\ s[r].taken \in Nat
      /\ s[r].extraReserved \in Nat /\ s[r].tokenConsumed \in Nat
  BY <1>1 DEF Session
<1>3. s[r].pc \notin {"new", "done"} => s[r].plan # <<>> BY <1>1 DEF Progress
<1>4. s[r].pc = "reserve_back" => s[r].delta > 0 BY <1>1 DEF Progress, Topped
<1>5. /\ -s[r].tokenConsumed \in Int /\ -s[r].delta \in Int /\ -s[r].taken \in Int
      /\ -s[r].extraReserved \in Int /\ -s[r].taken <= 0 /\ -s[r].extraReserved <= 0
  BY <1>2
<1>6. s[r].pc = "reserve_back" => -s[r].delta <= 0 BY <1>2, <1>4
<1> QED BY <1>2, <1>3, <1>5, <1>6, Zenon

-----------------------------------------------------------------------------
\* Each operation, in the terms of Ledger.
LEMMA OpeningLedger ==
  ASSUME BillingInv, NEW r \in Req, Opening(r)
  PROVE  Ledger(r)
<1>0. s \in [Req -> Session] /\ s[r] \in Session BY DEF BillingInv
<1>1. CASE ReadSubscription(r)
  <2>1. KeepsPlan(r) BY <1>0, <1>1 DEF ReadSubscription, KeepsPlan, Session
  <2> QED BY <1>1, <2>1, NothingLedger DEF ReadSubscription, NoStatement
<1>2. CASE NewBillingSession(r)
  <2>1. s[r].pc \in Early /\ UNCHANGED <<used, paid>>
    BY <1>2 DEF NewBillingSession, At, Early, NoStatement
  <2>2. \E y : Becomes(r, y) BY <1>2 DEF NewBillingSession
  <2> QED BY <2>1, <2>2, NewPlanLedger
<1>3. CASE TryWallet(r)
  <2>1. s[r].pc \in Early /\ UNCHANGED <<used, paid>> BY <1>3 DEF TryWallet, At, Early, NoStatement
  <2>2. \E y : Becomes(r, y) BY <1>3 DEF TryWallet
  <2> QED BY <2>1, <2>2, NewPlanLedger
<1>4. CASE TrySubscription(r)
  <2>1. s[r].pc \in Early /\ UNCHANGED <<used, paid>> BY <1>4 DEF TrySubscription, At, Early, NoStatement
  <2>2. \E y : Becomes(r, y) BY <1>4 DEF TrySubscription
  <2> QED BY <2>1, <2>2, NewPlanLedger
<1>5. CASE PreConsumeTokenCheck(r)
  <2>1. s[r].pc \in Early /\ UNCHANGED <<used, paid>> BY <1>5 DEF PreConsumeTokenCheck, At, Early, NoStatement
  <2>2. \E y : Becomes(r, y) BY <1>5 DEF PreConsumeTokenCheck
  <2> QED BY <2>1, <2>2, NewPlanLedger
<1>6. CASE PreConsumeTokenTake(r)
  <2>1. PICK o : TakeToken(r, s[r].quota, o) BY <1>6 DEF PreConsumeTokenTake
  <2>2. s[r].quota \in Int BY AmountsAre
  <2>3. used' = used /\ \A q \in Req : paid'[q].fund = paid[q].fund BY <2>1, <2>2, TokenLedger
  <2>4. s[r].pc \in Early BY <1>6 DEF PreConsumeTokenTake, At, Early
  <2>5. \E y : Becomes(r, y) BY <1>6 DEF PreConsumeTokenTake, Ends
  <2> QED BY <2>3, <2>4, <2>5, NewPlanLedger
<1>7. CASE FundWallet(r)
  <2>1. CASE Becomes(r, Opened(r, 0)) /\ NoStatement
    <3>1. KeepsPlan(r) BY <2>1, PlanKept, SimilarSessions
    <3> QED BY <2>1, <3>1, NothingLedger DEF NoStatement
  <2>2. ASSUME NEW o \in Outcome, TakeWallet(r, s[r].quota, o),
               Becomes(r, IF o = "ok" THEN Opened(r, s[r].quota) ELSE Rollback(r, FALSE))
        PROVE  Ledger(r)
    <3>1. Similar(s[r], IF o = "ok" THEN Opened(r, s[r].quota) ELSE Rollback(r, FALSE))
      BY SimilarSessions
    <3>2. KeepsPlan(r) BY <2>2, <3>1, PlanKept
    <3>3. OnWallet(r) /\ s[r].quota \in Int BY <1>7, AmountsAre DEF FundWallet
    <3> QED BY <2>2, <3>2, <3>3, WalletLedger
  <2> QED BY <1>7, <2>1, <2>2 DEF FundWallet
<1>8. CASE FundSubscription(r)
  <2>1. CASE Becomes(r, Rollback(r, TRUE)) /\ NoStatement
    <3>1. KeepsPlan(r) BY <2>1, PlanKept, SimilarSessions
    <3> QED BY <2>1, <3>1, NothingLedger DEF NoStatement
  <2>2. ASSUME ~Exceeds(r, s[r].quota), NEW o \in Outcome, NEW short \in BOOLEAN,
               PreConsumeSub(r, s[r].quota, o),
               Becomes(r, IF o = "ok" THEN Opened(r, s[r].quota) ELSE Rollback(r, short))
        PROVE  Ledger(r)
    <3>1. Similar(s[r], IF o = "ok" THEN Opened(r, s[r].quota) ELSE Rollback(r, short))
      BY SimilarSessions
    <3>2. KeepsPlan(r) BY <2>2, <3>1, PlanKept
    <3>3. ~OnWallet(r) /\ s[r].quota \in Int /\ s[r].quota >= 0 /\ s[r].plan # <<>>
      BY <1>8, AmountsAre DEF FundSubscription, At
    <3> QED BY <2>2, <3>2, <3>3, SubLedger
  <2> QED BY <1>8, <2>1, <2>2 DEF FundSubscription
<1>9. CASE RollbackToken(r)
  <2>1. s[r].pc \in Early BY <1>9 DEF RollbackToken, At, Early
  <2>2. \E y : Becomes(r, y) BY <1>9 DEF RollbackToken
  <2>3. used' = used /\ \A q \in Req : paid'[q].fund = paid[q].fund
    <3>1. CASE NoStatement BY <3>1 DEF NoStatement
    <3>2. CASE \E o \in Outcome : TakeToken(r, -s[r].tokenConsumed, o)
      BY <3>2, AmountsAre, TokenLedger
    <3> QED BY <1>9, <3>1, <3>2 DEF RollbackToken
  <2> QED BY <2>1, <2>2, <2>3, NewPlanLedger
<1> QED BY <1>1, <1>2, <1>3, <1>4, <1>5, <1>6, <1>7, <1>8, <1>9 DEF Opening

LEMMA ReservingLedger ==
  ASSUME BillingInv, NEW r \in Req, Reserving(r)
  PROVE  Ledger(r)
<1>1. CASE Reserve(r)
  <2>1. KeepsPlan(r) BY <1>1, PlanKept, SimilarSessions DEF Reserve
  <2> QED BY <1>1, <2>1, NothingLedger DEF Reserve, NoStatement
<1>2. CASE ReserveFunding(r)
  <2>0. s[r].plan # <<>> /\ s[r].delta \in Int BY <1>2, AmountsAre DEF ReserveFunding, At
  <2>1. ASSUME OnWallet(r), NEW o \in Outcome, TakeWallet(r, s[r].delta, o),
               Becomes(r, IF o = "ok"
                            THEN [s[r] EXCEPT !.taken = @ + s[r].delta, !.pc = "reserve_token"]
                            ELSE [s[r] EXCEPT !.pc = "open"])
        PROVE  Ledger(r)
    <3>1. Similar(s[r], [s[r] EXCEPT !.taken = @ + s[r].delta, !.pc = "reserve_token"])
      BY SimilarSessions
    <3>2. Similar(s[r], [s[r] EXCEPT !.pc = "open"]) BY SimilarSessions
    <3>3. KeepsPlan(r)
      <4>1. CASE o = "ok" BY <2>1, <3>1, <4>1, PlanKept
      <4>2. CASE o # "ok" BY <2>1, <3>2, <4>2, PlanKept
      <4> QED BY <4>1, <4>2
    <3> QED BY <2>0, <2>1, <3>3, WalletLedger
  <2>2. CASE Goto(r, "open") /\ NoStatement
    <3>1. KeepsPlan(r) BY <2>2, GotoKeeps
    <3> QED BY <2>2, <3>1, NothingLedger DEF NoStatement
  <2>3. ASSUME ~OnWallet(r), ~Exceeds(r, s[r].delta), NEW o \in Outcome, TakeSub(r, s[r].delta, o),
               Goto(r, IF o = "ok" THEN "reserve_token" ELSE "open")
        PROVE  Ledger(r)
    <3>1. KeepsPlan(r) BY <2>3, GotoKeeps
    <3> QED BY <2>0, <2>3, <3>1, SubLedger
  <2> QED BY <1>2, <2>1, <2>2, <2>3 DEF ReserveFunding
<1>3. CASE ReserveTokenCheck(r)
  <2>1. KeepsPlan(r)
    <3>1. CASE s[r].playground BY <1>3, <3>1, PlanKept, SimilarSessions DEF ReserveTokenCheck
    <3>2. CASE ~s[r].playground BY <1>3, <3>2, PlanKept, SimilarSessions DEF ReserveTokenCheck
    <3> QED BY <3>1, <3>2
  <2> QED BY <1>3, <2>1, NothingLedger DEF ReserveTokenCheck, NoStatement
<1>4. CASE ReserveTokenTake(r)
  <2>1. PICK o : /\ TakeToken(r, s[r].delta, o)
                 /\ Becomes(r, IF o = "ok" THEN Reserved(r) ELSE [s[r] EXCEPT !.pc = "reserve_back"])
    BY <1>4 DEF ReserveTokenTake
  <2>2. Similar(s[r], IF o = "ok" THEN Reserved(r) ELSE [s[r] EXCEPT !.pc = "reserve_back"])
    BY SimilarSessions
  <2>3. KeepsPlan(r) BY <2>1, <2>2, PlanKept
  <2> QED BY <2>1, <2>3, AmountsAre, TokenKeepsLedger
<1>5. CASE RollbackFundingReserve(r)
  <2>0. s[r].plan # <<>> /\ -s[r].delta \in Int /\ -s[r].delta <= 0
    BY <1>5, AmountsAre DEF RollbackFundingReserve, At
  <2>1. ASSUME NEW o \in Outcome, OnWallet(r), TakeWallet(r, -s[r].delta, o),
               Becomes(r, [s[r] EXCEPT !.taken = IF o = "ok" THEN @ - s[r].delta ELSE @, !.pc = "open"])
        PROVE  Ledger(r)
    <3>1. KeepsPlan(r) BY <2>1, PlanKept, SimilarSessions
    <3> QED BY <2>0, <2>1, <3>1, WalletLedger
  <2>2. ASSUME NEW o \in Outcome, ~OnWallet(r), TakeSub(r, -s[r].delta, o), Goto(r, "open")
        PROVE  Ledger(r)
    <3>1. KeepsPlan(r) BY <2>2, GotoKeeps
    <3> QED BY <2>0, <2>2, <3>1, SubLedger
  <2> QED BY <1>5, <2>1, <2>2 DEF RollbackFundingReserve
<1> QED BY <1>1, <1>2, <1>3, <1>4, <1>5 DEF Reserving

LEMMA ClosingLedger ==
  ASSUME BillingInv, NEW r \in Req, Closing(r)
  PROVE  Ledger(r)
<1>1. CASE Settle(r)
  <2>1. PICK a, d : Becomes(r, IF [s[r] EXCEPT !.actual = a, !.delta = d].delta = 0
                          THEN [[s[r] EXCEPT !.actual = a, !.delta = d] EXCEPT !.pc = "done", !.result = "settled"]
                          ELSE [[s[r] EXCEPT !.actual = a, !.delta = d] EXCEPT !.pc = "settle_fund"])
    BY <1>1, Zenon DEF Settle
  <2>2. KeepsPlan(r)
    <3>1. CASE [s[r] EXCEPT !.actual = a, !.delta = d].delta = 0
      BY <2>1, <3>1, PlanKept, SimilarSessions
    <3>2. CASE [s[r] EXCEPT !.actual = a, !.delta = d].delta # 0
      BY <2>1, <3>2, PlanKept, SimilarSessions
    <3> QED BY <3>1, <3>2
  <2> QED BY <1>1, <2>2, NothingLedger DEF Settle, NoStatement
<1>2. CASE SettleFunding(r)
  <2>0. s[r].plan # <<>> /\ s[r].delta \in Int BY <1>2, AmountsAre DEF SettleFunding, At
  <2>1. ASSUME OnWallet(r), NEW o \in Outcome, TakeWallet(r, s[r].delta, o),
               IF o = "ok" THEN Goto(r, "settle_token") ELSE Ends(r, "unsettled")
        PROVE  Ledger(r)
    <3>1. KeepsPlan(r) BY <2>1, GotoKeeps
    <3> QED BY <2>0, <2>1, <3>1, WalletLedger
  <2>2. CASE Ends(r, "unsettled") /\ NoStatement
    <3>1. KeepsPlan(r) BY <2>2, GotoKeeps
    <3> QED BY <2>2, <3>1, NothingLedger DEF NoStatement
  <2>3. ASSUME ~OnWallet(r), ~Exceeds(r, s[r].delta), NEW o \in Outcome, TakeSub(r, s[r].delta, o),
               IF o = "ok" THEN Goto(r, "settle_token") ELSE Ends(r, "unsettled")
        PROVE  Ledger(r)
    <3>1. KeepsPlan(r) BY <2>3, GotoKeeps
    <3> QED BY <2>0, <2>3, <3>1, SubLedger
  <2> QED BY <1>2, <2>1, <2>2, <2>3 DEF SettleFunding
<1>3. CASE SettleToken(r)
  <2>1. KeepsPlan(r) BY <1>3, GotoKeeps DEF SettleToken
  <2>2. CASE NoStatement BY <2>1, <2>2, NothingLedger DEF NoStatement
  <2>3. ASSUME NEW o \in Outcome, TakeToken(r, s[r].delta, o) PROVE Ledger(r)
    BY <2>1, <2>3, AmountsAre, TokenKeepsLedger
  <2> QED BY <1>3, <2>2, <2>3 DEF SettleToken
<1>4. CASE Refund(r)
  <2>1. KeepsPlan(r) BY <1>4, GotoKeeps DEF Refund
  <2> QED BY <1>4, <2>1, NothingLedger DEF Refund, NoStatement
<1>5. CASE RefundWallet(r)
  <2>1. KeepsPlan(r) /\ OnWallet(r) BY <1>5, GotoKeeps DEF RefundWallet
  <2>2. CASE NoStatement BY <2>1, <2>2, NothingLedger DEF NoStatement
  <2>3. ASSUME NEW o \in Outcome, TakeWallet(r, -s[r].taken, o) PROVE Ledger(r)
    BY <2>1, <2>3, AmountsAre, WalletLedger
  <2> QED BY <1>5, <2>2, <2>3 DEF RefundWallet
<1>6. CASE RefundSubscriptionAmount(r)
  <2>0. s[r].plan # <<>> /\ -s[r].taken \in Int /\ -s[r].taken <= 0 /\ ~OnWallet(r)
    BY <1>6, AmountsAre DEF RefundSubscriptionAmount, At
  <2>1. CASE Goto(r, "refund_extra") /\ NoStatement
    <3>1. KeepsPlan(r) BY <2>1, GotoKeeps
    <3> QED BY <2>1, <3>1, NothingLedger DEF NoStatement
  <2>2. ASSUME NEW o \in Outcome, TakeSub(r, -s[r].taken, o),
               IF o = "ok" THEN Goto(r, "refund_mark") ELSE Again(r)
        PROVE  Ledger(r)
    <3>1. KeepsPlan(r) BY <2>2, GotoKeeps
    <3> QED BY <2>0, <2>2, <3>1, SubLedger
  <2> QED BY <1>6, <2>1, <2>2 DEF RefundSubscriptionAmount
<1>7. CASE RefundSubscriptionMark(r)
  <2>1. KeepsPlan(r) BY <1>7, GotoKeeps DEF RefundSubscriptionMark
  <2>2. UNCHANGED <<used, paid>> BY <1>7 DEF RefundSubscriptionMark
  <2> QED BY <2>1, <2>2, NothingLedger
<1>8. CASE RefundExtra(r)
  <2>0. s[r].plan # <<>> /\ -s[r].extraReserved \in Int /\ -s[r].extraReserved <= 0
    BY <1>8, AmountsAre DEF RefundExtra, At
  <2>1. KeepsPlan(r) BY <1>8, GotoKeeps DEF RefundExtra
  <2>2. CASE NoStatement BY <2>1, <2>2, NothingLedger DEF NoStatement
  <2>3. ASSUME ~OnWallet(r), NEW o \in Outcome, TakeSub(r, -s[r].extraReserved, o) PROVE Ledger(r)
    BY <2>0, <2>1, <2>3, SubLedger
  <2> QED BY <1>8, <2>2, <2>3 DEF RefundExtra
<1>9. CASE RefundToken(r)
  <2>1. KeepsPlan(r) BY <1>9, GotoKeeps DEF RefundToken
  <2>2. CASE NoStatement BY <2>1, <2>2, NothingLedger DEF NoStatement
  <2>3. ASSUME NEW o \in Outcome, TakeToken(r, -s[r].tokenConsumed, o) PROVE Ledger(r)
    BY <2>1, <2>3, AmountsAre, TokenKeepsLedger
  <2> QED BY <1>9, <2>2, <2>3 DEF RefundToken
<1> QED BY <1>1, <1>2, <1>3, <1>4, <1>5, <1>6, <1>7, <1>8, <1>9 DEF Closing

\* Nobody's plan or payment changes: a crash, or nothing at all.
LEMMA StillLedger ==
  ASSUME SubInv, UNCHANGED <<locked, used, paid>>, \A r \in Req : s'[r].plan = s[r].plan
  PROVE  SubInv'
<1>1. OnSub' = OnSub BY DEF OnSub, Draws
<1> QED BY <1>1 DEF SubInv

LEMMA CrashKeepsPlans ==
  ASSUME BillingInv, Crash
  PROVE  \A r \in Req : s'[r].plan = s[r].plan
<1> SUFFICES ASSUME NEW r \in Req PROVE s'[r].plan = s[r].plan OBVIOUS
<1>1. Similar(s[r], [s[r] EXCEPT !.pc = "done", !.result = "lost"]) BY SimilarSessions
<1> QED BY <1>1 DEF Crash, Similar

\* The invariant holds at first and is kept by every step.
LEMMA SubInit == Init => SubInv
<1> SUFFICES ASSUME Init PROVE SubInv OBVIOUS
<1>1. \A r \in Req : s[r].plan = <<>> BY DEF Init, NoSession
<1>2. OnSub = {} BY <1>1 DEF OnSub, Draws
<1>3. Total(paid, OnSub) = 0 BY <1>2, TotalEmpty
<1>4. used = 0 /\ SubTotal \in Nat BY BillingAssumption DEF Init
<1> QED BY <1>3, <1>4 DEF SubInv

LEMMA SubNext == BillingInv /\ BillingInv' /\ SubInv /\ [Next]_vars => SubInv'
<1> SUFFICES ASSUME BillingInv, BillingInv', SubInv, [Next]_vars PROVE SubInv' OBVIOUS
<1>1. ASSUME NEW r \in Req, Opening(r) \/ Reserving(r) \/ Closing(r), locked' = locked PROVE SubInv'
  <2>1. Ledger(r) BY <1>1, OpeningLedger, ReservingLedger, ClosingLedger
  <2> QED BY <1>1, <2>1, LedgerKept
<1>2. CASE Crash /\ locked' = locked
  BY <1>2, CrashKeepsPlans, StillLedger DEF Crash, db
<1>3. CASE AllDone /\ locked' = locked BY <1>3, StillLedger DEF AllDone, db
<1>4. CASE UNCHANGED vars BY <1>4, StillLedger DEF vars
<1> QED BY <1>1, <1>2, <1>3, <1>4 DEF Next

-----------------------------------------------------------------------------
(* Theorems *)

\* The account of every request is in order in every reachable state.
THEOREM BillingInvariant == Spec => []BillingInv
BY BillingInit, BillingNext, PTL DEF Spec

\* Without faults a finished request moved exactly its price from the funding source
\* and from the token: the actual cost when Settle ran, nothing when it was rejected or
\* refunded, for any number of requests, amounts, preferences and interleaving.
THEOREM Charged == Spec => []ChargedExactly
<1>1. BillingInv => ChargedExactly
  <2> SUFFICES ASSUME BillingInv, NEW r \in Req, faults = 0,
                      s[r].result \in {"settled", "refunded", "rejected"}
               PROVE  LET price == IF s[r].result = "settled" THEN s[r].actual ELSE 0
                      IN  /\ paid[r].fund = price
                          /\ paid[r].token = IF s[r].playground THEN 0 ELSE price
    BY DEF ChargedExactly
  <2>1. Exact(s[r], paid[r], rec[r])
    BY DEF BillingInv, Account
  <2> QED  BY <2>1 DEF Exact
<1> QED  BY <1>1, BillingInvariant, PTL

\* Whatever statements fail and whenever the process dies, a request never gets back
\* more than it took from its token or, when it is paid from the wallet, from the wallet.
THEOREM NotOverRefunded == Spec => []NeverOverRefunded
<1>1. BillingInv => NeverOverRefunded
  <2> SUFFICES ASSUME BillingInv PROVE NeverOverRefunded
    OBVIOUS
  <2>1. TypeOK
    BY DEF BillingInv
  <2>2. ASSUME NEW r \in Req
        PROVE  paid[r].token >= 0 /\ (s[r].plan # <<>> /\ OnWallet(r) => paid[r].fund >= 0)
    <3>1. Solvent(s[r], paid[r])  BY DEF BillingInv, Account
    <3> QED  BY <3>1 DEF Solvent, Wallet, OnWallet, Source
  <2> QED  BY <2>1, <2>2 DEF NeverOverRefunded
<1> QED  BY <1>1, BillingInvariant, PTL

\* With the row locked, requests that pre-consume, reserve, settle and refund at once
\* (PreConsumeUserSubscription, PostConsumeUserSubscriptionDelta) never take together
\* more from a subscription than its AmountTotal, whatever fails and however often a
\* refund is repeated.
THEOREM WithinTotal == Spec => []SubWithinTotal
<1>1. BillingInv /\ SubInv => SubWithinTotal
  <2> SUFFICES ASSUME BillingInv, SubInv, locked, SubTotal > 0
               PROVE  MapThenSumSet(LAMBDA r : paid[r].fund,
                          {r \in Req : s[r].plan # <<>> /\ ~OnWallet(r)}) <= SubTotal
    BY DEF SubWithinTotal
  <2>1. PICK A : A = {r \in Req : s[r].plan # <<>> /\ ~OnWallet(r)} OBVIOUS
  <2>2. A = OnSub BY <2>1 DEF OnSub, Draws, OnWallet, Source
  <2>3. A \subseteq Req /\ IsFiniteSet(A) BY <2>1, BillingAssumption, FS_Subset
  <2>4. \A r \in A : paid[r].fund \in Int BY <2>3 DEF BillingInv, Payment
  <2>5. Total(paid, A) \in Int BY <2>3, <2>4, TotalInt
  <2>6. used \in Nat /\ SubTotal \in Nat BY BillingAssumption DEF BillingInv, TypeOK
  <2>7. Total(paid, A) <= SubTotal BY <2>2, <2>5, <2>6 DEF SubInv
  <2>8. MapThenSumSet(LAMBDA r : paid[r].fund, A) <= SubTotal BY <2>7 DEF Total
  <2> QED BY <2>1, <2>8
<1>2. BillingInv /\ [Next]_vars => BillingInv' BY BillingNext
<1>3. Spec => []SubInv BY <1>2, SubInit, SubNext, BillingInvariant, PTL DEF Spec
<1> QED BY <1>1, <1>3, BillingInvariant, PTL
=============================================================================
