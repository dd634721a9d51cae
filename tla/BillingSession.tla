--------------------------- MODULE BillingSession ---------------------------
(***************************************************************************)
(* The billing of relay requests (service/billing_session.go,              *)
(* service/funding_source.go, service/billing.go and the statements of     *)
(* model/ they call): a session takes an estimate from the token and from  *)
(* the funding source (the user's wallet or a subscription) before the     *)
(* request goes out, may reserve more, and afterwards settles the actual   *)
(* cost or gives everything back.                                          *)
(*                                                                         *)
(* One user with one token, one wallet and one subscription; several       *)
(* requests at once.  Each database statement or transaction is a step.    *)
(* It succeeds or fails without effect.  `paid' is a history variable:     *)
(* what the statements of a request took, less what they gave back.  The   *)
(* Redis copies of the balances and the deferred batch updates are left    *)
(* out: a balance is one number.                                           *)
(*                                                                         *)
(* The transactions on a subscription read its row, compute, and save it.  *)
(* They ask for the row to be locked with the setting "gorm:query_option", *)
(* which gorm before version 2 turned into FOR UPDATE and version 2 (the   *)
(* one in go.mod) does not read.  `locked' is TRUE with the lock the code  *)
(* asks for (or a database that runs the transactions one by one), and     *)
(* FALSE when the read and the write are steps of their own.               *)
(***************************************************************************)
EXTENDS Integers, Sequences, FiniteSets, FiniteSetsExt

CONSTANTS
    Req,            \* requests
    WalletStart, TokenStart,
    SubTotal,       \* UserSubscription.AmountTotal; 0: no limit
    TrustQuota,     \* common.GetTrustQuota(); 0: nobody is trusted
    AllowOverflow,  \* UserActiveSubscriptionsAllowWalletOverflow
    HasSub,         \* HasActiveUserSubscription
    Preferences,    \* billing preferences that occur
    Unlimited,      \* values of RelayInfo.TokenUnlimited that occur
    Estimates, Targets, Actuals,    \* amounts that occur
    RowLocks,       \* values of `locked' that occur
    MaxFaults       \* bound: failed statements and crashes

ASSUME BillingAssumption ==
    /\ IsFiniteSet(Req)
    /\ {WalletStart, TokenStart, SubTotal, TrustQuota, MaxFaults} \subseteq Nat
    /\ ({AllowOverflow, HasSub} \cup Unlimited \cup RowLocks) \subseteq BOOLEAN
    /\ (Estimates \cup Targets \cup Actuals) \subseteq Nat
    /\ Preferences \subseteq
         {"subscription_first", "wallet_first", "subscription_only", "wallet_only"}

MaxAttempts == 3        \* refundWithRetry

VARIABLES wallet, token, used,  \* the balances; used: UserSubscription.AmountUsed
          rec,                  \* SubscriptionPreConsumeRecord.Status by request
          s,                    \* the session of each request
          locked,               \* reading the subscription locks its row
          paid, faults

vars == <<wallet, token, used, rec, s, locked, paid, faults>>
db == <<wallet, token, used, rec, paid>>

NotRead == -1           \* no row of the subscription is in hand

NoSession ==
    [pc |-> "new", plan |-> <<>>, playground |-> FALSE, forced |-> FALSE,
     unlimited |-> FALSE, rich |-> FALSE, seen |-> NotRead, want |-> 0, quota |-> 0, insufficient |-> FALSE,
     preConsumed |-> 0, tokenConsumed |-> 0, extraReserved |-> 0, taken |-> 0,
     trusted |-> FALSE, delta |-> 0, actual |-> 0, tries |-> 0, result |-> "none"]

Init ==
    /\ wallet = WalletStart /\ token = TokenStart /\ used = 0
    /\ rec = [r \in Req |-> "none"]
    /\ s = [r \in Req |-> NoSession]
    /\ paid = [r \in Req |-> [fund |-> 0, token |-> 0]]
    /\ locked \in RowLocks /\ faults = 0

-----------------------------------------------------------------------------
(* Statements *)

Outcome == {"ok"} \cup {o \in {"failed"} : faults < MaxFaults}
Counts(o) == faults' = IF o = "ok" THEN faults ELSE faults + 1

\* DecreaseUserQuota (d > 0), IncreaseUserQuota (d < 0).
TakeWallet(r, d, o) ==
    /\ wallet' = IF o = "ok" THEN wallet - d ELSE wallet
    /\ paid' = IF o = "ok" THEN [paid EXCEPT ![r].fund = @ + d] ELSE paid
    /\ Counts(o) /\ UNCHANGED <<token, used, rec>>

\* DecreaseTokenQuota (d > 0), IncreaseTokenQuota (d < 0).
TakeToken(r, d, o) ==
    /\ token' = IF o = "ok" THEN token - d ELSE token
    /\ paid' = IF o = "ok" THEN [paid EXCEPT ![r].token = @ + d] ELSE paid
    /\ Counts(o) /\ UNCHANGED <<wallet, used, rec>>

\* The use of the subscription the transaction of r computes with.
UsedRead(r) == IF locked THEN used ELSE s[r].seen
HasRead(r) == locked \/ s[r].seen # NotRead

NeverExceeds(r, d) == FALSE     \* mutant: the total is not checked

Exceeds(r, d) == SubTotal > 0 /\ UsedRead(r) + d > SubTotal

Clamped(n) == IF n < 0 THEN 0 ELSE n

\* PostConsumeUserSubscriptionDelta
TakeSub(r, d, o) ==
    /\ HasRead(r)
    /\ used' = IF o = "ok" THEN Clamped(UsedRead(r) + d) ELSE used
    /\ paid' = IF o = "ok" THEN [paid EXCEPT ![r].fund = @ + d] ELSE paid
    /\ Counts(o) /\ UNCHANGED <<wallet, token, rec>>

\* PreConsumeUserSubscription: the record and the amount, in one transaction.
PreConsumeSub(r, d, o) ==
    /\ HasRead(r)
    /\ used' = IF o = "ok" THEN UsedRead(r) + d ELSE used
    /\ rec' = IF o = "ok" THEN [rec EXCEPT ![r] = "consumed"] ELSE rec
    /\ paid' = IF o = "ok" THEN [paid EXCEPT ![r].fund = @ + d] ELSE paid
    /\ Counts(o) /\ UNCHANGED <<wallet, token>>

NoStatement == UNCHANGED <<wallet, token, used, rec, paid, faults>>

-----------------------------------------------------------------------------
(* The session *)

At(r, p) == s[r].pc = p
Becomes(r, x) == s' = [s EXCEPT ![r] = [x EXCEPT !.seen = NotRead]]
Goto(r, p) == Becomes(r, [s[r] EXCEPT !.pc = p])
Ends(r, how) == Becomes(r, [s[r] EXCEPT !.pc = "done", !.result = how])

Source(r) == Head(s[r].plan)
OnWallet(r) == Source(r) = "wallet"

\* Without row locks: the transaction of r reads the subscription.
ReadSubscription(r) ==
    /\ ~HasRead(r)
    /\ s[r].pc \in {"fund", "reserve_fund", "reserve_back", "settle_fund",
                     "refund_fund", "refund_extra"}
    /\ ~OnWallet(r) /\ (At(r, "refund_extra") => s[r].extraReserved > 0)
    /\ s' = [s EXCEPT ![r].seen = used]
    /\ NoStatement

\* The next source to try, or the request is rejected.
NextSource(x) ==
    IF Len(x.plan) > 1
      THEN [NoSession EXCEPT !.pc = "try", !.plan = Tail(x.plan), !.want = x.want,
              !.playground = x.playground, !.forced = x.forced,
              !.unlimited = x.unlimited, !.rich = x.rich]
      ELSE [x EXCEPT !.pc = "done", !.result = "rejected"]

(* NewBillingSession *)

Plan(pref) ==
    CASE pref = "subscription_only" -> <<"subscription">>
      [] pref = "wallet_only"       -> <<"wallet">>
      [] pref = "wallet_first"      -> <<"wallet", "subscription">>
      [] pref = "subscription_first" ->
            IF ~HasSub THEN <<"wallet">>
            ELSE IF AllowOverflow THEN <<"subscription", "wallet">> ELSE <<"subscription">>

NewBillingSession(r) ==
    /\ At(r, "new")
    /\ \E pref \in Preferences, q \in Estimates, p, f \in BOOLEAN, u \in Unlimited :
         Becomes(r, [NoSession EXCEPT !.pc = "try", !.plan = Plan(pref), !.want = q,
                       !.playground = p, !.forced = f, !.unlimited = u,
                       !.rich = u \/ token > TrustQuota])
    /\ NoStatement

\* shouldTrust, for a wallet: a subscription is never trusted.
shouldTrust(r) ==
    /\ ~s[r].forced /\ TrustQuota > 0
    /\ s[r].rich /\ wallet > TrustQuota

\* preConsume begins: the token is charged first, unless there is nothing to take.
Trying(r, quota) == [s[r] EXCEPT !.quota = quota, !.pc = IF quota > 0 THEN "token" ELSE "fund"]

\* tryWallet reads the balance.
TryWallet(r) ==
    /\ At(r, "try") /\ OnWallet(r)
    /\ Becomes(r, IF wallet <= 0 \/ wallet < s[r].want THEN NextSource(s[r])
                  ELSE [Trying(r, IF shouldTrust(r) THEN 0 ELSE s[r].want)
                          EXCEPT !.trusted = shouldTrust(r)])
    /\ NoStatement

\* trySubscription: a subscription is charged at least 1.
TrySubscription(r) ==
    /\ At(r, "try") /\ ~OnWallet(r)
    /\ Becomes(r, Trying(r, Max({s[r].want, 1})))
    /\ NoStatement

(* preConsume *)

\* PreConsumeTokenQuota reads the token and compares ...
PreConsumeTokenCheck(r) ==
    /\ At(r, "token")
    /\ Becomes(r,
         IF s[r].playground
           THEN [s[r] EXCEPT !.tokenConsumed = s[r].quota, !.pc = "fund"]
           ELSE IF ~s[r].unlimited /\ token < s[r].quota
             THEN [s[r] EXCEPT !.pc = "done", !.result = "rejected"]
             ELSE [s[r] EXCEPT !.pc = "token_take"])
    /\ NoStatement

\* ... and then takes.
PreConsumeTokenTake(r) ==
    /\ At(r, "token_take")
    /\ \E o \in Outcome :
         /\ TakeToken(r, s[r].quota, o)
         /\ IF o = "ok"
              THEN Becomes(r, [s[r] EXCEPT !.tokenConsumed = s[r].quota, !.pc = "fund"])
              ELSE Ends(r, "rejected")

Opened(r, n) ==
    [s[r] EXCEPT !.taken = n, !.preConsumed = s[r].quota, !.pc = "open"]
Rollback(r, short) == [s[r] EXCEPT !.insufficient = short, !.pc = "rollback"]

\* WalletFunding.PreConsume
FundWallet(r) ==
    /\ At(r, "fund") /\ OnWallet(r)
    /\ \/ s[r].quota = 0 /\ Becomes(r, Opened(r, 0)) /\ NoStatement
       \/ /\ s[r].quota > 0
          /\ \E o \in Outcome :
               /\ TakeWallet(r, s[r].quota, o)
               /\ Becomes(r, IF o = "ok" THEN Opened(r, s[r].quota) ELSE Rollback(r, FALSE))

\* SubscriptionFunding.PreConsume.  Of the statements that can fail, the read of the
\* subscriptions is reported as "no active subscription", like having none.
FundSubscription(r) ==
    /\ At(r, "fund") /\ ~OnWallet(r)
    /\ \/ HasRead(r) /\ (~HasSub \/ Exceeds(r, s[r].quota))
          /\ Becomes(r, Rollback(r, TRUE)) /\ NoStatement
       \/ /\ HasSub /\ ~Exceeds(r, s[r].quota)
          /\ \E o \in Outcome, short \in BOOLEAN :
               /\ PreConsumeSub(r, s[r].quota, o)
               /\ Becomes(r, IF o = "ok" THEN Opened(r, s[r].quota) ELSE Rollback(r, short))

AfterRollback(r) ==
    IF s[r].insufficient THEN NextSource(s[r])
    ELSE [s[r] EXCEPT !.pc = "done", !.result = "rejected"]

\* Mutant: the token keeps what the failed session took.
RollbackForgotten(r) ==
    /\ At(r, "rollback")
    /\ Becomes(r, AfterRollback(r)) /\ NoStatement

\* The funding source refused: give the token back.
RollbackToken(r) ==
    /\ At(r, "rollback")
    /\ Becomes(r, AfterRollback(r))
    /\ IF s[r].tokenConsumed > 0 /\ ~s[r].playground
         THEN \E o \in Outcome : TakeToken(r, -s[r].tokenConsumed, o)
         ELSE NoStatement

(* Reserve, an operation of BillingSettler nothing calls; bound: once a session *)

Reserve(r) ==
    /\ At(r, "open") /\ ~s[r].trusted /\ s[r].extraReserved = 0 /\ s[r].delta = 0
    /\ \E t \in Targets :
         /\ t > s[r].preConsumed
         /\ Becomes(r, [s[r] EXCEPT !.delta = t - s[r].preConsumed, !.pc = "reserve_fund"])
    /\ NoStatement

\* reserveFunding
ReserveFunding(r) ==
    LET d == s[r].delta IN
    /\ At(r, "reserve_fund")
    /\ \/ /\ OnWallet(r)
          /\ \E o \in Outcome :
               /\ TakeWallet(r, d, o)
               /\ Becomes(r, IF o = "ok"
                               THEN [s[r] EXCEPT !.taken = @ + d, !.pc = "reserve_token"]
                               ELSE [s[r] EXCEPT !.pc = "open"])
       \/ ~OnWallet(r) /\ HasRead(r) /\ Exceeds(r, d) /\ Goto(r, "open") /\ NoStatement
       \/ /\ ~OnWallet(r) /\ ~Exceeds(r, d)
          /\ \E o \in Outcome :
               /\ TakeSub(r, d, o)
               /\ Goto(r, IF o = "ok" THEN "reserve_token" ELSE "open")

Reserved(r) ==
    [s[r] EXCEPT !.preConsumed = @ + s[r].delta, !.tokenConsumed = @ + s[r].delta,
                 !.extraReserved = @ + s[r].delta, !.pc = "open"]

\* reserveToken, check and take
ReserveTokenCheck(r) ==
    /\ At(r, "reserve_token")
    /\ Becomes(r, IF s[r].playground THEN Reserved(r)
                  ELSE [s[r] EXCEPT !.pc = IF ~s[r].unlimited /\ token < s[r].delta
                                             THEN "reserve_back" ELSE "reserve_take"])
    /\ NoStatement

ReserveTokenTake(r) ==
    /\ At(r, "reserve_take")
    /\ \E o \in Outcome :
         /\ TakeToken(r, s[r].delta, o)
         /\ Becomes(r, IF o = "ok" THEN Reserved(r) ELSE [s[r] EXCEPT !.pc = "reserve_back"])

\* rollbackFundingReserve
RollbackFundingReserve(r) ==
    LET d == s[r].delta IN
    /\ At(r, "reserve_back")
    /\ \E o \in Outcome :
         \/ /\ OnWallet(r) /\ TakeWallet(r, -d, o)
            /\ Becomes(r, [s[r] EXCEPT !.taken = IF o = "ok" THEN @ - d ELSE @, !.pc = "open"])
         \/ ~OnWallet(r) /\ TakeSub(r, -d, o) /\ Goto(r, "open")

(* Settle: callers log its error, nobody calls it again *)

Settle(r) ==
    /\ At(r, "open")
    /\ \E a \in Actuals :
         LET x == [s[r] EXCEPT !.actual = a, !.delta = a - s[r].preConsumed]
         IN  Becomes(r, IF x.delta = 0 THEN [x EXCEPT !.pc = "done", !.result = "settled"]
                        ELSE [x EXCEPT !.pc = "settle_fund"])
    /\ NoStatement

SettleFunding(r) ==
    LET d == s[r].delta
        next(o) == IF o = "ok" THEN Goto(r, "settle_token") ELSE Ends(r, "unsettled")
    IN  /\ At(r, "settle_fund")
        /\ \/ OnWallet(r) /\ \E o \in Outcome : TakeWallet(r, d, o) /\ next(o)
           \/ ~OnWallet(r) /\ HasRead(r) /\ Exceeds(r, d) /\ Ends(r, "unsettled") /\ NoStatement
           \/ ~OnWallet(r) /\ ~Exceeds(r, d) /\ \E o \in Outcome : TakeSub(r, d, o) /\ next(o)

SettleToken(r) ==
    /\ At(r, "settle_token")
    /\ Ends(r, "settled")
    /\ IF s[r].playground THEN NoStatement
       ELSE \E o \in Outcome : TakeToken(r, s[r].delta, o)

(* Refund: the request failed *)

NeedsRefund(r) == s[r].tokenConsumed > 0 \/ (~OnWallet(r) /\ s[r].taken > 0)

Refund(r) ==
    /\ At(r, "open")
    /\ IF NeedsRefund(r) THEN Goto(r, "refund_fund") ELSE Ends(r, "refunded")
    /\ NoStatement

\* WalletFunding.Refund: one attempt.
RefundWallet(r) ==
    /\ At(r, "refund_fund") /\ OnWallet(r)
    /\ Goto(r, "refund_extra")
    /\ IF s[r].taken > 0 THEN \E o \in Outcome : TakeWallet(r, -s[r].taken, o)
       ELSE NoStatement

\* refundWithRetry after a failed attempt.
Again(r) ==
    Becomes(r, [s[r] EXCEPT !.tries = @ + 1,
                  !.pc = IF s[r].tries + 1 < MaxAttempts THEN "refund_fund" ELSE "refund_extra"])

\* RefundSubscriptionPreConsume: the amount goes back in a transaction of its
\* own (PostConsumeUserSubscriptionDelta uses DB, not tx) ...
RefundSubscriptionAmount(r) ==
    /\ At(r, "refund_fund") /\ ~OnWallet(r)
    /\ \/ rec[r] = "refunded" /\ Goto(r, "refund_extra") /\ NoStatement
       \/ /\ rec[r] = "consumed"
          /\ \E o \in Outcome :
               /\ TakeSub(r, -s[r].taken, o)
               /\ IF o = "ok" THEN Goto(r, "refund_mark") ELSE Again(r)

\* ... and the record is marked in the outer one, whose commit may also take
\* effect and report an error.
RefundSubscriptionMark(r) ==
    /\ At(r, "refund_mark")
    /\ \E o \in Outcome \cup {l \in {"lost"} : faults < MaxFaults} :
         /\ rec' = IF o # "failed" THEN [rec EXCEPT ![r] = "refunded"] ELSE rec
         /\ Counts(o) /\ UNCHANGED <<wallet, token, used, paid>>
         /\ IF o = "ok" THEN Goto(r, "refund_extra") ELSE Again(r)

RefundExtra(r) ==
    /\ At(r, "refund_extra")
    /\ Goto(r, "refund_token")
    /\ IF s[r].extraReserved > 0 /\ ~OnWallet(r)
         THEN \E o \in Outcome : TakeSub(r, -s[r].extraReserved, o)
         ELSE NoStatement

\* Mutant: the playground, which takes nothing from the token, is not left out.
RefundTokenAlways(r) ==
    /\ At(r, "refund_token")
    /\ Ends(r, "refunded")
    /\ IF s[r].tokenConsumed > 0 THEN \E o \in Outcome : TakeToken(r, -s[r].tokenConsumed, o)
       ELSE NoStatement

RefundToken(r) ==
    /\ At(r, "refund_token")
    /\ Ends(r, "refunded")
    /\ IF s[r].tokenConsumed > 0 /\ ~s[r].playground
         THEN \E o \in Outcome : TakeToken(r, -s[r].tokenConsumed, o)
         ELSE NoStatement

\* The process dies: its sessions, refunds under way included, are gone.
Crash ==
    /\ faults < MaxFaults
    /\ s' = [r \in Req |-> IF s[r].pc \in {"new", "done"} THEN s[r]
                           ELSE [s[r] EXCEPT !.pc = "done", !.result = "lost"]]
    /\ faults' = faults + 1
    /\ UNCHANGED db

-----------------------------------------------------------------------------
Opening(r) ==
    \/ ReadSubscription(r) \/ NewBillingSession(r) \/ TryWallet(r) \/ TrySubscription(r)
    \/ PreConsumeTokenCheck(r) \/ PreConsumeTokenTake(r)
    \/ FundWallet(r) \/ FundSubscription(r) \/ RollbackToken(r)

Reserving(r) ==
    \/ Reserve(r) \/ ReserveFunding(r) \/ ReserveTokenCheck(r)
    \/ ReserveTokenTake(r) \/ RollbackFundingReserve(r)

Closing(r) ==
    \/ Settle(r) \/ SettleFunding(r) \/ SettleToken(r)
    \/ Refund(r) \/ RefundWallet(r) \/ RefundSubscriptionAmount(r)
    \/ RefundSubscriptionMark(r) \/ RefundExtra(r) \/ RefundToken(r)

AllDone == (\A r \in Req : At(r, "done")) /\ UNCHANGED <<db, s, faults>>

Next ==
    /\ (\E r \in Req : Opening(r) \/ Reserving(r) \/ Closing(r)) \/ Crash \/ AllDone
    /\ UNCHANGED locked

Spec == Init /\ [][Next]_vars

-----------------------------------------------------------------------------
(* Properties *)

\* Types; the subscription's use never goes below zero.
TypeOK ==
    /\ wallet \in Int /\ token \in Int /\ used \in Nat /\ locked \in BOOLEAN
    /\ rec \in [Req -> {"none", "consumed", "refunded"}]
    /\ \A r \in Req : s[r].taken \in Nat /\ s[r].tries \in 0 .. MaxAttempts
    /\ faults \in 0 .. MaxFaults

\* Without faults a finished request has moved exactly its price: the actual
\* cost from the funding source and from the token when it was settled, and
\* nothing at all when it was rejected or failed, whatever sources were tried,
\* refused, rolled back or topped up by Reserve on the way, and however the
\* requests interleave.
ChargedExactly ==
    \A r \in Req : faults = 0 /\ s[r].result \in {"settled", "refunded", "rejected"} =>
        LET price == IF s[r].result = "settled" THEN s[r].actual ELSE 0
        IN  /\ paid[r].fund = price
            /\ paid[r].token = IF s[r].playground THEN 0 ELSE price

\* Neither the wallet nor the token ever gives back more than the request took,
\* although statements fail and the process dies at any point; the subscription's
\* use stays a natural number (and the state keeps its types).
NeverOverRefunded ==
    /\ TypeOK
    /\ \A r \in Req : /\ paid[r].token >= 0
                      /\ s[r].plan # <<>> /\ OnWallet(r) => paid[r].fund >= 0

\* With the row locked, the requests paid from a subscription have together taken
\* no more than its total, by pre-consumption, reserve and settlement, several at
\* once, whatever fails.
SubWithinTotal ==
    locked /\ SubTotal > 0 =>
        MapThenSumSet(LAMBDA r : paid[r].fund,
            {r \in Req : s[r].plan # <<>> /\ ~OnWallet(r)}) <= SubTotal

\* The comment on RefundSubscriptionPreConsume: the refund is idempotent, so a
\* retry gives nothing back twice.
SubRefundIsIdempotent ==
    \A r \in Req : s[r].plan # <<>> /\ ~OnWallet(r) => paid[r].fund >= 0
=============================================================================
