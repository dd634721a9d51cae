------------------------- MODULE TaskPollingProofs -------------------------
(***************************************************************************)
(* A guarded task is billed once and as it ended, for any number of        *)
(* overlapping passes, any faults and any upstream.                        *)
(*                                                                         *)
(* The argument: whoever writes the row saw it unfinished (SeenOpen), so   *)
(* the conditional update lets one writer end it, and nobody bills before  *)
(* (Unbilled).  That writer is the only biller from then on (OneBiller),   *)
(* what it adds fits the end it wrote (BillFits), and what it leaves       *)
(* behind is the bill (Billed).                                            *)
(***************************************************************************)
EXTENDS TaskPolling, TLAPS

PC == {"idle", "sweep", "swept", "loaded", "answered", "save", "update", "fund", "token"}
Work == [pc : PC, seen : Row, new : Row, failed : BOOLEAN, delta : Int,
         next : {"idle", "swept", "save"}]

Types ==
    /\ row \in Row /\ task \in Tasks /\ late \in BOOLEAN /\ up \in Status
    /\ paid \in [fund : Int, token : Int]
    /\ w \in [Poller \cup Fetcher -> Work]
    /\ faults \in 0 .. MaxFaults

Billing(x) == w[x].pc \in {"fund", "token"}

\* Nobody takes a step of a Suno task or of a query.
Quiet ==
    /\ \A f \in Fetcher : w[f].pc = "idle"
    /\ \A p \in Poller : w[p].pc \notin {"answered", "save"}

\* Whoever may write the row read it before it ended.
SeenOpen ==
    \A p \in Poller :
        /\ w[p].pc \in {"sweep", "loaded", "update"} => ~Final(w[p].seen.status)
        /\ w[p].pc = "sweep" => w[p].new.status = "FAILURE"

OneBiller == \A p, q \in Poller : Billing(p) /\ Billing(q) => p = q

Unbilled ==
    ~Final(row.status) =>
        /\ paid.fund = Quota /\ paid.token = Quota
        /\ \A p \in Poller : ~Billing(p)

\* What a biller is about to add makes the bill that of the end in the row.
BillFits ==
    \A p \in Poller : Billing(p) =>
        /\ row.status = "FAILURE" => w[p].delta = -Quota
        /\ row.status = "SUCCESS" => w[p].delta + Quota \in Actuals \ {0}
        /\ paid.fund = IF w[p].pc = "fund" THEN Quota ELSE Quota + w[p].delta
        /\ paid.token = Quota
        /\ w[p].next # "save"

RightBill ==
    /\ paid.fund = paid.token
    /\ row.status = "FAILURE" => paid.fund \in {0} \cup {q \in {Quota} : task.legacy}
    /\ row.status = "SUCCESS" => paid.fund \in {Quota} \cup (Actuals \ {0})

Billed ==
    Final(row.status) /\ (\A p \in Poller : ~Billing(p)) =>
        /\ paid.fund >= 0 /\ paid.token >= 0
        /\ faults = 0 => RightBill

\* The state of a guarded task: the conjunction of the above.
GuardedInv == Quiet /\ SeenOpen /\ OneBiller /\ Unbilled /\ BillFits /\ Billed

PollInv == Types /\ (Guarded => GuardedInv)

-----------------------------------------------------------------------------
\* Init establishes the invariant.
LEMMA InitPollInv == Init => PollInv
<1> SUFFICES ASSUME Init PROVE PollInv
  OBVIOUS
<1>1. Idle \in Work
  BY DEF Idle, Work, PC, Row, Status
<1>0. Quota \in Nat /\ MaxFaults \in Nat
  BY TaskAssumption
<1>2. Types
  <2>1. row \in Row /\ up \in Status
    BY DEF Init, Row, Status
  <2>2. task \in Tasks /\ late \in BOOLEAN
    BY DEF Init
  <2>3. paid \in [fund : Int, token : Int] /\ faults \in 0 .. MaxFaults
    BY <1>0 DEF Init
  <2>4. w \in [Poller \cup Fetcher -> Work]
    BY <1>1 DEF Init
  <2> QED
    BY <2>1, <2>2, <2>3, <2>4 DEF Types
<1>3. \A x \in Poller \cup Fetcher : w[x].pc = "idle"
  BY DEF Init, Idle
<1>4. ~Final(row.status) /\ paid.fund = Quota /\ paid.token = Quota
  BY DEF Init, Final
<1>5. GuardedInv
  BY <1>3, <1>4 DEF GuardedInv, Quiet, SeenOpen, OneBiller, Unbilled, BillFits, Billed, Billing
<1> QED
  BY <1>2, <1>5 DEF PollInv

-----------------------------------------------------------------------------
(* Types *)

\* A worker that becomes a well-typed record.
LEMMA WorkerChanges ==
  ASSUME Types, NEW x \in Poller \cup Fetcher, NEW r \in Work, Becomes(x, r)
  PROVE  /\ w' \in [Poller \cup Fetcher -> Work]
         /\ w'[x] = r
         /\ \A y \in Poller \cup Fetcher : y # x => w'[y] = w[y]
  BY DEF Types, Becomes

\* What the steps assign to a worker is well typed.
LEMMA WorkRecords ==
  ASSUME Types, NEW x \in Poller \cup Fetcher
  PROVE  /\ w[x] \in Work /\ Idle \in Work
         /\ \A p \in PC : [w[x] EXCEPT !.pc = p] \in Work
         /\ \A p \in PC : [Idle EXCEPT !.pc = p] \in Work
         /\ \A p \in PC : [Idle EXCEPT !.pc = p, !.seen = row] \in Work
         /\ [Idle EXCEPT !.pc = "sweep", !.seen = row,
               !.new = [status |-> "FAILURE", full |-> TRUE]] \in Work
         /\ \A d \in Int, n \in {"idle", "swept", "save"} :
              [w[x] EXCEPT !.delta = d, !.next = n, !.pc = "fund"] \in Work
         /\ \A st \in Status, f \in BOOLEAN :
              [w[x] EXCEPT !.pc = "update", !.new = [status |-> st, full |-> f]] \in Work
<1>1. w[x] \in Work
  BY DEF Types
<1>2. Idle \in Work
  BY DEF Idle, Work, PC, Row, Status
<1>3. row \in Row /\ [status |-> "FAILURE", full |-> TRUE] \in Row
  BY DEF Types, Row, Status
<1>4. \A st \in Status, f \in BOOLEAN : [status |-> st, full |-> f] \in Row
  BY DEF Row
<1> QED
  BY <1>1, <1>2, <1>3, <1>4 DEF Work, PC

\* A failed statement is counted.
LEMMA FaultsCounted ==
  ASSUME Types, NEW o \in Outcome, Counts(o)
  PROVE  /\ faults' \in 0 .. MaxFaults
         /\ o = "ok" => faults' = faults
         /\ o # "ok" => faults' > 0
  BY TaskAssumption DEF Types, Outcome, Counts

\* A conditional update keeps the row a row.
LEMMA UpdateTyped ==
  ASSUME Types, NEW x \in Poller \cup Fetcher, NEW o \in Outcome, UpdateWithStatus(x, o)
  PROVE  /\ row' \in Row /\ faults' \in 0 .. MaxFaults
         /\ paid' \in [fund : Int, token : Int]
<1>1. w[x].new \in Row /\ row \in Row
  BY WorkRecords DEF Types, Work
<1>2. faults' \in 0 .. MaxFaults
  BY FaultsCounted DEF UpdateWithStatus
<1> QED
  BY <1>1, <1>2 DEF UpdateWithStatus, Types

\* The steps of a pass keep the types.
LEMMA PollTyped ==
  ASSUME Types, NEW p \in Poller, Poll(p)
  PROVE  Types'
<1>0. p \in Poller \cup Fetcher /\ w[p] \in Work /\ w[p].new \in Row /\ w[p].seen \in Row
  BY WorkRecords DEF Types, Work
<1>q. Quota \in Nat /\ Actuals \subseteq Nat
  BY TaskAssumption
<1>1. ASSUME NoStatement PROVE row' \in Row /\ faults' \in 0 .. MaxFaults
                              /\ paid' \in [fund : Int, token : Int]
  BY <1>1 DEF NoStatement, Types
<1>2. ASSUME row' \in Row, faults' \in 0 .. MaxFaults, paid' \in [fund : Int, token : Int],
             \E r \in Work : Becomes(p, r)
      PROVE  Types'
  BY <1>0, <1>2, WorkerChanges DEF Types, Poll
<1>3. Stops(p) => \E r \in Work : Becomes(p, r)
  BY <1>0, WorkRecords DEF Stops
<1>4. \A c \in PC : Goto(p, c) => \E r \in Work : Becomes(p, r)
  BY <1>0, WorkRecords DEF Goto
<1>5. \A d \in Int, n \in {"idle", "swept", "save"} :
        Bill(p, d, n) => \E r \in Work : Becomes(p, r)
  BY <1>0, WorkRecords DEF Bill
<1>6. \A c \in PC : Continue(p, c) => \E r \in Work : Becomes(p, r)
  BY <1>3, <1>4 DEF Continue
<1>7. -Quota \in Int
  BY <1>q
<1>a. CASE SweepLoad(p)
  <2>1. \E r \in Work : Becomes(p, r)
    BY <1>a, <1>0, WorkRecords DEF SweepLoad, PC
  <2> QED
    BY <1>a, <1>1, <1>2, <2>1 DEF SweepLoad
<1>b. CASE SweepUpdate(p)
  BY <1>b, <1>0, <1>2, <1>4, <1>5, <1>7, UpdateTyped DEF SweepUpdate, PC
<1>c. CASE Load(p)
  <2>1. \E r \in Work : Becomes(p, r)
    BY <1>c, <1>0, WorkRecords DEF Load, PC
  <2> QED
    BY <1>c, <1>1, <1>2, <2>1 DEF Load
<1>d. CASE Cancelled(p) \/ FetchFails(p) \/ SunoUnchanged(p)
  BY <1>d, <1>1, <1>2, <1>3 DEF Cancelled, FetchFails, SunoUnchanged
<1>e. CASE ChannelMissing(p)
  <2>1. PICK o \in Outcome :
          /\ row' = IF o = "ok" THEN [status |-> "FAILURE", full |-> TRUE] ELSE row
          /\ Counts(o) /\ UNCHANGED paid
    BY <1>e DEF ChannelMissing
  <2>2. row' \in Row
    BY <2>1 DEF Types, Row, Status
  <2>3. faults' \in 0 .. MaxFaults
    BY <2>1, FaultsCounted
  <2> QED
    BY <1>e, <2>1, <2>2, <2>3, <1>2, <1>3 DEF ChannelMissing, Types
<1>f. CASE FetchSuno(p)
  <2>1. \E r \in Work : Becomes(p, r)
    BY <1>f, <1>0 DEF FetchSuno, Work, PC, Row, Types
  <2> QED
    BY <1>f, <1>1, <1>2, <2>1 DEF FetchSuno
<1>g. CASE SunoApply(p)
  <2>1. \E r \in Work : Becomes(p, r)
    BY <1>g, <1>0, <1>7 DEF SunoApply, Work, PC, Row
  <2> QED
    BY <1>g, <1>1, <1>2, <2>1 DEF SunoApply
<1>h. CASE SunoSave(p)
  <2>1. row' \in Row /\ faults' \in 0 .. MaxFaults
    BY <1>h, <1>0, FaultsCounted DEF SunoSave, Types
  <2> QED
    BY <1>h, <2>1, <1>2, <1>3 DEF SunoSave, Types
<1>i. CASE FetchVideo(p)
  <2>1. up \in Status /\ "FAILURE" \in Status
    BY DEF Types, Status
  <2>2. \E r \in Work : Becomes(p, r)
    BY <1>i, <1>0, <2>1, WorkRecords DEF FetchVideo
  <2> QED
    BY <1>i, <1>1, <1>2, <2>2 DEF FetchVideo
<1>j. CASE VideoUpdate(p)
  <2>1. settleTaskBillingOnComplete(p) => \E r \in Work : Becomes(p, r)
    BY <1>q, <1>3, <1>5 DEF settleTaskBillingOnComplete
  <2> QED
    BY <1>j, <1>0, <1>2, <1>3, <1>5, <1>7, <2>1, UpdateTyped DEF VideoUpdate
<1>k. CASE AdjustFunding(p)
  <2>1. PICK o \in Outcome :
          /\ paid' = IF o = "ok" THEN [paid EXCEPT !.fund = Adjusted(@, w[p].delta)] ELSE paid
          /\ Continue(p, IF o = "ok" THEN "token" ELSE w[p].next)
          /\ Counts(o) /\ UNCHANGED row
    BY <1>k DEF AdjustFunding
  <2>2. paid' \in [fund : Int, token : Int]
    BY <2>1, <1>0, <1>q DEF Types, Adjusted, Work
  <2>3. faults' \in 0 .. MaxFaults
    BY <2>1, FaultsCounted
  <2>4. w[p].next \in PC
    BY <1>0 DEF Work, PC
  <2> QED
    BY <2>1, <2>2, <2>3, <2>4, <1>2, <1>6 DEF Types, PC
<1>l. CASE AdjustToken(p)
  <2>1. PICK o \in Outcome :
          /\ paid' = IF o = "ok" THEN [paid EXCEPT !.token = Adjusted(@, w[p].delta)] ELSE paid
          /\ Counts(o) /\ UNCHANGED row
    BY <1>l DEF AdjustToken
  <2>2. paid' \in [fund : Int, token : Int]
    BY <2>1, <1>0, <1>q DEF Types, Adjusted, Work
  <2>3. faults' \in 0 .. MaxFaults
    BY <2>1, FaultsCounted
  <2>4. w[p].next \in PC /\ Continue(p, w[p].next)
    BY <1>l, <1>0 DEF AdjustToken, Work, PC
  <2> QED
    BY <2>1, <2>2, <2>3, <2>4, <1>2, <1>6 DEF Types
<1> QED
  BY <1>a, <1>b, <1>c, <1>d, <1>e, <1>f, <1>g, <1>h, <1>i, <1>j, <1>k, <1>l DEF Poll

\* A query keeps the types.
LEMMA QueryTyped ==
  ASSUME Types, NEW f \in Fetcher, Query(f)
  PROVE  Types'
<1>0. f \in Poller \cup Fetcher /\ up \in Status
  BY DEF Types
<1>1. \E r \in Work : Becomes(f, r)
  <2>1. Stops(f) => \E r \in Work : Becomes(f, r)
    BY <1>0, WorkRecords DEF Stops
  <2>2. CASE FetchLoad(f)
    BY <2>2, <1>0, WorkRecords DEF FetchLoad, PC
  <2>3. CASE FetchAnswer(f)
    <3>1. Final(up) \in BOOLEAN
      BY DEF Final
    <3> QED
      BY <2>1, <2>3, <3>1, <1>0, WorkRecords DEF FetchAnswer
  <2> QED
    BY <2>1, <2>2, <2>3 DEF Query, FetchUpdate
<1>2. row' \in Row /\ faults' \in 0 .. MaxFaults /\ paid' \in [fund : Int, token : Int]
  <2>1. CASE NoStatement
    BY <2>1 DEF NoStatement, Types
  <2>2. CASE FetchUpdate(f)
    BY <2>2, <1>0, UpdateTyped DEF FetchUpdate
  <2> QED
    BY <2>1, <2>2 DEF Query, FetchLoad, FetchAnswer
<1> QED
  BY <1>0, <1>1, <1>2, WorkerChanges DEF Types, Query

\* What happens around the task keeps the types.
LEMMA WorldTyped ==
  ASSUME Types, World
  PROVE  Types'
<1>1. CASE Upstream
  <2>1. up' \in Status
    <3>1. CASE up = "QUEUED"
      BY <1>1, <3>1 DEF Upstream, Status
    <3>2. CASE up = "IN_PROGRESS"
      BY <1>1, <3>2 DEF Upstream, Status
    <3> QED
      BY <1>1, <3>1, <3>2 DEF Upstream
  <2> QED
    BY <1>1, <2>1 DEF World, Upstream, Types
<1>2. CASE TimePasses
  BY <1>2 DEF World, TimePasses, Types
<1>3. CASE \E p \in Poller : Dies(p)
  <2>1. PICK p \in Poller : Dies(p)
    BY <1>3
  <2>2. w' \in [Poller \cup Fetcher -> Work]
    BY <2>1, WorkRecords, WorkerChanges DEF Dies, Stops
  <2>3. faults' \in 0 .. MaxFaults
    BY <2>1, TaskAssumption DEF Dies, Types
  <2> QED
    BY <2>1, <2>2, <2>3 DEF World, Dies, Types
<1> QED
  BY <1>1, <1>2, <1>3 DEF World

\* Every step keeps the types.
LEMMA NextTyped ==
  ASSUME Types, [Next]_vars
  PROVE  Types'
<1>1. CASE UNCHANGED vars
  BY <1>1 DEF vars, Types
<1> QED
  BY <1>1, PollTyped, QueryTyped, WorldTyped DEF Next

-----------------------------------------------------------------------------
(* The bill of a guarded task *)

\* A record that keeps SeenOpen and Quiet.
Calm(r) ==
    /\ r.pc \notin {"answered", "save"}
    /\ r.pc \in {"sweep", "loaded", "update"} => ~Final(r.seen.status)
    /\ r.pc = "sweep" => r.new.status = "FAILURE"

Bills(r) == r.pc \in {"fund", "token"}

\* A worker that does not bill moves on and leaves row and bill alone.
LEMMA MoveKeepsBill ==
  ASSUME Types, GuardedInv, NEW p \in Poller, NEW r \in Work, Becomes(p, r),
         ~Billing(p), ~Bills(r), Calm(r), UNCHANGED <<row, paid, task>>,
         faults' \in Nat, faults' = faults \/ faults' > 0
  PROVE  GuardedInv'
<1>1. /\ w'[p] = r
      /\ \A y \in Poller \cup Fetcher : y # p => w'[y] = w[y]
  BY WorkerChanges
<1>2. \A f \in Fetcher : f # p
  BY TaskAssumption
<1>3. \A q \in Poller : Billing(q)' => Billing(q) /\ w'[q] = w[q]
  BY <1>1 DEF Billing, Bills
<1>4. \A q \in Poller : Billing(q) => Billing(q)'
  BY <1>1 DEF Billing
<1>5. Quiet' /\ SeenOpen'
  BY <1>1, <1>2 DEF GuardedInv, Quiet, SeenOpen, Calm
<1>6. OneBiller' /\ Unbilled' /\ BillFits'
  BY <1>3 DEF GuardedInv, OneBiller, Unbilled, BillFits
<1>7. Billed'
  BY <1>4 DEF GuardedInv, Billed, RightBill
<1> QED
  BY <1>5, <1>6, <1>7 DEF GuardedInv

\* A row that had not ended is written, and the writer has nothing to bill.
LEMMA WriteKeepsBill ==
  ASSUME Types, GuardedInv, NEW p \in Poller, NEW r \in Work, Becomes(p, r),
         ~Final(row.status), row' \in Row, ~Bills(r), Calm(r), UNCHANGED <<paid, task>>,
         row'.status = "FAILURE" => task.legacy
  PROVE  GuardedInv'
<1>1. /\ w'[p] = r
      /\ \A y \in Poller \cup Fetcher : y # p => w'[y] = w[y]
  BY WorkerChanges
<1>2. \A f \in Fetcher : f # p
  BY TaskAssumption
<1>3. \A q \in Poller : ~Billing(q)'
  BY <1>1 DEF Billing, Bills, GuardedInv, Unbilled
<1>4. paid.fund = Quota /\ paid.token = Quota /\ Quota \in Nat
  BY TaskAssumption DEF GuardedInv, Unbilled
<1>5. Quiet' /\ SeenOpen'
  BY <1>1, <1>2 DEF GuardedInv, Quiet, SeenOpen, Calm
<1>6. OneBiller' /\ Unbilled' /\ BillFits'
  BY <1>3, <1>4 DEF OneBiller, Unbilled, BillFits
<1>7. Billed'
  BY <1>4 DEF Billed, RightBill
<1> QED
  BY <1>5, <1>6, <1>7 DEF GuardedInv

\* The row is ended, and its writer is to bill that end.
LEMMA EndStartsBill ==
  ASSUME Types, GuardedInv, NEW p \in Poller, NEW r \in Work, Becomes(p, r),
         ~Final(row.status), Final(row'.status), UNCHANGED <<paid, task>>,
         r.pc = "fund", r.next # "save",
         row'.status = "FAILURE" => r.delta = -Quota,
         row'.status = "SUCCESS" => r.delta + Quota \in Actuals \ {0}
  PROVE  GuardedInv'
<1>1. /\ w'[p] = r
      /\ \A y \in Poller \cup Fetcher : y # p => w'[y] = w[y]
  BY WorkerChanges
<1>2. \A f \in Fetcher : f # p
  BY TaskAssumption
<1>3. Billing(p)' /\ \A q \in Poller : Billing(q)' => q = p
  BY <1>1 DEF Billing, GuardedInv, Unbilled
<1>4. paid.fund = Quota /\ paid.token = Quota
  BY DEF GuardedInv, Unbilled
<1>5. Quiet' /\ SeenOpen'
  BY <1>1, <1>2 DEF GuardedInv, Quiet, SeenOpen
<1>6. OneBiller' /\ Unbilled' /\ Billed'
  BY <1>3 DEF OneBiller, Unbilled, Billed
<1>7. BillFits'
  BY <1>1, <1>3, <1>4 DEF BillFits
<1> QED
  BY <1>5, <1>6, <1>7 DEF GuardedInv

\* The bill of a biller, once added, is not negative and fits the end of the task.
LEMMA BillIsRight ==
  ASSUME Types, GuardedInv, NEW p \in Poller, Billing(p)
  PROVE  /\ Final(row.status) /\ w[p].delta \in Int /\ Quota \in Nat
         /\ Adjusted(Quota, w[p].delta) = Quota + w[p].delta
         /\ Quota + w[p].delta >= 0
         /\ row.status = "FAILURE" => Quota + w[p].delta = 0
         /\ row.status = "SUCCESS" => Quota + w[p].delta \in Actuals \ {0}
<1>1. Final(row.status)
  BY DEF GuardedInv, Unbilled
<1>2. w[p].delta \in Int /\ Quota \in Nat /\ Actuals \subseteq Nat
  BY WorkRecords, TaskAssumption DEF Work
<1>3. /\ row.status = "FAILURE" => w[p].delta = -Quota
      /\ row.status = "SUCCESS" => w[p].delta + Quota \in Actuals \ {0}
  BY DEF GuardedInv, BillFits
<1>4. w[p].delta + Quota = Quota + w[p].delta
  BY <1>2
<1> QED
  BY <1>1, <1>2, <1>3, <1>4 DEF Adjusted, Final

\* The biller is done, or gives up.
LEMMA BillerLeaves ==
  ASSUME Types, GuardedInv, NEW p \in Poller, NEW r \in Work, Becomes(p, r),
         Billing(p), ~Bills(r), Calm(r), UNCHANGED <<row, task>>,
         paid'.fund >= 0, paid'.token >= 0, faults' = 0 => RightBill'
  PROVE  GuardedInv'
<1>1. /\ w'[p] = r
      /\ \A y \in Poller \cup Fetcher : y # p => w'[y] = w[y]
  BY WorkerChanges
<1>2. \A f \in Fetcher : f # p
  BY TaskAssumption
<1>3. \A q \in Poller : ~Billing(q)'
  BY <1>1 DEF Billing, Bills, GuardedInv, OneBiller
<1>4. Quiet' /\ SeenOpen'
  BY <1>1, <1>2 DEF GuardedInv, Quiet, SeenOpen, Calm
<1>5. OneBiller' /\ BillFits'
  BY <1>3 DEF OneBiller, BillFits
<1>6. Unbilled'
  BY BillIsRight DEF Unbilled
<1>7. Billed'
  BY DEF Billed
<1> QED
  BY <1>4, <1>5, <1>6, <1>7 DEF GuardedInv

\* A biller goes on to what follows the bill.
LEMMA LeavesBill ==
  ASSUME Types, NEW p \in Poller, w[p].next \in {"idle", "swept"}, Continue(p, w[p].next)
  PROVE  \E r \in Work : Becomes(p, r) /\ r.pc \in {"idle", "swept"}
<1>1. CASE w[p].next = "idle"
  <2>1. Idle \in Work /\ Idle.pc = "idle" /\ Becomes(p, Idle)
    BY <1>1, WorkRecords DEF Continue, Stops, Idle
  <2> QED
    BY <2>1
<1>2. CASE w[p].next = "swept"
  <2> DEFINE r == [w[p] EXCEPT !.pc = "swept"]
  <2>1. r \in Work /\ Becomes(p, r)
    BY <1>2, WorkRecords DEF Continue, Goto, PC
  <2>2. r.pc = "swept"
    BY WorkRecords DEF Work
  <2> QED
    BY <2>1, <2>2
<1> QED
  BY <1>1, <1>2

\* The funding source is adjusted, or the biller gives up.
LEMMA AdjustFundingKeepsBill ==
  ASSUME Types, GuardedInv, Types', NEW p \in Poller, AdjustFunding(p), UNCHANGED task
  PROVE  GuardedInv'
<1>p. w[p].pc = "fund"
  BY DEF AdjustFunding, At
<1>0. p \in Poller \cup Fetcher /\ w[p] \in Work /\ Billing(p) /\ w[p].next \in {"idle", "swept"}
  <2>1. p \in Poller \cup Fetcher /\ w[p] \in Work
    BY WorkRecords
  <2>2. Billing(p)
    BY <1>p DEF Billing
  <2>3. w[p].next # "save"
    BY <2>2 DEF GuardedInv, BillFits
  <2> QED
    BY <2>1, <2>2, <2>3 DEF Work
<1>1. PICK o \in Outcome :
        /\ paid' = IF o = "ok" THEN [paid EXCEPT !.fund = Adjusted(@, w[p].delta)] ELSE paid
        /\ Continue(p, IF o = "ok" THEN "token" ELSE w[p].next)
        /\ Counts(o) /\ UNCHANGED row
  BY DEF AdjustFunding
<1>2. paid.fund = Quota /\ paid.token = Quota /\ Quota \in Nat
  BY <1>0, <1>p, TaskAssumption DEF GuardedInv, BillFits
<1>3. CASE o = "ok"
  <2> DEFINE r == [w[p] EXCEPT !.pc = "token"]
  <2>1. r \in Work /\ Becomes(p, r)
    BY <1>0, <1>1, <1>3, WorkRecords DEF Continue, Goto, PC
  <2>2. /\ w'[p] = r /\ r.delta = w[p].delta /\ r.next = w[p].next /\ r.pc = "token"
        /\ \A y \in Poller \cup Fetcher : y # p => w'[y] = w[y]
    <3> HIDE DEF r
    <3>1. w'[p] = r /\ \A y \in Poller \cup Fetcher : y # p => w'[y] = w[y]
      BY <1>0, <2>1, WorkerChanges
    <3> QED
      BY <1>0, <3>1 DEF r, Work
  <2> HIDE DEF r
  <2>3. \A f \in Fetcher : f # p
    BY TaskAssumption
  <2>4. Billing(p)' /\ \A q \in Poller : Billing(q)' => q = p
    BY <1>0, <2>2 DEF Billing, GuardedInv, OneBiller
  <2>5. paid'.fund = Quota + w[p].delta /\ paid'.token = Quota
    BY <1>0, <1>1, <1>2, <1>3, BillIsRight DEF Types
  <2>6. Quiet' /\ SeenOpen'
    BY <2>2, <2>3 DEF GuardedInv, Quiet, SeenOpen
  <2>7. Final(row.status)' /\ OneBiller' /\ Unbilled' /\ Billed'
    BY <1>0, <1>1, <2>4, BillIsRight DEF OneBiller, Unbilled, Billed
  <2>8. BillFits'
    BY <1>0, <1>1, <2>2, <2>4, <2>5 DEF BillFits, GuardedInv
  <2> QED
    BY <2>6, <2>7, <2>8 DEF GuardedInv
<1>4. CASE o # "ok"
  <2>1. PICK r \in Work : Becomes(p, r) /\ r.pc \in {"idle", "swept"}
    BY <1>0, <1>1, <1>4, LeavesBill
  <2>2. faults' > 0
    BY <1>1, <1>4, FaultsCounted
  <2> QED
    BY <1>0, <1>1, <1>2, <1>4, <2>1, <2>2, BillerLeaves DEF Calm, Bills
<1> QED
  BY <1>3, <1>4

\* The token is adjusted, or not, and the biller is done.
LEMMA AdjustTokenKeepsBill ==
  ASSUME Types, GuardedInv, Types', NEW p \in Poller, AdjustToken(p), UNCHANGED task
  PROVE  GuardedInv'
<1>p. w[p].pc = "token"
  BY DEF AdjustToken, At
<1>0. p \in Poller \cup Fetcher /\ w[p] \in Work /\ Billing(p) /\ w[p].next \in {"idle", "swept"}
  <2>1. p \in Poller \cup Fetcher /\ w[p] \in Work
    BY WorkRecords
  <2>2. Billing(p)
    BY <1>p DEF Billing
  <2>3. w[p].next # "save"
    BY <2>2 DEF GuardedInv, BillFits
  <2> QED
    BY <2>1, <2>2, <2>3 DEF Work
<1>1. PICK o \in Outcome :
        /\ paid' = IF o = "ok" THEN [paid EXCEPT !.token = Adjusted(@, w[p].delta)] ELSE paid
        /\ Counts(o) /\ UNCHANGED row
  BY DEF AdjustToken
<1>2. paid.fund = Quota + w[p].delta /\ paid.token = Quota /\ Quota \in Nat
  BY <1>0, <1>p, TaskAssumption DEF GuardedInv, BillFits
<1>3. PICK r \in Work : Becomes(p, r) /\ r.pc \in {"idle", "swept"}
  BY <1>0, LeavesBill DEF AdjustToken
<1>4. CASE o = "ok"
  <2>1. paid'.fund = Quota + w[p].delta /\ paid'.token = Quota + w[p].delta
    BY <1>0, <1>1, <1>2, <1>4, BillIsRight DEF Types
  <2>2. RightBill'
    BY <1>0, <1>1, <2>1, BillIsRight DEF RightBill
  <2> QED
    BY <1>0, <1>1, <1>3, <2>1, <2>2, BillIsRight, BillerLeaves DEF Calm, Bills
<1>5. CASE o # "ok"
  <2>1. faults' > 0
    BY <1>1, <1>5, FaultsCounted
  <2> QED
    BY <1>0, <1>1, <1>2, <1>3, <1>5, <2>1, BillIsRight, BillerLeaves DEF Calm, Bills
<1> QED
  BY <1>4, <1>5

\* A conditional update that wins ends or advances a row that had not ended; one
\* that does not leaves the row as it is.
LEMMA UpdateFindsOpen ==
  ASSUME Types, GuardedInv, NEW p \in Poller, NEW o \in Outcome, UpdateWithStatus(p, o),
         w[p].pc \in {"sweep", "update"}
  PROVE  /\ Won(p, o) => ~Final(row.status) /\ row' = w[p].new /\ w[p].new \in Row
         /\ ~Won(p, o) => row' = row
         /\ paid' = paid /\ faults' \in Nat /\ (faults' = faults \/ faults' > 0)
<1>1. ~Final(w[p].seen.status)
  BY DEF GuardedInv, SeenOpen
<1>2. w[p].new \in Row
  BY WorkRecords DEF Work
<1>3. faults' \in Nat /\ (faults' = faults \/ faults' > 0)
  BY FaultsCounted, TaskAssumption DEF UpdateWithStatus
<1> QED
  BY <1>1, <1>2, <1>3 DEF UpdateWithStatus, Won, Wins

\* A pass keeps the bill of a guarded task.
LEMMA PollKeepsBill ==
  ASSUME Types, Types', GuardedInv, Guarded, NEW p \in Poller, Poll(p)
  PROVE  GuardedInv'
<1>0. p \in Poller \cup Fetcher /\ w[p] \in Work /\ UNCHANGED task
  BY WorkRecords DEF Poll
<1>q. Quota \in Nat /\ Actuals \subseteq Nat /\ -Quota \in Int
  BY TaskAssumption
<1>n. faults \in Nat
  BY TaskAssumption DEF Types
<1>i. Idle \in Work /\ ~Bills(Idle) /\ Calm(Idle)
  BY WorkRecords DEF Idle, Bills, Calm
<1>g. Goto(p, "swept") => \E r \in Work : Becomes(p, r) /\ ~Bills(r) /\ Calm(r)
  <2> DEFINE r == [w[p] EXCEPT !.pc = "swept"]
  <2>1. r \in Work
    BY <1>0, WorkRecords DEF PC
  <2>2. r.pc = "swept"
    BY <1>0 DEF Work
  <2> HIDE DEF r
  <2>3. ~Bills(r) /\ Calm(r)
    BY <2>2 DEF Bills, Calm
  <2>4. Goto(p, "swept") => Becomes(p, r)
    BY DEF Goto, r
  <2> QED
    BY <2>1, <2>3, <2>4
<1>b. \A d \in Int, n \in {"idle", "swept"} :
        LET r == [w[p] EXCEPT !.delta = d, !.next = n, !.pc = "fund"]
        IN  r \in Work /\ r.pc = "fund" /\ r.next = n /\ r.delta = d
  BY <1>0, WorkRecords DEF Work
<1>1. CASE SweepLoad(p)
  <2>1. ~Final(row.status) /\ ~Billing(p) /\ UNCHANGED <<row, paid, faults>>
    BY <1>1 DEF SweepLoad, Unfinished, At, Billing, NoStatement
  <2>2. PICK r \in Work : Becomes(p, r) /\ ~Bills(r) /\ Calm(r)
    <3> DEFINE a == [Idle EXCEPT !.pc = "sweep", !.seen = row,
                       !.new = [status |-> "FAILURE", full |-> TRUE]]
               c == [Idle EXCEPT !.pc = "swept"]
    <3>1. a \in Work /\ c \in Work
      BY <1>0, WorkRecords DEF PC
    <3>2. ~Bills(a) /\ Calm(a) /\ ~Bills(c) /\ Calm(c)
      BY <2>1 DEF Bills, Calm, Idle
    <3>3. Becomes(p, a) \/ Becomes(p, c)
      BY <1>1 DEF SweepLoad
    <3> QED
      BY <3>1, <3>2, <3>3
  <2> QED
    BY <1>0, <1>n, <2>1, <2>2, MoveKeepsBill
<1>2. CASE SweepUpdate(p)
  <2>1. PICK o \in Outcome :
          /\ UpdateWithStatus(p, o)
          /\ IF Won(p, o) /\ ~task.legacy THEN Bill(p, -Quota, "swept") ELSE Goto(p, "swept")
    BY <1>2 DEF SweepUpdate
  <2>2. w[p].pc = "sweep" /\ ~Billing(p) /\ w[p].new.status = "FAILURE"
    BY <1>2 DEF SweepUpdate, At, Billing, GuardedInv, SeenOpen
  <2>3. CASE Won(p, o) /\ ~task.legacy
    <3>1. ~Final(row.status) /\ row'.status = "FAILURE" /\ Final(row'.status) /\ paid' = paid
      BY <2>1, <2>2, <2>3, UpdateFindsOpen DEF Final
    <3>2. PICK r \in Work : Becomes(p, r) /\ r.pc = "fund" /\ r.next = "swept" /\ r.delta = -Quota
      BY <1>b, <1>q, <2>1, <2>3 DEF Bill
    <3> QED
      BY <1>0, <3>1, <3>2, EndStartsBill
  <2>4. CASE Won(p, o) /\ task.legacy
    <3>1. ~Final(row.status) /\ row' \in Row /\ paid' = paid
      BY <2>1, <2>2, <2>4, UpdateFindsOpen
    <3>2. PICK r \in Work : Becomes(p, r) /\ ~Bills(r) /\ Calm(r)
      BY <1>g, <2>1, <2>4
    <3> QED
      BY <1>0, <2>4, <3>1, <3>2, WriteKeepsBill
  <2>5. CASE ~Won(p, o)
    <3>1. row' = row /\ paid' = paid /\ faults' \in Nat /\ (faults' = faults \/ faults' > 0)
      BY <2>1, <2>2, <2>5, UpdateFindsOpen
    <3>2. PICK r \in Work : Becomes(p, r) /\ ~Bills(r) /\ Calm(r)
      BY <1>g, <2>1, <2>5
    <3> QED
      BY <1>0, <2>2, <3>1, <3>2, MoveKeepsBill
  <2> QED
    BY <2>3, <2>4, <2>5
<1>3. CASE Load(p)
  <2>1. ~Billing(p) /\ UNCHANGED <<row, paid, faults>>
    BY <1>3 DEF Load, At, Billing, NoStatement
  <2>2. PICK r \in Work : Becomes(p, r) /\ ~Bills(r) /\ Calm(r)
    <3> DEFINE a == [Idle EXCEPT !.pc = "loaded", !.seen = row]
    <3>1. a \in Work
      BY <1>0, WorkRecords DEF PC
    <3>2. ~Final(row.status) => ~Bills(a) /\ Calm(a)
      BY DEF Bills, Calm, Idle
    <3>3. (Unfinished /\ Becomes(p, a)) \/ Becomes(p, Idle)
      BY <1>3 DEF Load
    <3> QED
      BY <1>i, <3>1, <3>2, <3>3 DEF Unfinished
  <2> QED
    BY <1>0, <1>n, <2>1, <2>2, MoveKeepsBill
<1>4. CASE Cancelled(p) \/ FetchFails(p)
  <2>1. ~Billing(p) /\ UNCHANGED <<row, paid, faults>> /\ Becomes(p, Idle)
    BY <1>4 DEF Cancelled, FetchFails, At, Billing, NoStatement, Stops
  <2> QED
    BY <1>0, <1>i, <1>n, <2>1, MoveKeepsBill
<1>5. ~ChannelMissing(p) /\ ~FetchSuno(p)
  BY DEF ChannelMissing, FetchSuno, Guarded
<1>6. ~SunoUnchanged(p) /\ ~SunoApply(p) /\ ~SunoSave(p)
  BY DEF SunoUnchanged, SunoApply, SunoSave, At, GuardedInv, Quiet
<1>7. CASE FetchVideo(p)
  <2>1. ~Billing(p) /\ UNCHANGED <<row, paid, faults>>
    BY <1>7 DEF FetchVideo, At, Billing, NoStatement
  <2>2. ~Final(w[p].seen.status)
    BY <1>7 DEF FetchVideo, At, GuardedInv, SeenOpen
  <2>3. PICK st \in Status, f \in BOOLEAN :
          Becomes(p, [w[p] EXCEPT !.pc = "update", !.new = [status |-> st, full |-> f]])
    BY <1>7 DEF FetchVideo, Types, Status
  <2> DEFINE r == [w[p] EXCEPT !.pc = "update", !.new = [status |-> st, full |-> f]]
  <2>4. r \in Work
    BY <1>0, WorkRecords
  <2>5. ~Bills(r) /\ Calm(r)
    BY <1>0, <2>2 DEF Bills, Calm, Work
  <2> HIDE DEF r
  <2>6. Becomes(p, r)
    BY <2>3 DEF r
  <2> QED
    BY <1>0, <1>n, <2>1, <2>4, <2>5, <2>6, MoveKeepsBill
<1>8. CASE VideoUpdate(p)
  <2>0. w[p].pc = "update" /\ ~Billing(p)
    BY <1>8 DEF VideoUpdate, At, Billing
  <2>1. PICK o \in Outcome :
          /\ UpdateWithStatus(p, o)
          /\ \/ ~(Won(p, o) /\ Final(w[p].new.status)) /\ Stops(p)
             \/ Won(p, o) /\ w[p].new.status = "SUCCESS" /\ settleTaskBillingOnComplete(p)
             \/ Won(p, o) /\ w[p].new.status = "FAILURE" /\ Bill(p, -Quota, "idle")
    BY <1>8 DEF VideoUpdate
  <2>2. CASE ~Won(p, o)
    <3>1. row' = row /\ paid' = paid /\ faults' \in Nat /\ (faults' = faults \/ faults' > 0)
      BY <2>0, <2>1, <2>2, UpdateFindsOpen
    <3>2. Becomes(p, Idle)
      BY <2>1, <2>2 DEF Stops
    <3> QED
      BY <1>0, <1>i, <2>0, <3>1, <3>2, MoveKeepsBill
  <2>3. CASE Won(p, o) /\ Stops(p) /\ w[p].new.status # "FAILURE"
    <3>1. ~Final(row.status) /\ row' \in Row /\ paid' = paid /\ row'.status # "FAILURE"
      BY <2>0, <2>1, <2>3, UpdateFindsOpen
    <3> QED
      BY <1>0, <1>i, <2>3, <3>1, WriteKeepsBill DEF Stops
  <2>4. CASE Won(p, o) /\ w[p].new.status = "SUCCESS" /\ settleTaskBillingOnComplete(p) /\ ~Stops(p)
    <3>1. ~Final(row.status) /\ row'.status = "SUCCESS" /\ Final(row'.status) /\ paid' = paid
      BY <2>0, <2>1, <2>4, UpdateFindsOpen DEF Final
    <3>2. PICK a \in Actuals : a # 0 /\ Bill(p, a - Quota, "idle")
      BY <2>4 DEF settleTaskBillingOnComplete
    <3>3. a - Quota \in Int /\ (a - Quota) + Quota = a
      BY <1>q
    <3>4. PICK r \in Work : Becomes(p, r) /\ r.pc = "fund" /\ r.next = "idle" /\ r.delta = a - Quota
      BY <1>b, <3>2, <3>3 DEF Bill
    <3> QED
      BY <1>0, <3>1, <3>2, <3>3, <3>4, EndStartsBill
  <2>5. CASE Won(p, o) /\ w[p].new.status = "FAILURE" /\ Bill(p, -Quota, "idle")
    <3>1. ~Final(row.status) /\ row'.status = "FAILURE" /\ Final(row'.status) /\ paid' = paid
      BY <2>0, <2>1, <2>5, UpdateFindsOpen DEF Final
    <3>2. PICK r \in Work : Becomes(p, r) /\ r.pc = "fund" /\ r.next = "idle" /\ r.delta = -Quota
      BY <1>b, <1>q, <2>5 DEF Bill
    <3> QED
      BY <1>0, <3>1, <3>2, EndStartsBill
  <2> QED
    BY <2>1, <2>2, <2>3, <2>4, <2>5 DEF Final
<1>9. CASE AdjustFunding(p)
  BY <1>0, <1>9, AdjustFundingKeepsBill
<1>10. CASE AdjustToken(p)
  BY <1>0, <1>10, AdjustTokenKeepsBill
<1> QED
  BY <1>1, <1>2, <1>3, <1>4, <1>5, <1>6, <1>7, <1>8, <1>9, <1>10 DEF Poll

\* Nobody queries a guarded task.
LEMMA NoQuery ==
  ASSUME GuardedInv, Guarded, NEW f \in Fetcher
  PROVE  ~Query(f)
  BY DEF GuardedInv, Quiet, Guarded, Query, FetchLoad, FetchAnswer, FetchUpdate, At

\* A death leaves the bill as it is, and is counted.
LEMMA WorldKeepsBill ==
  ASSUME Types, Types', GuardedInv, World
  PROVE  GuardedInv'
<1>1. CASE Upstream \/ TimePasses
  BY <1>1 DEF World, Upstream, TimePasses, GuardedInv, Quiet, SeenOpen, OneBiller, Unbilled, BillFits,
              Billed, Billing, RightBill
<1>2. CASE \E p \in Poller : Dies(p)
  <2>1. PICK p \in Poller : Dies(p)
    BY <1>2
  <2>2. /\ Becomes(p, Idle) /\ UNCHANGED <<row, paid, task>>
        /\ faults' \in Nat /\ faults' > 0
    BY <2>1, TaskAssumption DEF World, Dies, Stops, Types
  <2>3. Idle \in Work /\ ~Bills(Idle) /\ Calm(Idle)
    BY WorkRecords DEF Idle, Bills, Calm
  <2>4. CASE ~Billing(p)
    BY <2>2, <2>3, <2>4, MoveKeepsBill
  <2>5. CASE Billing(p)
    <3>1. paid.fund >= 0 /\ paid.token >= 0
      BY <2>5, BillIsRight DEF GuardedInv, BillFits
    <3> QED
      BY <2>2, <2>3, <2>5, <3>1, BillerLeaves
  <2> QED
    BY <2>4, <2>5
<1> QED
  BY <1>1, <1>2 DEF World

\* Every step keeps the invariant.
LEMMA NextPollInv == PollInv /\ [Next]_vars => PollInv'
<1> SUFFICES ASSUME PollInv, [Next]_vars PROVE PollInv'
  OBVIOUS
<1>1. Types /\ Types'
  BY NextTyped DEF PollInv
<1>2. ASSUME Guarded' PROVE GuardedInv'
  <2>1. task' = task
    BY DEF Next, Poll, Query, World, vars
  <2>2. Guarded /\ GuardedInv
    BY <1>2, <2>1 DEF Guarded, PollInv
  <2>3. CASE UNCHANGED vars
    BY <2>2, <2>3 DEF vars, GuardedInv, Quiet, SeenOpen, OneBiller, Unbilled, BillFits, Billed, Billing,
                      RightBill
  <2> QED
    BY <1>1, <2>2, <2>3, PollKeepsBill, NoQuery, WorldKeepsBill DEF Next
<1> QED
  BY <1>1, <1>2 DEF PollInv

\* PollInv is an invariant.
THEOREM PollInvariant == Spec => []PollInv
  BY InitPollInv, NextPollInv, PTL DEF Spec

\* The row, the upstream's status, the clock and the workers keep their types, for
\* any number of pollers and queries and any set of tasks.
THEOREM TypeCorrect == Spec => []TypeOK
<1>1. PollInv => TypeOK
  BY DEF PollInv, Types, TypeOK, Work
<1> QED
  BY <1>1, PollInvariant, PTL

\* However many passes overlap, sweep, fail and die, the refunds of a task only
\* passes and sweeps write never exceed what it cost (RefundTaskQuota is called by
\* the one writer whose UpdateWithStatus won).
THEOREM RefundedOnce == Spec => []NeverOverRefunded
<1>1. PollInv => NeverOverRefunded
  <2> SUFFICES ASSUME PollInv, Guarded PROVE paid.fund >= 0 /\ paid.token >= 0
    BY DEF NeverOverRefunded
  <2>1. Types /\ GuardedInv /\ Quota \in Nat
    BY TaskAssumption DEF PollInv
  <2>2. CASE \E p \in Poller : Billing(p)
    BY <2>1, <2>2, BillIsRight DEF GuardedInv, BillFits
  <2>3. CASE ~(\E p \in Poller : Billing(p)) /\ Final(row.status)
    BY <2>1, <2>3 DEF GuardedInv, Billed
  <2>4. CASE ~Final(row.status)
    BY <2>1, <2>4 DEF GuardedInv, Unbilled
  <2> QED
    BY <2>2, <2>3, <2>4
<1> QED
  BY <1>1, PollInvariant, PTL

\* Once such a task has ended, nobody is at work on it and no statement failed, it
\* has cost nothing if it failed and its price if it succeeded.
THEOREM BilledAsItEnded == Spec => []BilledAsEnded
<1>1. PollInv => BilledAsEnded
  <2> SUFFICES ASSUME PollInv, Guarded, faults = 0, Final(row.status), AtRest PROVE RightBill
    BY DEF BilledAsEnded, RightBill
  <2>1. \A p \in Poller : ~Billing(p)
    BY DEF AtRest, At, Billing
  <2> QED
    BY <2>1 DEF PollInv, GuardedInv, Billed
<1> QED
  BY <1>1, PollInvariant, PTL

\* Such a task that ended stays as it ended: each of its writers uses
\* UpdateWithStatus with a status it saw before the end.
THEOREM EndIsFinal == Spec => FinalIsFinal
<1>1. PollInv /\ [Next]_vars => [Guarded /\ Final(row.status) => row'.status = row.status]_vars
  <2> SUFFICES ASSUME PollInv, Next, Guarded, Final(row.status) PROVE row' = row
    OBVIOUS
  <2>1. Types /\ GuardedInv
    BY DEF PollInv
  <2>2. CASE World
    BY <2>2 DEF World, Upstream, TimePasses, Dies
  <2>3. CASE \E p \in Poller : Poll(p)
    <3>1. PICK p \in Poller : Poll(p)
      BY <2>3
    <3>2. ~ChannelMissing(p) /\ ~SunoSave(p)
      BY <2>1 DEF ChannelMissing, SunoSave, Guarded, At, GuardedInv, Quiet
    <3>3. ASSUME SweepUpdate(p) \/ VideoUpdate(p) PROVE row' = row
      <4>1. PICK o \in Outcome : UpdateWithStatus(p, o)
        BY <3>3 DEF SweepUpdate, VideoUpdate
      <4>2. w[p].pc \in {"sweep", "update"}
        BY <3>3 DEF SweepUpdate, VideoUpdate, At
      <4> QED
        BY <2>1, <4>1, <4>2, UpdateFindsOpen
    <3> QED
      BY <3>1, <3>2, <3>3 DEF Poll, SweepLoad, Load, Cancelled, FetchFails, FetchSuno,
                 SunoUnchanged, SunoApply, FetchVideo, AdjustFunding, AdjustToken, NoStatement
  <2> QED
    BY <2>1, <2>2, <2>3, NoQuery DEF Next
<1> QED
  BY <1>1, PollInvariant, PTL DEF Spec, FinalIsFinal

=============================================================================
