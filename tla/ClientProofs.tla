---------------------------- MODULE ClientProofs ----------------------------
(***************************************************************************)
(* Proofs about the two client-side parts.                                 *)
(*                                                                         *)
(* The chat playground, for every number of requests, leaves and messages: *)
(* a visit has one stream at most, an answer shows its own request's text,  *)
(* the generating flag agrees with the connections, no answer stays        *)
(* loading, and a stopped request shows nothing more.                      *)
(*                                                                         *)
(* The desktop shell, for every number of retries: the types and the       *)
(* number of windows, no server left behind, and the number of probes.     *)
(*                                                                         *)
(* The two share no variable and no action.                                *)
(***************************************************************************)
EXTENDS DesktopShell, Playground, FiniteSetTheorems, WellFoundedInduction, TLAPS

(***************************************************************************)
(* The chat playground.                                                    *)
(***************************************************************************)
\* Every answer of a conversation shows only the text of its own request.
Own(ms) == \A i \in DOMAIN ms : ms[i].from = "assistant" => ms[i].text \subseteq {0, ms[i].req}

\* The conversation ends with the answer of request r.
Current(ms, r) == ms # <<>> /\ ms[Len(ms)].from = "assistant" /\ ms[Len(ms)].req = r

\* Only the last message may be loading or streaming, and it is an answer then;
\* NonePending: no message is.
PendingIsLast(ms) ==
    \A i \in DOMAIN ms : isAssistantMessagePending(ms[i]) => i = Len(ms) /\ ms[i].from = "assistant"
NonePending(ms) == \A i \in DOMAIN ms : ~isAssistantMessagePending(ms[i])

\* Before loadMessages has run nothing is shown, generated, buffered or to be saved.
LoadingInv ==
    page = "loading" =>
        /\ messages = <<>> /\ shown = [msgs |-> <<>>, generating |-> FALSE]
        /\ sseSource = 0 /\ ~streaming /\ ~requesting /\ pending = {} /\ ~saveTimer
        /\ \A r \in Request : net[r] \in {"none", "over"}

\* The refs and flags of the hooks against the requests sent: sseSourceRef is the last
\* request or empty, chunks are buffered only while streaming, an aborted request is
\* not the one that isRequesting stands for, and the page shows that it generates.
ConnInv ==
    /\ \A r \in Request : r > sent => net[r] = "none"
    /\ \A r \in stopped : r <= sent
    /\ sseSource \in {0, sent} /\ requestId <= sent
    /\ streaming <=> sseSource # 0
    /\ pending # {} => streaming
    /\ \A r \in Request : net[r] = "aborted" /\ r = requestId => ~requesting
    /\ page = "open" /\ Generating => shown.generating

\* With config.stream the two flags agree, and the open stream is sseSourceRef's.
StreamInv ==
    stream => /\ requesting <=> streaming
              /\ \A r \in Request : net[r] \in {"none", "stream", "over"}
              /\ \A r \in Request : net[r] = "stream" => r = sseSource
              /\ sseSource # 0 => net[sseSource] \in {"stream", "over"}

\* Without config.stream no stream is ever opened.
FetchInv ==
    ~stream => /\ sseSource = 0
               /\ \A r \in Request : net[r] # "stream"

\* As long as no request was sent before the last was answered: the buffer holds chunks
\* of the last request only, which Stop has not ended while it generates, and the one
\* response awaited is its own.
CalmInv ==
    ~early => /\ pending \subseteq {sent}
              /\ Generating => sent # 0 /\ sent \notin stopped
              /\ \A r \in Request : net[r] = "fetch" => r = sent /\ requesting
              /\ ~stream /\ requesting => requestId = sent /\ abortCtl = sent /\ net[sent] = "fetch"

\* OwnReply for what is queued, rendered and stored; while a request generates, the
\* last message is its answer, so that updateLastAssistantMessage writes there.
OwnInv ==
    ~early => /\ Own(messages) /\ Own(shown.msgs) /\ Own(stored)
              /\ Generating => Current(messages, sent) /\ Current(shown.msgs, sent)

\* EndedWhenIdle, with what makes it inductive: only the last answer can be pending.
EndInv ==
    ~stale => /\ PendingIsLast(messages) /\ PendingIsLast(shown.msgs) /\ PendingIsLast(stored)
              /\ ~Generating => NonePending(messages)

\* What is queued but not rendered is an update of the last answer, and of one that
\* was not stopped.
ShownInv ==
    (~early /\ page = "open") =>
        /\ Len(messages) = Len(shown.msgs)
        /\ \A i \in DOMAIN messages :
              messages[i] # shown.msgs[i] =>
                  /\ i = Len(messages) /\ shown.msgs[i].from = "assistant"
                  /\ messages[i].from = "assistant" /\ messages[i].req = shown.msgs[i].req
                  /\ messages[i].req \notin stopped

\* The inductive invariant.
PInv == /\ TypeOK /\ LoadingInv /\ ConnInv /\ StreamInv /\ FetchInv
        /\ CalmInv /\ OwnInv /\ EndInv /\ ShownInv

-----------------------------------------------------------------------------
\* `out' is `ms' with at most its last answer changed, to which only ws wrote.
Touched(ms, out, ws) ==
    /\ out \in Seq(Message) /\ Len(out) = Len(ms)
    /\ \A i \in DOMAIN ms :
          out[i] # ms[i] =>
              /\ i = Len(ms) /\ ms[i].from = "assistant"
              /\ out[i].from = "assistant" /\ out[i].req = ms[i].req
              /\ out[i].text \subseteq ms[i].text \cup ws

\* The last answer, if there is one, is not pending.
LastEnded(ms) ==
    (ms # <<>> /\ ms[Len(ms)].from = "assistant") => ~isAssistantMessagePending(ms[Len(ms)])

\* What the response of a request that does not stream does to a conversation.
Answered(ms, r) == updateLastAssistantMessage(ms, LAMBDA m : applyChatCompletionResponse(m, r))

\* What the functions of lib/message return: messages, with the key of their argument.
LEMMA CreatedMessages ==
    ASSUME NEW r \in 0..MaxRequests
    PROVE  /\ createUserMessage(r) \in Message
           /\ createLoadingAssistantMessage(r) \in Message
BY PlaygroundAssumption DEF createUserMessage, createLoadingAssistantMessage, Message

LEMMA ChunkMessage ==
    ASSUME NEW m \in Message, NEW rs \in SUBSET (0..MaxRequests)
    PROVE  /\ applyStreamingChunk(m, rs) \in Message
           /\ applyStreamingChunk(m, rs).from = m.from
           /\ applyStreamingChunk(m, rs).req = m.req
           /\ applyStreamingChunk(m, rs).text \subseteq m.text \cup rs
<1>1. CASE m.status = "error" BY <1>1 DEF applyStreamingChunk
<1>2. CASE m.status # "error"
  <2> DEFINE a == [m EXCEPT !.text = @ \cup rs]
  <2>1. a \in Message /\ a.from = m.from /\ a.req = m.req /\ a.text = m.text \cup rs BY DEF Message
  <2>2. applyStreamingChunk(m, rs) = [a EXCEPT !.status = "streaming"]
    BY <1>2 DEF applyStreamingChunk, Message
  <2> HIDE DEF a
  <2>3. [a EXCEPT !.status = "streaming"] \in Message
    BY <2>1 DEF Message
  <2>4. /\ [a EXCEPT !.status = "streaming"].from = m.from
        /\ [a EXCEPT !.status = "streaming"].req = m.req
        /\ [a EXCEPT !.status = "streaming"].text = m.text \cup rs
    BY <2>1 DEF Message
  <2> QED BY <2>2, <2>3, <2>4
<1> QED BY <1>1, <1>2

LEMMA CompleteMessage ==
    ASSUME NEW m \in Message
    PROVE  /\ completeAssistantMessage(m) \in Message
           /\ completeAssistantMessage(m).from = m.from
           /\ completeAssistantMessage(m).req = m.req
           /\ completeAssistantMessage(m).text = m.text
           /\ completeAssistantMessage(m).status = "complete"
BY DEF completeAssistantMessage, Message

LEMMA ResponseMessage ==
    ASSUME NEW m \in Message, NEW r \in 0..MaxRequests
    PROVE  /\ applyChatCompletionResponse(m, r) \in Message
           /\ applyChatCompletionResponse(m, r).from = m.from
           /\ applyChatCompletionResponse(m, r).req = m.req
           /\ applyChatCompletionResponse(m, r).text = {r}
           /\ applyChatCompletionResponse(m, r).status = "complete"
<1> DEFINE a == [m EXCEPT !.text = {r}]
<1>1. a \in Message /\ a.from = m.from /\ a.req = m.req /\ a.text = {r} BY DEF Message
<1>2. applyChatCompletionResponse(m, r) = [a EXCEPT !.status = "complete"]
  BY DEF applyChatCompletionResponse, Message
<1> HIDE DEF a
<1> QED BY <1>1, <1>2 DEF Message

LEMMA ErrorMessage ==
    ASSUME NEW m \in Message, NEW r \in 0..MaxRequests
    PROVE  /\ errorMessage(m, r) \in Message
           /\ errorMessage(m, r).from = m.from
           /\ errorMessage(m, r).req = m.req
           /\ errorMessage(m, r).text = {r}
           /\ errorMessage(m, r).status = "error"
<1> DEFINE a == [m EXCEPT !.text = {r}]
<1>1. a \in Message /\ a.from = m.from /\ a.req = m.req /\ a.text = {r} BY DEF Message
<1>2. errorMessage(m, r) = [a EXCEPT !.status = "error"]
  BY DEF errorMessage, Message
<1> HIDE DEF a
<1> QED BY <1>1, <1>2 DEF Message

\* updateLastAssistantMessage in general, then its uses by the chat handler's callbacks.
LEMMA ReplaceLast ==
    ASSUME NEW ms \in Seq(Message), ms # <<>>, ms[Len(ms)].from = "assistant",
           NEW m \in Message, NEW ws, m.from = "assistant", m.req = ms[Len(ms)].req,
           m.text \subseteq ms[Len(ms)].text \cup ws,
           NEW out, out = [ms EXCEPT ![Len(ms)] = m]
    PROVE  Touched(ms, out, ws) /\ out[Len(out)] = m
<1>1. Len(ms) \in DOMAIN ms OBVIOUS
<1>2. out \in Seq(Message) /\ Len(out) = Len(ms) OBVIOUS
<1>3. \A i \in DOMAIN ms : i # Len(ms) => out[i] = ms[i] OBVIOUS
<1>4. out[Len(ms)] = m BY <1>1
<1> QED BY <1>1, <1>2, <1>3, <1>4 DEF Touched

LEMMA TouchedSelf ==
    ASSUME NEW ms \in Seq(Message), NEW ws
    PROVE  Touched(ms, ms, ws)
BY DEF Touched

LEMMA LastIsMessage ==
    ASSUME NEW ms \in Seq(Message), ms # <<>>
    PROVE  ms[Len(ms)] \in Message /\ Len(ms) \in DOMAIN ms
OBVIOUS

LEMMA TouchedTwice ==
    ASSUME NEW ms \in Seq(Message), NEW mid, NEW out, NEW ws, NEW vs,
           Touched(ms, mid, ws), Touched(mid, out, vs)
    PROVE  Touched(ms, out, ws \cup vs)
<1>1. mid \in Seq(Message) /\ Len(mid) = Len(ms) /\ out \in Seq(Message) /\ Len(out) = Len(ms)
  BY DEF Touched
<1>2. DOMAIN ms = DOMAIN mid BY <1>1
<1>3. ASSUME NEW i \in DOMAIN ms, out[i] # ms[i]
      PROVE  /\ i = Len(ms) /\ ms[i].from = "assistant"
             /\ out[i].from = "assistant" /\ out[i].req = ms[i].req
             /\ out[i].text \subseteq ms[i].text \cup (ws \cup vs)
  <2>1. CASE mid[i] = ms[i] BY <1>1, <1>2, <1>3, <2>1 DEF Touched
  <2>2. CASE out[i] = mid[i] BY <1>1, <1>2, <1>3, <2>2 DEF Touched
  <2>3. CASE mid[i] # ms[i] /\ out[i] # mid[i] BY <1>1, <1>2, <1>3, <2>3 DEF Touched
  <2> QED BY <2>1, <2>2, <2>3
<1> QED BY <1>1, <1>3 DEF Touched

LEMMA FlushedMessages ==
    ASSUME NEW ms \in Seq(Message), pending \subseteq Request
    PROVE  Touched(ms, Flushed(ms), pending)
<1>1. CASE pending = {} \/ ~(ms # <<>> /\ ms[Len(ms)].from = "assistant")
  <2>1. Flushed(ms) = ms BY <1>1 DEF Flushed, updateLastAssistantMessage
  <2> QED BY <2>1, TouchedSelf
<1>2. CASE pending # {} /\ ms # <<>> /\ ms[Len(ms)].from = "assistant"
  <2> DEFINE m == applyStreamingChunk(ms[Len(ms)], pending)
  <2>1. Flushed(ms) = [ms EXCEPT ![Len(ms)] = m]
    BY <1>2, LastIsMessage DEF Flushed, updateLastAssistantMessage
  <2>2. pending \in SUBSET (0..MaxRequests) BY DEF Request
  <2>3. /\ m \in Message /\ m.from = "assistant" /\ m.req = ms[Len(ms)].req
        /\ m.text \subseteq ms[Len(ms)].text \cup pending
    BY <1>2, <2>2, LastIsMessage, ChunkMessage
  <2> HIDE DEF m
  <2> QED BY <1>2, <2>1, <2>3, ReplaceLast
<1> QED BY <1>1, <1>2

LEMMA CompletedMessages ==
    ASSUME NEW ms \in Seq(Message), pending \subseteq Request
    PROVE  Touched(ms, Completed(ms), pending) /\ LastEnded(Completed(ms))
<1> DEFINE fl == Flushed(ms)
<1>1. fl \in Seq(Message) /\ Touched(ms, fl, pending) BY FlushedMessages DEF Touched
<1>2. Completed(ms) = IF fl # <<>> /\ fl[Len(fl)].from = "assistant"
                      THEN [fl EXCEPT ![Len(fl)] = IF isAssistantMessageFinal(fl[Len(fl)]) THEN fl[Len(fl)]
                                                   ELSE completeAssistantMessage(fl[Len(fl)])]
                      ELSE fl
  BY <1>1, LastIsMessage DEF Completed, updateLastAssistantMessage
<1> HIDE DEF fl
<1>3. CASE ~(fl # <<>> /\ fl[Len(fl)].from = "assistant")
  BY <1>1, <1>2, <1>3 DEF LastEnded
<1>4. CASE fl # <<>> /\ fl[Len(fl)].from = "assistant"
  <2> DEFINE m == IF isAssistantMessageFinal(fl[Len(fl)]) THEN fl[Len(fl)]
                  ELSE completeAssistantMessage(fl[Len(fl)])
  <2>1. /\ m \in Message /\ m.from = "assistant" /\ m.req = fl[Len(fl)].req
        /\ m.text \subseteq fl[Len(fl)].text \cup {}
        /\ ~isAssistantMessagePending(m)
    BY <1>1, <1>4, LastIsMessage, CompleteMessage DEF isAssistantMessageFinal, isAssistantMessagePending
  <2>2. Completed(ms) = [fl EXCEPT ![Len(fl)] = m] BY <1>2, <1>4
  <2> HIDE DEF m
  <2>3. Touched(fl, Completed(ms), {}) BY <1>1, <1>4, <2>1, <2>2, ReplaceLast
  <2>6. Completed(ms)[Len(Completed(ms))] = m BY <1>1, <1>4, <2>1, <2>2, ReplaceLast
  <2>4. Touched(ms, Completed(ms), pending \cup {}) BY <1>1, <2>3, TouchedTwice
  <2>5. pending \cup {} = pending OBVIOUS
  <2> QED BY <2>1, <2>4, <2>5, <2>6 DEF LastEnded
<1> QED BY <1>3, <1>4

LEMMA FailedMessages ==
    ASSUME NEW ms \in Seq(Message), pending \subseteq Request, NEW r \in Request
    PROVE  Touched(ms, Failed(ms, r), pending \cup {r}) /\ LastEnded(Failed(ms, r))
<1> DEFINE fl == Flushed(ms)
<1>1. fl \in Seq(Message) /\ Touched(ms, fl, pending) BY FlushedMessages DEF Touched
<1>2. Failed(ms, r) = IF fl # <<>> /\ fl[Len(fl)].from = "assistant"
                      THEN [fl EXCEPT ![Len(fl)] = errorMessage(fl[Len(fl)], r)]
                      ELSE fl
  BY <1>1, LastIsMessage DEF Failed, updateLastAssistantMessage
<1> HIDE DEF fl
<1>3. CASE ~(fl # <<>> /\ fl[Len(fl)].from = "assistant")
  <2>1. Failed(ms, r) = fl BY <1>2, <1>3
  <2> QED BY <1>1, <1>3, <2>1 DEF LastEnded, Touched
<1>4. CASE fl # <<>> /\ fl[Len(fl)].from = "assistant"
  <2> DEFINE m == errorMessage(fl[Len(fl)], r)
  <2>0. r \in 0..MaxRequests BY DEF Request
  <2>1. /\ m \in Message /\ m.from = "assistant" /\ m.req = fl[Len(fl)].req
        /\ m.text \subseteq fl[Len(fl)].text \cup {r}
        /\ ~isAssistantMessagePending(m)
    BY <1>1, <1>4, <2>0, LastIsMessage, ErrorMessage DEF isAssistantMessagePending
  <2>2. Failed(ms, r) = [fl EXCEPT ![Len(fl)] = m] BY <1>2, <1>4
  <2> HIDE DEF m
  <2>3. Touched(fl, Failed(ms, r), {r}) BY <1>1, <1>4, <2>1, <2>2, ReplaceLast
  <2>6. Failed(ms, r)[Len(Failed(ms, r))] = m BY <1>1, <1>4, <2>1, <2>2, ReplaceLast
  <2>4. Touched(ms, Failed(ms, r), pending \cup {r}) BY <1>1, <2>3, TouchedTwice
  <2> QED BY <2>1, <2>4, <2>6 DEF LastEnded
<1> QED BY <1>3, <1>4

LEMMA StoppedMessages ==
    ASSUME NEW ms \in Seq(Message), pending \subseteq Request
    PROVE  Touched(ms, Stopped(ms), pending) /\ LastEnded(Stopped(ms))
<1> DEFINE fl == Flushed(ms)
<1>1. fl \in Seq(Message) /\ Touched(ms, fl, pending) BY FlushedMessages DEF Touched
<1>2. Stopped(ms) = IF fl # <<>> /\ fl[Len(fl)].from = "assistant"
                    THEN [fl EXCEPT ![Len(fl)] = IF isAssistantMessagePending(fl[Len(fl)])
                                                 THEN completeAssistantMessage(fl[Len(fl)])
                                                 ELSE fl[Len(fl)]]
                    ELSE fl
  BY <1>1, LastIsMessage DEF Stopped, updateLastAssistantMessage
<1> HIDE DEF fl
<1>3. CASE ~(fl # <<>> /\ fl[Len(fl)].from = "assistant")
  BY <1>1, <1>2, <1>3 DEF LastEnded
<1>4. CASE fl # <<>> /\ fl[Len(fl)].from = "assistant"
  <2> DEFINE m == IF isAssistantMessagePending(fl[Len(fl)])
                  THEN completeAssistantMessage(fl[Len(fl)]) ELSE fl[Len(fl)]
  <2>1. /\ m \in Message /\ m.from = "assistant" /\ m.req = fl[Len(fl)].req
        /\ m.text \subseteq fl[Len(fl)].text \cup {}
        /\ ~isAssistantMessagePending(m)
    BY <1>1, <1>4, LastIsMessage, CompleteMessage DEF isAssistantMessagePending
  <2>2. Stopped(ms) = [fl EXCEPT ![Len(fl)] = m] BY <1>2, <1>4
  <2> HIDE DEF m
  <2>3. Touched(fl, Stopped(ms), {}) BY <1>1, <1>4, <2>1, <2>2, ReplaceLast
  <2>6. Stopped(ms)[Len(Stopped(ms))] = m BY <1>1, <1>4, <2>1, <2>2, ReplaceLast
  <2>4. Touched(ms, Stopped(ms), pending \cup {}) BY <1>1, <2>3, TouchedTwice
  <2>5. pending \cup {} = pending OBVIOUS
  <2> QED BY <2>1, <2>4, <2>5, <2>6 DEF LastEnded
<1> QED BY <1>3, <1>4

LEMMA AnsweredMessages ==
    ASSUME NEW ms \in Seq(Message), NEW r \in Request
    PROVE  Touched(ms, Answered(ms, r), {r}) /\ LastEnded(Answered(ms, r))
<1>1. CASE ~(ms # <<>> /\ ms[Len(ms)].from = "assistant")
  <2>1. Answered(ms, r) = ms BY <1>1 DEF Answered, updateLastAssistantMessage
  <2> QED BY <1>1, <2>1, TouchedSelf DEF LastEnded
<1>2. CASE ms # <<>> /\ ms[Len(ms)].from = "assistant"
  <2> DEFINE m == applyChatCompletionResponse(ms[Len(ms)], r)
  <2>0. r \in 0..MaxRequests BY DEF Request
  <2>1. /\ m \in Message /\ m.from = "assistant" /\ m.req = ms[Len(ms)].req
        /\ m.text \subseteq ms[Len(ms)].text \cup {r}
        /\ ~isAssistantMessagePending(m)
    BY <1>2, <2>0, LastIsMessage, ResponseMessage DEF isAssistantMessagePending
  <2>2. Answered(ms, r) = [ms EXCEPT ![Len(ms)] = m]
    BY <1>2, LastIsMessage DEF Answered, updateLastAssistantMessage
  <2> HIDE DEF m
  <2>3. Touched(ms, Answered(ms, r), {r}) BY <1>2, <2>1, <2>2, ReplaceLast
  <2>4. Answered(ms, r)[Len(Answered(ms, r))] = m BY <1>2, <2>1, <2>2, ReplaceLast
  <2> QED BY <2>1, <2>3, <2>4 DEF LastEnded
<1> QED BY <1>1, <1>2

-----------------------------------------------------------------------------
\* The filter of handleDeleteMessage: the position kept as the n-th exists for every n
\* up to the number kept, by induction as a smallest counterexample.
LEMMA SmallestOf ==
    ASSUME NEW T, T \subseteq Nat, T # {}
    PROVE  \E m \in T : \A k \in T : m <= k
<1>1. \E x \in T : \A y \in T : ~ (<<y, x>> \in OpToRel(<, Nat))
  BY NatLessThanWellFounded, WFMin, Zenon
<1>2. PICK x \in T : \A y \in T : ~ (<<y, x>> \in OpToRel(<, Nat)) BY <1>1
<1>3. \A y \in T : y < x => <<y, x>> \in OpToRel(<, Nat) BY DEF OpToRel
<1>4. \A y \in T : ~(y < x) BY <1>2, <1>3
<1>5. \A y \in T : x <= y
  <2> TAKE y \in T
  <2>1. x \in Nat /\ y \in Nat /\ ~(y < x) BY <1>2, <1>4
  <2> QED BY <2>1
<1> QED BY <1>2, <1>5

LEMMA KeptPositions ==
    ASSUME NEW L \in Nat, NEW K, K \subseteq 1..L, NEW n \in 1..Cardinality(K)
    PROVE  /\ IsFiniteSet(K) /\ Cardinality(K) \in Nat
           /\ \E j \in K : Cardinality(K \cap 1..j) = n
<1>1. IsFiniteSet(1..L) BY FS_Interval
<1>2. IsFiniteSet(K) /\ Cardinality(K) \in Nat BY <1>1, FS_Subset, FS_CardinalityType
<1>3. \A j \in 0..L : IsFiniteSet(K \cap 1..j) /\ Cardinality(K \cap 1..j) \in Nat
  <2> TAKE j \in 0..L
  <2> DEFINE Kj == K \cap 1..j
  <2>1. Kj \in SUBSET K OBVIOUS
  <2> HIDE DEF Kj
  <2>2. IsFiniteSet(Kj) /\ Cardinality(Kj) \in Nat BY <1>2, <2>1, FS_Subset, FS_CardinalityType
  <2> QED BY <2>2 DEF Kj
<1> DEFINE C(j) == Cardinality(K \cap 1..j)
<1> DEFINE T == {j \in 0..L : C(j) >= n}
<1>0. n \in Nat /\ n >= 1 /\ n <= Cardinality(K) BY <1>2
<1>4. L \in T
  <2>1. K \cap 1..L = K OBVIOUS
  <2>2. L \in 0..L /\ C(L) = Cardinality(K) BY <2>1
  <2>3. C(L) >= n BY <1>0, <1>2, <2>2
  <2> HIDE DEF C
  <2> QED BY <2>2, <2>3
<1>5. PICK m \in T : \A k \in T : m <= k
  <2>1. T \subseteq Nat
    <3> HIDE DEF C
    <3> QED OBVIOUS
  <2>2. T # {} BY <1>4
  <2> HIDE DEF T
  <2> QED BY <2>1, <2>2, SmallestOf
<1>6. C(0) = 0
  <2>1. K \cap 1..0 = {} OBVIOUS
  <2> QED BY <2>1, FS_EmptySet
<1>7. \A j \in 0..L : C(j) \in Nat BY <1>3
<1>8. \A j \in 0..L : j > 0 /\ j \notin K => C(j) = C(j - 1)
  <2> TAKE j \in 0..L
  <2> HAVE j > 0 /\ j \notin K
  <2>1. K \cap 1..j = K \cap 1..(j - 1) OBVIOUS
  <2> QED BY <2>1
<1>9. \A j \in 0..L : j > 0 /\ j \in K => C(j) = C(j - 1) + 1
  <2> TAKE j \in 0..L
  <2> HAVE j > 0 /\ j \in K
  <2>1. K \cap 1..j = (K \cap 1..(j - 1)) \cup {j} /\ j \notin K \cap 1..(j - 1) OBVIOUS
  <2>2. j - 1 \in 0..L OBVIOUS
  <2> QED BY <2>1, <2>2, <1>3, FS_AddElement
<1> HIDE DEF C
<1>10. m \in 0..L /\ C(m) >= n BY <1>5
<1>11. m # 0 BY <1>0, <1>6, <1>10
<1>12. m - 1 \in 0..L /\ ~(C(m - 1) >= n) BY <1>5, <1>10, <1>11
<1>13. m \in K /\ C(m) = n BY <1>0, <1>7, <1>8, <1>9, <1>10, <1>11, <1>12
<1> QED BY <1>2, <1>13 DEF C

\* So a deletion leaves messages of the conversation, and nothing else.
LEMMA WithoutMessages ==
    ASSUME NEW ms \in Seq(Message), NEW key
    PROVE  /\ Without(ms, key) \in Seq(Message)
           /\ \A n \in DOMAIN Without(ms, key) : \E j \in DOMAIN ms : Without(ms, key)[n] = ms[j]
<1> DEFINE K == Kept(ms, key)
           at(n) == CHOOSE j \in K : Cardinality(K \cap 1..j) = n
<1>1. Len(ms) \in Nat /\ K \subseteq 1..Len(ms) BY DEF Kept
<1>2. Cardinality(K) \in Nat
  <2>1. IsFiniteSet(1..Len(ms)) BY <1>1, FS_Interval
  <2> QED BY <1>1, <2>1, FS_Subset, FS_CardinalityType
<1>3. Without(ms, key) = [n \in 1..Cardinality(K) |-> ms[at(n)]] BY DEF Without
<1>4. \A n \in 1..Cardinality(K) : at(n) \in K
  <2> TAKE n \in 1..Cardinality(K)
  <2>1. \E j \in K : Cardinality(K \cap 1..j) = n
    <3> HIDE DEF K
    <3> QED BY <1>1, KeptPositions
  <2> QED BY <2>1
<1>5. K \subseteq DOMAIN ms BY DEF Kept
<1> HIDE DEF K, at
<1>6. \A n \in 1..Cardinality(K) : ms[at(n)] \in Message BY <1>4, <1>5
<1>7. Without(ms, key) \in [1..Cardinality(K) -> Message] BY <1>3, <1>6
<1>8. Without(ms, key) \in Seq(Message) BY <1>2, <1>7
<1>9. DOMAIN Without(ms, key) = 1..Cardinality(K) BY <1>7
<1> QED BY <1>3, <1>4, <1>5, <1>8, <1>9

-----------------------------------------------------------------------------
\* An update of the last answer keeps the predicates of the invariant.
LEMMA OwnTouched ==
    ASSUME NEW ms \in Seq(Message), NEW out, NEW ws, Touched(ms, out, ws), Own(ms),
           ws \subseteq {ms[Len(ms)].req}
    PROVE  Own(out)
<1>1. DOMAIN out = DOMAIN ms BY DEF Touched
<1> SUFFICES ASSUME NEW i \in DOMAIN ms, out[i].from = "assistant"
             PROVE  out[i].text \subseteq {0, out[i].req}
  BY <1>1 DEF Own
<1>2. CASE out[i] = ms[i] BY <1>2 DEF Own
<1>3. CASE out[i] # ms[i]
  <2>1. /\ i = Len(ms) /\ ms[i].from = "assistant" /\ out[i].req = ms[i].req
        /\ out[i].text \subseteq ms[i].text \cup ws
    BY <1>3 DEF Touched
  <2>2. ms[i].text \subseteq {0, ms[i].req} BY <2>1 DEF Own
  <2> QED BY <2>1, <2>2
<1> QED BY <1>2, <1>3

LEMMA CurrentTouched ==
    ASSUME NEW ms \in Seq(Message), NEW out, NEW ws, NEW r, Touched(ms, out, ws), Current(ms, r)
    PROVE  Current(out, r)
<1>1. out \in Seq(Message) /\ Len(out) = Len(ms) /\ Len(ms) \in DOMAIN ms BY DEF Touched, Current
<1>2. out # <<>> BY <1>1 DEF Current
<1>3. CASE out[Len(ms)] = ms[Len(ms)] BY <1>1, <1>2, <1>3 DEF Current
<1>4. CASE out[Len(ms)] # ms[Len(ms)] BY <1>1, <1>2, <1>4 DEF Touched, Current
<1> QED BY <1>3, <1>4

LEMMA PendingTouched ==
    ASSUME NEW ms \in Seq(Message), NEW out, NEW ws, Touched(ms, out, ws), PendingIsLast(ms)
    PROVE  PendingIsLast(out)
<1>1. DOMAIN out = DOMAIN ms /\ Len(out) = Len(ms) BY DEF Touched
<1> SUFFICES ASSUME NEW i \in DOMAIN ms, isAssistantMessagePending(out[i])
             PROVE  i = Len(ms) /\ out[i].from = "assistant"
  BY <1>1 DEF PendingIsLast
<1>2. CASE out[i] = ms[i] BY <1>2 DEF PendingIsLast
<1>3. CASE out[i] # ms[i] BY <1>3 DEF Touched
<1> QED BY <1>2, <1>3

LEMMA EndedNonePending ==
    ASSUME NEW ms \in Seq(Message), PendingIsLast(ms), LastEnded(ms)
    PROVE  NonePending(ms)
<1> SUFFICES ASSUME NEW i \in DOMAIN ms, isAssistantMessagePending(ms[i]) PROVE FALSE
  BY DEF NonePending
<1>1. i = Len(ms) /\ ms[i].from = "assistant" /\ ms # <<>> BY DEF PendingIsLast
<1> QED BY <1>1 DEF LastEnded

LEMMA NoneIsLast ==
    ASSUME NEW ms, NonePending(ms)
    PROVE  PendingIsLast(ms)
BY DEF NonePending, PendingIsLast

-----------------------------------------------------------------------------
\* What a request sends: messages of the page, perhaps one edited, perhaps a new one of
\* the user, and the answer that is loading.
SentFrom(ms, out, r) ==
    /\ out \in Seq(Message) /\ out # <<>>
    /\ out[Len(out)] = createLoadingAssistantMessage(r)
    /\ \A i \in DOMAIN out :
          i < Len(out) =>
              \/ out[i] = createUserMessage(r)
              \/ \E j \in DOMAIN ms :
                    /\ out[i].from = ms[j].from /\ out[i].req = ms[j].req
                    /\ out[i].text = ms[j].text \/ out[i].text = {0}

LEMMA SendBuild ==
    ASSUME NEW ms \in Seq(Message), NEW r \in 0..MaxRequests
    PROVE  LET out == ms \o <<createUserMessage(r), createLoadingAssistantMessage(r)>>
           IN  /\ SentFrom(ms, out, r)
               /\ NonePending(ms) => PendingIsLast(out)
<1> DEFINE u == createUserMessage(r)
           a == createLoadingAssistantMessage(r)
           out == ms \o <<u, a>>
<1>1. u \in Message /\ a \in Message BY CreatedMessages
<1>2. u.status = "none" /\ a.from = "assistant" BY DEF createUserMessage, createLoadingAssistantMessage
<1> HIDE DEF u, a
<1>3. out \in Seq(Message) /\ Len(out) = Len(ms) + 2 BY <1>1
<1>4. out[Len(ms) + 1] = u /\ out[Len(ms) + 2] = a BY <1>1
<1>5. \A i \in DOMAIN ms : out[i] = ms[i] BY <1>1
<1>6. \A i \in DOMAIN out : i \in DOMAIN ms \/ i = Len(ms) + 1 \/ i = Len(ms) + 2 BY <1>3
<1> HIDE DEF out
<1>7. SentFrom(ms, out, r)
  <2>1. out # <<>> /\ out[Len(out)] = a BY <1>3, <1>4
  <2>2. ASSUME NEW i \in DOMAIN out, i < Len(out)
        PROVE  out[i] = u \/ \E j \in DOMAIN ms : out[i] = ms[j]
    BY <1>3, <1>4, <1>5, <1>6, <2>2
  <2> QED BY <1>3, <2>1, <2>2 DEF SentFrom, u, a
<1>8. ASSUME NonePending(ms) PROVE PendingIsLast(out)
  <2> SUFFICES ASSUME NEW i \in DOMAIN out, isAssistantMessagePending(out[i])
               PROVE  i = Len(out) /\ out[i].from = "assistant"
    BY DEF PendingIsLast
  <2>1. i \notin DOMAIN ms BY <1>5, <1>8 DEF NonePending
  <2>2. i # Len(ms) + 1 BY <1>2, <1>4 DEF isAssistantMessagePending
  <2> QED BY <1>2, <1>3, <1>4, <1>6, <2>1, <2>2
<1> QED BY <1>7, <1>8 DEF out, u, a

LEMMA PrefixBuild ==
    ASSUME NEW ms \in Seq(Message), NEW k \in 0..Len(ms), NEW r \in 0..MaxRequests, NEW out,
           out = Append(SubSeq(ms, 1, k), createLoadingAssistantMessage(r))
    PROVE  /\ SentFrom(ms, out, r)
           /\ (\A j \in 1..k : ~isAssistantMessagePending(ms[j])) => PendingIsLast(out)
<1> DEFINE a == createLoadingAssistantMessage(r)
<1>1. a \in Message BY CreatedMessages
<1>2. a.from = "assistant" BY DEF createLoadingAssistantMessage
<1>0. out = Append(SubSeq(ms, 1, k), a) OBVIOUS
<1> HIDE DEF a
<1> DEFINE p == SubSeq(ms, 1, k)
<1>3. p \in Seq(Message) /\ Len(p) = k /\ \A i \in 1..k : p[i] = ms[i] OBVIOUS
<1>4. out = Append(p, a) BY <1>0
<1> HIDE DEF p
<1>5. out \in Seq(Message) /\ Len(out) = k + 1 /\ out[k + 1] = a BY <1>1, <1>3, <1>4
<1>6. \A i \in 1..k : out[i] = ms[i] BY <1>1, <1>3, <1>4
<1>7. 1..k \subseteq DOMAIN ms OBVIOUS
<1>8. \A i \in DOMAIN out : i \in 1..k \/ i = k + 1
  <2>1. DOMAIN out = 1..(k + 1) BY <1>5
  <2> QED BY <2>1
<1>9. SentFrom(ms, out, r)
  <2>1. Len(out) # 0 /\ Len(out) = k + 1 BY <1>5
  <2>3. out # <<>> /\ out[Len(out)] = a BY <1>5, <2>1
  <2>2. ASSUME NEW i \in DOMAIN out, i < Len(out)
        PROVE  \E j \in DOMAIN ms : out[i] = ms[j]
    BY <1>5, <1>6, <1>7, <1>8, <2>2
  <2> QED BY <1>5, <2>2, <2>3 DEF SentFrom, a
<1>10. ASSUME \A j \in 1..k : ~isAssistantMessagePending(ms[j]) PROVE PendingIsLast(out)
  BY <1>2, <1>5, <1>6, <1>8, <1>10 DEF PendingIsLast
<1> QED BY <1>9, <1>10

\* One message of the page with its text replaced.
LEMMA EditedMessages ==
    ASSUME shown.msgs \in Seq(Message), NEW i \in DOMAIN shown.msgs
    PROVE  /\ Edited(i) \in Seq(Message) /\ Len(Edited(i)) = Len(shown.msgs)
           /\ \A j \in DOMAIN shown.msgs :
                 /\ j # i => Edited(i)[j] = shown.msgs[j]
                 /\ Edited(i)[j].from = shown.msgs[j].from
                 /\ Edited(i)[j].req = shown.msgs[j].req
                 /\ Edited(i)[j].status = shown.msgs[j].status
           /\ Edited(i)[i].text = {0}
<1> DEFINE ms == shown.msgs
           m == [ms[i] EXCEPT !.text = {0}]
<1>1. /\ m \in Message /\ m.from = ms[i].from /\ m.req = ms[i].req
      /\ m.status = ms[i].status /\ m.text = {0}
  <2>1. ms[i] \in Message /\ {0} \in SUBSET (0..MaxRequests) BY PlaygroundAssumption
  <2> DEFINE x == ms[i]
  <2> HIDE DEF ms
  <2>2. x \in Message BY <2>1
  <2> HIDE DEF x
  <2>3. LET y == [x EXCEPT !.text = {0}]
        IN  /\ y \in Message /\ y.from = x.from /\ y.req = x.req
            /\ y.status = x.status /\ y.text = {0}
    BY <2>1, <2>2 DEF Message
  <2> QED BY <2>3 DEF x
<1>2. Edited(i) = [ms EXCEPT ![i] = m] BY DEF Edited
<1> HIDE DEF ms, m
<1>3. ms \in Seq(Message) /\ i \in DOMAIN ms BY DEF ms
<1>4. Edited(i) \in Seq(Message) /\ Len(Edited(i)) = Len(ms) BY <1>1, <1>2, <1>3
<1>5. Edited(i)[i] = m BY <1>2, <1>3
<1>6. \A j \in DOMAIN ms : j # i => Edited(i)[j] = ms[j] BY <1>2, <1>3
<1> QED BY <1>1, <1>4, <1>5, <1>6 DEF ms

\* The last n messages, and the position that each had.
LEMMA LastOfMessages ==
    ASSUME NEW ms \in Seq(Message), NEW n \in Nat \ {0}
    PROVE  /\ LastOf(ms, n) \in Seq(Message) /\ Len(LastOf(ms, n)) <= n
           /\ \E d \in 0..Len(ms) : /\ Len(LastOf(ms, n)) = Len(ms) - d
                                    /\ \A i \in DOMAIN LastOf(ms, n) :
                                          i + d \in DOMAIN ms /\ LastOf(ms, n)[i] = ms[i + d]
<1> DEFINE d == IF Len(ms) > n THEN Len(ms) - n ELSE 0
           out == SubSeq(ms, d + 1, Len(ms))
<1>1. d \in Nat /\ d <= Len(ms) /\ Len(ms) - d <= n OBVIOUS
<1>2. LastOf(ms, n) = out BY DEF LastOf
<1> HIDE DEF d
<1>3. out \in Seq(Message) /\ Len(out) = Len(ms) - d BY <1>1
<1>4. ASSUME NEW i \in DOMAIN out PROVE i + d \in DOMAIN ms /\ out[i] = ms[i + d]
  <2>1. i \in 1..(Len(ms) - d) BY <1>3
  <2>2. out[i] = ms[(d + 1) + i - 1] BY <1>1, <2>1
  <2>3. (d + 1) + i - 1 = i + d /\ i + d \in 1..Len(ms) BY <1>1, <2>1
  <2>4. DOMAIN ms = 1..Len(ms) OBVIOUS
  <2> HIDE DEF out
  <2> QED BY <2>2, <2>3, <2>4
<1> HIDE DEF out
<1> QED BY <1>1, <1>2, <1>3, <1>4

\* Truncating, normalising and sanitising what is stored keep the predicates too, and
\* what loadMessages returns has no pending answer.
LEMMA LastOfKeeps ==
    ASSUME NEW ms \in Seq(Message), NEW n \in Nat \ {0}
    PROVE  /\ Own(ms) => Own(LastOf(ms, n))
           /\ PendingIsLast(ms) => PendingIsLast(LastOf(ms, n))
<1>1. PICK d \in 0..Len(ms) : /\ Len(LastOf(ms, n)) = Len(ms) - d
                              /\ \A i \in DOMAIN LastOf(ms, n) :
                                    i + d \in DOMAIN ms /\ LastOf(ms, n)[i] = ms[i + d]
  BY LastOfMessages
<1>2. LastOf(ms, n) \in Seq(Message) BY LastOfMessages
<1>3. Own(ms) => Own(LastOf(ms, n)) BY <1>1 DEF Own
<1>4. ASSUME PendingIsLast(ms), NEW i \in DOMAIN LastOf(ms, n), isAssistantMessagePending(LastOf(ms, n)[i])
      PROVE  i = Len(LastOf(ms, n)) /\ LastOf(ms, n)[i].from = "assistant"
  <2>1. i + d = Len(ms) /\ ms[i + d].from = "assistant" BY <1>1, <1>4 DEF PendingIsLast
  <2>2. i \in Int BY <1>2
  <2> QED BY <1>1, <2>1, <2>2
<1> QED BY <1>3, <1>4 DEF PendingIsLast

LEMMA NormalizedMessages ==
    ASSUME NEW ms \in Seq(Message)
    PROVE  /\ Normalized(ms) \in Seq(Message)
           /\ Own(ms) => Own(Normalized(ms))
           /\ PendingIsLast(ms) => PendingIsLast(Normalized(ms))
<1> DEFINE out == Normalized(ms)
           m(i) == IF isAssistantMessagePending(ms[i]) /\ hasContent(ms[i])
                   THEN completeAssistantMessage(ms[i]) ELSE ms[i]
<1>1. out = [i \in DOMAIN ms |-> m(i)] BY DEF Normalized
<1>2. \A i \in DOMAIN ms : /\ m(i) \in Message /\ m(i).from = ms[i].from /\ m(i).req = ms[i].req
                           /\ m(i).text = ms[i].text
                           /\ isAssistantMessagePending(m(i)) => isAssistantMessagePending(ms[i])
  BY CompleteMessage DEF isAssistantMessagePending
<1> HIDE DEF out, m
<1>3. out \in Seq(Message) /\ Len(out) = Len(ms) /\ DOMAIN out = DOMAIN ms BY <1>1, <1>2
<1>4. \A i \in DOMAIN ms : out[i] = m(i) BY <1>1
<1>5. Own(ms) => Own(out) BY <1>2, <1>3, <1>4 DEF Own
<1>6. PendingIsLast(ms) => PendingIsLast(out) BY <1>2, <1>3, <1>4 DEF PendingIsLast
<1> QED BY <1>3, <1>5, <1>6 DEF out

LEMMA SanitizedMessages ==
    ASSUME NEW ms \in Seq(Message)
    PROVE  /\ Sanitized(ms) \in Seq(Message) /\ Len(Sanitized(ms)) = Len(ms)
           /\ Own(ms) => Own(Sanitized(ms))
           /\ PendingIsLast(ms) => NonePending(Sanitized(ms))
<1> DEFINE out == Sanitized(ms)
           open == {i \in DOMAIN ms : ms[i].from = "assistant" /\ isAssistantMessagePending(ms[i])}
           m(i) == IF i \in open /\ \A j \in open : j <= i THEN errorMessage(ms[i], 0) ELSE ms[i]
<1>1. out = [i \in DOMAIN ms |-> m(i)] BY DEF Sanitized
<1>0. 0 \in 0..MaxRequests BY PlaygroundAssumption
<1>2. \A i \in DOMAIN ms : /\ m(i) \in Message /\ m(i).from = ms[i].from /\ m(i).req = ms[i].req
                           /\ m(i).text = ms[i].text \/ m(i).text = {0}
  <2> HIDE DEF open
  <2> QED BY <1>0, ErrorMessage
<1>3. ASSUME PendingIsLast(ms), NEW i \in DOMAIN ms
      PROVE  ~isAssistantMessagePending(m(i))
  <2>1. CASE ~isAssistantMessagePending(ms[i])
    <3>1. i \notin open BY <2>1
    <3> HIDE DEF open
    <3> QED BY <2>1, <3>1
  <2>2. CASE isAssistantMessagePending(ms[i])
    <3>1. i \in open BY <1>3, <2>2 DEF PendingIsLast
    <3>2. \A j \in open : j <= i BY <1>3, <2>2 DEF PendingIsLast
    <3> HIDE DEF open
    <3>3. m(i) = errorMessage(ms[i], 0) BY <3>1, <3>2
    <3>4. m(i).status = "error" BY <1>0, <3>3, ErrorMessage
    <3> QED BY <3>4 DEF isAssistantMessagePending
  <2> QED BY <2>1, <2>2
<1> HIDE DEF out, m
<1>4. out \in Seq(Message) /\ Len(out) = Len(ms) /\ DOMAIN out = DOMAIN ms BY <1>1, <1>2
<1>5. \A i \in DOMAIN ms : out[i] = m(i) BY <1>1
<1>6. ASSUME Own(ms), NEW i \in DOMAIN out, out[i].from = "assistant"
      PROVE  out[i].text \subseteq {0, out[i].req}
  BY <1>2, <1>4, <1>5, <1>6 DEF Own
<1>7. PendingIsLast(ms) => NonePending(out) BY <1>3, <1>4, <1>5 DEF NonePending
<1> QED BY <1>4, <1>6, <1>7 DEF out, Own

LEMMA LoadedMessages ==
    ASSUME stored \in Seq(Message)
    PROVE  /\ loadMessages \in Seq(Message) /\ Len(loadMessages) <= MaxStored
           /\ Own(stored) => Own(loadMessages)
           /\ PendingIsLast(stored) => NonePending(loadMessages)
<1>0. MaxStored \in Nat \ {0} /\ MaxLoaded \in Nat \ {0} BY PlaygroundAssumption
<1>1. PICK a : a = Normalized(stored) OBVIOUS
<1>2. a \in Seq(Message) BY <1>1, NormalizedMessages
<1>3. (Own(stored) => Own(a)) /\ (PendingIsLast(stored) => PendingIsLast(a))
  BY <1>1, NormalizedMessages
<1>4. PICK b : b = LastOf(a, MaxStored) OBVIOUS
<1>5. b \in Seq(Message) /\ Len(b) <= MaxStored BY <1>0, <1>2, <1>4, LastOfMessages
<1>6. (Own(a) => Own(b)) /\ (PendingIsLast(a) => PendingIsLast(b)) BY <1>0, <1>2, <1>4, LastOfKeeps
<1>7. PICK c : c = LastOf(b, MaxLoaded) OBVIOUS
<1>8. c \in Seq(Message) BY <1>0, <1>5, <1>7, LastOfMessages
<1>9. (Own(b) => Own(c)) /\ (PendingIsLast(b) => PendingIsLast(c)) BY <1>0, <1>5, <1>7, LastOfKeeps
<1>10. Len(c) <= MaxStored
  <2>1. PICK d \in 0..Len(b) : Len(LastOf(b, MaxLoaded)) = Len(b) - d BY <1>0, <1>5, LastOfMessages
  <2>2. Len(b) \in Nat /\ Len(c) = Len(b) - d BY <1>5, <1>7, <2>1
  <2> QED BY <1>0, <1>5, <2>1, <2>2
<1>11. loadMessages = Sanitized(c) BY <1>1, <1>4, <1>7 DEF loadMessages, saveMessages
<1>12. Sanitized(c) \in Seq(Message) /\ Len(Sanitized(c)) = Len(c) BY <1>8, SanitizedMessages
<1>13. (Own(c) => Own(Sanitized(c))) /\ (PendingIsLast(c) => NonePending(Sanitized(c)))
  BY <1>8, SanitizedMessages
<1>14. Own(stored) => Own(loadMessages) BY <1>3, <1>6, <1>9, <1>11, <1>13
<1>15. PendingIsLast(stored) => NonePending(loadMessages) BY <1>3, <1>6, <1>9, <1>11, <1>13
<1> QED BY <1>10, <1>11, <1>12, <1>14, <1>15

-----------------------------------------------------------------------------
\* The part of the invariant that is not about texts, kept by each network callback.
ConnAll == TypeOK /\ LoadingInv /\ ConnInv /\ StreamInv /\ FetchInv /\ CalmInv

LEMMA GeneratingBoolean ==
    ASSUME TypeOK
    PROVE  streaming \in BOOLEAN /\ requesting \in BOOLEAN /\ Generating \in BOOLEAN
BY DEF TypeOK, Generating

LEMMA NetworkIsOpen ==
    ASSUME ConnAll, FlushTimer \/ \E r \in Request : Network(r)
    PROVE  page = "open"
<1>1. page \in {"open", "loading"} BY DEF ConnAll, TypeOK
<1> SUFFICES ASSUME page = "loading" PROVE FALSE BY <1>1
<1>2. pending = {} /\ \A r \in Request : net[r] \in {"none", "over"} BY DEF ConnAll, LoadingInv
<1>3. CASE FlushTimer BY <1>2, <1>3 DEF FlushTimer
<1>4. ASSUME NEW r \in Request, Network(r) PROVE FALSE
  BY <1>2, <1>4 DEF Network, StreamMessage, StreamDone, StreamError, StreamEnds,
                    FetchAnswered, FetchFailed, FetchAborted
<1> QED BY <1>3, <1>4

LEMMA QueuedTypes ==
    ASSUME TypeOK, Queued, messages' \in Seq(Message),
           net' \in [Request -> {"none", "stream", "fetch", "aborted", "over"}],
           sseSource' \in 0..MaxRequests, streamComplete' \in BOOLEAN, streaming' \in BOOLEAN,
           requesting' \in BOOLEAN, requestId' \in 0..MaxRequests, abortCtl' \in 0..MaxRequests,
           pending' \subseteq Request, sent' \in 0..MaxRequests
    PROVE  TypeOK'
BY DEF TypeOK, Queued, disk, hist

LEMMA StreamMessageConn ==
    ASSUME ConnAll, NEW r \in Request, StreamMessage(r)
    PROVE  ConnAll'
<1>1. page = "open" BY NetworkIsOpen DEF Network
<1>2. TypeOK' BY DEF ConnAll, TypeOK, StreamMessage, Queued, disk, hist
<1>a. stream /\ r = sseSource BY DEF ConnAll, TypeOK, StreamInv, FetchInv, StreamMessage
<1>b. r # 0 /\ r = sent /\ streaming BY <1>a DEF ConnAll, ConnInv, Request
<1>3. ConnInv' /\ StreamInv' /\ FetchInv'
  BY <1>1, <1>a, <1>b DEF ConnAll, TypeOK, ConnInv, StreamInv, FetchInv, Generating, StreamMessage, Queued, disk, hist
<1>4. CalmInv'
  BY <1>1, <1>a, <1>b DEF ConnAll, TypeOK, ConnInv, CalmInv, Generating, StreamMessage, Queued, disk, hist
<1>5. LoadingInv' BY <1>1 DEF LoadingInv, StreamMessage, Queued, disk
<1> QED BY <1>2, <1>3, <1>4, <1>5 DEF ConnAll

LEMMA FlushTimerConn ==
    ASSUME ConnAll, FlushTimer
    PROVE  ConnAll'
<1>1. page = "open" BY NetworkIsOpen
<1>0. messages' \in Seq(Message) BY FlushedMessages DEF ConnAll, TypeOK, FlushTimer, Touched
<1>2. TypeOK' BY <1>0 DEF ConnAll, TypeOK, FlushTimer, EmptyBuffer, Queued, disk, hist
<1>3. ConnInv' /\ StreamInv' /\ FetchInv'
  BY <1>1 DEF ConnAll, TypeOK, ConnInv, StreamInv, FetchInv, Generating, FlushTimer, EmptyBuffer, Queued, disk, hist
<1>4. CalmInv' 
  BY <1>1 DEF ConnAll, TypeOK, ConnInv, CalmInv, Generating, FlushTimer, EmptyBuffer, Queued, disk, hist
<1>5. LoadingInv' BY <1>1 DEF LoadingInv, FlushTimer, Queued, disk
<1> QED BY <1>2, <1>3, <1>4, <1>5 DEF ConnAll

LEMMA StreamDoneConn ==
    ASSUME ConnAll, NEW r \in Request, StreamDone(r)
    PROVE  ConnAll'
<1>1. page = "open" BY NetworkIsOpen DEF Network
<1>0. messages' \in Seq(Message) BY CompletedMessages DEF ConnAll, TypeOK, StreamDone, Touched
<1>a. stream /\ r = sseSource BY DEF ConnAll, TypeOK, StreamInv, FetchInv, StreamDone
<1>b. sseSource' = 0 /\ streaming' = FALSE /\ requesting' = FALSE /\ pending' = {}
  BY <1>a DEF StreamDone, Detach, EmptyBuffer
<1>2. TypeOK'
  <2>1. net' \in [Request -> {"none", "stream", "fetch", "aborted", "over"}] BY DEF ConnAll, TypeOK, StreamDone
  <2>2. streamComplete' \in BOOLEAN BY Zenon DEF ConnAll, TypeOK, StreamDone
  <2>3. sseSource' \in 0..MaxRequests /\ pending' \subseteq Request BY <1>b, PlaygroundAssumption
  <2> QED BY <1>0, <1>b, <2>1, <2>2, <2>3, QueuedTypes DEF ConnAll, TypeOK, StreamDone
<1>3. ConnInv' /\ StreamInv' /\ FetchInv'
  BY <1>1, <1>a, <1>b DEF ConnAll, TypeOK, ConnInv, StreamInv, FetchInv, Generating, StreamDone, Queued, disk, hist
<1>4. CalmInv' 
  BY <1>1, <1>a, <1>b DEF ConnAll, TypeOK, ConnInv, StreamInv, CalmInv, Generating, StreamDone, Queued, disk, hist
<1>5. LoadingInv' BY <1>1 DEF LoadingInv, StreamDone, Queued, disk
<1> QED BY <1>2, <1>3, <1>4, <1>5 DEF ConnAll

LEMMA StreamErrorConn ==
    ASSUME ConnAll, NEW r \in Request, StreamError(r)
    PROVE  ConnAll'
<1>1. page = "open" BY NetworkIsOpen DEF Network
<1>0. messages' \in Seq(Message) BY FailedMessages DEF ConnAll, TypeOK, StreamError, Touched
<1>a. stream /\ r = sseSource BY DEF ConnAll, TypeOK, StreamInv, FetchInv, StreamError
<1>b. sseSource' = 0 /\ streaming' = FALSE /\ requesting' = FALSE /\ pending' = {}
  BY <1>a DEF StreamError, Detach, EmptyBuffer
<1>2. TypeOK'
  <2>1. net' \in [Request -> {"none", "stream", "fetch", "aborted", "over"}] BY DEF ConnAll, TypeOK, StreamError
  <2>2. streamComplete' \in BOOLEAN BY Zenon DEF ConnAll, TypeOK, StreamError
  <2>3. sseSource' \in 0..MaxRequests /\ pending' \subseteq Request BY <1>b, PlaygroundAssumption
  <2> QED BY <1>0, <1>b, <2>1, <2>2, <2>3, QueuedTypes DEF ConnAll, TypeOK, StreamError
<1>3. ConnInv' /\ StreamInv' /\ FetchInv'
  BY <1>1, <1>a, <1>b DEF ConnAll, TypeOK, ConnInv, StreamInv, FetchInv, Generating, StreamError, Queued, disk, hist
<1>4. CalmInv' 
  BY <1>1, <1>a, <1>b DEF ConnAll, TypeOK, ConnInv, StreamInv, CalmInv, Generating, StreamError, Queued, disk, hist
<1>5. LoadingInv' BY <1>1 DEF LoadingInv, StreamError, Queued, disk
<1> QED BY <1>2, <1>3, <1>4, <1>5 DEF ConnAll

LEMMA StreamEndsConn ==
    ASSUME ConnAll, NEW r \in Request, StreamEnds(r)
    PROVE  ConnAll'
<1>1. page = "open" BY NetworkIsOpen DEF Network
<1>a. stream /\ r = sseSource BY DEF ConnAll, TypeOK, StreamInv, FetchInv, StreamEnds
<1>2. TypeOK' BY DEF ConnAll, TypeOK, StreamEnds, Queued, disk, hist
<1>3. ConnInv' /\ StreamInv' /\ FetchInv'
  BY <1>1, <1>a DEF ConnAll, TypeOK, ConnInv, StreamInv, FetchInv, Generating, StreamEnds, Queued, disk, hist
<1>4. CalmInv' 
  BY <1>1, <1>a DEF ConnAll, TypeOK, ConnInv, StreamInv, CalmInv, Generating, StreamEnds, Queued, disk, hist
<1>5. LoadingInv' BY <1>1 DEF LoadingInv, StreamEnds, Queued, disk
<1> QED BY <1>2, <1>3, <1>4, <1>5 DEF ConnAll

LEMMA FetchAnsweredConn ==
    ASSUME ConnAll, NEW r \in Request, FetchAnswered(r)
    PROVE  ConnAll'
<1>1. page = "open" BY NetworkIsOpen DEF Network
<1>0. messages' \in Seq(Message)
  <2>1. messages' = Answered(messages, r) BY DEF FetchAnswered, Answered
  <2> QED BY <2>1, AnsweredMessages DEF ConnAll, TypeOK, Touched
<1>a. ~stream /\ sseSource = 0 BY DEF ConnAll, TypeOK, StreamInv, FetchInv, FetchAnswered
<1>b. requesting' \in BOOLEAN /\ (requesting' => requesting /\ requestId # r)
  BY DEF ConnAll, TypeOK, FetchAnswered, Finally
<1>2. TypeOK'
  <2>1. net' \in [Request -> {"none", "stream", "fetch", "aborted", "over"}] BY DEF ConnAll, TypeOK, FetchAnswered
  <2>2. abortCtl' \in 0..MaxRequests BY PlaygroundAssumption DEF ConnAll, TypeOK, FetchAnswered, Finally
  <2> QED BY <1>0, <1>b, <2>1, <2>2, QueuedTypes DEF ConnAll, TypeOK, FetchAnswered
<1>3. ConnInv' /\ StreamInv' /\ FetchInv'
  BY <1>1, <1>a, <1>b DEF ConnAll, TypeOK, ConnInv, StreamInv, FetchInv, Generating, FetchAnswered, Queued, disk, hist
<1>4. CalmInv' 
  BY <1>1, <1>a, <1>b DEF ConnAll, TypeOK, ConnInv, CalmInv, Generating, FetchAnswered, Finally, Queued, disk, hist
<1>5. LoadingInv' BY <1>1 DEF LoadingInv, FetchAnswered, Queued, disk
<1> QED BY <1>2, <1>3, <1>4, <1>5 DEF ConnAll

LEMMA FetchFailedConn ==
    ASSUME ConnAll, NEW r \in Request, FetchFailed(r)
    PROVE  ConnAll'
<1>1. page = "open" BY NetworkIsOpen DEF Network
<1>0. messages' \in Seq(Message) BY FailedMessages DEF ConnAll, TypeOK, FetchFailed, Touched
<1>a. ~stream /\ sseSource = 0 BY DEF ConnAll, TypeOK, StreamInv, FetchInv, FetchFailed
<1>b. requesting' = FALSE /\ pending' = {} BY DEF FetchFailed, Finally, EmptyBuffer
<1>2. TypeOK' BY <1>0, <1>b, PlaygroundAssumption DEF ConnAll, TypeOK, FetchFailed, Finally, Queued, disk, hist
<1>3. ConnInv' /\ StreamInv' /\ FetchInv'
  BY <1>1, <1>a, <1>b DEF ConnAll, TypeOK, ConnInv, StreamInv, FetchInv, Generating, FetchFailed, Queued, disk, hist
<1>4. CalmInv' 
  BY <1>1, <1>a, <1>b DEF ConnAll, TypeOK, ConnInv, CalmInv, Generating, FetchFailed, Queued, disk, hist
<1>5. LoadingInv' BY <1>1 DEF LoadingInv, FetchFailed, Queued, disk
<1> QED BY <1>2, <1>3, <1>4, <1>5 DEF ConnAll

LEMMA FetchAbortedConn ==
    ASSUME ConnAll, NEW r \in Request, FetchAborted(r)
    PROVE  ConnAll' /\ requesting' = requesting
<1>1. page = "open" BY NetworkIsOpen DEF Network
<1>a. ~stream /\ sseSource = 0 BY DEF ConnAll, TypeOK, StreamInv, FetchInv, FetchAborted
<1>b. requesting' = requesting BY DEF ConnAll, TypeOK, ConnInv, FetchAborted, Finally
<1>2. TypeOK'
  <2>1. net' \in [Request -> {"none", "stream", "fetch", "aborted", "over"}] BY DEF ConnAll, TypeOK, FetchAborted
  <2>2. abortCtl' \in 0..MaxRequests BY PlaygroundAssumption DEF ConnAll, TypeOK, FetchAborted, Finally
  <2> QED BY <1>b, <2>1, <2>2, QueuedTypes DEF ConnAll, TypeOK, FetchAborted
<1>3. ConnInv' /\ StreamInv' /\ FetchInv'
  BY <1>1, <1>a, <1>b DEF ConnAll, TypeOK, ConnInv, StreamInv, FetchInv, Generating, FetchAborted, Queued, disk, hist
<1>4. CalmInv' 
  BY <1>1, <1>a, <1>b DEF ConnAll, TypeOK, ConnInv, CalmInv, Generating, FetchAborted, Finally, Queued, disk, hist
<1>5. LoadingInv' BY <1>1 DEF LoadingInv, FetchAborted, Queued, disk
<1> QED BY <1>b, <1>2, <1>3, <1>4, <1>5 DEF ConnAll

LEMMA NetworkConn ==
    ASSUME ConnAll, FlushTimer \/ \E r \in Request : Network(r)
    PROVE  ConnAll'
BY FlushTimerConn, StreamMessageConn, StreamDoneConn, StreamErrorConn, StreamEndsConn,
   FetchAnsweredConn, FetchFailedConn, FetchAbortedConn DEF Network

\* What a handler of the network or the flush timer does to the conversation: it may
\* write into the last answer, under ~early only for the request in progress, and
\* when it ends the generation it ends that answer.
NetworkWrites ==
    /\ UNCHANGED <<stream, shown, stored, page, early, stale, stopped, sent>>
    /\ Generating' => Generating
    /\ \E ws \in SUBSET Request : /\ Touched(messages, messages', ws)
                                  /\ ~early /\ messages' # messages => Generating /\ ws \subseteq {sent}
    /\ ~Generating' => LastEnded(messages') \/ (messages' = messages /\ ~Generating)

\* Every callback of the network and of the flush timer writes in this way.
LEMMA NetworkEffect ==
    ASSUME ConnAll, FlushTimer \/ \E r \in Request : Network(r)
    PROVE  NetworkWrites
<1>0. messages \in Seq(Message) /\ pending \subseteq Request BY DEF ConnAll, TypeOK
<1>1. UNCHANGED <<stream, shown, stored, page, early, stale, stopped, sent>>
  BY DEF FlushTimer, Network, StreamMessage, StreamDone, StreamError, StreamEnds,
         FetchAnswered, FetchFailed, FetchAborted, Queued, disk, hist
<1>2. CASE FlushTimer
  <2>1. Touched(messages, messages', pending) BY <1>0, <1>2, FlushedMessages DEF FlushTimer
  <2>2. streaming /\ streaming' BY <1>2 DEF FlushTimer, ConnAll, ConnInv
  <2>3. ~early => pending \subseteq {sent} BY DEF ConnAll, CalmInv
  <2> QED BY <1>0, <1>1, <2>1, <2>2, <2>3 DEF NetworkWrites, Generating
<1>3. ASSUME NEW r \in Request, StreamMessage(r) \/ StreamEnds(r) \/ FetchAborted(r)
      PROVE  NetworkWrites
  <2>1. messages' = messages BY <1>3 DEF StreamMessage, StreamEnds, FetchAborted
  <2>2. streaming' = streaming /\ requesting' = requesting
    BY <1>3, FetchAbortedConn DEF StreamMessage, StreamEnds, FetchAborted
  <2>3. Touched(messages, messages', {}) BY <1>0, <2>1, TouchedSelf
  <2> QED BY <1>1, <2>1, <2>2, <2>3 DEF NetworkWrites, Generating
<1>4. ASSUME NEW r \in Request, StreamDone(r) \/ StreamError(r)
      PROVE  NetworkWrites
  <2>1. stream /\ r = sseSource BY <1>4 DEF ConnAll, TypeOK, StreamInv, FetchInv, StreamDone, StreamError
  <2>2. r # 0 /\ r = sent /\ streaming BY <2>1 DEF ConnAll, ConnInv, Request
  <2>3. pending \cup {r} \in SUBSET Request BY <1>0
  <2>4. Touched(messages, messages', pending \cup {r}) /\ LastEnded(messages')
    <3>1. CASE StreamDone(r)
      <4>1. Touched(messages, messages', pending) /\ LastEnded(messages')
        BY <1>0, <3>1, CompletedMessages DEF StreamDone
      <4> QED BY <4>1 DEF Touched
    <3>2. CASE StreamError(r)
      BY <1>0, <3>2, FailedMessages DEF StreamError
    <3> QED BY <1>4, <3>1, <3>2
  <2>5. ~early => pending \cup {r} \subseteq {sent} BY <2>2 DEF ConnAll, CalmInv
  <2> QED BY <1>1, <2>2, <2>3, <2>4, <2>5 DEF NetworkWrites, Generating
<1>5. ASSUME NEW r \in Request, FetchAnswered(r) \/ FetchFailed(r)
      PROVE  NetworkWrites
  <2>1. ~stream /\ net[r] = "fetch"
    BY <1>5 DEF ConnAll, TypeOK, StreamInv, FetchInv, FetchAnswered, FetchFailed
  <2>9. sseSource = 0 BY <2>1 DEF ConnAll, FetchInv
  <2>10. pending = {} /\ ~streaming BY <2>9 DEF ConnAll, ConnInv
  <2>11. streaming' = streaming BY <1>5 DEF FetchAnswered, FetchFailed
  <2>2. pending = {} /\ ~streaming /\ ~streaming' BY <2>10, <2>11
  <2>3. requesting' => requesting BY <1>5 DEF FetchAnswered, FetchFailed, Finally
  <2>4. Touched(messages, messages', {r}) /\ LastEnded(messages')
    <3>1. CASE FetchAnswered(r)
      <4>1. messages' = Answered(messages, r) BY <3>1 DEF FetchAnswered, Answered
      <4> QED BY <1>0, <4>1, AnsweredMessages
    <3>2. CASE FetchFailed(r)
      <4>1. pending \cup {r} = {r} BY <2>2
      <4>2. Touched(messages, messages', pending \cup {r}) /\ LastEnded(messages')
        BY <1>0, <3>2, FailedMessages DEF FetchFailed
      <4> QED BY <4>1, <4>2
    <3> QED BY <1>5, <3>1, <3>2
  <2>5. ~early => r = sent /\ requesting BY <2>1 DEF ConnAll, CalmInv
  <2>6. {r} \in SUBSET Request OBVIOUS
  <2>7. ~early => {r} \subseteq {sent} /\ Generating BY <2>5 DEF Generating
  <2>8. Generating' => Generating BY <2>2, <2>3 DEF Generating
  <2> QED BY <1>1, <2>4, <2>6, <2>7, <2>8 DEF NetworkWrites
<1> QED BY <1>2, <1>3, <1>4, <1>5 DEF Network

LEMMA NetworkOwn ==
    ASSUME ConnAll, OwnInv, EndInv, ShownInv, NetworkWrites, page = "open"
    PROVE  OwnInv' /\ EndInv' /\ ShownInv'
<1>0. messages \in Seq(Message) /\ shown.msgs \in Seq(Message) BY DEF ConnAll, TypeOK
<1>1. PICK ws \in SUBSET Request :
        /\ Touched(messages, messages', ws)
        /\ ~early /\ messages' # messages => Generating /\ ws \subseteq {sent}
  BY DEF NetworkWrites
<1>2. UNCHANGED <<stream, shown, stored, page, early, stale, stopped, sent>> /\ (Generating' => Generating)
  BY DEF NetworkWrites
<1>3. OwnInv'
  <2> SUFFICES ASSUME ~early
               PROVE  Own(messages') /\ (Generating' => Current(messages', sent))
    BY <1>2 DEF OwnInv, Own, Current
  <2>1. CASE messages' = messages BY <1>2, <2>1 DEF OwnInv
  <2>2. CASE messages' # messages
    <3>1. Generating /\ ws \subseteq {sent} BY <1>1, <2>2
    <3>2. Own(messages) /\ Current(messages, sent) BY <3>1 DEF OwnInv
    <3>3. ws \subseteq {messages[Len(messages)].req} BY <3>1, <3>2 DEF Current
    <3>4. Own(messages') BY <1>0, <1>1, <3>2, <3>3, OwnTouched
    <3>5. Current(messages', sent) BY <1>0, <1>1, <3>2, CurrentTouched
    <3> QED BY <3>4, <3>5
  <2> QED BY <2>1, <2>2
<1>4. EndInv'
  <2> SUFFICES ASSUME ~stale
               PROVE  PendingIsLast(messages') /\ (~Generating' => NonePending(messages'))
    BY <1>2 DEF EndInv, PendingIsLast, NonePending
  <2>1. PendingIsLast(messages') BY <1>0, <1>1, PendingTouched DEF EndInv
  <2>2. messages' \in Seq(Message) BY <1>1 DEF Touched
  <2>3. CASE LastEnded(messages') BY <2>1, <2>2, <2>3, EndedNonePending
  <2>4. CASE ~LastEnded(messages') BY <2>1, <2>4 DEF NetworkWrites, EndInv
  <2> QED BY <2>1, <2>3, <2>4
<1>5. ShownInv'
  <2> SUFFICES ASSUME ~early PROVE ShownInv' BY <1>2 DEF ShownInv
  <2>1. CASE messages' = messages BY <1>2, <2>1 DEF ShownInv
  <2>2. CASE messages' # messages
    <3>1. Generating /\ Current(messages, sent) /\ sent \notin stopped
      BY <1>1, <2>2 DEF OwnInv, ConnAll, CalmInv
    <3>2. Len(messages') = Len(messages) /\ DOMAIN messages' = DOMAIN messages BY <1>0, <1>1 DEF Touched
    <3>3. ASSUME NEW i \in DOMAIN messages, messages'[i] # shown.msgs[i]
          PROVE  /\ i = Len(messages) /\ shown.msgs[i].from = "assistant"
                 /\ messages'[i].from = "assistant" /\ messages'[i].req = shown.msgs[i].req
                 /\ messages'[i].req \notin stopped
      <4>1. CASE messages'[i] = messages[i] BY <3>3, <4>1 DEF ShownInv
      <4>2. CASE messages'[i] # messages[i]
        <5>1. /\ i = Len(messages) /\ messages[i].from = "assistant"
              /\ messages'[i].from = "assistant" /\ messages'[i].req = messages[i].req
          BY <1>1, <4>2 DEF Touched
        <5>2. messages[i].req = sent BY <3>1, <5>1 DEF Current
        <5>3. shown.msgs[i].from = "assistant" /\ shown.msgs[i].req = messages[i].req
          BY <5>1 DEF ShownInv
        <5> QED BY <3>1, <5>1, <5>2, <5>3
      <4> QED BY <4>1, <4>2
    <3> QED BY <1>2, <3>2, <3>3 DEF ShownInv
  <2> QED BY <2>1, <2>2
<1> QED BY <1>3, <1>4, <1>5

-----------------------------------------------------------------------------
\* The three outcomes of sendChat.
StreamSent(next) ==
    /\ stream /\ streamComplete' = FALSE
    /\ net' = [Superseded EXCEPT ![sent + 1] = "stream"]
    /\ sseSource' = sent + 1 /\ streaming' = TRUE /\ requesting' = TRUE
    /\ messages' = next /\ UNCHANGED <<pending, requestId, abortCtl>>
StreamThrew(next) ==
    /\ stream /\ streamComplete' = FALSE
    /\ net' = [Superseded EXCEPT ![sent + 1] = "over"]
    /\ sseSource' = 0 /\ streaming' = FALSE /\ requesting' = FALSE
    /\ messages' = Failed(next, sent + 1) /\ pending' = {} /\ UNCHANGED <<requestId, abortCtl>>
FetchSent(next) ==
    /\ ~stream /\ net' = [net EXCEPT ![sent + 1] = "fetch"]
    /\ requestId' = sent + 1 /\ abortCtl' = sent + 1 /\ requesting' = TRUE
    /\ messages' = next
    /\ UNCHANGED <<sseSource, streamComplete, streaming, pending>>

LEMMA SendCases ==
    ASSUME NEW next, sendChat(next)
    PROVE  StreamSent(next) \/ StreamThrew(next) \/ FetchSent(next)
BY DEF sendChat, sendStreamingChat, sendNonStreamingChat, StreamSent, StreamThrew, FetchSent, EmptyBuffer

LEMMA NextRequest ==
    ASSUME TypeOK, sent < MaxRequests
    PROVE  /\ sent + 1 \in Request /\ sent + 1 \in 0..MaxRequests /\ sent \in Nat
           /\ sent # sent + 1 /\ sent + 1 # 0
BY PlaygroundAssumption DEF TypeOK, Request

\* sendChat: the conversation, the types, the connections, then the texts.
LEMMA SendMessages ==
    ASSUME ConnAll, sent < MaxRequests, NEW next \in Seq(Message), sendChat(next)
    PROVE  /\ sent + 1 \in Request
           /\ Touched(next, messages', pending \cup {sent + 1})
           /\ ~StreamThrew(next) => messages' = next
           /\ StreamThrew(next) => LastEnded(messages')
<1>0. sent + 1 \in Request /\ pending \subseteq Request BY NextRequest DEF ConnAll, TypeOK
<1>1. Touched(next, next, pending \cup {sent + 1}) BY TouchedSelf
<1>2. Touched(next, Failed(next, sent + 1), pending \cup {sent + 1}) /\ LastEnded(Failed(next, sent + 1))
  BY <1>0, FailedMessages
<1> QED BY <1>0, <1>1, <1>2, SendCases DEF StreamSent, StreamThrew, FetchSent

LEMMA SendTypes ==
    ASSUME ConnAll, sent < MaxRequests, NEW next \in Seq(Message), sendChat(next),
           editing' \in {<<>>} \cup ({"user", "assistant"} \X (0..MaxRequests))
    PROVE  TypeOK'
<1>1. messages' \in Seq(Message) BY SendMessages DEF Touched
<1>2. sent + 1 \in Request /\ sent' = sent + 1 /\ sent' \in 0..MaxRequests /\ sent + 1 \in 0..MaxRequests
  BY NextRequest DEF ConnAll, sendChat
<1>3. Superseded \in [Request -> {"none", "stream", "fetch", "aborted", "over"}]
  BY DEF ConnAll, TypeOK, Superseded
<1>4. net' \in [Request -> {"none", "stream", "fetch", "aborted", "over"}]
  BY <1>2, <1>3, SendCases DEF ConnAll, TypeOK, StreamSent, StreamThrew, FetchSent
<1>5. /\ sseSource' \in 0..MaxRequests /\ requestId' \in 0..MaxRequests /\ abortCtl' \in 0..MaxRequests
      /\ pending' \subseteq Request
  <2>1. /\ sseSource' \in {0, sent + 1, sseSource} /\ requestId' \in {requestId, sent + 1}
        /\ abortCtl' \in {abortCtl, sent + 1} /\ pending' \in {pending, {}}
    BY SendCases DEF StreamSent, StreamThrew, FetchSent
  <2>2. /\ sseSource \in 0..MaxRequests /\ requestId \in 0..MaxRequests /\ abortCtl \in 0..MaxRequests
        /\ pending \subseteq Request /\ 0 \in 0..MaxRequests
    BY PlaygroundAssumption DEF ConnAll, TypeOK
  <2> QED BY <1>2, <2>1, <2>2
<1>6. streamComplete' \in BOOLEAN /\ streaming' \in BOOLEAN /\ requesting' \in BOOLEAN
  BY SendCases, Zenon DEF ConnAll, TypeOK, StreamSent, StreamThrew, FetchSent
<1>7. shown' \in [msgs : Seq(Message), generating : BOOLEAN]
  <2>1. (streaming' \/ requesting') \in BOOLEAN BY <1>6
  <2>2. shown' = [msgs |-> messages', generating |-> streaming' \/ requesting'] BY DEF sendChat, Rendered
  <2> QED BY <1>1, <2>1, <2>2
<1>8. early' \in BOOLEAN /\ stale' \in BOOLEAN BY Zenon DEF ConnAll, TypeOK, sendChat
<1>9. saveTimer' \in BOOLEAN /\ UNCHANGED <<stream, page, stored, leaves, stopped>> BY DEF sendChat, Rendered
<1> QED BY <1>1, <1>2, <1>4, <1>5, <1>6, <1>7, <1>8, <1>9 DEF ConnAll, TypeOK

LEMMA SendConn ==
    ASSUME ConnAll, page = "open", sent < MaxRequests, NEW next \in Seq(Message), sendChat(next)
    PROVE  ConnInv' /\ StreamInv' /\ FetchInv' /\ CalmInv' /\ LoadingInv'
<1>0. sent + 1 \in Request /\ sent' = sent + 1 /\ sent \in Nat /\ sent # sent + 1 /\ sent + 1 # 0
  BY NextRequest DEF ConnAll, sendChat
<1>1. /\ UNCHANGED <<stream, page, stopped>> /\ shown'.generating = (streaming' \/ requesting')
      /\ early' = (early \/ Generating)
  BY DEF sendChat, Rendered
<1>2. LoadingInv' BY <1>1 DEF LoadingInv
<1>3. net \in [Request -> {"none", "stream", "fetch", "aborted", "over"}] BY DEF ConnAll, TypeOK
<1>4. \A r \in stopped : r \in Nat BY DEF ConnAll, TypeOK, Request
<1>5. CASE StreamSent(next) \/ StreamThrew(next)
  <2>0. stream BY <1>5 DEF StreamSent, StreamThrew
  <2>1. \A r \in Request : r # sent + 1 => net'[r] = IF r = sseSource THEN "over" ELSE net[r]
    BY <1>0, <1>5 DEF StreamSent, StreamThrew, Superseded
  <2>2. net'[sent + 1] = IF streaming' THEN "stream" ELSE "over"
    BY <1>0, <1>5 DEF StreamSent, StreamThrew, Superseded
  <2>3. /\ requestId' = requestId /\ sseSource' = (IF streaming' THEN sent + 1 ELSE 0)
        /\ (streaming' <=> requesting') /\ pending' \in {pending, {}} /\ (~streaming' => pending' = {})
    BY <1>5 DEF StreamSent, StreamThrew
  <2>4. \A r \in Request : net[r] # "aborted" /\ net[r] # "fetch"
    BY <2>0 DEF ConnAll, StreamInv
  <2>5. ConnInv'
    <3>1. \A r \in Request : r > sent' => net'[r] = "none"
      BY <1>0, <2>1 DEF ConnAll, ConnInv, Request
    <3>2. \A r \in Request : net'[r] # "aborted" /\ net'[r] # "fetch" BY <1>0, <2>1, <2>2, <2>4
    <3>3. requestId' <= sent' BY <1>0, <2>3 DEF ConnAll, TypeOK, ConnInv
    <3>4. \A r \in stopped' : r <= sent' BY <1>0, <1>1, <1>4 DEF ConnAll, ConnInv
    <3>5. sseSource' \in {0, sent'} /\ (streaming' <=> sseSource' # 0) BY <1>0, <2>3
    <3> QED BY <1>1, <2>3, <3>1, <3>2, <3>3, <3>4, <3>5 DEF ConnInv, Generating
  <2>6. StreamInv'
    <3>1. \A r \in Request : net'[r] \in {"none", "stream", "over"}
      BY <1>0, <2>1, <2>2, <2>0 DEF ConnAll, StreamInv
    <3>2. \A r \in Request : net'[r] = "stream" => r = sseSource'
      BY <1>0, <2>0, <2>1, <2>2, <2>3 DEF ConnAll, StreamInv
    <3>3. sseSource' # 0 => net'[sseSource'] \in {"stream", "over"} BY <2>2, <2>3
    <3> QED BY <2>3, <3>1, <3>2, <3>3 DEF StreamInv
  <2>7. FetchInv' BY <1>1, <2>0 DEF FetchInv
  <2>8. CalmInv'
    <3> SUFFICES ASSUME ~early' PROVE CalmInv' BY DEF CalmInv
    <3>1. ~early /\ ~Generating BY <1>1
    <3>2. pending = {} BY <3>1 DEF Generating, ConnAll, ConnInv
    <3>3. pending' = {} BY <2>3, <3>2
    <3>4. \A r \in Request : net'[r] # "fetch" BY <1>0, <2>1, <2>2, <2>4
    <3>5. sent' # 0 /\ sent' \notin stopped' BY <1>0, <1>1, <1>4 DEF ConnAll, ConnInv
    <3> QED BY <1>1, <2>0, <3>3, <3>4, <3>5 DEF CalmInv
  <2> QED BY <1>2, <2>5, <2>6, <2>7, <2>8
<1>6. CASE FetchSent(next)
  <2>0. ~stream /\ sseSource = 0 /\ sseSource' = 0 BY <1>6 DEF FetchSent, ConnAll, FetchInv
  <2>1. \A r \in Request : r # sent + 1 => net'[r] = net[r] BY <1>0, <1>6 DEF FetchSent
  <2>2. net'[sent + 1] = "fetch" BY <1>0, <1>3, <1>6 DEF FetchSent
  <2>3. requestId' = sent' /\ abortCtl' = sent' /\ requesting' BY <1>0, <1>6 DEF FetchSent
  <2>9. ~streaming /\ pending = {} BY <2>0 DEF ConnAll, ConnInv
  <2>4. ~streaming' /\ pending' = {} BY <1>6, <2>9 DEF FetchSent
  <2>5. ConnInv'
    <3>1. \A r \in Request : r > sent' => net'[r] = "none"
      BY <1>0, <2>1 DEF ConnAll, ConnInv, Request
    <3>2. \A r \in Request : ~(net'[r] = "aborted" /\ r = requestId') BY <1>0, <2>2, <2>3
    <3>4. \A r \in stopped' : r <= sent' BY <1>0, <1>1, <1>4 DEF ConnAll, ConnInv
    <3>5. requestId' <= sent' BY <1>0, <2>3
    <3> QED BY <1>1, <2>0, <2>3, <2>4, <3>1, <3>2, <3>4, <3>5 DEF ConnInv, Generating
  <2>6. StreamInv' BY <1>1, <2>0 DEF StreamInv
  <2>7. FetchInv'
    <3>1. \A r \in Request : net'[r] # "stream" BY <1>0, <2>0, <2>1, <2>2 DEF ConnAll, FetchInv
    <3> QED BY <2>0, <3>1 DEF FetchInv
  <2>8. CalmInv'
    <3> SUFFICES ASSUME ~early' PROVE CalmInv' BY DEF CalmInv
    <3>1. ~early /\ ~Generating BY <1>1
    <3>2. \A r \in Request : net[r] # "fetch" BY <3>1 DEF Generating, ConnAll, CalmInv
    <3>3. \A r \in Request : net'[r] = "fetch" => r = sent' BY <1>0, <2>1, <3>2
    <3>5. sent' # 0 /\ sent' \notin stopped' BY <1>0, <1>1, <1>4 DEF ConnAll, ConnInv
    <3> QED BY <1>0, <2>2, <2>3, <2>4, <3>3, <3>5 DEF CalmInv
  <2> QED BY <1>2, <2>5, <2>6, <2>7, <2>8
<1> QED BY <1>5, <1>6, SendCases

LEMMA SentOwn ==
    ASSUME NEW ms, NEW out, NEW r, SentFrom(ms, out, r), Own(ms)
    PROVE  Own(out) /\ Current(out, r)
<1>1. out[Len(out)] = createLoadingAssistantMessage(r) /\ out \in Seq(Message) /\ out # <<>>
  BY DEF SentFrom
<1>2. Current(out, r) BY <1>1 DEF Current, createLoadingAssistantMessage
<1> SUFFICES ASSUME NEW i \in DOMAIN out, out[i].from = "assistant"
             PROVE  out[i].text \subseteq {0, out[i].req}
  BY <1>2 DEF Own
<1>3. CASE i = Len(out) BY <1>1, <1>3 DEF createLoadingAssistantMessage
<1>4. CASE i < Len(out)
  <2>1. out[i] # createUserMessage(r) BY DEF createUserMessage
  <2>2. PICK j \in DOMAIN ms : /\ out[i].from = ms[j].from /\ out[i].req = ms[j].req
                               /\ out[i].text = ms[j].text \/ out[i].text = {0}
    BY <1>4, <2>1 DEF SentFrom
  <2> QED BY <2>2 DEF Own
<1>5. i \in 1..Len(out) BY <1>1
<1> QED BY <1>3, <1>4, <1>5

LEMMA RenderedShown ==
    ASSUME messages' \in Seq(Message), shown'.msgs = messages'
    PROVE  ShownInv'
BY DEF ShownInv

LEMMA SendOwn ==
    ASSUME ConnAll, OwnInv, EndInv, page = "open", sent < MaxRequests, NEW next,
           SentFrom(shown.msgs, next, sent + 1), sendChat(next),
           ~stale /\ shown.msgs = messages => PendingIsLast(next)
    PROVE  OwnInv' /\ EndInv' /\ ShownInv'
<1>0. next \in Seq(Message) BY DEF SentFrom
<1>1. /\ sent + 1 \in Request
      /\ Touched(next, messages', pending \cup {sent + 1})
      /\ ~StreamThrew(next) => messages' = next
      /\ StreamThrew(next) => LastEnded(messages')
  BY <1>0, SendMessages
<1>2. /\ early' = (early \/ Generating) /\ stale' = (stale \/ shown.msgs # messages)
      /\ shown'.msgs = messages' /\ stored' = stored /\ sent' = sent + 1
  BY DEF sendChat, Rendered
<1>3. messages' \in Seq(Message) BY <1>1 DEF Touched
<1>4. OwnInv'
  <2> SUFFICES ASSUME ~early'
               PROVE  Own(messages') /\ Own(stored') /\ Current(messages', sent')
    BY <1>2 DEF OwnInv
  <2>1. ~early /\ ~Generating BY <1>2
  <2>2. pending = {} BY <2>1 DEF Generating, ConnAll, ConnInv
  <2>3. Own(next) /\ Current(next, sent + 1) BY <2>1, SentOwn DEF OwnInv
  <2>4. pending \cup {sent + 1} \subseteq {next[Len(next)].req} BY <2>2, <2>3 DEF Current
  <2>5. Own(messages') BY <1>0, <1>1, <2>3, <2>4, OwnTouched
  <2>6. Current(messages', sent + 1) BY <1>0, <1>1, <2>3, CurrentTouched
  <2>7. Own(stored') BY <1>2, <2>1 DEF OwnInv
  <2> QED BY <1>2, <2>5, <2>6, <2>7
<1>5. EndInv'
  <2> SUFFICES ASSUME ~stale'
               PROVE  /\ PendingIsLast(messages') /\ PendingIsLast(stored')
                      /\ ~Generating' => NonePending(messages')
    BY <1>2 DEF EndInv
  <2>1. ~stale /\ shown.msgs = messages BY <1>2
  <2>2. PendingIsLast(messages') BY <1>0, <1>1, <2>1, PendingTouched
  <2>3. PendingIsLast(stored') BY <1>2, <2>1 DEF EndInv
  <2>4. ASSUME ~Generating' PROVE NonePending(messages')
    <3>1. StreamThrew(next) BY <2>4, SendCases DEF StreamSent, FetchSent, Generating
    <3> QED BY <1>1, <1>3, <2>2, <3>1, EndedNonePending
  <2> QED BY <2>2, <2>3, <2>4
<1>6. ShownInv' BY <1>2, <1>3, RenderedShown
<1> QED BY <1>4, <1>5, <1>6

-----------------------------------------------------------------------------
\* A step that leaves the connections alone and renders.
LEMMA RerenderConn ==
    ASSUME ConnAll, page = "open", UNCHANGED <<stream, conn, page, leaves, early, stopped>>,
           shown' = [msgs |-> messages', generating |-> Generating], messages' \in Seq(Message),
           editing' \in {<<>>} \cup ({"user", "assistant"} \X (0..MaxRequests)),
           stored' = stored, saveTimer' \in BOOLEAN, stale' \in BOOLEAN
    PROVE  ConnAll'
<1>1. shown' \in [msgs : Seq(Message), generating : BOOLEAN] /\ shown'.generating = Generating
  <2>1. Generating \in BOOLEAN BY DEF Generating
  <2> QED BY <2>1
<1>2. TypeOK' BY <1>1 DEF ConnAll, TypeOK, conn
<1>3. ConnInv' /\ StreamInv' /\ FetchInv' /\ CalmInv'
  BY <1>1 DEF ConnAll, ConnInv, StreamInv, FetchInv, CalmInv, conn, Generating
<1>4. LoadingInv' BY DEF LoadingInv
<1> QED BY <1>2, <1>3, <1>4 DEF ConnAll

\* One lemma per remaining action of the page.
LEMMA RenderKeeps ==
    ASSUME PInv, Render
    PROVE  PInv'
<1>0. ConnAll /\ OwnInv /\ EndInv /\ messages \in Seq(Message) BY DEF PInv, ConnAll, TypeOK
<1>1. /\ page = "open" /\ shown' = [msgs |-> messages', generating |-> Generating]
      /\ UNCHANGED <<stream, messages, editing, conn, page, stored, leaves, early, stale, stopped>>
  BY DEF Render, hist
<1>2. saveTimer' \in BOOLEAN BY DEF Render
<1>3. ConnAll' BY <1>0, <1>1, <1>2, RerenderConn DEF ConnAll, TypeOK
<1>4. shown'.msgs = messages' /\ Generating' = Generating /\ sent' = sent BY <1>1 DEF Generating, conn
<1>5. OwnInv' BY <1>0, <1>1, <1>4 DEF OwnInv
<1>6. EndInv' BY <1>0, <1>1, <1>4 DEF EndInv
<1>7. ShownInv' BY <1>0, <1>1, <1>4, RenderedShown
<1> QED BY <1>3, <1>5, <1>6, <1>7 DEF PInv, ConnAll

LEMMA EditorKeeps ==
    ASSUME PInv, UNCHANGED <<stream, messages, shown, conn, disk, hist>>,
           editing' \in {<<>>} \cup ({"user", "assistant"} \X (0..MaxRequests))
    PROVE  PInv'
<1>1. TypeOK' BY DEF PInv, TypeOK, conn, disk, hist
<1>2. LoadingInv' BY DEF PInv, LoadingInv, conn, disk
<1>3. ConnInv' /\ StreamInv' /\ FetchInv' /\ CalmInv'
  BY DEF PInv, ConnInv, StreamInv, FetchInv, CalmInv, conn, disk, hist, Generating
<1>4. OwnInv' /\ EndInv' /\ ShownInv'
  BY DEF PInv, OwnInv, EndInv, ShownInv, conn, disk, hist, Generating
<1> QED BY <1>1, <1>2, <1>3, <1>4 DEF PInv

LEMMA SaveTimerKeeps ==
    ASSUME PInv, SaveTimer
    PROVE  PInv'
<1>0. UNCHANGED <<stream, messages, shown, editing, conn, page, leaves, hist>> /\ saveTimer' = FALSE
  BY DEF SaveTimer
<1>1. shown.msgs \in Seq(Message) /\ MaxStored \in Nat \ {0}
  BY PlaygroundAssumption DEF PInv, TypeOK
<1>2. stored' = LastOf(shown.msgs, MaxStored) BY DEF SaveTimer, saveMessages
<1>3. stored' \in Seq(Message) /\ Len(stored') <= MaxStored BY <1>1, <1>2, LastOfMessages
<1>4. /\ Own(shown.msgs) => Own(stored')
      /\ PendingIsLast(shown.msgs) => PendingIsLast(stored')
  BY <1>1, <1>2, LastOfKeeps
<1>5. TypeOK' BY <1>0, <1>3 DEF PInv, TypeOK, conn, hist
<1>6. LoadingInv' BY <1>0 DEF PInv, LoadingInv, conn
<1>7. ConnInv' /\ StreamInv' /\ FetchInv' /\ CalmInv'
  BY <1>0 DEF PInv, ConnInv, StreamInv, FetchInv, CalmInv, conn, hist, Generating
<1>8. OwnInv' BY <1>0, <1>4 DEF PInv, OwnInv, conn, hist, Generating
<1>9. EndInv' BY <1>0, <1>4 DEF PInv, EndInv, conn, hist, Generating
<1>10. ShownInv' BY <1>0 DEF PInv, ShownInv, hist
<1> QED BY <1>5, <1>6, <1>7, <1>8, <1>9, <1>10 DEF PInv

\* Saving an edit; the answer in progress keeps its place.
LEMMA EditSaveKeeps ==
    ASSUME PInv, NEW i \in DOMAIN shown.msgs, applyEdit(i, FALSE)
    PROVE  PInv'
<1>0. ConnAll /\ OwnInv /\ EndInv /\ shown.msgs \in Seq(Message) BY DEF PInv, ConnAll, TypeOK
<1>1. /\ page = "open" /\ editing' = <<>> /\ messages' = Edited(i)
      /\ stale' = (stale \/ shown.msgs # messages)
      /\ UNCHANGED <<stream, conn, page, leaves, early, stopped, stored>> /\ saveTimer' = TRUE
  BY DEF applyEdit, Rendered
<1>2. shown' = [msgs |-> messages', generating |-> Generating]
  BY DEF applyEdit, Rendered, conn, Generating
<1>3. /\ messages' \in Seq(Message) /\ Len(messages') = Len(shown.msgs)
      /\ DOMAIN messages' = DOMAIN shown.msgs
      /\ \A j \in DOMAIN shown.msgs :
            /\ j # i => messages'[j] = shown.msgs[j]
            /\ messages'[j].from = shown.msgs[j].from
            /\ messages'[j].req = shown.msgs[j].req
            /\ messages'[j].status = shown.msgs[j].status
      /\ messages'[i].text = {0}
  BY <1>0, <1>1, EditedMessages
<1>4. ConnAll'
  <2>1. stale' \in BOOLEAN BY <1>1
  <2> QED BY <1>0, <1>1, <1>2, <1>3, <2>1, RerenderConn
<1>5. shown'.msgs = messages' /\ Generating' = Generating /\ sent' = sent BY <1>1, <1>2 DEF Generating, conn
<1>6. OwnInv'
  <2> SUFFICES ASSUME ~early
               PROVE  Own(messages') /\ (Generating => Current(messages', sent))
    BY <1>0, <1>1, <1>5 DEF OwnInv
  <2>1. Own(messages') BY <1>0, <1>3 DEF OwnInv, Own
  <2>2. ASSUME Generating PROVE Current(messages', sent)
    <3>1. Current(shown.msgs, sent) BY <1>0, <2>2 DEF OwnInv
    <3>2. Len(shown.msgs) \in DOMAIN shown.msgs BY <1>0, <3>1 DEF Current
    <3> QED BY <1>3, <3>1, <3>2 DEF Current
  <2> QED BY <2>1, <2>2
<1>7. EndInv'
  <2> SUFFICES ASSUME ~stale, shown.msgs = messages
               PROVE  PendingIsLast(messages') /\ (~Generating => NonePending(messages'))
    BY <1>0, <1>1, <1>5 DEF EndInv
  <2>1. PendingIsLast(messages') BY <1>0, <1>3 DEF EndInv, PendingIsLast, isAssistantMessagePending
  <2>2. ~Generating => NonePending(messages')
    BY <1>0, <1>3 DEF EndInv, NonePending, isAssistantMessagePending
  <2> QED BY <2>1, <2>2
<1>8. ShownInv' BY <1>3, <1>5, RenderedShown
<1> QED BY <1>4, <1>6, <1>7, <1>8 DEF PInv, ConnAll

\* Deleting a message and clearing the conversation: nothing is generated, and what
\* is left was there before.
LEMMA DeleteKeeps ==
    ASSUME PInv, handleClearMessages \/ \E i \in DOMAIN shown.msgs : handleDeleteMessage(i)
    PROVE  /\ PInv'
           /\ \A n \in DOMAIN messages' : \E j \in DOMAIN messages : messages'[n] = messages[j]
<1>0. /\ ConnAll /\ OwnInv /\ EndInv /\ messages \in Seq(Message)
      /\ editing \in {<<>>} \cup ({"user", "assistant"} \X (0..MaxRequests))
  BY DEF PInv, ConnAll, TypeOK
<1>1. /\ page = "open" /\ ~shown.generating /\ editing' \in {<<>>, editing}
      /\ UNCHANGED <<stream, conn, page, leaves, early, stale, stopped, stored>> /\ saveTimer' = TRUE
  BY DEF handleClearMessages, handleDeleteMessage, Rendered, hist
<1>2. shown' = [msgs |-> messages', generating |-> Generating]
  BY DEF handleClearMessages, handleDeleteMessage, Rendered, conn, Generating
<1>3. /\ messages' \in Seq(Message)
      /\ \A n \in DOMAIN messages' : \E j \in DOMAIN messages : messages'[n] = messages[j]
  <2>1. CASE handleClearMessages
    <3>1. messages' = <<>> BY <2>1 DEF handleClearMessages
    <3> QED BY <3>1
  <2>2. ASSUME NEW i \in DOMAIN shown.msgs, handleDeleteMessage(i)
        PROVE  /\ messages' \in Seq(Message)
               /\ \A n \in DOMAIN messages' : \E j \in DOMAIN messages : messages'[n] = messages[j]
    <3>1. messages' = Without(messages, Key(shown.msgs[i])) BY <2>2 DEF handleDeleteMessage
    <3> QED BY <1>0, <3>1, WithoutMessages
  <2> QED BY <2>1, <2>2
<1>4. ConnAll'
  <2>1. editing' \in {<<>>} \cup ({"user", "assistant"} \X (0..MaxRequests)) BY <1>0, <1>1
  <2>2. stale' \in BOOLEAN BY <1>1 DEF PInv, TypeOK
  <2> QED BY <1>0, <1>1, <1>2, <1>3, <2>1, <2>2, RerenderConn
<1>5. ~Generating /\ ~Generating' BY <1>1 DEF PInv, ConnInv, Generating, conn
<1>6. shown'.msgs = messages' BY <1>2
<1>7. OwnInv' BY <1>0, <1>1, <1>3, <1>5, <1>6 DEF OwnInv, Own
<1>8. EndInv'
  <2> SUFFICES ASSUME ~stale PROVE NonePending(messages')
    BY <1>0, <1>1, <1>6, NoneIsLast DEF EndInv
  <2>1. NonePending(messages) BY <1>0, <1>5 DEF EndInv
  <2> QED BY <1>3, <2>1 DEF NonePending
<1>9. ShownInv' BY <1>3, <1>6, RenderedShown
<1> QED BY <1>3, <1>4, <1>7, <1>8, <1>9 DEF PInv, ConnAll

LEMMA StopKeeps ==
    ASSUME PInv, stopGeneration
    PROVE  /\ PInv' /\ Touched(messages, messages', pending)
<1>0. ConnAll /\ OwnInv /\ EndInv /\ messages \in Seq(Message) /\ pending \subseteq Request
  BY DEF PInv, ConnAll, TypeOK
<1>1. /\ page = "open" /\ sseSource' = 0 /\ streaming' = FALSE /\ abortCtl' = 0
      /\ requesting' = FALSE /\ messages' = Stopped(messages) /\ pending' = {}
      /\ stopped' = stopped \cup InProgress /\ saveTimer' = TRUE
      /\ UNCHANGED <<streamComplete, requestId, sent, editing, early, stale, stream, page, stored, leaves>>
  BY DEF stopGeneration, Rendered, EmptyBuffer
<1>2. shown' = [msgs |-> messages', generating |-> FALSE]
  <2>1. (streaming' \/ requesting') = FALSE BY <1>1
  <2> QED BY <2>1 DEF stopGeneration, Rendered
<1>3. Touched(messages, messages', pending) /\ LastEnded(messages') BY <1>0, <1>1, StoppedMessages
<1>4. messages' \in Seq(Message) BY <1>3 DEF Touched
<1>5. /\ net' \in [Request -> {"none", "stream", "fetch", "aborted", "over"}]
      /\ \A r \in Request : net'[r] = IF r = sseSource THEN "over"
                                      ELSE IF r = abortCtl /\ net[r] = "fetch" THEN "aborted" ELSE net[r]
  BY DEF PInv, TypeOK, stopGeneration
<1>6. InProgress \subseteq Request BY DEF InProgress
<1>7. TypeOK'
  <2>1. shown' \in [msgs : Seq(Message), generating : BOOLEAN] BY <1>2, <1>4
  <2>2. 0 \in 0..MaxRequests BY PlaygroundAssumption
  <2> QED BY <1>1, <1>4, <1>5, <1>6, <2>1, <2>2 DEF PInv, TypeOK
<1>8. ConnInv'
  <2>1. \A r \in Request : r > sent => net'[r] = "none"
    BY <1>5 DEF PInv, ConnInv, TypeOK, Request
  <2>2. \A r \in stopped' : r <= sent
    <3> SUFFICES ASSUME NEW r \in stopped' PROVE r <= sent OBVIOUS
    <3>1. CASE r \in stopped BY <3>1 DEF PInv, ConnInv
    <3>2. CASE r \in InProgress
      <4>1. r \in Request /\ net[r] # "none" BY <3>2 DEF InProgress
      <4>2. ~(r > sent) BY <4>1 DEF PInv, ConnInv
      <4> QED BY <4>1, <4>2 DEF PInv, TypeOK, Request
    <3> QED BY <1>1, <3>1, <3>2
  <2> QED BY <1>1, <2>1, <2>2 DEF PInv, ConnInv, Generating
<1>9. StreamInv' BY <1>1, <1>5 DEF PInv, StreamInv
<1>10. FetchInv' BY <1>1, <1>5 DEF PInv, FetchInv
<1>11. CalmInv'
  <2> SUFFICES ASSUME ~early PROVE \A r \in Request : net'[r] # "fetch"
    BY <1>1 DEF CalmInv, Generating
  <2> SUFFICES ASSUME NEW r \in Request, net'[r] = "fetch" PROVE FALSE OBVIOUS
  <2>1. net[r] = "fetch" /\ r # abortCtl BY <1>5
  <2>2. ~stream BY <2>1 DEF PInv, StreamInv
  <2>3. r = sent /\ requesting BY <2>1 DEF PInv, CalmInv
  <2> QED BY <2>1, <2>2, <2>3 DEF PInv, CalmInv
<1>12. LoadingInv' BY <1>1 DEF LoadingInv
<1>13. ~Generating' /\ shown'.msgs = messages' BY <1>1, <1>2 DEF Generating
<1>14. OwnInv'
  <2> SUFFICES ASSUME ~early PROVE Own(messages') BY <1>0, <1>1, <1>13 DEF OwnInv
  <2>1. CASE pending = {}
    <3>1. pending \subseteq {messages[Len(messages)].req} BY <2>1
    <3> QED BY <1>0, <1>3, <3>1, OwnTouched DEF OwnInv
  <2>2. CASE pending # {}
    <3>1. Generating BY <2>2 DEF PInv, ConnInv, Generating
    <3>2. pending \subseteq {sent} /\ Current(messages, sent) BY <3>1 DEF PInv, CalmInv, OwnInv
    <3>3. pending \subseteq {messages[Len(messages)].req} BY <3>2 DEF Current
    <3> QED BY <1>0, <1>3, <3>3, OwnTouched DEF OwnInv
  <2> QED BY <2>1, <2>2
<1>15. EndInv'
  <2> SUFFICES ASSUME ~stale PROVE NonePending(messages')
    BY <1>0, <1>1, <1>13, NoneIsLast DEF EndInv
  <2>1. PendingIsLast(messages') BY <1>0, <1>3, PendingTouched DEF EndInv
  <2> QED BY <1>3, <1>4, <2>1, EndedNonePending
<1>16. ShownInv' BY <1>4, <1>13, RenderedShown
<1> QED BY <1>3, <1>7, <1>8, <1>9, <1>10, <1>11, <1>12, <1>14, <1>15, <1>16 DEF PInv

LEMMA LoadKeeps ==
    ASSUME PInv, Load
    PROVE  PInv'
<1>0. /\ page = "loading" /\ page' = "open" /\ messages' = loadMessages /\ stored' = loadMessages
      /\ shown' = [shown EXCEPT !.msgs = loadMessages]
      /\ UNCHANGED <<stream, editing, conn, saveTimer, leaves, early, stale, stopped>>
  BY DEF Load, hist
<1>1. /\ loadMessages \in Seq(Message) /\ Len(loadMessages) <= MaxStored
      /\ Own(stored) => Own(loadMessages)
      /\ PendingIsLast(stored) => NonePending(loadMessages)
  BY LoadedMessages DEF PInv, TypeOK
<1>2. ~streaming /\ ~requesting /\ shown = [msgs |-> <<>>, generating |-> FALSE] BY <1>0 DEF PInv, LoadingInv
<1>3. shown' = [msgs |-> loadMessages, generating |-> FALSE] BY <1>0, <1>2
<1>4. TypeOK' BY <1>0, <1>1, <1>3 DEF PInv, TypeOK, conn
<1>5. ~Generating /\ ~Generating' BY <1>0, <1>2 DEF Generating, conn
<1>6. ConnInv' /\ StreamInv' /\ FetchInv' /\ CalmInv'
  BY <1>0, <1>5 DEF PInv, ConnInv, StreamInv, FetchInv, CalmInv, conn, Generating
<1>7. LoadingInv' BY <1>0 DEF LoadingInv
<1>8. shown'.msgs = messages' BY <1>0, <1>3
<1>9. OwnInv' BY <1>0, <1>1, <1>5, <1>8 DEF PInv, OwnInv
<1>10. EndInv' BY <1>0, <1>1, <1>5, <1>8, NoneIsLast DEF PInv, EndInv
<1>11. messages' \in Seq(Message) BY <1>0, <1>1
<1>12. ShownInv' BY <1>8, <1>11, RenderedShown
<1> QED BY <1>4, <1>6, <1>7, <1>9, <1>10, <1>12 DEF PInv

LEMMA LeaveKeeps ==
    ASSUME PInv, NEW clean \in BOOLEAN, Leave(clean)
    PROVE  PInv'
<1>0. /\ page' = "loading" /\ messages' = <<>> /\ editing' = <<>> /\ sseSource' = 0
      /\ shown' = [msgs |-> <<>>, generating |-> FALSE] /\ streamComplete' = FALSE
      /\ streaming' = FALSE /\ requesting' = FALSE /\ requestId' = 0 /\ abortCtl' = 0
      /\ pending' = {} /\ saveTimer' = FALSE
      /\ UNCHANGED <<stream, sent, early, stale, stopped>>
  BY DEF Leave, hist
<1>1. leaves' \in 0..MaxLeaves BY PlaygroundAssumption DEF PInv, TypeOK, Leave
<1>2. shown.msgs \in Seq(Message) /\ MaxStored \in Nat \ {0} /\ stored \in Seq(Message) /\ Len(stored) <= MaxStored
  BY PlaygroundAssumption DEF PInv, TypeOK
<1>3. stored' \in {stored, LastOf(shown.msgs, MaxStored)} BY DEF Leave, saveMessages
<1>4. LastOf(shown.msgs, MaxStored) \in Seq(Message) /\ Len(LastOf(shown.msgs, MaxStored)) <= MaxStored
  BY <1>2, LastOfMessages
<1>5. /\ Own(shown.msgs) => Own(LastOf(shown.msgs, MaxStored))
      /\ PendingIsLast(shown.msgs) => PendingIsLast(LastOf(shown.msgs, MaxStored))
  BY <1>2, LastOfKeeps
<1>6. /\ net' \in [Request -> {"none", "stream", "fetch", "aborted", "over"}]
      /\ \A r \in Request : net'[r] = IF net[r] = "none" THEN "none" ELSE "over"
  BY DEF PInv, TypeOK, Leave
<1>7. TypeOK'
  <2>1. stored' \in Seq(Message) /\ Len(stored') <= MaxStored BY <1>2, <1>3, <1>4
  <2>2. <<>> \in Seq(Message) /\ 0 \in 0..MaxRequests /\ {} \subseteq Request BY PlaygroundAssumption
  <2>3. shown' \in [msgs : Seq(Message), generating : BOOLEAN] BY <1>0, <2>2
  <2> QED BY <1>0, <1>1, <1>6, <2>1, <2>2, <2>3 DEF PInv, TypeOK
<1>8. LoadingInv' BY <1>0, <1>6 DEF LoadingInv
<1>9. ConnInv'
  <2>1. \A r \in Request : r > sent => net'[r] = "none" BY <1>6 DEF PInv, ConnInv
  <2>2. 0 <= sent BY DEF PInv, TypeOK
  <2> QED BY <1>0, <2>1, <2>2 DEF PInv, ConnInv, Generating
<1>10. StreamInv' /\ FetchInv' /\ CalmInv'
  BY <1>0, <1>6 DEF PInv, StreamInv, FetchInv, CalmInv, Generating
<1>11. OwnInv'
  <2>1. Own(<<>>) BY DEF Own
  <2> QED BY <1>0, <1>3, <1>5, <2>1 DEF PInv, OwnInv, Generating
<1>12. EndInv'
  <2>1. PendingIsLast(<<>>) /\ NonePending(<<>>) BY DEF PendingIsLast, NonePending
  <2> QED BY <1>0, <1>3, <1>5, <2>1 DEF PInv, EndInv
<1>13. ShownInv' BY <1>0 DEF ShownInv
<1> QED BY <1>7, <1>8, <1>9, <1>10, <1>11, <1>12, <1>13 DEF PInv

-----------------------------------------------------------------------------
\* The handlers that send a request: what they send, and what of it is pending.
SendsFrom(next) ==
    /\ page = "open" /\ sent < MaxRequests /\ sendChat(next)
    /\ SentFrom(shown.msgs, next, sent + 1)
    /\ ~stale /\ shown.msgs = messages => PendingIsLast(next)
    /\ editing' \in {<<>>} \cup ({"user", "assistant"} \X (0..MaxRequests))

LEMMA SendsFromKeeps ==
    ASSUME PInv, NEW next, SendsFrom(next)
    PROVE  PInv'
<1>0. ConnAll /\ OwnInv /\ EndInv /\ next \in Seq(Message) BY DEF PInv, ConnAll, SendsFrom, SentFrom
<1>1. TypeOK' BY <1>0, SendTypes DEF SendsFrom
<1>2. ConnInv' /\ StreamInv' /\ FetchInv' /\ CalmInv' /\ LoadingInv' BY <1>0, SendConn DEF SendsFrom
<1>3. OwnInv' /\ EndInv' /\ ShownInv' BY <1>0, SendOwn DEF SendsFrom
<1> QED BY <1>1, <1>2, <1>3 DEF PInv

LEMMA IdleNonePending ==
    ASSUME PInv, page = "open", ~shown.generating, ~stale
    PROVE  NonePending(messages)
<1>1. ~Generating BY DEF PInv, ConnInv, Generating
<1> QED BY <1>1 DEF PInv, EndInv

\* Sending, regenerating and editing with a new answer all send from what is shown.
LEMMA SendHandlers ==
    ASSUME PInv,
           \/ handleSendMessage
           \/ \E i \in DOMAIN shown.msgs : handleRegenerateMessage(i)
           \/ \E i \in DOMAIN shown.msgs : applyEdit(i, TRUE)
    PROVE  \E next : SendsFrom(next)
<1>0. /\ shown.msgs \in Seq(Message) /\ sent \in Nat
      /\ editing \in {<<>>} \cup ({"user", "assistant"} \X (0..MaxRequests))
  BY DEF PInv, TypeOK
<1>1. page = "open" /\ sent < MaxRequests
  BY DEF handleSendMessage, handleRegenerateMessage, applyEdit, CanSend
<1>2. sent + 1 \in 0..MaxRequests BY <1>1, NextRequest DEF PInv
<1>3. CASE handleSendMessage
  <2> DEFINE next == shown.msgs \o <<createUserMessage(sent + 1), createLoadingAssistantMessage(sent + 1)>>
  <2>1. SentFrom(shown.msgs, next, sent + 1) /\ (NonePending(shown.msgs) => PendingIsLast(next))
    BY <1>0, <1>2, SendBuild
  <2>2. sendChat(next) /\ editing' = editing /\ (~shown.generating \/ shown.msgs = <<>>)
    BY <1>3 DEF handleSendMessage
  <2> HIDE DEF next
  <2>3. ASSUME ~stale, shown.msgs = messages PROVE PendingIsLast(next)
    <3>1. NonePending(<<>>) BY DEF NonePending
    <3>2. NonePending(messages) BY <1>1, <2>2, <2>3, <3>1, IdleNonePending
    <3> QED BY <2>1, <2>3, <3>2
  <2> QED BY <1>0, <1>1, <2>1, <2>2, <2>3 DEF SendsFrom
<1>4. ASSUME NEW i \in DOMAIN shown.msgs, handleRegenerateMessage(i)
      PROVE  \E next : SendsFrom(next)
  <2> DEFINE k == IF shown.msgs[i].from = "user" THEN i ELSE i - 1
             next == createRegeneratedMessages(shown.msgs, i, sent + 1)
  <2>1. k \in 0..Len(shown.msgs) BY <1>0
  <2>2. next = Append(SubSeq(shown.msgs, 1, k), createLoadingAssistantMessage(sent + 1))
    BY DEF createRegeneratedMessages
  <2>3. sendChat(next) /\ editing' = editing /\ ~shown.generating BY <1>4 DEF handleRegenerateMessage
  <2> HIDE DEF k, next
  <2>4. SentFrom(shown.msgs, next, sent + 1) BY <1>0, <1>2, <2>1, <2>2, PrefixBuild
  <2>5. ASSUME ~stale, shown.msgs = messages PROVE PendingIsLast(next)
    <3>1. NonePending(shown.msgs) BY <1>1, <2>3, <2>5, IdleNonePending
    <3>2. \A j \in 1..k : ~isAssistantMessagePending(shown.msgs[j]) BY <1>0, <2>1, <3>1 DEF NonePending
    <3> QED BY <1>0, <1>2, <2>1, <2>2, <3>2, PrefixBuild
  <2> QED BY <1>0, <1>1, <2>3, <2>4, <2>5 DEF SendsFrom
<1>5. ASSUME NEW i \in DOMAIN shown.msgs, applyEdit(i, TRUE)
      PROVE  \E next : SendsFrom(next)
  <2> DEFINE ed == Edited(i)
             next == Append(SubSeq(ed, 1, i), createLoadingAssistantMessage(sent + 1))
  <2>1. sendChat(next) /\ editing' = <<>> /\ shown.msgs[i].from = "user" BY <1>5 DEF applyEdit
  <2>2. /\ ed \in Seq(Message) /\ Len(ed) = Len(shown.msgs) /\ DOMAIN ed = DOMAIN shown.msgs
        /\ \A j \in DOMAIN shown.msgs :
              /\ j # i => ed[j] = shown.msgs[j]
              /\ ed[j].from = shown.msgs[j].from /\ ed[j].req = shown.msgs[j].req
              /\ ed[j].status = shown.msgs[j].status
        /\ ed[i].text = {0}
    BY <1>0, EditedMessages
  <2> HIDE DEF ed
  <2>3. i \in 0..Len(ed) /\ 1..i \subseteq DOMAIN shown.msgs BY <1>0, <2>2
  <2>4. next = Append(SubSeq(ed, 1, i), createLoadingAssistantMessage(sent + 1)) OBVIOUS
  <2> HIDE DEF next
  <2>5. SentFrom(ed, next, sent + 1) BY <1>2, <2>2, <2>3, <2>4, PrefixBuild
  <2>6. SentFrom(shown.msgs, next, sent + 1) BY <2>2, <2>5 DEF SentFrom
  <2>7. ASSUME ~stale, shown.msgs = messages PROVE PendingIsLast(next)
    <3>1. PendingIsLast(shown.msgs) BY <2>7 DEF PInv, EndInv
    <3>2. ASSUME NEW j \in 1..i PROVE ~isAssistantMessagePending(ed[j])
      <4>1. j \in DOMAIN shown.msgs BY <2>3
      <4>2. isAssistantMessagePending(ed[j]) => isAssistantMessagePending(shown.msgs[j])
        BY <2>2, <4>1 DEF isAssistantMessagePending
      <4>3. ~isAssistantMessagePending(shown.msgs[j])
        BY <1>0, <2>1, <2>2, <2>3, <3>1, <4>1 DEF PendingIsLast
      <4> QED BY <4>2, <4>3
    <3> QED BY <1>2, <2>2, <2>3, <2>4, <3>2, PrefixBuild
  <2> QED BY <1>0, <1>1, <2>1, <2>6, <2>7 DEF SendsFrom
<1> QED BY <1>3, <1>4, <1>5

-----------------------------------------------------------------------------
\* The invariant holds at first and is kept by every step.
LEMMA PlaygroundInitInv == Init => PInv
<1> SUFFICES ASSUME Init PROVE PInv OBVIOUS
<1>0. 0 \in 0..MaxRequests /\ 0 \in 0..MaxLeaves /\ MaxStored \in Nat \ {0} BY PlaygroundAssumption
<1>1. stored \in Seq(Message) /\ Own(stored) /\ NonePending(stored) /\ Len(stored) = 2
  <2> DEFINE u == [from |-> "user", req |-> 0, status |-> "none", text |-> {0}]
             a == [from |-> "assistant", req |-> 0, status |-> "complete", text |-> {0}]
  <2>1. u \in Message /\ a \in Message BY <1>0 DEF Message
  <2>2. stored = <<u, a>> BY DEF Init, Earlier
  <2>3. u.from = "user" /\ u.status = "none" /\ a.status = "complete" /\ a.text = {0} OBVIOUS
  <2> HIDE DEF u, a
  <2>4. stored \in Seq(Message) /\ DOMAIN stored = 1..2 /\ stored[1] = u /\ stored[2] = a /\ Len(stored) = 2
    BY <2>1, <2>2
  <2>5. Own(stored) BY <2>3, <2>4 DEF Own
  <2>6. NonePending(stored) BY <2>3, <2>4 DEF NonePending, isAssistantMessagePending
  <2> QED BY <2>4, <2>5, <2>6
<1>2. TypeOK
  <2>1. Len(stored) <= MaxStored BY <1>1, PlaygroundAssumption
  <2>2. shown \in [msgs : Seq(Message), generating : BOOLEAN] /\ messages \in Seq(Message) BY DEF Init
  <2>3. net \in [Request -> {"none", "stream", "fetch", "aborted", "over"}] BY DEF Init
  <2>4. /\ editing \in {<<>>} \cup ({"user", "assistant"} \X (0..MaxRequests))
        /\ page \in {"open", "loading"}
    BY DEF Init
  <2>5. /\ stream \in BOOLEAN /\ streamComplete \in BOOLEAN /\ streaming \in BOOLEAN
        /\ requesting \in BOOLEAN /\ saveTimer \in BOOLEAN /\ early \in BOOLEAN /\ stale \in BOOLEAN
    BY DEF Init
  <2> QED BY <1>0, <1>1, <2>1, <2>2, <2>3, <2>4, <2>5 DEF Init, TypeOK
<1>3. LoadingInv BY DEF Init, LoadingInv
<1>4. ConnInv /\ StreamInv /\ FetchInv /\ CalmInv
  BY DEF Init, ConnInv, StreamInv, FetchInv, CalmInv, Generating
<1>5. Own(<<>>) /\ NonePending(<<>>) BY DEF Own, NonePending
<1>6. messages = <<>> /\ shown.msgs = <<>> /\ ~Generating BY DEF Init, Generating
<1>7. OwnInv BY <1>1, <1>5, <1>6 DEF OwnInv
<1>8. EndInv BY <1>1, <1>5, <1>6, NoneIsLast DEF EndInv
<1>9. ShownInv BY DEF Init, ShownInv
<1> QED BY <1>2, <1>3, <1>4, <1>7, <1>8, <1>9 DEF PInv

LEMMA UserKeeps ==
    ASSUME PInv, User
    PROVE  PInv'
<1>0. /\ shown.msgs \in Seq(Message) BY DEF PInv, TypeOK
<1>1. CASE handleSendMessage BY <1>1, SendHandlers, SendsFromKeeps
<1>2. CASE stopGeneration BY <1>2, StopKeeps
<1>3. CASE handleClearMessages BY <1>3, DeleteKeeps
<1>4. CASE handleEditOpenChange BY <1>4, EditorKeeps DEF handleEditOpenChange
<1>5. ASSUME NEW i \in DOMAIN shown.msgs, handleRegenerateMessage(i) PROVE PInv'
  BY <1>5, SendHandlers, SendsFromKeeps
<1>6. ASSUME NEW i \in DOMAIN shown.msgs, handleEditMessage(i) PROVE PInv'
  <2>1. shown.msgs[i] \in Message BY <1>0
  <2>2. editing' = <<shown.msgs[i].from, shown.msgs[i].req>> BY <1>6 DEF handleEditMessage, Key
  <2>3. shown.msgs[i].from \in {"user", "assistant"} /\ shown.msgs[i].req \in 0..MaxRequests
    BY <2>1 DEF Message
  <2>4. editing' \in {"user", "assistant"} \X (0..MaxRequests) BY <2>2, <2>3
  <2> QED BY <1>6, <2>4, EditorKeeps DEF handleEditMessage
<1>7. ASSUME NEW i \in DOMAIN shown.msgs, handleDeleteMessage(i) PROVE PInv' BY <1>7, DeleteKeeps
<1>8. ASSUME NEW i \in DOMAIN shown.msgs, NEW submit \in BOOLEAN, applyEdit(i, submit) PROVE PInv'
  <2>1. CASE submit = TRUE
    <3>1. applyEdit(i, TRUE) BY <1>8, <2>1
    <3> QED BY <3>1, SendHandlers, SendsFromKeeps
  <2>2. CASE submit = FALSE
    <3>1. applyEdit(i, FALSE) BY <1>8, <2>2
    <3> QED BY <3>1, EditSaveKeeps
  <2> QED BY <2>1, <2>2
<1> QED BY <1>1, <1>2, <1>3, <1>4, <1>5, <1>6, <1>7, <1>8 DEF User

LEMMA PlaygroundNextInv == PInv /\ [Next]_vars => PInv'
<1> SUFFICES ASSUME PInv, [Next]_vars PROVE PInv' OBVIOUS
<1>0. ConnAll /\ OwnInv /\ EndInv /\ ShownInv BY DEF PInv, ConnAll
<1>1. CASE UNCHANGED vars
  <2>1. editing' \in {<<>>} \cup ({"user", "assistant"} \X (0..MaxRequests)) BY <1>1 DEF vars, PInv, TypeOK
  <2> QED BY <1>1, <2>1, EditorKeeps DEF vars
<1>2. CASE FlushTimer \/ \E r \in Request : Network(r)
  <2>1. ConnAll' BY <1>0, <1>2, NetworkConn
  <2>2. NetworkWrites BY <1>0, <1>2, NetworkEffect
  <2>3. page = "open" BY <1>0, <1>2, NetworkIsOpen
  <2>4. OwnInv' /\ EndInv' /\ ShownInv' BY <1>0, <2>2, <2>3, NetworkOwn
  <2> QED BY <2>1, <2>4 DEF PInv, ConnAll
<1>3. CASE Render BY <1>3, RenderKeeps
<1>4. CASE SaveTimer BY <1>4, SaveTimerKeeps
<1>5. CASE Load BY <1>5, LoadKeeps
<1>6. CASE User BY <1>6, UserKeeps
<1>7. ASSUME NEW clean \in BOOLEAN, Leave(clean) PROVE PInv' BY <1>7, LeaveKeeps
<1>8. ASSUME NEW r \in Request, BehindEnds(r) PROVE PInv'
  <2>1. editing' \in {<<>>} \cup ({"user", "assistant"} \X (0..MaxRequests)) BY <1>8 DEF BehindEnds, PInv, TypeOK
  <2> QED BY <1>8, <2>1, EditorKeeps DEF BehindEnds
<1> QED BY <1>1, <1>2, <1>3, <1>4, <1>5, <1>6, <1>7, <1>8 DEF Next, Visit

LEMMA PlaygroundAlwaysInv == Spec => []PInv
BY PlaygroundInitInv, PlaygroundNextInv, PTL DEF Spec

\* What earlier visits left open: no more streams than visits.
BehindInv == behind \subseteq Request /\ (stream => Cardinality(behind) <= leaves)

\* A step within a visit changes neither the kind of requests nor the number of leaves.
LEMMA VisitGoesOn ==
    ASSUME Visit
    PROVE  UNCHANGED <<stream, leaves>>
<1>1. Queued => UNCHANGED <<stream, leaves>> BY DEF Queued, disk
<1>2. Rendered => UNCHANGED <<stream, leaves>> BY DEF Rendered
<1>3. CASE FlushTimer \/ \E r \in Request : Network(r)
  BY <1>1, <1>3 DEF FlushTimer, Network, StreamMessage, StreamDone, StreamError, StreamEnds,
                    FetchAnswered, FetchFailed, FetchAborted
<1>4. CASE Render \/ SaveTimer \/ Load BY <1>4 DEF Render, SaveTimer, Load
<1>5. CASE User
  <2>1. \A next : sendChat(next) => Rendered BY DEF sendChat
  <2>2. CASE handleSendMessage \/ stopGeneration \/ handleClearMessages \/ handleEditOpenChange
    BY <1>2, <2>1, <2>2 DEF handleSendMessage, stopGeneration, handleClearMessages,
                            handleEditOpenChange, disk
  <2>3. ASSUME NEW i \in DOMAIN shown.msgs,
               handleRegenerateMessage(i) \/ handleEditMessage(i) \/ handleDeleteMessage(i)
        PROVE  UNCHANGED <<stream, leaves>>
    BY <1>2, <2>1, <2>3 DEF handleRegenerateMessage, handleEditMessage, handleDeleteMessage, disk
  <2>4. ASSUME NEW i \in DOMAIN shown.msgs, NEW submit \in BOOLEAN, applyEdit(i, submit)
        PROVE  UNCHANGED <<stream, leaves>>
    BY <1>2, <2>1, <2>4 DEF applyEdit
  <2> QED BY <1>5, <2>2, <2>3, <2>4 DEF User
<1> QED BY <1>3, <1>4, <1>5 DEF Visit

\* One element more than a finite set is one more at most.
LEMMA OneMore ==
    ASSUME NEW S, S \subseteq Request, NEW x, NEW T, T \subseteq S \cup {x}
    PROVE  /\ IsFiniteSet(S) /\ Cardinality(S) \in Nat /\ Cardinality(T) \in Nat
           /\ Cardinality(T) <= Cardinality(S) + 1
<1>0. MaxRequests \in Nat BY PlaygroundAssumption
<1>1. IsFiniteSet(Request) BY <1>0, FS_Interval DEF Request
<1>2. IsFiniteSet(S) /\ Cardinality(S) \in Nat BY <1>1, FS_Subset, FS_CardinalityType
<1> DEFINE U == S \cup {x}
<1>3. /\ IsFiniteSet(U)
      /\ Cardinality(U) = IF x \in S THEN Cardinality(S) ELSE Cardinality(S) + 1
  BY <1>2, FS_AddElement
<1>4. T \in SUBSET U OBVIOUS
<1> HIDE DEF U
<1>5. IsFiniteSet(T) /\ Cardinality(T) <= Cardinality(U) BY <1>3, <1>4, FS_Subset
<1>6. Cardinality(T) \in Nat BY <1>5, FS_CardinalityType
<1> QED BY <1>2, <1>3, <1>5, <1>6

LEMMA BehindKeeps == PInv /\ BehindInv /\ [Next]_vars => BehindInv'
<1> SUFFICES ASSUME PInv, BehindInv, [Next]_vars PROVE BehindInv' OBVIOUS
<1>0. leaves \in Nat BY DEF PInv, TypeOK
<1>1. CASE UNCHANGED vars \/ (Visit /\ UNCHANGED behind)
  <2>1. UNCHANGED <<stream, leaves, behind>> BY <1>1, VisitGoesOn DEF vars, disk
  <2> QED BY <2>1 DEF BehindInv
<1>2. ASSUME NEW clean \in BOOLEAN, Leave(clean) PROVE BehindInv'
  <2>1. /\ leaves' = leaves + 1 /\ stream' = stream
        /\ behind' \in {behind \cup InProgress, {}}
    BY <1>2 DEF Leave
  <2>2. stream => InProgress \subseteq {sseSource} BY DEF PInv, StreamInv, InProgress
  <2>3. stream => behind' \subseteq behind \cup {sseSource} BY <2>1, <2>2
  <2>4. behind' \subseteq Request BY <2>1 DEF BehindInv, InProgress
  <2>5. stream => /\ Cardinality(behind) \in Nat /\ Cardinality(behind') \in Nat
                  /\ Cardinality(behind') <= Cardinality(behind) + 1
    BY <2>3, OneMore DEF BehindInv
  <2> QED BY <1>0, <2>1, <2>4, <2>5 DEF BehindInv
<1>3. ASSUME NEW r \in Request, BehindEnds(r) PROVE BehindInv'
  <2>1. behind = behind' \cup {r} /\ r \notin behind' /\ behind' \subseteq Request
        /\ UNCHANGED <<stream, leaves>>
    BY <1>3 DEF BehindEnds, BehindInv, disk
  <2>2. IsFiniteSet(behind') /\ Cardinality(behind') \in Nat BY <2>1, OneMore
  <2>3. Cardinality(behind' \cup {r}) = Cardinality(behind') + 1 BY <2>1, <2>2, FS_AddElement
  <2>4. Cardinality(behind) = Cardinality(behind') + 1 BY <2>1, <2>3
  <2> QED BY <1>0, <2>1, <2>2, <2>4 DEF BehindInv
<1> QED BY <1>1, <1>2, <1>3 DEF Next

\* Whatever is sent, stopped, cleared or left, and however often: the mounted page has
\* at most one stream open and Stop closes it, and each earlier visit has left at most
\* one behind (sendStreamRequest, closeActiveStream, and no cleanup on unmount).
THEOREM OneStreamPerVisitAlways == Spec => []OneStreamPerVisit
<1>1. Init => BehindInv
  <2>1. Init => behind = {} /\ leaves = 0 BY DEF Init
  <2> QED BY <2>1, FS_EmptySet DEF BehindInv
<1>2. ASSUME PInv, BehindInv PROVE OneStreamPerVisit
  <2> DEFINE open == {r \in Request : net[r] = "stream"}
  <2>1. \A r \in Request : net[r] = "stream" => r = sseSource BY <1>2 DEF PInv, StreamInv, FetchInv
  <2>2. open \cup behind \subseteq behind \cup {sseSource} BY <2>1
  <2>3. leaves \in Nat /\ behind \subseteq Request /\ (stream => Cardinality(behind) <= leaves)
    BY <1>2 DEF PInv, TypeOK, BehindInv
  <2> HIDE DEF open
  <2>4. /\ Cardinality(behind) \in Nat /\ Cardinality(open \cup behind) \in Nat
        /\ Cardinality(open \cup behind) <= Cardinality(behind) + 1
    BY <2>2, <2>3, OneMore
  <2>5. stream => Cardinality(open \cup behind) <= leaves + 1 BY <2>3, <2>4
  <2> QED BY <2>1, <2>3, <2>5 DEF OneStreamPerVisit, open
<1>3. Spec => []BehindInv BY <1>1, BehindKeeps, PlaygroundAlwaysInv, PTL DEF Spec
<1> QED BY <1>2, <1>3, PlaygroundAlwaysInv, PTL

\* The types, and that an answer shows its own request's text only: late chunks, responses
\* and errors that updateLastAssistantMessage applies never reach another answer unless
\* a request was sent before the last was answered.
THEOREM OwnReplyAlways == Spec => []OwnReply
<1>1. PInv => OwnReply BY DEF PInv, OwnInv, Own, OwnReply
<1> QED BY <1>1, PlaygroundAlwaysInv, PTL

\* When isGenerating is false no answer is left loading or streaming, unless a handler
\* overwrote updates that were not rendered yet: Stop, errors, deletion and reload end it.
THEOREM EndedWhenIdleAlways == Spec => []EndedWhenIdle
<1>1. PInv => EndedWhenIdle BY DEF PInv, EndInv, NonePending, EndedWhenIdle
<1> QED BY <1>1, PlaygroundAlwaysInv, PTL

\* isGenerating holds exactly while a request is in progress or its stream was cut off:
\* the finally block and the listeners of an old request never end the flag of a new one.
THEOREM GeneratingWhenBusyAlways == Spec => []GeneratingWhenBusy
<1>1. ASSUME PInv PROVE GeneratingWhenBusy
  <2> SUFFICES ASSUME ~early PROVE Generating <=> (InProgress # {} \/ CutOff)
    BY DEF GeneratingWhenBusy
  <2>0. /\ sent \in 0..MaxRequests /\ sseSource \in {0, sent} /\ (streaming <=> sseSource # 0)
    BY <1>1 DEF PInv, TypeOK, ConnInv
  <2>1. CASE stream
    <3>1. Generating <=> sseSource # 0 BY <1>1, <2>0, <2>1 DEF PInv, StreamInv, Generating
    <3>2. ASSUME NEW r \in InProgress PROVE sseSource # 0
      <4>1. r \in Request /\ net[r] \in {"stream", "fetch"} BY DEF InProgress
      <4>2. r = sseSource /\ r # 0 BY <1>1, <2>1, <4>1 DEF PInv, StreamInv, Request
      <4> QED BY <4>2
    <3>3. ASSUME sseSource # 0 PROVE InProgress # {} \/ CutOff
      <4>1. sseSource \in Request BY <2>0, <3>3 DEF Request
      <4>2. net[sseSource] \in {"stream", "over"} BY <1>1, <2>1, <3>3 DEF PInv, StreamInv
      <4> QED BY <3>3, <4>1, <4>2 DEF InProgress, CutOff
    <3>4. CutOff => sseSource # 0 BY DEF CutOff
    <3> QED BY <3>1, <3>2, <3>3, <3>4
  <2>2. CASE ~stream
    <3>1. sseSource = 0 /\ ~CutOff BY <1>1, <2>2 DEF PInv, FetchInv, CutOff
    <3>2. Generating <=> requesting BY <2>0, <3>1 DEF Generating
    <3>3. ASSUME NEW r \in InProgress PROVE requesting
      <4>1. r \in Request /\ net[r] \in {"stream", "fetch"} BY DEF InProgress
      <4> QED BY <1>1, <2>2, <4>1 DEF PInv, FetchInv, CalmInv
    <3>4. ASSUME requesting PROVE InProgress # {}
      <4>1. sent # 0 /\ net[sent] = "fetch" BY <1>1, <2>2, <3>2, <3>4 DEF PInv, CalmInv
      <4>2. sent \in Request BY <2>0, <4>1 DEF Request
      <4> QED BY <4>1, <4>2 DEF InProgress
    <3> QED BY <3>1, <3>2, <3>3, <3>4
  <2> QED BY <2>1, <2>2
<1> QED BY <1>1, PlaygroundAlwaysInv, PTL

-----------------------------------------------------------------------------
\* QuietAfterStop is about steps: no step adds a stopped request's text to a message.
LEMMA ShowingTouched ==
    ASSUME NEW ms \in Seq(Message), NEW out, NEW ws, Touched(ms, out, ws), NEW r, r \notin ws
    PROVE  Showing(out, r) \subseteq Showing(ms, r)
<1>1. DOMAIN out = DOMAIN ms BY DEF Touched
<1>2. ASSUME NEW i \in DOMAIN ms, r \in out[i].text
      PROVE  r \in ms[i].text /\ out[i].req = ms[i].req
  BY <1>2 DEF Touched
<1> QED BY <1>1, <1>2 DEF Showing

LEMMA ShowingSent ==
    ASSUME NEW ms, NEW out, NEW q, SentFrom(ms, out, q), NEW r, r # 0
    PROVE  Showing(out, r) \subseteq Showing(ms, r)
<1>1. ASSUME NEW i \in DOMAIN out, r \in out[i].text
      PROVE  \E j \in DOMAIN ms : r \in ms[j].text /\ out[i].req = ms[j].req
  <2>1. i \in 1..Len(out) BY DEF SentFrom
  <2>2. i # Len(out) BY <1>1 DEF SentFrom, createLoadingAssistantMessage
  <2>3. out[i] # createUserMessage(q) BY <1>1 DEF createUserMessage
  <2>4. i < Len(out) BY <2>1, <2>2
  <2> QED BY <1>1, <2>3, <2>4 DEF SentFrom
<1> QED BY <1>1 DEF Showing

LEMMA ShowingShown ==
    ASSUME PInv, ~early, page = "open", NEW r \in stopped
    PROVE  Showing(shown.msgs, r) \subseteq Showing(messages, r)
<1>0. /\ messages \in Seq(Message) /\ shown.msgs \in Seq(Message) /\ Len(messages) = Len(shown.msgs)
      /\ r # 0
  BY DEF PInv, TypeOK, ShownInv, Request
<1>1. DOMAIN messages = DOMAIN shown.msgs BY <1>0
<1>2. ASSUME NEW i \in DOMAIN messages, r \in shown.msgs[i].text
      PROVE  messages[i] = shown.msgs[i]
  <2> SUFFICES ASSUME messages[i] # shown.msgs[i] PROVE FALSE OBVIOUS
  <2>1. /\ shown.msgs[i].from = "assistant" /\ messages[i].req = shown.msgs[i].req
        /\ messages[i].req \notin stopped
    BY DEF PInv, ShownInv
  <2>2. shown.msgs[i].text \subseteq {0, shown.msgs[i].req} BY <1>1, <2>1 DEF PInv, OwnInv, Own
  <2> QED BY <1>0, <1>2, <2>1, <2>2
<1> QED BY <1>1, <1>2 DEF Showing

LEMMA NoneStoppedPending ==
    ASSUME PInv, ~early, NEW r \in stopped
    PROVE  r \notin pending /\ r # sent + 1 /\ r # 0 /\ (Generating => r # sent)
<1>1. r \in Nat /\ r # 0 /\ sent \in Nat
  <2>1. r \in 1..MaxRequests /\ sent \in 0..MaxRequests BY DEF PInv, TypeOK, Request
  <2> QED BY <2>1
<1>2. r <= sent BY DEF PInv, ConnInv
<1>3. Generating => r # sent BY DEF PInv, CalmInv
<1>4. r \notin pending
  <2> SUFFICES ASSUME r \in pending PROVE FALSE OBVIOUS
  <2>1. streaming BY DEF PInv, ConnInv
  <2>2. r = sent BY DEF PInv, CalmInv
  <2> QED BY <1>3, <2>1, <2>2 DEF Generating
<1> QED BY <1>1, <1>2, <1>3, <1>4

LEMMA QuietStep ==
    ASSUME PInv, [Next]_vars, NEW r \in stopped, page = "open", ~early
    PROVE  Showing(messages', r) \subseteq Showing(messages, r)
<1>0. /\ ConnAll /\ messages \in Seq(Message) /\ shown.msgs \in Seq(Message)
      /\ r \notin pending /\ r # sent + 1 /\ r # 0 /\ (Generating => r # sent)
  BY NoneStoppedPending DEF PInv, ConnAll, TypeOK
<1>1. CASE messages' = messages BY <1>1
<1>2. CASE FlushTimer \/ \E q \in Request : Network(q)
  <2>1. PICK ws \in SUBSET Request :
           /\ Touched(messages, messages', ws)
           /\ ~early /\ messages' # messages => Generating /\ ws \subseteq {sent}
    BY <1>0, <1>2, NetworkEffect DEF NetworkWrites
  <2>2. CASE messages' # messages
    <3>1. r \notin ws BY <1>0, <2>1, <2>2
    <3> QED BY <1>0, <2>1, <3>1, ShowingTouched
  <2> QED BY <1>1, <2>2
<1>3. ASSUME \/ handleSendMessage
             \/ \E i \in DOMAIN shown.msgs : handleRegenerateMessage(i)
             \/ \E i \in DOMAIN shown.msgs : applyEdit(i, TRUE)
      PROVE  Showing(messages', r) \subseteq Showing(messages, r)
  <2>1. PICK next : SendsFrom(next) BY <1>3, SendHandlers
  <2>2. SentFrom(shown.msgs, next, sent + 1) /\ next \in Seq(Message) BY <2>1 DEF SendsFrom, SentFrom
  <2>3. Touched(next, messages', pending \cup {sent + 1}) BY <1>0, <2>1, <2>2, SendMessages DEF SendsFrom
  <2>4. r \notin pending \cup {sent + 1} BY <1>0
  <2>5. Showing(messages', r) \subseteq Showing(next, r) BY <2>2, <2>3, <2>4, ShowingTouched
  <2>6. Showing(next, r) \subseteq Showing(shown.msgs, r) BY <1>0, <2>2, ShowingSent
  <2> QED BY <2>5, <2>6, ShowingShown
<1>4. CASE stopGeneration
  <2>1. Touched(messages, messages', pending) BY <1>4, StopKeeps
  <2> QED BY <1>0, <2>1, ShowingTouched
<1>5. CASE handleClearMessages \/ \E i \in DOMAIN shown.msgs : handleDeleteMessage(i)
  <2>1. \A n \in DOMAIN messages' : \E j \in DOMAIN messages : messages'[n] = messages[j]
    BY <1>5, DeleteKeeps
  <2> QED BY <2>1 DEF Showing
<1>6. ASSUME NEW i \in DOMAIN shown.msgs, applyEdit(i, FALSE)
      PROVE  Showing(messages', r) \subseteq Showing(messages, r)
  <2>1. messages' = Edited(i) BY <1>6 DEF applyEdit
  <2>2. /\ messages' \in Seq(Message) /\ DOMAIN messages' = DOMAIN shown.msgs
        /\ \A j \in DOMAIN shown.msgs : j # i => messages'[j] = shown.msgs[j]
        /\ messages'[i].text = {0}
    BY <1>0, <2>1, EditedMessages
  <2>3. Showing(messages', r) \subseteq Showing(shown.msgs, r) BY <1>0, <2>2 DEF Showing
  <2> QED BY <2>3, ShowingShown
<1>7. ASSUME NEW clean \in BOOLEAN, Leave(clean)
      PROVE  Showing(messages', r) \subseteq Showing(messages, r)
  <2>1. messages' = <<>> BY <1>7 DEF Leave
  <2> QED BY <2>1 DEF Showing
<1>8. CASE User
  <2>1. ASSUME NEW i \in DOMAIN shown.msgs, NEW submit \in BOOLEAN, applyEdit(i, submit)
        PROVE  Showing(messages', r) \subseteq Showing(messages, r)
    <3>1. CASE submit = TRUE
      <4>1. applyEdit(i, TRUE) BY <2>1, <3>1
      <4> QED BY <1>3, <4>1
    <3>2. CASE submit = FALSE
      <4>1. applyEdit(i, FALSE) BY <2>1, <3>2
      <4> QED BY <1>6, <4>1
    <3> QED BY <3>1, <3>2
  <2>2. handleEditOpenChange \/ (\E i \in DOMAIN shown.msgs : handleEditMessage(i)) => messages' = messages
    BY DEF handleEditOpenChange, handleEditMessage
  <2> QED BY <1>1, <1>3, <1>4, <1>5, <1>8, <2>1, <2>2 DEF User
<1>9. UNCHANGED vars \/ Render \/ SaveTimer => messages' = messages BY DEF vars, Render, SaveTimer
<1>10. ~Load BY DEF Load
<1>11. (\E q \in Request : BehindEnds(q)) => messages' = messages BY DEF BehindEnds
<1> QED BY <1>1, <1>2, <1>7, <1>8, <1>9, <1>10, <1>11 DEF Next, Visit

\* After stopGeneration no step of the page shows more of the stopped request: neither
\* the buffer that the flush timer empties nor a response that comes late.
THEOREM QuietAfterStopAlways == Spec => QuietAfterStop
<1> DEFINE P == \A r \in stopped : (page = "open" /\ ~early)
                                     => Showing(messages', r) \subseteq Showing(messages, r)
<1>1. PInv /\ [Next]_vars => P BY QuietStep
<1>2. Spec => [][P]_vars
  <2> HIDE DEF P
  <2> QED BY <1>1, PlaygroundAlwaysInv, PTL DEF Spec
<1> QED BY <1>2 DEF QuietAfterStop

-----------------------------------------------------------------------------
(***************************************************************************)
(* The desktop shell.                                                      *)
(***************************************************************************)
\* How the windows, the variable mainWindow and the tray go together.
WindowInv ==
    /\ main # "null" => windows > 0
    /\ main = "null" => windows <= 1
    /\ app = "starting" => windows <= 1 /\ ~tray

\* The handle on the server outlives the server, and its close event follows its end.
ServerInv ==
    /\ ~handle => ~Alive
    /\ closeDue => ~Alive

\* Each finished probe has scheduled at most two more, and none was scheduled
\* at the last attempt or later.
ProbeInv ==
    /\ waiting + 2 * probes <= attempt + 1
    /\ attempt + waiting < 2 * MaxRetries

ShellInv == ShellTypeOK /\ WindowInv /\ ServerInv /\ NoOrphanServer /\ ProbeInv

-----------------------------------------------------------------------------
LEMMA ShellInitInv == ShellInit => ShellInv
<1> SUFFICES ASSUME ShellInit PROVE ShellInv OBVIOUS
<1>1. ShellTypeOK
  <2>1. /\ handle \in BOOLEAN /\ termed \in BOOLEAN /\ closeDue \in BOOLEAN /\ tray \in BOOLEAN
        /\ isQuitting \in BOOLEAN /\ killTimer \in BOOLEAN /\ quitListener \in BOOLEAN
    BY Zenon DEF ShellInit
  <2>2. proc \in {"none", "running", "listening", "dead"} BY DEF ShellInit
  <2>3. attempt \in Nat /\ probes \in Nat /\ waiting \in Nat /\ windows \in 0..2 BY DEF ShellInit
  <2> QED BY <2>1, <2>2, <2>3, Zenon DEF ShellInit, ShellTypeOK
<1>2. WindowInv BY DEF ShellInit, WindowInv
<1>3. ServerInv BY DEF ShellInit, ServerInv, Alive
<1>4. NoOrphanServer BY DEF ShellInit, NoOrphanServer, On
<1>5. ProbeInv BY RetriesAssumption DEF ShellInit, ProbeInv
<1> QED BY <1>1, <1>2, <1>3, <1>4, <1>5 DEF ShellInv

\* What app.quit() does to the state, whoever calls it.
LEMMA QuitKeepsInv ==
    ASSUME ShellInv, On, NEW f \in BOOLEAN, AppQuit(f),
           crashBox' \in {"none", "open", "log"}, startBox' \in {"none", "open", "log"}
    PROVE  ShellInv'
<1> USE DEF On, Alive
<1>1. CASE handle
  <2>1. ShellTypeOK'
    BY <1>1 DEF ShellInv, ShellTypeOK, AppQuit, beforeQuit, probing
  <2> QED BY <1>1, <2>1 DEF ShellInv, ShellTypeOK, WindowInv, ServerInv, NoOrphanServer, ProbeInv, AppQuit, beforeQuit, probing
<1>2. CASE ~handle
  <2>1. ShellTypeOK'
    BY <1>2 DEF ShellInv, ShellTypeOK, AppQuit, probing
  <2> QED BY <1>2, <2>1 DEF ShellInv, ShellTypeOK, WindowInv, ServerInv, NoOrphanServer, ProbeInv, AppQuit, probing
<1> QED BY <1>1, <1>2

\* The server's steps.
LEMMA ServerKeepsInv ==
    ASSUME ShellInv,
           \/ ServerListens \/ SpawnError \/ FrontendChanges
           \/ \E c \in {"zero", "signal", "error"} : ServerDies(c)
    PROVE  ShellInv'
<1> USE DEF On, Alive, ShellInv, ShellTypeOK, WindowInv, ServerInv, NoOrphanServer, ProbeInv, probing, view, quit, server
<1>1. CASE ServerListens BY <1>1 DEF ServerListens
<1>2. CASE SpawnError BY <1>2 DEF SpawnError, Settle
<1>3. CASE FrontendChanges BY <1>3 DEF FrontendChanges
<1>4. ASSUME NEW c \in {"zero", "signal", "error"}, ServerDies(c) PROVE ShellInv'
  BY <1>4 DEF ServerDies
<1> QED BY <1>1, <1>2, <1>3, <1>4

LEMMA CloseKeepsInv ==
    ASSUME ShellInv, ServerClose
    PROVE  ShellInv'
<1>1. ShellTypeOK'
  <2>1. closeDue' \in BOOLEAN /\ handle' \in BOOLEAN BY Zenon DEF ServerClose, ShellInv, ShellTypeOK
  <2>2. windows' \in 0..2 /\ main' \in {"null", "hidden", "shown"}
    BY DEF ServerClose, CloseWindow, ShellInv, ShellTypeOK, WindowInv
  <2>3. app' \in {"starting", "up", "failed", "exited"} /\ crashBox' \in {"none", "open", "log"}
    BY DEF ServerClose, ShellInv, ShellTypeOK
  <2>4. UNCHANGED <<dev, taken, proc, code, termed, attempt, probes, waiting, start, tray, startBox>>
    BY DEF ServerClose, probing
  <2>5. UNCHANGED <<isQuitting, killTimer, quitListener>> BY DEF ServerClose
  <2> QED BY <2>1, <2>2, <2>3, <2>4, <2>5 DEF ShellInv, ShellTypeOK
<1>2. WindowInv' BY DEF ServerClose, CloseWindow, ShellInv, ShellTypeOK, WindowInv, On
<1>3. ServerInv' BY DEF ServerClose, ShellInv, ServerInv, Alive
<1>4. NoOrphanServer' BY DEF ServerClose, ShellInv, ServerInv, NoOrphanServer, Alive
<1>5. ProbeInv' BY DEF ServerClose, ShellInv, ProbeInv, probing
<1> QED BY <1>1, <1>2, <1>3, <1>4, <1>5 DEF ShellInv

\* The probes.
LEMMA ProbesKeepInv ==
    ASSUME ShellInv, ProbeAnswered \/ ProbeError \/ ProbeTimeout \/ tryConnect
    PROVE  ShellInv'
<1> USE RetriesAssumption DEF On, Alive, ShellInv, ShellTypeOK, WindowInv, ServerInv, NoOrphanServer, ProbeInv, view, quit, server, Settle
<1>1. CASE ProbeAnswered BY <1>1 DEF ProbeAnswered
<1>2. CASE ProbeError BY <1>2 DEF ProbeError, Again
<1>3. CASE ProbeTimeout BY <1>3 DEF ProbeTimeout, Again
<1>4. CASE tryConnect BY <1>4 DEF tryConnect
<1> QED BY <1>1, <1>2, <1>3, <1>4

\* The start, the windows and the tray.
LEMMA WindowsKeepInv ==
    ASSUME ShellInv,
           Started \/ StartThrows \/ StartFailed \/ UserCloses \/ TrayShow \/ TrayHide \/ Activate \/ KillTimer
    PROVE  ShellInv'
<1> USE DEF On, Alive, ShellInv, ShellTypeOK, WindowInv, ServerInv, NoOrphanServer, ProbeInv, probing, view, quit, server
<1>1. CASE Started BY <1>1 DEF Started, createWindow
<1>2. CASE StartFailed BY <1>2 DEF StartFailed
<1>8. CASE StartThrows BY <1>8 DEF StartThrows
<1>3. CASE UserCloses BY <1>3 DEF UserCloses, CloseWindow
<1>4. CASE TrayShow BY <1>4 DEF TrayShow, createWindow
<1>5. CASE TrayHide BY <1>5 DEF TrayHide
<1>6. CASE Activate BY <1>6 DEF Activate, createWindow
<1>7. CASE KillTimer BY <1>7 DEF KillTimer, killAndExit
<1> QED BY <1>1, <1>2, <1>3, <1>4, <1>5, <1>6, <1>7, <1>8

\* The dialogs and the ways to quit.
LEMMA DialogsKeepInv ==
    ASSUME ShellInv, CrashChoice \/ StartChoice \/ TrayQuit \/ PlatformQuit
    PROVE  ShellInv'
<1>1. crashBox \in {"none", "open", "log"} /\ startBox \in {"none", "open", "log"}
  BY DEF ShellInv, ShellTypeOK
<1>2. CASE CrashChoice
  <2>1. CASE crashBox' = "none" /\ AppQuit(TRUE)
    BY <1>1, <1>2, <2>1, QuitKeepsInv DEF CrashChoice
  <2>2. CASE /\ crashBox = "open" /\ crashBox' = "log"
             /\ UNCHANGED <<dev, taken, server, probing, app, windows, main, tray, quit>>
    BY <1>2, <2>2 DEF CrashChoice, On, Alive, ShellInv, ShellTypeOK, WindowInv, ServerInv, NoOrphanServer, ProbeInv, probing, quit, server
  <2> QED BY <1>2, <2>1, <2>2 DEF CrashChoice
<1>3. CASE StartChoice
  <2>1. CASE startBox' = "none" /\ AppQuit(FALSE)
    BY <1>1, <1>3, <2>1, QuitKeepsInv DEF StartChoice
  <2>2. CASE /\ startBox = "open" /\ startBox' = "log"
             /\ UNCHANGED <<dev, taken, server, probing, app, windows, main, tray, quit>>
    BY <1>3, <2>2 DEF StartChoice, On, Alive, ShellInv, ShellTypeOK, WindowInv, ServerInv, NoOrphanServer, ProbeInv, probing, quit, server
  <2> QED BY <1>3, <2>1, <2>2 DEF StartChoice
<1>4. CASE TrayQuit BY <1>1, <1>4, QuitKeepsInv DEF TrayQuit
<1>5. CASE PlatformQuit BY <1>1, <1>5, QuitKeepsInv DEF PlatformQuit
<1> QED BY <1>2, <1>3, <1>4, <1>5

LEMMA ShellNextInv == ShellInv /\ [ShellNext]_shellVars => ShellInv'
<1> SUFFICES ASSUME ShellInv, [ShellNext]_shellVars PROVE ShellInv' OBVIOUS
<1>1. CASE UNCHANGED shellVars
  BY <1>1 DEF shellVars, server, probing, view, quit, On, Alive, ShellInv, ShellTypeOK, WindowInv, ServerInv, NoOrphanServer, ProbeInv
<1>2. CASE ShellNext
  BY <1>2, ServerKeepsInv, CloseKeepsInv, ProbesKeepInv, WindowsKeepInv, DialogsKeepInv DEF ShellNext
<1> QED BY <1>1, <1>2

LEMMA ShellAlwaysInv == ShellSpec => []ShellInv
BY ShellInitInv, ShellNextInv, PTL DEF ShellSpec

-----------------------------------------------------------------------------
\* The types are kept; the start, activate and the tray never open a third window.
THEOREM ShellTypeCorrect == ShellSpec => []ShellTypeOK
<1>1. ShellInv => ShellTypeOK BY DEF ShellInv
<1> QED BY <1>1, ShellAlwaysInv, PTL

\* Whenever the application has exited, the server it spawned has ended.
THEOREM NoServerLeftBehind == ShellSpec => []NoOrphanServer
<1>1. ShellInv => NoOrphanServer BY DEF ShellInv
<1> QED BY <1>1, ShellAlwaysInv, PTL

\* The doubled retries of probes that time out stay below twice maxRetries.
THEOREM ProbesAreBounded == ShellSpec => []AttemptsBounded
<1>1. ShellInv => AttemptsBounded BY RetriesAssumption DEF ShellInv, ShellTypeOK, ProbeInv, AttemptsBounded
<1> QED BY <1>1, ShellAlwaysInv, PTL
=============================================================================
