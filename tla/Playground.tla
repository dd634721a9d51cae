----------------------------- MODULE Playground -----------------------------
(***************************************************************************)
(* The chat playground of the web console (web/default, features/          *)
(* playground): the conversation, the requests that answer it, streamed or *)
(* not, the buffer of streamed chunks with its flush timer, the debounced  *)
(* save to the browser's storage, and leaving and reopening the page.      *)
(*                                                                         *)
(* Handlers of the page run one at a time.  Those of the network and of    *)
(* timers queue state updates, which show only at the next Render; a       *)
(* user's handler reads the conversation as last rendered (`shown') and is *)
(* rendered when it ends.  A text is abstracted to the set of requests     *)
(* that wrote it, with 0 for what no request wrote.                        *)
(***************************************************************************)
EXTENDS Integers, Sequences, FiniteSets

CONSTANTS
    MaxRequests,    \* bound: requests sent
    MaxLeaves,      \* bound: times the page is left or the tab dies
    MaxStored,      \* MAX_STORED_MESSAGES
    MaxLoaded       \* MAX_LOADED_MESSAGES_CHARS, in messages

ASSUME PlaygroundAssumption ==
    /\ MaxRequests \in Nat \ {0} /\ MaxLeaves \in Nat
    /\ MaxStored \in Nat \ {0, 1}       \* it holds at least a question and its answer
    /\ MaxLoaded \in Nat \ {0}

Request == 1..MaxRequests
Message == [from : {"user", "assistant"}, req : 0..MaxRequests,   \* the key
            status : {"none", "loading", "streaming", "complete", "error"},
            text : SUBSET (0..MaxRequests)]

VARIABLES
    stream,         \* config.stream, from the stored configuration
    messages,       \* the conversation, every queued update applied
    shown,          \* conversation and isGenerating as last rendered
    editing,        \* editingMessageKey, or <<>>
    net,            \* each request's connection
    sseSource, streamComplete, streaming,       \* useStreamRequest
    requesting, requestId, abortCtl, pending,   \* useChatHandler; the flush
                                                \* timer runs iff pending # {}
    sent,
    page,           \* "open", "loading" (loadMessages is due)
    stored, saveTimer, leaves,
    behind,         \* requests still open whose page was left; `net' is the page's own
    early, stale, stopped   \* history, see the properties

conn == <<net, sseSource, streamComplete, streaming, requesting, requestId, abortCtl, pending, sent>>
disk == <<page, stored, saveTimer, leaves>>
hist == <<early, stale, stopped>>
vars == <<stream, messages, shown, editing, conn, disk, hist, behind>>

\* An earlier session has left a question and its answer in the storage.
Earlier == <<[from |-> "user", req |-> 0, status |-> "none", text |-> {0}],
             [from |-> "assistant", req |-> 0, status |-> "complete", text |-> {0}]>>

Init ==
    /\ messages = <<>> /\ shown = [msgs |-> <<>>, generating |-> FALSE] /\ editing = <<>>
    /\ sseSource = 0 /\ streamComplete = FALSE /\ streaming = FALSE
    /\ requesting = FALSE /\ requestId = 0 /\ abortCtl = 0 /\ pending = {}
    /\ net = [r \in Request |-> "none"] /\ sent = 0 /\ stream \in BOOLEAN
    /\ page = "loading" /\ stored = Earlier /\ saveTimer = FALSE /\ leaves = 0 /\ behind = {}
    /\ early = FALSE /\ stale = FALSE /\ stopped = {}

-----------------------------------------------------------------------------
(***************************************************************************)
(* Messages (lib/message).                                                 *)
(***************************************************************************)
Key(m) == <<m.from, m.req>>
isAssistantMessagePending(m) == m.status \in {"loading", "streaming"}
isAssistantMessageFinal(m) == m.status \in {"complete", "error"}
hasContent(m) == m.text # {}

createUserMessage(r) == [from |-> "user", req |-> r, status |-> "none", text |-> {0}]
createLoadingAssistantMessage(r) ==
    [from |-> "assistant", req |-> r, status |-> "loading", text |-> {}]

applyStreamingChunk(m, rs) ==
    IF m.status = "error" THEN m ELSE [m EXCEPT !.text = @ \cup rs, !.status = "streaming"]
completeAssistantMessage(m) == [m EXCEPT !.status = "complete"]
applyChatCompletionResponse(m, r) == [m EXCEPT !.text = {r}, !.status = "complete"]
errorMessage(m, r) == [m EXCEPT !.text = {r}, !.status = "error"]

updateLastAssistantMessage(ms, Updater(_)) ==
    IF ms # <<>> /\ ms[Len(ms)].from = "assistant"
    THEN [ms EXCEPT ![Len(ms)] = Updater(@)] ELSE ms

-----------------------------------------------------------------------------
(***************************************************************************)
(* useChatHandler: what its callbacks do to a conversation.                *)
(***************************************************************************)
\* flushStreamUpdates moves the buffered chunks to the last answer.
EmptyBuffer == {}
Flushed(ms) ==
    IF pending = {} THEN ms
    ELSE updateLastAssistantMessage(ms, LAMBDA m : applyStreamingChunk(m, pending))

Completed(ms) ==
    updateLastAssistantMessage(Flushed(ms),
        LAMBDA m : IF isAssistantMessageFinal(m) THEN m ELSE completeAssistantMessage(m))

Failed(ms, r) ==
    updateLastAssistantMessage(Flushed(ms), LAMBDA m : errorMessage(m, r))

Stopped(ms) ==
    updateLastAssistantMessage(Flushed(ms),
        LAMBDA m : IF isAssistantMessagePending(m) THEN completeAssistantMessage(m) ELSE m)

Generating == streaming \/ requesting
InProgress == {r \in Request : net[r] \in {"stream", "fetch"}}

\* closeActiveStream(r): the rest of it after close() has ended the connection.
Detach(r) ==
    /\ sseSource' = IF sseSource = r THEN 0 ELSE sseSource
    /\ streaming' = IF sseSource = r THEN FALSE ELSE streaming

\* A handler of the network or a timer: its updates wait for the next render.
Queued == UNCHANGED <<stream, shown, editing, disk, hist>>

\* A user's handler ends with a render, whose updaters restart the save timer.
Rendered ==
    /\ shown' = [msgs |-> messages', generating |-> streaming' \/ requesting']
    /\ saveTimer' = TRUE
    /\ UNCHANGED <<stream, page, stored, leaves>>

Render ==
    /\ page = "open"
    /\ shown # [msgs |-> messages, generating |-> Generating]
    /\ shown' = [msgs |-> messages, generating |-> Generating]
    /\ saveTimer' = (saveTimer \/ shown.msgs # messages)
    /\ UNCHANGED <<stream, messages, editing, conn, page, stored, leaves, hist>>

-----------------------------------------------------------------------------
(***************************************************************************)
(* The network: useStreamRequest's listeners and sendNonStreamingChat      *)
(* after its await.                                                        *)
(***************************************************************************)
StreamMessage(r) ==
    /\ net[r] = "stream" /\ r \notin pending
    /\ pending' = pending \cup {r}
    /\ UNCHANGED <<messages, net, sseSource, streamComplete, streaming, requesting, requestId, abortCtl, sent>>
    /\ Queued

FlushTimer ==
    /\ pending # {}
    /\ messages' = Flushed(messages) /\ pending' = EmptyBuffer
    /\ UNCHANGED <<net, sseSource, streamComplete, streaming, requesting, requestId, abortCtl, sent>>
    /\ Queued

StreamDone(r) ==
    /\ net[r] = "stream" /\ net' = [net EXCEPT ![r] = "over"]
    /\ streamComplete' = TRUE
    /\ Detach(r)
    /\ messages' = Completed(messages) /\ pending' = EmptyBuffer /\ requesting' = FALSE
    /\ UNCHANGED <<requestId, abortCtl, sent>>
    /\ Queued

\* An error event, a data line that is not JSON, or a close with a bad status; with
\* isStreamComplete set handleError would do nothing, as in StreamEnds.
StreamError(r) ==
    /\ net[r] = "stream" /\ net' = [net EXCEPT ![r] = "over"]
    /\ ~streamComplete
    /\ messages' = Failed(messages, r) /\ pending' = EmptyBuffer /\ requesting' = FALSE
    /\ Detach(r)
    /\ UNCHANGED <<streamComplete, requestId, abortCtl, sent>>
    /\ Queued

\* The connection ends without [DONE] and without an error: no listener acts.
StreamEnds(r) ==
    /\ net[r] = "stream" /\ net' = [net EXCEPT ![r] = "over"]
    /\ UNCHANGED <<messages, sseSource, streamComplete, streaming, requesting, requestId, abortCtl, pending, sent>>
    /\ Queued

FinallyAlways(r, busy) == requesting' = FALSE /\ abortCtl' = 0      \* mutant

\* The finally block; `busy' is isRequesting as the handler left it.
Finally(r, busy) ==
    /\ requesting' = IF requestId = r THEN FALSE ELSE busy
    /\ abortCtl' = IF requestId = r THEN 0 ELSE abortCtl

FetchAnswered(r) ==
    /\ net[r] = "fetch" /\ net' = [net EXCEPT ![r] = "over"]
    /\ messages' = updateLastAssistantMessage(messages,
                       LAMBDA m : applyChatCompletionResponse(m, r))
    /\ Finally(r, requesting)
    /\ UNCHANGED <<sseSource, streamComplete, streaming, requestId, pending, sent>>
    /\ Queued

\* The request fails, or its response has no choice.
FetchFailed(r) ==
    /\ net[r] = "fetch" /\ net' = [net EXCEPT ![r] = "over"]
    /\ messages' = Failed(messages, r) /\ pending' = EmptyBuffer
    /\ Finally(r, FALSE)
    /\ UNCHANGED <<sseSource, streamComplete, streaming, requestId, sent>>
    /\ Queued

FetchAbortedAnswers(r) ==       \* mutant: signal.aborted is not looked at
    /\ net[r] = "aborted" /\ net' = [net EXCEPT ![r] = "over"]
    /\ messages' = updateLastAssistantMessage(messages,
                       LAMBDA m : applyChatCompletionResponse(m, r))
    /\ Finally(r, requesting)
    /\ UNCHANGED <<sseSource, streamComplete, streaming, requestId, pending, sent>>
    /\ Queued

FetchAborted(r) ==
    /\ net[r] = "aborted" /\ net' = [net EXCEPT ![r] = "over"]
    /\ Finally(r, requesting)
    /\ UNCHANGED <<messages, sseSource, streamComplete, streaming, requestId, pending, sent>>
    /\ Queued

-----------------------------------------------------------------------------
(***************************************************************************)
(* The user (usePlaygroundConversation, useChatHandler).                   *)
(***************************************************************************)
LeftOpen == net     \* mutant: the stream that is replaced goes on

\* sendStreamRequest closes the stream it replaces, and only that.
Superseded == [s \in Request |-> IF s = sseSource THEN "over" ELSE net[s]]

sendStreamingChat(next, r) ==
    LET closed == Superseded
    IN  /\ streamComplete' = FALSE
        /\ \/ /\ net' = [closed EXCEPT ![r] = "stream"]
              /\ sseSource' = r /\ streaming' = TRUE /\ requesting' = TRUE
              /\ messages' = next /\ UNCHANGED pending
           \/ /\ net' = [closed EXCEPT ![r] = "over"]       \* stream() throws
              /\ sseSource' = 0 /\ streaming' = FALSE /\ requesting' = FALSE
              /\ messages' = Failed(next, r) /\ pending' = EmptyBuffer
        /\ UNCHANGED <<requestId, abortCtl>>

sendNonStreamingChat(next, r) ==
    /\ net' = [net EXCEPT ![r] = "fetch"]
    /\ requestId' = r /\ abortCtl' = r /\ requesting' = TRUE
    /\ messages' = next
    /\ UNCHANGED <<sseSource, streamComplete, streaming, pending>>

sendChat(next) ==
    /\ sent' = sent + 1
    /\ early' = (early \/ Generating)
    /\ stale' = (stale \/ shown.msgs # messages)
    /\ IF stream THEN sendStreamingChat(next, sent + 1) ELSE sendNonStreamingChat(next, sent + 1)
    /\ Rendered /\ UNCHANGED stopped

CanSend == page = "open" /\ sent < MaxRequests

\* From the input, disabled while generating, or from the prompts of an empty page.
handleSendMessage ==
    /\ CanSend /\ (~shown.generating \/ shown.msgs = <<>>)
    /\ sendChat(shown.msgs \o <<createUserMessage(sent + 1), createLoadingAssistantMessage(sent + 1)>>)
    /\ UNCHANGED editing

\* mutant: the answer is generated again over its old text
reusedMessage(ms, i, r) ==
    IF ms[i].from = "user" THEN Append(SubSeq(ms, 1, i), createLoadingAssistantMessage(r))
    ELSE [SubSeq(ms, 1, i) EXCEPT ![i].req = r, ![i].status = "loading"]

\* A user's message stays, an answer is replaced; what follows goes.
createRegeneratedMessages(ms, i, r) ==
    Append(SubSeq(ms, 1, IF ms[i].from = "user" THEN i ELSE i - 1), createLoadingAssistantMessage(r))

handleRegenerateMessage(i) ==
    /\ CanSend /\ ~shown.generating /\ i \in DOMAIN shown.msgs
    /\ hasContent(shown.msgs[i]) /\ ~isAssistantMessagePending(shown.msgs[i])
    /\ sendChat(createRegeneratedMessages(shown.msgs, i, sent + 1))
    /\ UNCHANGED editing

handleEditMessage(i) ==
    /\ page = "open" /\ ~shown.generating /\ i \in DOMAIN shown.msgs
    /\ hasContent(shown.msgs[i]) /\ editing' = Key(shown.msgs[i]) /\ editing' # editing
    /\ UNCHANGED <<stream, messages, shown, conn, disk, hist>>

handleEditOpenChange ==
    /\ page = "open" /\ editing # <<>> /\ editing' = <<>>
    /\ UNCHANGED <<stream, messages, shown, conn, disk, hist>>

Edited(i) == [shown.msgs EXCEPT ![i].text = {0}]

\* The editor stays open, and its buttons enabled, while an answer is generated.
applyEdit(i, shouldSubmit) ==
    /\ page = "open" /\ i \in DOMAIN shown.msgs /\ editing = Key(shown.msgs[i])
    /\ editing' = <<>>
    /\ IF shouldSubmit /\ shown.msgs[i].from = "user"
       THEN /\ CanSend
            /\ sendChat(Append(SubSeq(Edited(i), 1, i), createLoadingAssistantMessage(sent + 1)))
       ELSE /\ ~shouldSubmit
            /\ messages' = Edited(i)
            /\ stale' = (stale \/ shown.msgs # messages)
            /\ UNCHANGED <<conn, early, stopped>> /\ Rendered

\* filter: the n-th message of the result is the n-th one that has another key.
Kept(ms, key) == {j \in DOMAIN ms : Key(ms[j]) # key}
Without(ms, key) ==
    [n \in 1..Cardinality(Kept(ms, key)) |->
        ms[CHOOSE j \in Kept(ms, key) : Cardinality(Kept(ms, key) \cap 1..j) = n]]

handleDeleteMessage(i) ==
    /\ page = "open" /\ ~shown.generating /\ i \in DOMAIN shown.msgs
    /\ messages' = Without(messages, Key(shown.msgs[i]))
    /\ UNCHANGED <<editing, conn, hist>> /\ Rendered

handleClearMessages ==
    /\ page = "open" /\ ~shown.generating /\ shown.msgs # <<>>
    /\ messages' = <<>> /\ editing' = <<>>
    /\ UNCHANGED <<conn, hist>> /\ Rendered

stopGeneration ==
    /\ page = "open" /\ shown.generating
    /\ net' = [r \in Request |-> IF r = sseSource THEN "over"
                                 ELSE IF r = abortCtl /\ net[r] = "fetch" THEN "aborted" ELSE net[r]]
    /\ sseSource' = 0 /\ streaming' = FALSE
    /\ abortCtl' = 0 /\ requesting' = FALSE
    /\ messages' = Stopped(messages) /\ pending' = EmptyBuffer
    /\ stopped' = stopped \cup InProgress
    /\ UNCHANGED <<streamComplete, requestId, sent, editing, early, stale>> /\ Rendered

-----------------------------------------------------------------------------
(***************************************************************************)
(* Storage and the page's life (usePlaygroundState, lib/storage).          *)
(***************************************************************************)
LastOf(ms, n) == SubSeq(ms, IF Len(ms) > n THEN Len(ms) - n + 1 ELSE 1, Len(ms))

saveMessages(ms) == LastOf(ms, MaxStored)

SaveTimer ==
    /\ saveTimer /\ saveTimer' = FALSE
    /\ stored' = saveMessages(shown.msgs)
    /\ UNCHANGED <<stream, messages, shown, editing, conn, page, leaves, hist>>

SanitizedNot(ms) == ms      \* mutant

\* normalizeStoredMessageForLoad ends an answer that has a text ...
Normalized(ms) ==
    [i \in DOMAIN ms |-> IF isAssistantMessagePending(ms[i]) /\ hasContent(ms[i])
                         THEN completeAssistantMessage(ms[i]) ELSE ms[i]]

\* ... and sanitizeMessagesOnLoad marks the last one that has none as interrupted.
Sanitized(ms) ==
    LET open == {i \in DOMAIN ms : ms[i].from = "assistant" /\ isAssistantMessagePending(ms[i])}
    IN  [i \in DOMAIN ms |-> IF i \in open /\ \A j \in open : j <= i
                             THEN errorMessage(ms[i], 0) ELSE ms[i]]

loadMessages == Sanitized(LastOf(saveMessages(Normalized(stored)), MaxLoaded))

Load ==
    /\ page = "loading" /\ page' = "open"
    /\ messages' = loadMessages
    /\ shown' = [shown EXCEPT !.msgs = loadMessages]
    /\ stored' = loadMessages
    /\ UNCHANGED <<stream, editing, conn, saveTimer, leaves, hist>>

\* The component unmounts, with its save if the timer runs, or the tab dies.  Only a
\* dying tab closes connections: the hooks have no cleanup for theirs, so after an
\* unmount they stay open, and React drops what their listeners write to a page that
\* is gone.  The flush timer is cleared.
Leave(clean) ==
    /\ page = "open" /\ leaves < MaxLeaves /\ leaves' = leaves + 1
    /\ stored' = IF clean /\ saveTimer THEN saveMessages(shown.msgs) ELSE stored
    /\ messages' = <<>> /\ shown' = [msgs |-> <<>>, generating |-> FALSE] /\ editing' = <<>>
    /\ sseSource' = 0 /\ streamComplete' = FALSE /\ streaming' = FALSE
    /\ requesting' = FALSE /\ requestId' = 0 /\ abortCtl' = 0 /\ pending' = {}
    /\ saveTimer' = FALSE
    /\ net' = [r \in Request |-> IF net[r] = "none" THEN "none" ELSE "over"]
    /\ behind' = IF clean THEN behind \cup InProgress ELSE {}
    /\ page' = "loading"
    /\ UNCHANGED <<stream, sent, hist>>

\* A connection that was left behind ends, as the server likes.
BehindEnds(r) ==
    /\ r \in behind /\ behind' = behind \ {r}
    /\ UNCHANGED <<stream, messages, shown, editing, conn, disk, hist>>

-----------------------------------------------------------------------------
Network(r) ==
    \/ StreamMessage(r) \/ StreamDone(r) \/ StreamError(r) \/ StreamEnds(r)
    \/ FetchAnswered(r) \/ FetchFailed(r) \/ FetchAborted(r)

User ==
    \/ handleSendMessage \/ stopGeneration \/ handleClearMessages \/ handleEditOpenChange
    \/ \E i \in DOMAIN shown.msgs :
          \/ handleRegenerateMessage(i) \/ handleEditMessage(i) \/ handleDeleteMessage(i)
          \/ \E submit \in BOOLEAN : applyEdit(i, submit)

Visit ==
    \/ \E r \in Request : Network(r)
    \/ FlushTimer \/ Render \/ SaveTimer \/ Load \/ User

Next ==
    \/ Visit /\ UNCHANGED behind
    \/ \E clean \in BOOLEAN : Leave(clean)
    \/ \E r \in Request : BehindEnds(r)

Spec == Init /\ [][Next]_vars

-----------------------------------------------------------------------------
\* Types; no more than MAX_STORED_MESSAGES messages are ever stored.
TypeOK ==
    /\ stream \in BOOLEAN /\ messages \in Seq(Message)
    /\ shown \in [msgs : Seq(Message), generating : BOOLEAN]
    /\ editing \in {<<>>} \cup ({"user", "assistant"} \X (0..MaxRequests))
    /\ net \in [Request -> {"none", "stream", "fetch", "aborted", "over"}]
    /\ sseSource \in 0..MaxRequests /\ streamComplete \in BOOLEAN /\ streaming \in BOOLEAN
    /\ requesting \in BOOLEAN /\ requestId \in 0..MaxRequests /\ abortCtl \in 0..MaxRequests
    /\ pending \subseteq Request /\ sent \in 0..MaxRequests
    /\ page \in {"open", "loading"} /\ stored \in Seq(Message) /\ Len(stored) <= MaxStored
    /\ saveTimer \in BOOLEAN /\ leaves \in 0..MaxLeaves
    /\ early \in BOOLEAN /\ stale \in BOOLEAN /\ stopped \subseteq Request

\* Each visit of the page has at most one stream open.  The mounted page's is the one
\* Stop closes, even when a request was sent before the last was answered
\* (sendStreamRequest, closeActiveStream), and a visit leaves no more than that one
\* behind.  What is left behind is out of Stop's reach: see README section 5.
OneStreamPerVisit ==
    /\ \A r \in Request : net[r] = "stream" => r = sseSource
    /\ behind \subseteq Request
    /\ stream => Cardinality({r \in Request : net[r] = "stream"} \cup behind) <= leaves + 1

\* An answer shows the text of its own request only: buffered chunks, late responses
\* and errors never reach another answer, unless a request was sent before the last
\* was answered (`early'; flushStreamUpdates, updateLastAssistantMessage).  The state
\* keeps its types.
OwnReply ==
    TypeOK /\
    (~early => \A i \in DOMAIN messages :
                 messages[i].from = "assistant" => messages[i].text \subseteq {0, messages[i].req})

\* isGenerating, which offers Stop and blocks everything else, holds exactly while a
\* request of the mounted page is in progress or its stream was cut off without [DONE]:
\* finally blocks and listeners of old requests do not end the wrong one (unless `early').
CutOff == sseSource # 0 /\ net[sseSource] = "over"
GeneratingWhenBusy == ~early => (Generating <=> (InProgress # {} \/ CutOff))

\* When nothing is generated no answer is left loading or streaming, through Stop,
\* errors, deletions and a reload in mid-answer, unless a user's handler overwrote
\* updates that were not rendered yet (`stale'; updateMessages(nextMessages)).
EndedWhenIdle ==
    (~stale /\ ~Generating) => \A i \in DOMAIN messages : ~isAssistantMessagePending(messages[i])

\* Once the user pressed Stop nothing more of that request appears in the page: no
\* chunk from the buffer and no late response (stopGeneration), unless `early'.
Showing(ms, r) == {ms[i].req : i \in {j \in DOMAIN ms : r \in ms[j].text}}
QuietAfterStop ==
    [][\A r \in stopped : (page = "open" /\ ~early)
                            => Showing(messages', r) \subseteq Showing(messages, r)]_vars
=============================================================================
