--------------------------- MODULE PlaygroundChat ---------------------------
(***************************************************************************)
(* The playground of the web panel: one conversation, the requests that    *)
(* fill it, React's update queue between them, and the copy of the         *)
(* conversation in localStorage (web/src/features/playground):             *)
(*                                                                         *)
(*   hooks/use-stream-request.ts           the stream controller           *)
(*   hooks/use-chat-handler.ts             generations, flush timer, stop  *)
(*   hooks/use-playground-state.ts         messages and their saving       *)
(*   hooks/use-playground-conversation.ts  what the user does              *)
(*   lib/message/*.ts, lib/storage/storage.ts                              *)
(*                                                                         *)
(* Text is a sequence of tokens <<g, x>>: x is what the upstream of        *)
(* request g said.  Reasoning goes through buffers of its own by the same  *)
(* statements as content and is left out.                                  *)
(*                                                                         *)
(* React 19 renders the updates of events, timers and promises together    *)
(* and in order.  Those of a user event are rendered before anything else  *)
(* runs; the others later.  An updater runs when it is rendered, or at     *)
(* once (eagerly) if no update is scheduled.                               *)
(***************************************************************************)
EXTENDS Naturals, Sequences, SequencesExt

CONSTANTS
    Answers,      \* what an upstream may say
    Modes,        \* how it is delivered: "delta", "snapshot" (every chunk
                  \* repeats the text so far) or "plain" (config.stream is off)
    MaxSends,     \* number of requests
    MaxActs,      \* number of other acts of the user: see Act
    MaxStored     \* MAX_STORED_MESSAGES

ASSUME ConstantsAssumption ==
    /\ \A a \in Answers : a \in Seq(Range(a)) /\ a # <<>>
    /\ Modes \subseteq {"delta", "snapshot", "plain"}
    /\ MaxSends \in Nat /\ MaxActs \in Nat /\ MaxStored \in Nat \ {0}

Gens == 1..(MaxSends + MaxActs)
None == 0

VARIABLES
    requestGeneration, \* requestGenerationRef
    pending,           \* pendingStreamChunksRef
    flushTimer,        \* streamFlushTimerRef: the generation it flushes
    abort,             \* abortControllerRef: the generation it aborts
    generation,        \* of the stream controller
    source,            \* of the stream controller: the request it serves
    req,               \* the requests: the closures of send and the upstream
    messages,          \* React's messages
    flags,             \* React's isRequesting and isStreaming
    queue,             \* updaters of messages not yet run
    dirty,             \* is an update scheduled?
    view,              \* what is rendered
    editing,           \* editingMessageKey
    latest,            \* latestMessagesRef
    saveTimer,         \* messagesSaveTimerRef
    stored,            \* localStorage
    page,              \* is the playground mounted?
    sends, acts        \* counters of the bounds

handlerVars == <<requestGeneration, pending, flushTimer, abort>>
controllerVars == <<generation, source>>
reactVars == <<messages, flags, queue, dirty, view, latest, saveTimer>>
vars == <<handlerVars, controllerVars, req, reactVars, editing, stored, page,
          sends, acts>>

NoRequest == [at |-> "none", generation |-> None, mode |-> "delta",
              answer |-> <<>>, got |-> 0, mark |-> "none"]
Over(r) == [NoRequest EXCEPT !.at = "over", !.answer = r.answer, !.mark = r.mark]
Idle == [requesting |-> FALSE, streaming |-> FALSE]
NoKey == <<"none", None>>

ErrorText == <<<<None, "error">>>>
EditedText == <<<<None, "edited">>>>

Act == acts < MaxActs /\ acts' = acts + 1

isGenerating == view.flags # Idle

-----------------------------------------------------------------------------
(* Messages: lib/message.                                                  *)

From(m) == m.key[1]
isAssistantMessagePending(m) == m.status \in {"loading", "streaming"}
isAssistantMessageFinal(m) == m.status \in {"complete", "error"}
completeAssistantMessage(m) == [m EXCEPT !.status = "complete"]

createLoadingAssistantMessage(g) ==
    [key |-> <<"assistant", g>>, status |-> "loading", text |-> <<>>]
createUserMessage(g) == [key |-> <<"user", g>>, status |-> "sent", text |-> <<>>]

getAppendableChunk(current, chunk) ==
    IF current = <<>> \/ ~IsPrefix(current, chunk) THEN chunk
    ELSE SubSeq(chunk, Len(current) + 1, Len(chunk))

applyStreamingChunk(m, chunk) ==
    IF m.status = "error" THEN m
    ELSE [m EXCEPT !.status = "streaming",
                   !.text = @ \o getAppendableChunk(@, chunk)]

updateAssistantMessageWithError(m) == [m EXCEPT !.status = "error", !.text = ErrorText]

applyChatCompletionResponse(m, response) ==
    [m EXCEPT !.status = "complete", !.text = response]

IndexOf(ms, key) ==
    LET at == {i \in DOMAIN ms : ms[i].key = key} IN IF at = {} THEN 0 ELSE CHOOSE i \in at : TRUE

(* Messages up to the user message at or before position i, and an empty   *)
(* answer.                                                                 *)
createRegeneratedMessages(ms, i, g) ==
    Append(SubSeq(ms, 1, IF From(ms[i]) = "user" THEN i ELSE i - 1),
           createLoadingAssistantMessage(g))

(* lib/storage: the last messages are kept; a message that was loading or  *)
(* streaming when it was stored is over, and an error if nothing came.     *)
saveMessages(ms) ==
    IF Len(ms) <= MaxStored THEN ms ELSE SubSeq(ms, Len(ms) - MaxStored + 1, Len(ms))

normalizeStoredMessageForLoad(m) ==
    IF isAssistantMessagePending(m) /\ m.text # <<>> THEN completeAssistantMessage(m) ELSE m

sanitizeMessagesOnLoad(ms) ==
    LET stuck == {i \in DOMAIN ms : isAssistantMessagePending(ms[i])}
    IN  IF stuck = {} THEN ms
        ELSE [ms EXCEPT ![CHOOSE i \in stuck : \A j \in stuck : j <= i] =
                 updateAssistantMessageWithError(@)]

loadMessages ==
    sanitizeMessagesOnLoad([i \in DOMAIN stored |-> normalizeStoredMessageForLoad(stored[i])])

(* A conversation of an earlier visit is stored. *)
Init ==
    /\ requestGeneration = 0
    /\ pending = [generation |-> 0, content |-> <<>>]
    /\ flushTimer = None /\ abort = None
    /\ generation = 0 /\ source = None
    /\ req = [g \in Gens |-> NoRequest]
    /\ messages = <<>> /\ flags = Idle /\ queue = <<>> /\ dirty = FALSE
    /\ view = [messages |-> <<>>, flags |-> Idle]
    /\ editing = NoKey
    /\ latest = <<>> /\ saveTimer = FALSE
    /\ stored = <<createUserMessage(None)>>
    /\ page = "closed"
    /\ sends = 0 /\ acts = 0

-----------------------------------------------------------------------------
(* React.                                                                  *)

Updater(kind, g, text) == [kind |-> kind, generation |-> g, text |-> text,
                           key |-> NoKey, messages |-> <<>>]
SetTo(ms) == [Updater("set", None, <<>>) EXCEPT !.messages = ms]
removeMessageByKey(key) == [Updater("remove", None, <<>>) EXCEPT !.key = key]

(* What the updaters of the chat handler do with the last answer. *)
UpdateAnswer(u, m) ==
    CASE u.kind = "flush" -> applyStreamingChunk(m, u.text)
      [] u.kind = "complete" ->
            IF isAssistantMessageFinal(m) THEN m ELSE completeAssistantMessage(m)
      [] u.kind = "error" -> updateAssistantMessageWithError(m)
      [] u.kind = "answer" -> applyChatCompletionResponse(m, u.text)
      [] u.kind = "stop" ->
            IF isAssistantMessagePending(m) THEN completeAssistantMessage(m) ELSE m

updateLastAssistantMessage(ms, u) ==
    IF ms = <<>> \/ From(Last(ms)) # "assistant" THEN ms
    ELSE [ms EXCEPT ![Len(ms)] = UpdateAnswer(u, @)]

(* The messages with another key.  (SelectSeq, which the provers do not    *)
(* know.)                                                                  *)
WithoutKey(ms, key) ==
    LET kept[i \in 0..Len(ms)] ==
          IF i = 0 THEN <<>>
          ELSE IF ms[i].key = key THEN kept[i - 1] ELSE Append(kept[i - 1], ms[i])
    IN  kept[Len(ms)]

(* applyMessageStateUpdate when requestGenerationRef is g: the updaters of *)
(* the chat handler leave the messages alone once they are superseded.     *)
applyMessageStateUpdate(g, ms, u) ==
    CASE u.kind = "set" -> u.messages
      [] u.kind = "remove" -> WithoutKey(ms, u.key)
      [] OTHER -> IF u.generation # g THEN ms
                  ELSE updateLastAssistantMessage(ms, u)

(* The updaters us run on the messages ms, one after the other. *)
Run(g, ms, us) ==
    LET after[i \in 0..Len(us)] ==
          IF i = 0 THEN ms ELSE applyMessageStateUpdate(g, after[i - 1], us[i])
    IN  after[Len(us)]

(* persistMessages is called by every updater that runs. *)
persistMessages(ms) == latest' = ms /\ saveTimer' = TRUE

(* setMessages of the updaters us, in an event that is not the user's. *)
ScheduleLater(us) ==
    /\ dirty' = TRUE /\ queue' = queue \o us
    /\ UNCHANGED <<messages, latest, saveTimer, view>>

Schedule(us) ==
    \/ ScheduleLater(us)
    \/ /\ ~dirty /\ us # <<>>
       /\ dirty' = TRUE /\ queue' = Tail(us)
       /\ messages' = applyMessageStateUpdate(requestGeneration, messages, us[1])
       /\ persistMessages(messages')
       /\ UNCHANGED view

(* The updaters in the queue, then us, run on the messages ms and the      *)
(* result is rendered.                                                     *)
Commit(ms, us) ==
    LET run == queue \o us
        result == Run(requestGeneration', ms, run)
    IN  /\ messages' = result
        /\ queue' = <<>> /\ dirty' = FALSE
        /\ view' = [messages |-> result, flags |-> flags']
        /\ IF run # <<>> \/ ms # messages THEN persistMessages(result)
           ELSE UNCHANGED <<latest, saveTimer>>

Render ==
    /\ page = "open" /\ dirty
    /\ UNCHANGED <<flags, requestGeneration>>
    /\ Commit(messages, <<>>)
    /\ UNCHANGED <<pending, flushTimer, abort, controllerVars, req, editing,
                   stored, page, sends, acts>>

(* The 500 ms of MESSAGE_SAVE_DEBOUNCE_MS pass. *)
Save ==
    /\ page = "open" /\ saveTimer
    /\ saveTimer' = FALSE
    /\ stored' = saveMessages(latest)
    /\ UNCHANGED <<handlerVars, controllerVars, req, messages, flags, queue, dirty,
                   view, editing, latest, page, sends, acts>>

-----------------------------------------------------------------------------
(* The requests.                                                           *)

Latest(g) == g = requestGeneration

(* For the properties: what the user did to the requests gs. *)
Mark(gs, what) ==
    req' = [g \in Gens |-> IF g \in gs /\ req[g].at # "none" /\ req[g].mark # "edited"
                           THEN [req[g] EXCEPT !.mark = what] ELSE req[g]]

(* Mutant: the buffer goes to the new request as it is. *)
DiscardNothing(g) ==
    flushTimer' = None /\ pending' = [generation |-> g, content |-> pending.content]

(* Mutant: the timer of the old request is left. *)
DiscardText(g) ==
    pending' = [generation |-> g, content |-> <<>>] /\ UNCHANGED flushTimer

discardPendingStreamUpdates(g) ==
    flushTimer' = None /\ pending' = [generation |-> g, content |-> <<>>]

(* sendChat with the messages ms, in an event of the user.  Both kinds of  *)
(* request supersede the one before: its source is closed, its call        *)
(* aborted, and what it had buffered is dropped.                           *)
sendChat(ms) ==
    LET g == requestGeneration + 1
    IN  /\ sends < MaxSends /\ sends' = sends + 1
        /\ requestGeneration' = g
        /\ discardPendingStreamUpdates(g)
        /\ generation' = generation + 1 /\ source' = None
        /\ flags' = [requesting |-> TRUE, streaming |-> FALSE]
        /\ \E mode \in Modes, answer \in Answers :
             /\ abort' = IF mode = "plain" THEN g ELSE None
             /\ req' = [req EXCEPT ![g] =
                   [NoRequest EXCEPT !.at = IF mode = "plain" THEN "sent" ELSE "headers",
                       !.generation = generation + 1, !.mode = mode,
                       !.answer = [i \in DOMAIN answer |-> <<g, answer[i]>>]]]
        /\ Commit(messages, <<SetTo(ms)>>)

(* flushStreamUpdates: the updater, if there is something to flush. *)
Flush(g) ==
    IF Latest(g) /\ pending.generation = g /\ pending.content # <<>>
    THEN <<Updater("flush", g, pending.content)>> ELSE <<>>

(* Mutant: a flush neither empties the buffer nor stops the timer. *)
KeptBuffer(g) == UNCHANGED <<flushTimer, pending>>

(* flushStreamUpdates: the refs. *)
Flushed(g) ==
    IF Latest(g)
    THEN /\ flushTimer' = None
         /\ pending' = IF pending.generation = g THEN [pending EXCEPT !.content = <<>>]
                       ELSE pending
    ELSE UNCHANGED <<flushTimer, pending>>

FlushTimer ==
    /\ page = "open"
    /\ flushTimer # None /\ Latest(flushTimer)
    /\ Schedule(Flush(flushTimer))
    /\ Flushed(flushTimer)
    /\ UNCHANGED <<requestGeneration, abort, controllerVars, req, flags, editing,
                   stored, page, sends, acts>>

(* handleStreamError: the updaters and the flag. *)
FailUpdaters(g) == Flush(g) \o <<Updater("error", g, <<>>)>>

(* The headers of request g are there, or getFreshAuthHeaders failed. *)
ReceiveHeaders(g) ==
    /\ page = "open"
    /\ req[g].at = "headers" /\ generation = req[g].generation
    /\ \/ /\ req' = [req EXCEPT ![g].at = "open"]
          /\ source' = g
          /\ flags' = [flags EXCEPT !.streaming = TRUE]
          /\ ScheduleLater(<<>>)
          /\ UNCHANGED <<pending, flushTimer>>
       \/ /\ Latest(g)
          /\ req' = [req EXCEPT ![g] = Over(@)]
          /\ flags' = [flags EXCEPT !.requesting = FALSE]
          /\ Schedule(FailUpdaters(g))
          /\ Flushed(g)
          /\ UNCHANGED source
    /\ UNCHANGED <<requestGeneration, abort, generation, editing, stored, page,
                   sends, acts>>

isCurrent(g) == req[g].at = "open" /\ generation = req[g].generation /\ source = g

(* Mutant: a chunk is always appended to the buffer. *)
AppendPendingChunk(current, chunk) == current \o chunk

mergePendingStreamChunk(current, chunk) ==
    IF current = <<>> \/ ~IsPrefix(current, chunk) THEN current \o chunk ELSE chunk

(* A message of the stream with content. *)
ReceiveChunk(g) ==
    /\ page = "open"
    /\ isCurrent(g) /\ req[g].got < Len(req[g].answer)
    /\ Latest(g) /\ pending.generation = g
    /\ LET n == req[g].got + 1
           chunk == SubSeq(req[g].answer, IF req[g].mode = "delta" THEN n ELSE 1, n)
       IN  pending' = [pending EXCEPT !.content = mergePendingStreamChunk(@, chunk)]
    /\ flushTimer' = IF flushTimer = None THEN g ELSE flushTimer
    /\ req' = [req EXCEPT ![g].got = @ + 1]
    /\ UNCHANGED <<requestGeneration, abort, controllerVars, reactVars, editing,
                   stored, page, sends, acts>>

(* handleStreamComplete: the updaters. *)
CompleteUpdaters(g) == Flush(g) \o <<Updater("complete", g, <<>>)>>

(* [DONE]: the source is closed first, which schedules an update. *)
ReceiveDone(g) ==
    /\ page = "open"
    /\ isCurrent(g) /\ req[g].got = Len(req[g].answer)
    /\ Latest(g)
    /\ req' = [req EXCEPT ![g] = Over(@)]
    /\ source' = None
    /\ flags' = Idle
    /\ ScheduleLater(CompleteUpdaters(g))
    /\ Flushed(g)
    /\ UNCHANGED <<requestGeneration, abort, generation, editing, stored, page,
                   sends, acts>>

(* Mutant: a failed stream only closes its source. *)
StillRequesting == [flags EXCEPT !.streaming = FALSE]

(* The flags after a request has failed. *)
AfterError == Idle

(* An error event, an HTTP status other than 200, a chunk that cannot be   *)
(* parsed.                                                                 *)
StreamError(g) ==
    /\ page = "open"
    /\ isCurrent(g) /\ Latest(g)
    /\ req' = [req EXCEPT ![g] = Over(@)]
    /\ source' = None
    /\ flags' = AfterError
    /\ Schedule(FailUpdaters(g))
    /\ Flushed(g)
    /\ UNCHANGED <<requestGeneration, abort, generation, editing, stored, page,
                   sends, acts>>

(* The connection ends with status 200 and without [DONE]: no handler does *)
(* anything.                                                               *)
CloseQuietly(g) ==
    /\ page = "open"
    /\ isCurrent(g)
    /\ req' = [req EXCEPT ![g].at = "quiet"]
    /\ UNCHANGED <<handlerVars, controllerVars, reactVars, editing, stored, page,
                   sends, acts>>

(* The answer of sendNonStreamingChat, or its failure. *)
ReceiveResponse(g) ==
    /\ page = "open"
    /\ req[g].at = "sent" /\ abort = g /\ Latest(g)
    /\ req' = [req EXCEPT ![g] = Over(@)]
    /\ abort' = None
    /\ flags' = [flags EXCEPT !.requesting = FALSE]
    /\ \/ Schedule(<<Updater("answer", g, req[g].answer)>>)
       \/ Schedule(FailUpdaters(g))
    /\ UNCHANGED <<requestGeneration, pending, flushTimer, controllerVars, editing,
                   stored, page, sends, acts>>

-----------------------------------------------------------------------------
(* The user.                                                               *)

Send ==
    /\ page = "open" /\ ~isGenerating
    /\ LET g == requestGeneration + 1
       IN  sendChat(view.messages \o <<createUserMessage(g), createLoadingAssistantMessage(g)>>)
    /\ UNCHANGED <<editing, stored, page, acts>>

Regenerate ==
    /\ page = "open" /\ ~isGenerating
    /\ \E i \in DOMAIN view.messages :
         sendChat(createRegeneratedMessages(view.messages, i, requestGeneration + 1))
    /\ UNCHANGED <<editing, stored, page, acts>>

Delete ==
    /\ page = "open" /\ ~isGenerating
    /\ Act
    /\ UNCHANGED <<flags, requestGeneration>>
    /\ \E i \in DOMAIN view.messages : Commit(messages, <<removeMessageByKey(view.messages[i].key)>>)
    /\ UNCHANGED <<pending, flushTimer, abort, controllerVars, req, editing, stored,
                   page, sends>>

Clear ==
    /\ page = "open" /\ ~isGenerating /\ view.messages # <<>>
    /\ Act
    /\ UNCHANGED <<flags, requestGeneration>>
    /\ editing' = NoKey
    /\ Commit(messages, <<SetTo(<<>>)>>)
    /\ UNCHANGED <<pending, flushTimer, abort, controllerVars, req, stored, page, sends>>

(* The editor of a message opens; it stays open when a generation starts. *)
OpenEditor ==
    /\ page = "open" /\ ~isGenerating /\ editing = NoKey
    /\ Act
    /\ \E i \in DOMAIN view.messages : editing' = view.messages[i].key
    /\ UNCHANGED <<handlerVars, controllerVars, req, reactVars, stored, page, sends>>

(* applyEdit: the rendered messages with the edit replace whatever the     *)
(* queue makes of them.                                                    *)
SaveEdit ==
    LET i == IndexOf(view.messages, editing)
        edited == [view.messages EXCEPT ![i].text = EditedText]
    IN  /\ page = "open" /\ i # 0
        /\ editing' = NoKey
        /\ \/ /\ UNCHANGED <<flags, requestGeneration, pending, flushTimer, abort,
                             controllerVars, sends>>
              /\ IF dirty THEN Mark({requestGeneration}, "edited") ELSE UNCHANGED req
              /\ Commit(messages, <<SetTo(edited)>>)
           \/ /\ From(view.messages[i]) = "user"
              /\ sendChat(createRegeneratedMessages(edited, i, requestGeneration + 1))
        /\ UNCHANGED <<stored, page, acts>>

(* Mutant: the answer that was under way is left as it is. *)
StopOnly(g) == <<>>

(* stopGeneration: the last updater. *)
StopUpdaters(g) == <<Updater("stop", g, <<>>)>>

(* stopGeneration.  The updater that flushes the buffer is superseded by   *)
(* the statement that follows it, unless React runs it eagerly.            *)
Stop ==
    LET g == requestGeneration
        flush == Flush(g)
    IN  /\ page = "open" /\ isGenerating
        /\ Act
        /\ requestGeneration' = g + 1
        /\ discardPendingStreamUpdates(g + 1)
        /\ generation' = generation + 1 /\ source' = None
        /\ abort' = None
        /\ flags' = Idle
        /\ Mark({g}, "stopped")
        /\ \/ Commit(messages, flush \o StopUpdaters(g + 1))
           \/ /\ ~dirty /\ flush # <<>>
              /\ Commit(applyMessageStateUpdate(g, messages, flush[1]), StopUpdaters(g + 1))
        /\ UNCHANGED <<editing, stored, page, sends>>

(* Mutant: nothing is saved when the playground is left. *)
LeaveUnsaved == stored

(* The cleanup of usePlaygroundState. *)
SavedOnUnmount == IF saveTimer THEN saveMessages(latest) ELSE stored

(* The user leaves the playground: the cleanups of the three hooks. *)
Unmount ==
    /\ page = "open"
    /\ Act
    /\ stored' = SavedOnUnmount
    /\ saveTimer' = FALSE
    /\ requestGeneration' = requestGeneration + 1
    /\ flushTimer' = None /\ abort' = None
    /\ generation' = generation + 1 /\ source' = None
    /\ queue' = <<>> /\ dirty' = FALSE
    /\ page' = "left"
    /\ Mark({requestGeneration}, "left")
    /\ UNCHANGED <<pending, messages, flags, view, editing, latest, sends>>

(* The tab is closed: no cleanup runs. *)
CloseTab ==
    /\ page = "open"
    /\ Act
    /\ requestGeneration' = requestGeneration + 1
    /\ generation' = generation + 1 /\ source' = None
    /\ flushTimer' = None /\ abort' = None
    /\ queue' = <<>> /\ dirty' = FALSE /\ saveTimer' = FALSE
    /\ page' = "closed"
    /\ Mark(Gens, "left")
    /\ UNCHANGED <<pending, messages, flags, view, editing, latest, stored, sends>>

(* The playground is opened again, with new refs, and loads what is        *)
(* stored.  Generations are only compared with each other: the model goes  *)
(* on counting.                                                            *)
Mount ==
    /\ page # "open"
    /\ page' = "open"
    /\ messages' = loadMessages /\ latest' = loadMessages /\ stored' = loadMessages
    /\ view' = [messages |-> loadMessages, flags |-> Idle]
    /\ flags' = Idle /\ editing' = NoKey
    /\ pending' = [generation |-> requestGeneration, content |-> <<>>]
    /\ UNCHANGED <<requestGeneration, flushTimer, abort, controllerVars, req, queue,
                   dirty, saveTimer, sends, acts>>

-----------------------------------------------------------------------------

User == Send \/ Regenerate \/ Delete \/ Clear \/ OpenEditor \/ SaveEdit \/ Stop
        \/ Unmount \/ CloseTab \/ Mount

Network(g) == ReceiveHeaders(g) \/ ReceiveChunk(g) \/ ReceiveDone(g) \/ StreamError(g)
              \/ CloseQuietly(g) \/ ReceiveResponse(g)

Browser == Render \/ FlushTimer \/ Save

Next == User \/ Browser \/ \E g \in Gens : Network(g)

(* The browser runs timers and renders; headers, streams and calls end. *)
Fairness == WF_vars(Render) /\ WF_vars(FlushTimer) /\ \A g \in Gens : WF_vars(Network(g))

Spec == Init /\ [][Next]_vars /\ Fairness

-----------------------------------------------------------------------------
Messages ==
    [key : {"user", "assistant"} \X (Gens \cup {None}),
     status : {"sent", "loading", "streaming", "complete", "error"}]

(* The type of the state. *)
TypeOK ==
    /\ requestGeneration \in 0..(MaxSends + MaxActs)
    /\ pending.generation \in 0..requestGeneration
    /\ flushTimer \in {None, requestGeneration}
    /\ abort \in {None, requestGeneration}
    /\ generation = requestGeneration
    /\ source \in {None, requestGeneration}
    /\ \A i \in DOMAIN messages :
         [key |-> messages[i].key, status |-> messages[i].status] \in Messages
    /\ flags \in [requesting : BOOLEAN, streaming : BOOLEAN]
    /\ dirty \in BOOLEAN /\ saveTimer \in BOOLEAN
    /\ ~dirty => queue = <<>>
    /\ page \in {"open", "left", "closed"}

Unedited(m) == m.text \notin {EditedText, ErrorText}

(* An answer only ever holds text of its own request: what a superseded or *)
(* stopped request has buffered, queued in React or still on its way never *)
(* ends up in the message of a later one (requestGenerationRef and the     *)
(* generation of the stream controller).                                   *)
OwnText ==
    \A i \in DOMAIN messages :
        From(messages[i]) = "assistant" /\ Unedited(messages[i]) =>
            \A k \in DOMAIN messages[i].text : messages[i].text[k][1] = messages[i].key[2]

(* An answer that is complete, that the user neither stopped nor left nor  *)
(* saved an edit over, is everything the upstream said, each token once    *)
(* and in order, however chunks, flush timer, rendering and [DONE]         *)
(* interleave, and whether chunks are deltas or repeat the text so far.    *)
FullAnswer ==
    \A i \in DOMAIN messages :
        LET m == messages[i] IN
        /\ From(m) = "assistant" /\ m.status = "complete" /\ Unedited(m)
        /\ req[m.key[2]].mark = "none" /\ req[m.key[2]].at = "over"
        => m.text = req[m.key[2]].answer

(* When the page shows no generation and nothing is left to render, no     *)
(* answer is loading or streaming: neither a stop in the same moment as    *)
(* the end of the stream, nor a superseded request, nor a tab closed in    *)
(* the middle of an answer leaves one behind.  Excepted is an answer over  *)
(* which an edit was saved before an update of it was rendered.            *)
NoStuckAnswer ==
    page = "open" /\ ~dirty /\ ~isGenerating =>
        \A i \in DOMAIN messages :
            isAssistantMessagePending(messages[i]) => req[messages[i].key[2]].mark = "edited"

(* Leaving the playground stores the conversation as React last had it,    *)
(* also when the save timer is running and an update has run but is not    *)
(* rendered.                                                               *)
SavedOnLeave == page = "left" => stored = saveMessages(messages)

(* An answer that is complete or has failed changes by an act of the user  *)
(* only: no flush, late chunk or second outcome of its request opens it    *)
(* again.                                                                  *)
FinalStays ==
    [][(Browser \/ \E g \in Gens : Network(g)) =>
         \A i \in DOMAIN messages :
            isAssistantMessageFinal(messages[i]) => messages'[i] = messages[i]]_vars

(* A generation that is shown ends, unless the playground is left or the   *)
(* connection was closed with status 200 and without [DONE], which no      *)
(* handler of the stream controller notices.                               *)
GenerationEnds ==
    isGenerating ~> (page # "open" \/ ~isGenerating
                     \/ (requestGeneration \in Gens /\ req[requestGeneration].at = "quiet"))
=============================================================================
