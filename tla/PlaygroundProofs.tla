-------------------------- MODULE PlaygroundProofs --------------------------
(***************************************************************************)
(* Proofs about PlaygroundChat.                                            *)
(*                                                                         *)
(* The invariant says where the one message is that updates may change:    *)
(* while a generation is shown, it is the last of the list, it belongs to  *)
(* the request of the current generation, and what is queued for it in     *)
(* React comes from that request (FocusInv).  All other messages are       *)
(* closed (StuckInv).  A step of a handler is then either an update        *)
(* scheduled for that message (ReportStep) or one that renders everything  *)
(* (CommittedBusy, CommittedIdle), whatever the order of events.           *)
(*                                                                         *)
(* A second invariant, TextInv, follows the text of the answer under way:  *)
(* what has arrived of it is a beginning that is in the message or in the  *)
(* queue, and a rest that is in the buffer (Split).  Chunks extend the     *)
(* rest (ChunkGoodIs), flushes move it (FlushGoodIs).                      *)
(***************************************************************************)
EXTENDS PlaygroundChat, SumLemmas

-----------------------------------------------------------------------------
(* The inductive invariant.                                                *)

Words == (UNION {Range(a) : a \in Answers}) \cup {"error", "edited"}
Texts(g) == Seq({g} \X Words)
AllTexts == Seq(Nat \X Words)

Statuses == {"sent", "loading", "streaming", "complete", "error"}
Keys(g) == {"user", "assistant"} \X (0..g)

(* Messages of the requests up to g: each holds text of its own request,   *)
(* or was edited, or failed.                                               *)
Msgs(g) == {m \in [key : Keys(g), status : Statuses, text : AllTexts] :
                m.text \in Texts(m.key[2]) \cup {EditedText, ErrorText}}

(* What the handlers of request g may put into the queue. *)
Kinds == {"flush", "complete", "error", "answer"}
Reports(g, kinds) == [kind : kinds, generation : {g}, text : Texts(g),
                      key : {NoKey}, messages : {<<>>}]

FlagSet == [requesting : BOOLEAN, streaming : BOOLEAN]
Requests(g) == [at : {"none", "headers", "sent", "open", "quiet", "over"},
                generation : Nat, mode : {"delta", "snapshot", "plain"},
                answer : Texts(g), got : Nat,
                mark : {"none", "edited", "stopped", "left"}]

RefInv ==
    /\ requestGeneration \in Nat /\ sends \in 0..MaxSends /\ acts \in 0..MaxActs
    /\ requestGeneration <= sends + acts
    /\ generation = requestGeneration
    /\ pending \in [generation : Nat, content : AllTexts]
    /\ pending.generation <= requestGeneration
    /\ flushTimer \in {None, requestGeneration}
    /\ abort \in {None, requestGeneration}
    /\ source \in {None, requestGeneration}
    /\ flags \in FlagSet
    /\ dirty \in BOOLEAN /\ saveTimer \in BOOLEAN
    /\ page \in {"open", "left", "closed"}
    /\ editing \in Keys(requestGeneration) \cup {NoKey}

ListInv ==
    /\ messages \in Seq(Msgs(requestGeneration)) /\ latest = messages
    /\ stored \in Seq(Msgs(requestGeneration))
    /\ view.messages \in Seq(Msgs(requestGeneration))
    /\ queue \in Seq(Reports(requestGeneration, Kinds))

ReqInv ==
    /\ DOMAIN req = Gens
    /\ \A g \in Gens :
        /\ req[g] \in Requests(g)
        /\ req[g].at \notin {"none", "over"} => req[g].generation = g
        /\ g > requestGeneration => req[g].at = "none"
        /\ req[g].at = "none" => req[g].mark = "none"

At(places) == requestGeneration \in Gens /\ req[requestGeneration].at \in places
Active == At({"headers", "sent", "open", "quiet"})
Streaming == At({"open", "quiet"})

(* Nothing is under way when the page is not open, and the refs and flags  *)
(* go with the place of the request.                                       *)
FlowInv ==
    /\ ~dirty => queue = <<>>
    /\ page # "open" => ~dirty /\ ~saveTimer /\ flushTimer = None /\ ~Active
    /\ flushTimer # None => Streaming
    /\ pending.generation = requestGeneration =>
         pending.content \in Texts(requestGeneration) /\ (pending.content # <<>> => Streaming)
    /\ page = "open" => flags = [requesting |-> Active, streaming |-> Streaming]
    /\ page = "open" /\ ~dirty => view = [messages |-> messages, flags |-> flags]
    /\ page = "open" /\ (dirty \/ flags # Idle) => isGenerating

(* The message a request fills. *)
Target(ms) == ms[Len(ms)]
Clean(m) == m.text \in Texts(m.key[2]) /\ m.status # "error"
Fails(m) == m.text = ErrorText /\ m.status = "error"

FocusInv ==
    page = "open" /\ isGenerating =>
        /\ At({"headers", "sent", "open", "quiet", "over"})
        /\ messages # <<>> /\ Len(view.messages) = Len(messages)
        /\ \A i \in 1..(Len(messages) - 1) : view.messages[i] = messages[i]
        /\ Target(messages).key = <<"assistant", requestGeneration>>
        /\ Target(view.messages).key = <<"assistant", requestGeneration>>
        /\ Clean(Target(view.messages)) /\ isAssistantMessagePending(Target(view.messages))
        /\ Clean(Target(messages)) \/ Fails(Target(messages))
        /\ editing # <<"assistant", requestGeneration>>
        /\ Active => /\ isAssistantMessagePending(Target(messages))
                     /\ queue \in Seq(Reports(requestGeneration, {"flush"}))
        /\ queue # <<>> => isAssistantMessagePending(Target(messages))
        /\ ~Active => \/ isAssistantMessageFinal(Target(messages))
                      \/ queue # <<>> /\ queue[Len(queue)].kind # "flush"

(* A message is pending only if its request, one of r, was edited over. *)
Closed(r, m) ==
    isAssistantMessagePending(m) => m.key[2] \in Gens /\ r[m.key[2]].mark = "edited"

StuckInv ==
    /\ \A i \in 1..(Len(messages) - 1) : Closed(req, messages[i])
    /\ \A i \in 1..(Len(stored) - 1) : Closed(req, stored[i])
    /\ page = "open" /\ ~isGenerating => \A i \in DOMAIN messages : Closed(req, messages[i])

SaveInv ==
    /\ Len(stored) <= MaxStored
    /\ page = "left" \/ (page = "open" /\ ~saveTimer) => stored = saveMessages(messages)

IndInv == RefInv /\ ListInv /\ ReqInv /\ FlowInv /\ FocusInv /\ StuckInv /\ SaveInv

-----------------------------------------------------------------------------
(* The two recursive functions of the model.                               *)

RunSteps(f, n, g, ms, us) ==
    f = [i \in 0..n |-> IF i = 0 THEN ms ELSE applyMessageStateUpdate(g, f[i - 1], us[i])]

LEMMA RunDef ==
    ASSUME NEW g, NEW ms, NEW us
    PROVE  Run(g, ms, us) = (CHOOSE f : RunSteps(f, Len(us), g, ms, us))[Len(us)]
  BY DEF Run, RunSteps

(* The recursion has a solution for any number of updaters. *)
LEMMA RunExists ==
    ASSUME NEW g, NEW ms, NEW us, NEW n \in Nat
    PROVE  \E f : RunSteps(f, n, g, ms, us)
  <1> DEFINE N == {k \in Nat : \E f : RunSteps(f, k, g, ms, us)}
  <1>1. 0 \in N
    <2> DEFINE f == [i \in 0..0 |-> ms]
    <2>1. f = [i \in 0..0 |-> IF i = 0 THEN ms ELSE applyMessageStateUpdate(g, f[i - 1], us[i])]
      <3>1. \A i \in 0..0 : i = 0
        OBVIOUS
      <3> QED
        BY <3>1
    <2>2. RunSteps(f, 0, g, ms, us)
      BY <2>1 DEF RunSteps
    <2> QED
      BY <2>2
  <1>2. ASSUME NEW k \in Nat, k \in N PROVE k + 1 \in N
    <2>1. PICK f : RunSteps(f, k, g, ms, us)
      BY <1>2
    <2> DEFINE h == [i \in 0..(k + 1) |->
                       IF i = 0 THEN ms ELSE applyMessageStateUpdate(g, f[i - 1], us[i])]
    <2>2. ASSUME NEW i \in 0..k PROVE h[i] = f[i]
      <3>1. f[i] = IF i = 0 THEN ms ELSE applyMessageStateUpdate(g, f[i - 1], us[i])
        BY <2>1 DEF RunSteps
      <3>2. i \in 0..(k + 1)
        OBVIOUS
      <3> QED
        BY <3>1, <3>2
    <2>3. \A i \in 0..(k + 1) : i # 0 => h[i - 1] = f[i - 1]
      <3> SUFFICES ASSUME NEW i \in 0..(k + 1), i # 0 PROVE h[i - 1] = f[i - 1]
        OBVIOUS
      <3>1. i - 1 \in 0..k
        OBVIOUS
      <3> HIDE DEF h
      <3> QED
        BY <2>2, <3>1
    <2>4. h = [i \in 0..(k + 1) |->
                 IF i = 0 THEN ms ELSE applyMessageStateUpdate(g, h[i - 1], us[i])]
      BY <2>3
    <2> HIDE DEF h
    <2> QED
      BY <2>4 DEF RunSteps
  <1> HIDE DEF N
  <1>3. Nat \subseteq N
    BY <1>1, <1>2, NatInd
  <1> QED
    BY <1>3 DEF N

LEMMA RunSolves ==
    ASSUME NEW g, NEW ms, NEW us, Len(us) \in Nat
    PROVE  \E f : RunSteps(f, Len(us), g, ms, us) /\ Run(g, ms, us) = f[Len(us)]
  <1>1. RunSteps(CHOOSE f : RunSteps(f, Len(us), g, ms, us), Len(us), g, ms, us)
    BY RunExists, Zenon
  <1> QED
    BY <1>1, RunDef, Zenon

LEMMA RunEmpty ==
    ASSUME NEW g, NEW ms
    PROVE  Run(g, ms, <<>>) = ms
  <1>1. PICK f : RunSteps(f, Len(<<>>), g, ms, <<>>) /\ Run(g, ms, <<>>) = f[Len(<<>>)]
    BY RunSolves
  <1>2. Len(<<>>) = 0 /\ 0 \in 0..0
    OBVIOUS
  <1>3. f[0] = ms
    BY <1>1, <1>2 DEF RunSteps
  <1> QED
    BY <1>1, <1>2, <1>3

(* If each of the updaters us keeps the messages in G and u then brings    *)
(* them into H, the run ends in H.                                         *)
LEMMA RunEnds ==
    ASSUME NEW g, NEW U, NEW us \in Seq(U), NEW u, NEW G, NEW H, NEW ms \in G,
           \A x \in G : \A v \in U : applyMessageStateUpdate(g, x, v) \in G,
           \A x \in G : applyMessageStateUpdate(g, x, u) \in H
    PROVE  Run(g, ms, us) \in G /\ Run(g, ms, us \o <<u>>) \in H
  <1>1. ASSUME NEW vs, Len(vs) \in Nat, \A i \in 1..Len(us) : vs[i] = us[i], NEW f,
               RunSteps(f, Len(vs), g, ms, vs), Len(us) <= Len(vs)
        PROVE  f[Len(us)] \in G
    <2> DEFINE N == {k \in Nat : k <= Len(us) => f[k] \in G}
    <2>0. Len(us) \in Nat /\ \A k \in 1..Len(us) : us[k] \in U
      OBVIOUS
    <2>1. 0 \in N
      BY <1>1 DEF RunSteps
    <2>2. ASSUME NEW k \in Nat, k \in N PROVE k + 1 \in N
      <3> SUFFICES ASSUME k + 1 <= Len(us) PROVE f[k + 1] \in G
        OBVIOUS
      <3>1. f[k] \in G
        BY <2>0, <2>2
      <3>2. k + 1 \in 0..Len(vs) /\ k + 1 # 0 /\ (k + 1) - 1 = k /\ k + 1 \in 1..Len(us)
        BY <1>1, <2>0
      <3>3. f[k + 1] = applyMessageStateUpdate(g, f[k], vs[k + 1])
        BY <1>1, <3>2 DEF RunSteps
      <3> QED
        BY <1>1, <2>0, <3>1, <3>2, <3>3
    <2> HIDE DEF N
    <2>3. Nat \subseteq N
      BY <2>1, <2>2, NatInd
    <2> QED
      BY <2>0, <2>3 DEF N
  <1>2. Run(g, ms, us) \in G
    <2>1. PICK f : RunSteps(f, Len(us), g, ms, us) /\ Run(g, ms, us) = f[Len(us)]
      BY RunSolves
    <2> QED
      BY <1>1, <2>1
  <1>3. Run(g, ms, us \o <<u>>) \in H
    <2> DEFINE vs == us \o <<u>>
    <2>1. /\ Len(vs) = Len(us) + 1 /\ Len(vs) \in Nat /\ vs[Len(vs)] = u
          /\ \A i \in 1..Len(us) : vs[i] = us[i]
      OBVIOUS
    <2> HIDE DEF vs
    <2>2. PICK f : RunSteps(f, Len(vs), g, ms, vs) /\ Run(g, ms, vs) = f[Len(vs)]
      BY <2>1, RunSolves
    <2>3. f[Len(us)] \in G
      BY <1>1, <2>1, <2>2
    <2>4. Len(vs) \in 0..Len(vs) /\ Len(vs) # 0 /\ Len(vs) - 1 = Len(us)
      BY <2>1
    <2>5. f[Len(vs)] = applyMessageStateUpdate(g, f[Len(us)], u)
      BY <2>1, <2>2, <2>4 DEF RunSteps
    <2> QED
      BY <2>2, <2>3, <2>5 DEF vs
  <1> QED
    BY <1>2, <1>3

KeepSteps(f, n, ms, key) ==
    f = [i \in 0..n |-> IF i = 0 THEN <<>>
                        ELSE IF ms[i].key = key THEN f[i - 1] ELSE Append(f[i - 1], ms[i])]

LEMMA KeepExists ==
    ASSUME NEW ms, NEW key, NEW n \in Nat
    PROVE  \E f : KeepSteps(f, n, ms, key)
  <1> DEFINE N == {k \in Nat : \E f : KeepSteps(f, k, ms, key)}
             Next1(v, i) == IF ms[i].key = key THEN v ELSE Append(v, ms[i])
  <1>0. \A f, k : KeepSteps(f, k, ms, key) <=>
                    f = [i \in 0..k |-> IF i = 0 THEN <<>> ELSE Next1(f[i - 1], i)]
    BY DEF KeepSteps
  <1> HIDE DEF Next1
  <1>1. 0 \in N
    <2> DEFINE f == [i \in 0..0 |-> <<>>]
    <2>1. f = [i \in 0..0 |-> IF i = 0 THEN <<>> ELSE Next1(f[i - 1], i)]
      <3>1. \A i \in 0..0 : i = 0
        OBVIOUS
      <3> QED
        BY <3>1
    <2> HIDE DEF f
    <2> QED
      BY <1>0, <2>1
  <1>2. ASSUME NEW k \in Nat, k \in N PROVE k + 1 \in N
    <2>1. PICK f : KeepSteps(f, k, ms, key)
      BY <1>2
    <2> DEFINE h == [i \in 0..(k + 1) |-> IF i = 0 THEN <<>> ELSE Next1(f[i - 1], i)]
    <2>2. ASSUME NEW i \in 0..k PROVE h[i] = f[i]
      <3>1. f[i] = IF i = 0 THEN <<>> ELSE Next1(f[i - 1], i)
        BY <1>0, <2>1
      <3>2. i \in 0..(k + 1)
        OBVIOUS
      <3> QED
        BY <3>1, <3>2
    <2>3. \A i \in 0..(k + 1) : i # 0 => h[i - 1] = f[i - 1]
      <3> SUFFICES ASSUME NEW i \in 0..(k + 1), i # 0 PROVE h[i - 1] = f[i - 1]
        OBVIOUS
      <3>1. i - 1 \in 0..k
        OBVIOUS
      <3> HIDE DEF h
      <3> QED
        BY <2>2, <3>1
    <2>4. h = [i \in 0..(k + 1) |-> IF i = 0 THEN <<>> ELSE Next1(h[i - 1], i)]
      BY <2>3
    <2> HIDE DEF h
    <2>5. KeepSteps(h, k + 1, ms, key) /\ k + 1 \in Nat
      BY <1>0, <2>4
    <2> QED
      BY <2>5, Zenon
  <1> HIDE DEF N
  <1>3. Nat \subseteq N
    BY <1>1, <1>2, NatInd
  <1> QED
    BY <1>3 DEF N

(* Removing messages keeps the others. *)
LEMMA WithoutKeyType ==
    ASSUME NEW S, NEW ms \in Seq(S), NEW key
    PROVE  WithoutKey(ms, key) \in Seq(S)
  <1>1. WithoutKey(ms, key) = (CHOOSE f : KeepSteps(f, Len(ms), ms, key))[Len(ms)]
    BY DEF WithoutKey, KeepSteps
  <1>2. Len(ms) \in Nat /\ \A i \in 1..Len(ms) : ms[i] \in S
    OBVIOUS
  <1>3. PICK f : KeepSteps(f, Len(ms), ms, key) /\ WithoutKey(ms, key) = f[Len(ms)]
    <2>1. KeepSteps(CHOOSE f : KeepSteps(f, Len(ms), ms, key), Len(ms), ms, key)
      BY <1>2, KeepExists, Zenon
    <2> QED
      BY <1>1, <2>1, Zenon
  <1> DEFINE N == {k \in Nat : k <= Len(ms) => f[k] \in Seq(S)}
  <1>4. 0 \in N
    <2>1. 0 \in 0..Len(ms)
      BY <1>2
    <2>2. f[0] = <<>>
      BY <1>3, <2>1 DEF KeepSteps
    <2>3. <<>> \in Seq(S) /\ 0 \in Nat
      OBVIOUS
    <2> QED
      BY <2>2, <2>3, Zenon
  <1>5. ASSUME NEW k \in Nat, k \in N PROVE k + 1 \in N
    <2> SUFFICES ASSUME k + 1 <= Len(ms) PROVE f[k + 1] \in Seq(S)
      OBVIOUS
    <2>1. k + 1 \in 0..Len(ms) /\ k + 1 # 0 /\ (k + 1) - 1 = k /\ k + 1 \in 1..Len(ms) /\ k <= Len(ms)
      BY <1>2
    <2>2. f[k] \in Seq(S) /\ ms[k + 1] \in S
      BY <1>2, <1>5, <2>1
    <2>3. f[k + 1] = f[k] \/ f[k + 1] = Append(f[k], ms[k + 1])
      BY <1>3, <2>1 DEF KeepSteps
    <2>4. \A v \in Seq(S), x \in S : Append(v, x) \in Seq(S)
      OBVIOUS
    <2> QED
      BY <2>2, <2>3, <2>4, Zenon
  <1> HIDE DEF N
  <1>6. Nat \subseteq N
    BY <1>4, <1>5, NatInd
  <1> QED
    BY <1>2, <1>3, <1>6 DEF N

-----------------------------------------------------------------------------
(* Messages and updaters.                                                  *)

LEMMA MsgsGrow ==
    ASSUME NEW g \in Nat, NEW h \in Nat, g <= h
    PROVE  /\ Msgs(g) \subseteq Msgs(h) /\ Keys(g) \subseteq Keys(h)
           /\ Seq(Msgs(g)) \subseteq Seq(Msgs(h))
  <1>1. Keys(g) \subseteq Keys(h)
    BY DEF Keys
  <1>2. Msgs(g) \subseteq Msgs(h)
    BY <1>1 DEF Msgs
  <1>3. ASSUME NEW s \in Seq(Msgs(g)) PROVE s \in Seq(Msgs(h))
    BY <1>2
  <1> QED
    BY <1>1, <1>2, <1>3

LEMMA MsgType ==
    ASSUME NEW g \in Nat, NEW m \in Msgs(g)
    PROVE  /\ m.key \in Keys(g) /\ m.key[1] \in {"user", "assistant"} /\ m.key[2] \in 0..g
           /\ m.status \in Statuses /\ m.text \in AllTexts
           /\ m.text \in Texts(m.key[2]) \cup {EditedText, ErrorText}
           /\ m = [key |-> m.key, status |-> m.status, text |-> m.text]
  BY DEF Msgs, Keys

LEMMA MsgMake ==
    ASSUME NEW g \in Nat, NEW k \in Keys(g), NEW st \in Statuses, NEW t,
           t \in Texts(k[2]) \cup {EditedText, ErrorText}
    PROVE  [key |-> k, status |-> st, text |-> t] \in Msgs(g)
  <1>1. k[2] \in Nat
    BY DEF Keys
  <1>2. t \in AllTexts
    <2>1. Texts(k[2]) \subseteq AllTexts
      <3>1. {k[2]} \X Words \subseteq Nat \X Words
        BY <1>1
      <3> QED
        BY <3>1 DEF Texts, AllTexts
    <2>2. EditedText \in AllTexts /\ ErrorText \in AllTexts
      <3>0. "edited" \in Words /\ "error" \in Words
        BY Zenon DEF Words
      <3>1. <<None, "edited">> \in Nat \X Words /\ <<None, "error">> \in Nat \X Words
        BY <3>0 DEF None
      <3> QED
        BY <3>1 DEF AllTexts, EditedText, ErrorText
    <2> QED
      BY <2>1, <2>2
  <1> QED
    BY <1>2 DEF Msgs

LEMMA AppendableType ==
    ASSUME NEW S, NEW a \in Seq(S), NEW b \in Seq(S)
    PROVE  a \o getAppendableChunk(a, b) \in Seq(S) /\ mergePendingStreamChunk(a, b) \in Seq(S)
  <1>1. getAppendableChunk(a, b) \in Seq(S)
    <2>1. CASE IsPrefix(a, b)
      <3>1. Len(a) \in Nat /\ Len(b) \in Nat /\ Len(a) <= Len(b)
        BY <2>1 DEF IsPrefix
      <3>2. SubSeq(b, Len(a) + 1, Len(b)) \in Seq(S)
        BY <3>1
      <3> QED
        BY <3>2 DEF getAppendableChunk
    <2> QED
      BY <2>1 DEF getAppendableChunk
  <1> QED
    BY <1>1 DEF mergePendingStreamChunk

(* What the handlers of a request make of its message. *)
LEMMA UpdateKeeps ==
    ASSUME NEW g \in Nat, NEW m \in Msgs(g), m.key = <<"assistant", g>>,
           Clean(m) \/ Fails(m), NEW u \in Reports(g, Kinds)
    PROVE  /\ UpdateAnswer(u, m) \in Msgs(g) /\ UpdateAnswer(u, m).key = m.key
           /\ Clean(UpdateAnswer(u, m)) \/ Fails(UpdateAnswer(u, m))
           /\ u.kind = "flush" /\ isAssistantMessagePending(m)
                => isAssistantMessagePending(UpdateAnswer(u, m))
           /\ u.kind # "flush" => isAssistantMessageFinal(UpdateAnswer(u, m))
  <1>0. /\ m = [key |-> m.key, status |-> m.status, text |-> m.text]
        /\ m.key \in Keys(g) /\ m.key[2] = g /\ m.status \in Statuses
        /\ u.kind \in Kinds /\ u.text \in Texts(g)
    BY MsgType DEF Reports
  <1>1. ASSUME NEW st \in Statuses, NEW t,
               (t = ErrorText /\ st = "error") \/ (t \in Texts(g) /\ st # "error")
        PROVE  /\ [key |-> m.key, status |-> st, text |-> t] \in Msgs(g)
               /\ \/ Clean([key |-> m.key, status |-> st, text |-> t])
                  \/ Fails([key |-> m.key, status |-> st, text |-> t])
    <2>1. [key |-> m.key, status |-> st, text |-> t] \in Msgs(g)
      BY <1>0, <1>1, MsgMake
    <2> QED
      BY <1>0, <1>1, <2>1 DEF Clean, Fails
  <1>2. (m.text = ErrorText /\ m.status = "error") \/ (m.text \in Texts(g) /\ m.status # "error")
    <2>1. CASE Clean(m)
      BY <1>0, <2>1, Zenon DEF Clean
    <2>2. CASE Fails(m)
      BY <2>2 DEF Fails
    <2> QED
      BY <2>1, <2>2
  <1>3. CASE u.kind = "flush"
    <2>1. CASE m.status = "error"
      <3>1. UpdateAnswer(u, m) = m
        BY <1>3, <2>1 DEF UpdateAnswer, applyStreamingChunk
      <3> QED
        BY <1>3, <3>1
    <2>2. CASE m.status # "error"
      <3> DEFINE t == m.text \o getAppendableChunk(m.text, u.text)
      <3>1. UpdateAnswer(u, m) = [key |-> m.key, status |-> "streaming", text |-> t]
        BY <1>0, <1>3, <2>2 DEF UpdateAnswer, applyStreamingChunk
      <3>2. t \in Texts(g)
        BY <1>0, <1>2, <2>2, AppendableType DEF Texts
      <3> HIDE DEF t
      <3> QED
        BY <1>1, <1>3, <3>1, <3>2 DEF Statuses, isAssistantMessagePending
    <2> QED
      BY <2>1, <2>2
  <1>4. CASE u.kind = "complete"
    <2>1. CASE isAssistantMessageFinal(m)
      BY <1>4, <2>1 DEF UpdateAnswer
    <2>2. CASE ~isAssistantMessageFinal(m)
      <3>1. UpdateAnswer(u, m) = [key |-> m.key, status |-> "complete", text |-> m.text]
        BY <1>0, <1>4, <2>2 DEF UpdateAnswer, completeAssistantMessage
      <3>2. m.text \in Texts(g)
        BY <1>2, <2>2 DEF isAssistantMessageFinal
      <3> QED
        BY <1>1, <1>4, <3>1, <3>2 DEF Statuses, isAssistantMessageFinal
    <2> QED
      BY <2>1, <2>2
  <1>5. CASE u.kind = "error"
    <2>1. UpdateAnswer(u, m) = [key |-> m.key, status |-> "error", text |-> ErrorText]
      BY <1>0, <1>5 DEF UpdateAnswer, updateAssistantMessageWithError
    <2>2. "error" \in Statuses
      BY DEF Statuses
    <2>3. /\ UpdateAnswer(u, m) \in Msgs(g)
          /\ Clean(UpdateAnswer(u, m)) \/ Fails(UpdateAnswer(u, m))
      BY <1>1, <2>1, <2>2
    <2>4. UpdateAnswer(u, m).key = m.key /\ UpdateAnswer(u, m).status = "error"
      BY <2>1
    <2>5. isAssistantMessageFinal(UpdateAnswer(u, m))
      BY <2>4, Zenon DEF isAssistantMessageFinal
    <2> QED
      BY <1>5, <2>3, <2>4, <2>5
  <1>6. CASE u.kind = "answer"
    <2>1. UpdateAnswer(u, m) = [key |-> m.key, status |-> "complete", text |-> u.text]
      BY <1>0, <1>6 DEF UpdateAnswer, applyChatCompletionResponse
    <2> QED
      BY <1>0, <1>1, <1>6, <2>1 DEF Statuses, isAssistantMessageFinal
  <1> QED
    BY <1>0, <1>3, <1>4, <1>5, <1>6 DEF Kinds

(* The lists that differ from ms in the last message only. *)
Lists(g, ms, statuses) ==
    {x \in Seq(Msgs(g)) :
        /\ Len(x) = Len(ms) /\ \A i \in 1..(Len(ms) - 1) : x[i] = ms[i]
        /\ Target(x).key = Target(ms).key
        /\ Clean(Target(x)) \/ Fails(Target(x))
        /\ Target(x).status \in statuses}
PendingStatuses == {"loading", "streaming"}
FinalStatuses == {"complete", "error"}

LEMMA ReportKeeps ==
    ASSUME NEW g \in Nat, NEW ms \in Seq(Msgs(g)), ms # <<>>,
           Target(ms).key = <<"assistant", g>>, NEW statuses,
           NEW x \in Lists(g, ms, statuses), NEW u \in Reports(g, Kinds)
    PROVE  /\ applyMessageStateUpdate(g, x, u) \in Lists(g, ms, Statuses)
           /\ u.kind = "flush" /\ statuses = PendingStatuses
                => applyMessageStateUpdate(g, x, u) \in Lists(g, ms, PendingStatuses)
           /\ u.kind # "flush" => applyMessageStateUpdate(g, x, u) \in Lists(g, ms, FinalStatuses)
  <1>0. /\ x \in Seq(Msgs(g)) /\ Len(x) = Len(ms) /\ Len(ms) \in Nat \ {0}
        /\ \A i \in 1..(Len(ms) - 1) : x[i] = ms[i]
        /\ Target(x).key = <<"assistant", g>> /\ (Clean(Target(x)) \/ Fails(Target(x)))
        /\ Target(x).status \in statuses
    BY DEF Lists
  <1> DEFINE m == Target(x)
             n == UpdateAnswer(u, m)
             y == [x EXCEPT ![Len(x)] = n]
  <1>1. m \in Msgs(g)
    BY <1>0 DEF Target
  <1>2. applyMessageStateUpdate(g, x, u) = y
    <2>1. u.kind \in Kinds /\ u.generation = g
      BY DEF Reports
    <2>2. u.kind # "set" /\ u.kind # "remove"
      BY <2>1 DEF Kinds
    <2>3. x # <<>> /\ Last(x) = m /\ From(m) = "assistant"
      BY <1>0 DEF Last, Target, From
    <2>4. applyMessageStateUpdate(g, x, u) = updateLastAssistantMessage(x, u)
      BY <2>1, <2>2 DEF applyMessageStateUpdate
    <2> QED
      BY <2>3, <2>4 DEF updateLastAssistantMessage, Target
  <1>3. /\ n \in Msgs(g) /\ n.key = m.key /\ (Clean(n) \/ Fails(n))
        /\ u.kind = "flush" /\ isAssistantMessagePending(m) => isAssistantMessagePending(n)
        /\ u.kind # "flush" => isAssistantMessageFinal(n)
    BY <1>0, <1>1, UpdateKeeps
  <1> HIDE DEF n, m
  <1>4. /\ y \in Seq(Msgs(g)) /\ Len(y) = Len(ms) /\ Target(y) = n
        /\ \A i \in 1..(Len(ms) - 1) : y[i] = ms[i]
    BY <1>0, <1>3 DEF Target
  <1> HIDE DEF y
  <1>5. Target(y).key = Target(ms).key /\ (Clean(Target(y)) \/ Fails(Target(y)))
    BY <1>0, <1>3, <1>4 DEF m
  <1>6. n.status \in Statuses
    BY <1>3, MsgType
  <1>7. \A S : n.status \in S => y \in Lists(g, ms, S)
    BY <1>4, <1>5 DEF Lists
  <1>8. u.kind = "flush" /\ statuses = PendingStatuses => n.status \in PendingStatuses
    BY <1>0, <1>3 DEF PendingStatuses, isAssistantMessagePending, m
  <1>9. u.kind # "flush" => n.status \in FinalStatuses
    BY <1>3 DEF FinalStatuses, isAssistantMessageFinal
  <1> QED
    BY <1>2, <1>6, <1>7, <1>8, <1>9

(* What the queue makes of the messages. *)
LEMMA QueueRuns ==
    ASSUME NEW g \in Nat, NEW ms \in Seq(Msgs(g)), ms # <<>>,
           Target(ms).key = <<"assistant", g>>, Clean(Target(ms)) \/ Fails(Target(ms)),
           NEW q \in Seq(Reports(g, Kinds))
    PROVE  /\ Run(g, ms, q) \in Lists(g, ms, Statuses)
           /\ q \in Seq(Reports(g, {"flush"})) /\ isAssistantMessagePending(Target(ms))
                => Run(g, ms, q) \in Lists(g, ms, PendingStatuses)
           /\ q # <<>> /\ q[Len(q)].kind # "flush" => Run(g, ms, q) \in Lists(g, ms, FinalStatuses)
  <1>0. Target(ms) \in Msgs(g)
    BY DEF Target
  <1>1. ms \in Lists(g, ms, Statuses)
    BY <1>0, MsgType DEF Lists
  <1>2. Run(g, ms, q) \in Lists(g, ms, Statuses)
    <2>1. \A x \in Lists(g, ms, Statuses) : \A v \in Reports(g, Kinds) :
             applyMessageStateUpdate(g, x, v) \in Lists(g, ms, Statuses)
      BY ReportKeeps
    <2> DEFINE u == Updater("complete", g, <<>>)
    <2>2. u \in Reports(g, Kinds)
      BY DEF Updater, Reports, Kinds, Texts
    <2> HIDE DEF u
    <2> QED
      BY <1>1, <2>1, <2>2, RunEnds
  <1>3. ASSUME q \in Seq(Reports(g, {"flush"})), isAssistantMessagePending(Target(ms))
        PROVE  Run(g, ms, q) \in Lists(g, ms, PendingStatuses)
    <2>1. ms \in Lists(g, ms, PendingStatuses)
      BY <1>0, <1>3 DEF Lists, PendingStatuses, isAssistantMessagePending
    <2>2. \A v \in Reports(g, {"flush"}) : v \in Reports(g, Kinds) /\ v.kind = "flush"
      BY DEF Reports, Kinds
    <2>3. \A x \in Lists(g, ms, PendingStatuses) : \A v \in Reports(g, {"flush"}) :
             applyMessageStateUpdate(g, x, v) \in Lists(g, ms, PendingStatuses)
      BY <2>2, ReportKeeps
    <2> DEFINE u == Updater("flush", g, <<>>)
    <2>4. u \in Reports(g, {"flush"})
      BY DEF Updater, Reports, Texts
    <2> HIDE DEF u
    <2> QED
      BY <1>3, <2>1, <2>3, <2>4, RunEnds
  <1>4. ASSUME q # <<>>, q[Len(q)].kind # "flush"
        PROVE  Run(g, ms, q) \in Lists(g, ms, FinalStatuses)
    <2> DEFINE r == SubSeq(q, 1, Len(q) - 1)
               u == q[Len(q)]
    <2>1. r \in Seq(Reports(g, Kinds)) /\ u \in Reports(g, Kinds) /\ q = r \o <<u>>
      <3>1. Len(q) \in Nat /\ Len(q) # 0
        BY <1>4
      <3>2. r \in Seq(Reports(g, Kinds)) /\ u \in Reports(g, Kinds)
        BY <3>1
      <3>3. q = r \o <<u>>
        BY <3>1
      <3> QED
        BY <3>2, <3>3
    <2>2. \A x \in Lists(g, ms, Statuses) : \A v \in Reports(g, Kinds) :
             applyMessageStateUpdate(g, x, v) \in Lists(g, ms, Statuses)
      BY ReportKeeps
    <2>3. \A x \in Lists(g, ms, Statuses) :
             applyMessageStateUpdate(g, x, u) \in Lists(g, ms, FinalStatuses)
      BY <1>4, <2>1, ReportKeeps
    <2> HIDE DEF r, u
    <2>4. Run(g, ms, r \o <<u>>) \in Lists(g, ms, FinalStatuses)
      BY <1>1, <2>1, <2>2, <2>3, RunEnds
    <2> QED
      BY <2>1, <2>4
  <1> QED
    BY <1>2, <1>3, <1>4

LEMMA RunUnfolds ==
    ASSUME NEW g, NEW ms, NEW U, NEW us \in Seq(U), NEW u
    PROVE  \E x : Run(g, ms, us \o <<u>>) = applyMessageStateUpdate(g, x, u)
  <1> DEFINE vs == us \o <<u>>
  <1>1. Len(vs) = Len(us) + 1 /\ Len(us) \in Nat /\ vs[Len(vs)] = u
    OBVIOUS
  <1> HIDE DEF vs
  <1>2. Len(vs) \in Nat /\ Len(vs) # 0 /\ Len(vs) \in 0..Len(vs)
    BY <1>1
  <1>3. PICK f : RunSteps(f, Len(vs), g, ms, vs) /\ Run(g, ms, vs) = f[Len(vs)]
    BY <1>2, RunSolves
  <1>4. f[Len(vs)] = applyMessageStateUpdate(g, f[Len(vs) - 1], u)
    BY <1>1, <1>2, <1>3 DEF RunSteps
  <1> QED
    BY <1>3, <1>4 DEF vs

(* An updater that replaces the messages makes the others void. *)
LEMMA SetRuns ==
    ASSUME NEW g, NEW ms, NEW U, NEW us \in Seq(U), NEW x
    PROVE  Run(g, ms, us \o <<SetTo(x)>>) = x
  <1>1. PICK y : Run(g, ms, us \o <<SetTo(x)>>) = applyMessageStateUpdate(g, y, SetTo(x))
    BY RunUnfolds
  <1>2. SetTo(x).kind = "set" /\ SetTo(x).messages = x
    BY DEF SetTo, Updater
  <1> QED
    BY <1>1, <1>2 DEF applyMessageStateUpdate

LEMMA OneRuns ==
    ASSUME NEW g, NEW ms, NEW u
    PROVE  Run(g, ms, <<u>>) = applyMessageStateUpdate(g, ms, u)
  <1>1. Len(<<u>>) = 1 /\ <<u>>[1] = u /\ 0 \in 0..1 /\ 1 \in 0..1 /\ 1 # 0 /\ 1 - 1 = 0
    OBVIOUS
  <1> DEFINE us == <<u>>
  <1> HIDE DEF us
  <1>2. PICK f : RunSteps(f, Len(us), g, ms, us) /\ Run(g, ms, us) = f[Len(us)]
    BY <1>1, RunSolves DEF us
  <1>3. f[0] = ms /\ f[1] = applyMessageStateUpdate(g, f[0], u)
    BY <1>1, <1>2 DEF RunSteps, us
  <1> QED
    BY <1>1, <1>2, <1>3 DEF us

(* The handlers of a request that was stopped change nothing any more, and *)
(* the stop closes its message.                                            *)
LEMMA StopRuns ==
    ASSUME NEW g \in Nat, NEW ms \in Seq(Msgs(g)), ms # <<>>,
           Target(ms).key = <<"assistant", g>>, NEW q \in Seq(Reports(g, Kinds))
    PROVE  /\ Run(g + 1, ms, q \o StopUpdaters(g + 1)) \in Seq(Msgs(g))
           /\ Len(Run(g + 1, ms, q \o StopUpdaters(g + 1))) = Len(ms)
           /\ \A i \in 1..(Len(ms) - 1) : Run(g + 1, ms, q \o StopUpdaters(g + 1))[i] = ms[i]
           /\ ~isAssistantMessagePending(Target(Run(g + 1, ms, q \o StopUpdaters(g + 1))))
           /\ Target(Run(g + 1, ms, q \o StopUpdaters(g + 1))).key = <<"assistant", g>>
  <1> DEFINE u == Updater("stop", g + 1, <<>>)
             m == Target(ms)
             n == UpdateAnswer(u, m)
             y == [ms EXCEPT ![Len(ms)] = n]
  <1>1. u.kind = "stop" /\ u.generation = g + 1 /\ StopUpdaters(g + 1) = <<u>>
    BY DEF Updater, StopUpdaters
  <1> HIDE DEF u
  <1>2. m \in Msgs(g) /\ Last(ms) = m /\ From(m) = "assistant" /\ Len(ms) \in Nat \ {0}
    BY DEF Target, Last, From
  <1>3. applyMessageStateUpdate(g + 1, ms, u) = y
    <2>1. applyMessageStateUpdate(g + 1, ms, u) = updateLastAssistantMessage(ms, u)
      BY <1>1 DEF applyMessageStateUpdate
    <2> QED
      BY <1>2, <2>1 DEF updateLastAssistantMessage, Target
  <1>4. n \in Msgs(g) /\ ~isAssistantMessagePending(n) /\ n.key = m.key
    <2>1. CASE ~isAssistantMessagePending(m)
      BY <1>1, <1>2, <2>1 DEF UpdateAnswer
    <2>2. CASE isAssistantMessagePending(m)
      <3>1. /\ m = [key |-> m.key, status |-> m.status, text |-> m.text] /\ m.key \in Keys(g)
            /\ m.text \in Texts(m.key[2]) \cup {EditedText, ErrorText}
        BY <1>2, MsgType
      <3>2. n = [key |-> m.key, status |-> "complete", text |-> m.text]
        BY <1>1, <2>2, <3>1 DEF UpdateAnswer, completeAssistantMessage
      <3>3. "complete" \in Statuses
        BY DEF Statuses
      <3>4. n \in Msgs(g)
        BY <3>1, <3>2, <3>3, MsgMake
      <3> QED
        BY <3>2, <3>4 DEF isAssistantMessagePending
    <2> QED
      BY <2>1, <2>2
  <1> HIDE DEF n
  <1>5. /\ y \in Seq(Msgs(g)) /\ Len(y) = Len(ms) /\ Target(y) = n
        /\ \A i \in 1..(Len(ms) - 1) : y[i] = ms[i]
    BY <1>2, <1>4 DEF Target
  <1> HIDE DEF y
  <1> DEFINE G == {ms}
             H == {y}
  <1>6. Run(g + 1, ms, q \o <<u>>) \in H
    <2>1. \A v \in Reports(g, Kinds) : applyMessageStateUpdate(g + 1, ms, v) = ms
      <3> SUFFICES ASSUME NEW v \in Reports(g, Kinds)
                   PROVE  applyMessageStateUpdate(g + 1, ms, v) = ms
        OBVIOUS
      <3>1. v.kind # "set" /\ v.kind # "remove" /\ v.generation # g + 1
        BY DEF Reports, Kinds
      <3> QED
        BY <3>1 DEF applyMessageStateUpdate
    <2>2. ms \in G /\ \A x \in G : applyMessageStateUpdate(g + 1, x, u) \in H
      BY <1>3
    <2>3. \A x \in G : \A v \in Reports(g, Kinds) : applyMessageStateUpdate(g + 1, x, v) \in G
      BY <2>1
    <2> HIDE DEF G, H
    <2> QED
      BY <2>2, <2>3, RunEnds
  <1> QED
    BY <1>1, <1>4, <1>5, <1>6

-----------------------------------------------------------------------------
(* Lists of messages: saving, loading, regenerating.                       *)

LEMMA SaveFits ==
    ASSUME NEW S, NEW ms \in Seq(S)
    PROVE  /\ saveMessages(ms) \in Seq(S) /\ Len(saveMessages(ms)) <= MaxStored
           /\ Len(ms) <= MaxStored => saveMessages(ms) = ms
           /\ \A P : (\A i \in 1..(Len(ms) - 1) : ms[i] \in P) =>
                     \A i \in 1..(Len(saveMessages(ms)) - 1) : saveMessages(ms)[i] \in P
  <1>1. MaxStored \in Nat /\ MaxStored # 0 /\ Len(ms) \in Nat
    BY ConstantsAssumption
  <1>2. CASE Len(ms) <= MaxStored
    BY <1>1, <1>2 DEF saveMessages
  <1>3. CASE ~(Len(ms) <= MaxStored)
    <2> DEFINE lo == Len(ms) - MaxStored + 1
    <2>1. saveMessages(ms) = SubSeq(ms, lo, Len(ms))
      BY <1>3 DEF saveMessages
    <2>2. lo \in 1..Len(ms) /\ lo = (Len(ms) + 1) - MaxStored
      BY <1>1, <1>3
    <2> HIDE DEF lo
    <2>3. /\ SubSeq(ms, lo, Len(ms)) \in Seq(S) /\ Len(SubSeq(ms, lo, Len(ms))) = MaxStored
          /\ \A i \in 1..MaxStored : SubSeq(ms, lo, Len(ms))[i] = ms[(lo + i) - 1]
      BY <1>1, <2>2
    <2>4. \A i \in 1..(MaxStored - 1) : i \in 1..MaxStored /\ (lo + i) - 1 \in 1..(Len(ms) - 1)
      BY <1>1, <2>2
    <2>5. ASSUME NEW P, \A i \in 1..(Len(ms) - 1) : ms[i] \in P,
                 NEW i \in 1..(Len(saveMessages(ms)) - 1)
          PROVE  saveMessages(ms)[i] \in P
      <3>1. i \in 1..(MaxStored - 1)
        BY <2>1, <2>3
      <3>2. saveMessages(ms)[i] = ms[(lo + i) - 1]
        BY <2>1, <2>3, <2>4, <3>1
      <3> QED
        BY <2>4, <2>5, <3>1, <3>2
    <2>6. MaxStored <= MaxStored
      BY <1>1
    <2> QED
      BY <1>3, <2>1, <2>3, <2>5, <2>6
  <1> QED
    BY <1>2, <1>3

LEMMA IndexOfIs ==
    ASSUME NEW ms, NEW key, IndexOf(ms, key) # 0
    PROVE  IndexOf(ms, key) \in DOMAIN ms /\ ms[IndexOf(ms, key)].key = key
  BY DEF IndexOf

(* A list of messages as regenerating leaves it: the messages before the   *)
(* new, empty answer are old ones.                                         *)
LEMMA RegeneratedIs ==
    ASSUME NEW g \in Nat, NEW ms \in Seq(Msgs(g)), NEW i \in DOMAIN ms,
           NEW x, x = createRegeneratedMessages(ms, i, g + 1)
    PROVE  /\ x \in Seq(Msgs(g + 1)) /\ x # <<>>
           /\ Target(x) = createLoadingAssistantMessage(g + 1)
           /\ \A j \in 1..(Len(x) - 1) : x[j] = ms[j] /\ j <= i /\ j \in DOMAIN ms
           /\ From(ms[i]) # "user" => \A j \in 1..(Len(x) - 1) : j < i
  <1> DEFINE n == IF From(ms[i]) = "user" THEN i ELSE i - 1
             s == SubSeq(ms, 1, n)
             a == createLoadingAssistantMessage(g + 1)
  <1>1. n \in 0..Len(ms) /\ i \in 1..Len(ms) /\ n <= i /\ (From(ms[i]) # "user" => n < i)
    OBVIOUS
  <1>2. x = Append(s, a)
    BY DEF createRegeneratedMessages
  <1> HIDE DEF n
  <1>3. s \in Seq(Msgs(g)) /\ Len(s) = n /\ \A j \in 1..n : s[j] = ms[j]
    BY <1>1
  <1>4. a \in Msgs(g + 1)
    <2>1. <<"assistant", g + 1>> \in Keys(g + 1) /\ "loading" \in Statuses /\ <<>> \in Texts(g + 1)
      BY DEF Keys, Statuses, Texts
    <2>2. <<"assistant", g + 1>>[2] = g + 1
      OBVIOUS
    <2> QED
      BY <2>1, <2>2, MsgMake DEF createLoadingAssistantMessage
  <1>5. s \in Seq(Msgs(g + 1))
    BY <1>3, MsgsGrow
  <1> HIDE DEF s, a
  <1>6. /\ Append(s, a) \in Seq(Msgs(g + 1)) /\ Append(s, a) # <<>> /\ Len(Append(s, a)) = n + 1
        /\ Target(Append(s, a)) = a /\ \A j \in 1..n : Append(s, a)[j] = ms[j]
    <2>1. /\ Append(s, a) \in Seq(Msgs(g + 1)) /\ Len(Append(s, a)) = n + 1
          /\ Append(s, a)[n + 1] = a /\ \A j \in 1..n : Append(s, a)[j] = s[j]
      BY <1>1, <1>3, <1>4, <1>5
    <2>2. Append(s, a) # <<>>
      <3>1. Len(<<>>) = 0 /\ n + 1 # 0
        BY <1>1
      <3> QED
        BY <2>1, <3>1, Zenon
    <2> QED
      BY <1>3, <2>1, <2>2 DEF Target
  <1>7. \A j \in 1..n : j <= i /\ j \in DOMAIN ms /\ (From(ms[i]) # "user" => j < i)
    BY <1>1
  <1>8. Len(x) - 1 = n
    BY <1>1, <1>2, <1>6
  <1> QED
    BY <1>2, <1>6, <1>7, <1>8 DEF a

LEMMA ErrorIs ==
    ASSUME NEW g \in Nat, NEW m \in Msgs(g)
    PROVE  updateAssistantMessageWithError(m) = [key |-> m.key, status |-> "error", text |-> ErrorText]
  <1>1. m \in [key : Keys(g), status : Statuses, text : AllTexts]
    BY DEF Msgs
  <1>2. [m EXCEPT !.status = "error"] = [key |-> m.key, status |-> "error", text |-> m.text]
    BY <1>1
  <1> DEFINE n == [m EXCEPT !.status = "error"]
  <1>3. n.key = m.key /\ n.status = "error" /\ n \in [key : Keys(g), status : Statuses, text : AllTexts]
    BY <1>1, <1>2 DEF Statuses
  <1>4. updateAssistantMessageWithError(m) = [n EXCEPT !.text = ErrorText]
    BY DEF updateAssistantMessageWithError
  <1> HIDE DEF n
  <1>5. [n EXCEPT !.text = ErrorText] = [key |-> n.key, status |-> n.status, text |-> ErrorText]
    BY <1>3
  <1> QED
    BY <1>3, <1>4, <1>5

(* Loading keeps the keys and leaves no pending message at the end. *)
LEMMA LoadIs ==
    ASSUME NEW g \in Nat, stored \in Seq(Msgs(g))
    PROVE  /\ loadMessages \in Seq(Msgs(g)) /\ Len(loadMessages) = Len(stored)
           /\ \A i \in 1..Len(stored) :
                /\ loadMessages[i].key = stored[i].key
                /\ isAssistantMessagePending(loadMessages[i])
                     => isAssistantMessagePending(stored[i]) /\ i # Len(stored)
                /\ \/ loadMessages[i] = stored[i] \/ loadMessages[i].status = "error"
                   \/ isAssistantMessagePending(stored[i])
  <1> DEFINE norm == [i \in DOMAIN stored |-> normalizeStoredMessageForLoad(stored[i])]
             stuck == {i \in DOMAIN norm : isAssistantMessagePending(norm[i])}
             c == CHOOSE i \in stuck : \A j \in stuck : j <= i
  <1>0. Len(stored) \in Nat /\ DOMAIN stored = 1..Len(stored)
    OBVIOUS
  <1>1. ASSUME NEW i \in 1..Len(stored)
        PROVE  /\ norm[i] \in Msgs(g) /\ norm[i].key = stored[i].key
               /\ isAssistantMessagePending(norm[i]) => isAssistantMessagePending(stored[i])
               /\ updateAssistantMessageWithError(norm[i]) \in Msgs(g)
               /\ norm[i] = stored[i] \/ isAssistantMessagePending(stored[i])
               /\ updateAssistantMessageWithError(norm[i]).status = "error"
               /\ updateAssistantMessageWithError(norm[i]).key = stored[i].key
               /\ ~isAssistantMessagePending(updateAssistantMessageWithError(norm[i]))
    <2> DEFINE m == stored[i]
    <2>1. m \in Msgs(g) /\ norm[i] = normalizeStoredMessageForLoad(m)
      BY <1>0
    <2> HIDE DEF m, norm
    <2>2. /\ m = [key |-> m.key, status |-> m.status, text |-> m.text] /\ m.key \in Keys(g)
          /\ m.text \in Texts(m.key[2]) \cup {EditedText, ErrorText}
      BY <2>1, MsgType
    <2>3. "complete" \in Statuses /\ "error" \in Statuses
      BY DEF Statuses
    <2>4. \/ norm[i] = m
          \/ /\ norm[i] = [key |-> m.key, status |-> "complete", text |-> m.text]
             /\ isAssistantMessagePending(m)
      BY <2>1, <2>2 DEF normalizeStoredMessageForLoad, completeAssistantMessage
    <2>5. /\ norm[i] \in Msgs(g) /\ norm[i].key = m.key
          /\ isAssistantMessagePending(norm[i]) => isAssistantMessagePending(m)
      <3>1. [key |-> m.key, status |-> "complete", text |-> m.text] \in Msgs(g)
        BY <2>2, <2>3, MsgMake
      <3> QED
        BY <2>1, <2>4, <3>1 DEF isAssistantMessagePending
    <2>6. updateAssistantMessageWithError(norm[i]) = [key |-> m.key, status |-> "error", text |-> ErrorText]
      BY <2>5, ErrorIs
    <2>7. [key |-> m.key, status |-> "error", text |-> ErrorText] \in Msgs(g)
      BY <2>2, <2>3, MsgMake
    <2>8. ~isAssistantMessagePending([key |-> m.key, status |-> "error", text |-> ErrorText])
      BY DEF isAssistantMessagePending
    <2> QED
      BY <2>4, <2>5, <2>6, <2>7, <2>8 DEF m
  <1>2. /\ norm \in Seq(Msgs(g)) /\ Len(norm) = Len(stored) /\ DOMAIN norm = 1..Len(stored)
        /\ norm = [i \in 1..Len(stored) |-> norm[i]]
    <2>1. norm = [i \in 1..Len(stored) |-> norm[i]]
      BY <1>0
    <2> HIDE DEF norm
    <2> QED
      BY <1>0, <1>1, <2>1
  <1>3. loadMessages = IF stuck = {} THEN norm
                       ELSE [norm EXCEPT ![c] = updateAssistantMessageWithError(@)]
    BY DEF loadMessages, sanitizeMessagesOnLoad
  <1>4. \A i : i \in stuck <=> i \in 1..Len(stored) /\ isAssistantMessagePending(norm[i])
    BY <1>2
  <1>5. Len(stored) \in stuck => c = Len(stored)
    <2>1. SUFFICES ASSUME Len(stored) \in stuck PROVE c = Len(stored)
      OBVIOUS
    <2>2. \A j \in stuck : j \in Nat /\ j <= Len(stored)
      BY <1>0, <1>4
    <2> HIDE DEF stuck, norm
    <2>3. c \in stuck /\ \A j \in stuck : j <= c
      BY <2>1, <2>2
    <2> QED
      BY <1>0, <2>1, <2>2, <2>3
  <1> HIDE DEF norm, stuck, c
  <1>6. \A i \in 1..Len(stored) :
           \/ loadMessages[i] = norm[i] /\ (i = c => i \notin stuck)
           \/ loadMessages[i] = updateAssistantMessageWithError(norm[i])
    BY <1>2, <1>3
  <1>7. loadMessages \in Seq(Msgs(g)) /\ Len(loadMessages) = Len(stored)
    <2>1. DOMAIN loadMessages = 1..Len(stored) /\ loadMessages = [i \in 1..Len(stored) |-> loadMessages[i]]
      BY <1>2, <1>3
    <2>2. \A i \in 1..Len(stored) : loadMessages[i] \in Msgs(g)
      BY <1>1, <1>6
    <2> QED
      BY <1>0, <2>1, <2>2
  <1> QED
    BY <1>0, <1>1, <1>4, <1>5, <1>6, <1>7

-----------------------------------------------------------------------------
(* The invariant: initially and in the steps that move nothing.            *)

LEMMA IndInit == Init => IndInv
  <1> SUFFICES ASSUME Init PROVE IndInv
    OBVIOUS
  <1>0. /\ requestGeneration = 0 /\ None = 0 /\ 0 \notin Gens
        /\ MaxSends \in Nat /\ MaxActs \in Nat /\ MaxStored \in Nat \ {0}
    BY ConstantsAssumption DEF Init, None, Gens
  <1>1. stored \in Seq(Msgs(0)) /\ Len(stored) = 1
    <2>1. <<"user", 0>> \in Keys(0) /\ "sent" \in Statuses /\ <<>> \in Texts(0) /\ <<"user", 0>>[2] = 0
      BY DEF Keys, Statuses, Texts
    <2>2. createUserMessage(0) \in Msgs(0)
      BY <2>1, MsgMake DEF createUserMessage
    <2> QED
      BY <1>0, <2>2 DEF Init
  <1>2. RefInv
    <2>1. Idle \in FlagSet
      BY DEF Idle, FlagSet
    <2>2. pending \in [generation : Nat, content : AllTexts] /\ pending.generation = 0
      BY DEF Init, AllTexts
    <2>4. /\ sends = 0 /\ acts = 0 /\ generation = 0 /\ flushTimer = 0 /\ abort = 0 /\ source = 0
          /\ flags = Idle /\ dirty = FALSE /\ saveTimer = FALSE /\ page = "closed"
          /\ editing = NoKey
      BY <1>0 DEF Init
    <2>5. /\ 0 \in Nat /\ 0 \in 0..MaxSends /\ 0 \in 0..MaxActs
          /\ requestGeneration <= sends + acts /\ pending.generation <= requestGeneration
      BY <1>0, <2>2, <2>4
    <2> QED
      BY <1>0, <2>1, <2>2, <2>4, <2>5, Zenon DEF RefInv
  <1>2a. ListInv
    BY <1>0, <1>1 DEF Init, ListInv
  <1>3. ReqInv
    <2>1. \A g \in Gens : NoRequest \in Requests(g) /\ NoRequest.at = "none" /\ NoRequest.mark = "none"
      BY <1>0 DEF NoRequest, Requests, Texts
    <2> QED
      BY <2>1 DEF Init, ReqInv
  <1>4. FlowInv
    BY <1>0 DEF Init, FlowInv, Active, Streaming, At, Texts
  <1>5. FocusInv /\ StuckInv /\ SaveInv
    <2>1. 1..(Len(messages) - 1) = {} /\ 1..(Len(stored) - 1) = {}
      BY <1>1 DEF Init
    <2> QED
      BY <1>0, <1>1, <2>1 DEF Init, FocusInv, StuckInv, SaveInv
  <1> QED
    BY <1>2, <1>2a, <1>3, <1>4, <1>5 DEF IndInv

(* Marks of edits stay. *)
MarksKept == \A g \in Gens : req[g].mark = "edited" => req'[g].mark = "edited"

LEMMA ClosedKept ==
    ASSUME MarksKept, NEW m, Closed(req, m)
    PROVE  Closed(req', m)
  BY DEF MarksKept, Closed

(* What is rendered is what the messages are. *)
Committed ==
    /\ latest' = messages' /\ view' = [messages |-> messages', flags |-> flags']
    /\ queue' = <<>> /\ dirty' = FALSE
    /\ saveTimer' = TRUE \/ (messages' = messages /\ saveTimer' = saveTimer)

LEMMA CommittedIs ==
    ASSUME IndInv, RefInv', page = "open", page' = "open", stored' = stored, Committed,
           requestGeneration <= requestGeneration',
           messages' \in Seq(Msgs(requestGeneration')), MarksKept,
           \A i \in 1..(Len(messages') - 1) : Closed(req', messages'[i])
    PROVE  /\ ListInv' /\ SaveInv' /\ view'.flags = flags' /\ view'.messages = messages'
           /\ (\A i \in 1..(Len(stored) - 1) : Closed(req, stored[i]))'
  <1>0. /\ stored \in Seq(Msgs(requestGeneration)) /\ requestGeneration \in Nat
        /\ requestGeneration' \in Nat
    BY DEF IndInv, ListInv, RefInv
  <1>1. view'.flags = flags' /\ view'.messages = messages'
    BY DEF Committed
  <1>2. stored' \in Seq(Msgs(requestGeneration'))
    BY <1>0, MsgsGrow
  <1>3. ListInv'
    BY <1>1, <1>2 DEF Committed, ListInv
  <1>4. SaveInv'
    <2>1. CASE saveTimer' = TRUE
      BY <2>1 DEF IndInv, SaveInv
    <2>2. CASE messages' = messages /\ saveTimer' = saveTimer
      BY <2>2 DEF IndInv, SaveInv, saveMessages
    <2> QED
      BY <2>1, <2>2 DEF Committed
  <1>5. \A i \in 1..(Len(stored) - 1) : Closed(req', stored[i])
    BY ClosedKept DEF IndInv, StuckInv
  <1> QED
    BY <1>1, <1>3, <1>4, <1>5

(* Nothing is under way after the step. *)
LEMMA CommittedIdle ==
    ASSUME IndInv, RefInv', ReqInv', page = "open", page' = "open", stored' = stored, Committed,
           requestGeneration <= requestGeneration',
           messages' \in Seq(Msgs(requestGeneration')), MarksKept,
           \A i \in 1..Len(messages') : Closed(req', messages'[i]),
           ~Active', flags' = Idle, flushTimer' = None,
           pending'.generation = requestGeneration' => pending'.content = <<>>
    PROVE  IndInv'
  <1>0. Len(messages') \in Nat /\ DOMAIN messages' = 1..Len(messages')
    OBVIOUS
  <1>1. /\ ListInv' /\ SaveInv' /\ view'.flags = flags' /\ view'.messages = messages'
        /\ (\A i \in 1..(Len(stored) - 1) : Closed(req, stored[i]))'
    <2>1. \A i \in 1..(Len(messages') - 1) : i \in 1..Len(messages')
      BY <1>0
    <2> QED
      BY <2>1, CommittedIs
  <1>2. ~isGenerating' /\ ~Streaming' /\ Idle = [requesting |-> FALSE, streaming |-> FALSE]
    BY <1>1 DEF isGenerating, Active, Streaming, At, Idle
  <1>3. FlowInv'
    <2>1. Idle = [requesting |-> Active', streaming |-> Streaming']
      <3>1. Active' = FALSE /\ Streaming' = FALSE
        BY <1>2, Zenon DEF Active, Streaming, At
      <3> QED
        BY <1>2, <3>1, Zenon
    <2>2. <<>> \in Texts(requestGeneration')
      BY DEF Texts
    <2> QED
      BY <1>2, <2>1, <2>2 DEF FlowInv, Committed
  <1>4. FocusInv'
    BY <1>2 DEF FocusInv
  <1>5. StuckInv'
    BY <1>0, <1>1 DEF StuckInv
  <1> QED
    BY <1>1, <1>3, <1>4, <1>5 DEF IndInv

(* A request is under way after the step. *)
LEMMA CommittedBusy ==
    ASSUME IndInv, RefInv', ReqInv', page = "open", page' = "open", stored' = stored, Committed,
           requestGeneration <= requestGeneration',
           messages' \in Seq(Msgs(requestGeneration')), MarksKept, messages' # <<>>,
           \A i \in 1..(Len(messages') - 1) : Closed(req', messages'[i]),
           Target(messages').key = <<"assistant", requestGeneration'>>,
           Clean(Target(messages')), isAssistantMessagePending(Target(messages')),
           editing' # <<"assistant", requestGeneration'>>,
           Active', flags' = [requesting |-> Active', streaming |-> Streaming'],
           flushTimer' # None => Streaming',
           pending'.generation = requestGeneration' =>
             /\ pending'.content \in Texts(requestGeneration')
             /\ pending'.content # <<>> => Streaming'
    PROVE  IndInv'
  <1>1. /\ ListInv' /\ SaveInv' /\ view'.flags = flags' /\ view'.messages = messages'
        /\ (\A i \in 1..(Len(stored) - 1) : Closed(req, stored[i]))'
    BY CommittedIs
  <1>2. isGenerating'
    <2>1. flags'.requesting = TRUE
      OBVIOUS
    <2> QED
      BY <1>1, <2>1 DEF isGenerating, Idle
  <1>3. FlowInv'
    BY <1>1, <1>2 DEF FlowInv, Committed
  <1>4. FocusInv'
    <2>1. At({"headers", "sent", "open", "quiet", "over"})'
      BY DEF Active, At
    <2>2. queue' = <<>> /\ queue' \in Seq(Reports(requestGeneration', {"flush"}))
      BY DEF Committed
    <2> QED
      BY <1>1, <2>1, <2>2 DEF FocusInv
  <1>5. StuckInv'
    BY <1>1, <1>2 DEF StuckInv
  <1> QED
    BY <1>1, <1>3, <1>4, <1>5 DEF IndInv

-----------------------------------------------------------------------------
(* React's steps.                                                          *)

LEMMA CommitIs ==
    ASSUME IndInv, NEW ms, NEW us, Commit(ms, us)
    PROVE  Committed /\ messages' = Run(requestGeneration', ms, queue \o us)
  <1>1. messages' = Run(requestGeneration', ms, queue \o us)
    BY DEF Commit
  <1>2. latest = messages
    BY DEF IndInv, ListInv
  <1>3. CASE queue \o us # <<>> \/ ms # messages
    BY <1>1, <1>3 DEF Commit, Committed, persistMessages
  <1>4. CASE queue \o us = <<>> /\ ms = messages
    <2>1. messages' = messages
      BY <1>1, <1>4, RunEmpty
    <2> QED
      BY <1>2, <1>4, <2>1 DEF Commit, Committed
  <1> QED
    BY <1>1, <1>3, <1>4

LEMMA SetIs ==
    ASSUME IndInv, NEW x, Commit(messages, <<SetTo(x)>>)
    PROVE  Committed /\ messages' = x
  <1>1. Committed /\ messages' = Run(requestGeneration', messages, queue \o <<SetTo(x)>>)
    BY CommitIs
  <1>2. queue \in Seq(Reports(requestGeneration, Kinds))
    BY DEF IndInv, ListInv
  <1> QED
    BY <1>1, <1>2, SetRuns

(* The messages the invariant speaks of, while a request is under way. *)
LEMMA FocusIs ==
    ASSUME IndInv, page = "open", isGenerating
    PROVE  /\ requestGeneration \in Gens /\ requestGeneration \in Nat
           /\ req[requestGeneration].at # "none"
           /\ messages \in Seq(Msgs(requestGeneration)) /\ messages # <<>>
           /\ queue \in Seq(Reports(requestGeneration, Kinds))
           /\ Target(messages).key = <<"assistant", requestGeneration>>
           /\ Target(messages) \in Msgs(requestGeneration)
           /\ Clean(Target(messages)) \/ Fails(Target(messages))
           /\ \A i \in 1..(Len(messages) - 1) : Closed(req, messages[i])
           /\ editing # <<"assistant", requestGeneration>>
           /\ Active => /\ isAssistantMessagePending(Target(messages))
                        /\ queue \in Seq(Reports(requestGeneration, {"flush"}))
           /\ queue # <<>> => isAssistantMessagePending(Target(messages))
           /\ ~Active => \/ isAssistantMessageFinal(Target(messages))
                         \/ queue # <<>> /\ queue[Len(queue)].kind # "flush"
  <1>1. messages \in Seq(Msgs(requestGeneration)) /\ messages # <<>>
    BY DEF IndInv, ListInv, FocusInv
  <1>2. Target(messages) \in Msgs(requestGeneration)
    BY <1>1 DEF Target
  <1> QED
    BY <1>1, <1>2 DEF IndInv, ListInv, RefInv, FocusInv, StuckInv, At

LEMMA PendingClean ==
    ASSUME NEW m, Clean(m) \/ Fails(m), isAssistantMessagePending(m)
    PROVE  Clean(m)
  BY DEF Fails, isAssistantMessagePending

LEMMA RenderStep == ASSUME IndInv, Render PROVE IndInv'
  <1>0. /\ page = "open" /\ page' = "open" /\ dirty /\ stored' = stored /\ requestGeneration' = requestGeneration
        /\ UNCHANGED <<flags, pending, flushTimer, abort, generation, source, req, editing, sends, acts>>
        /\ Commit(messages, <<>>)
    BY DEF Render, controllerVars
  <1>1. isGenerating
    BY <1>0 DEF IndInv, FlowInv
  <1> DEFINE g == requestGeneration
             x == Run(g, messages, queue)
  <1>2. /\ g \in Gens /\ g \in Nat /\ req[g].at # "none"
        /\ messages \in Seq(Msgs(g)) /\ messages # <<>>
        /\ queue \in Seq(Reports(g, Kinds))
        /\ Target(messages).key = <<"assistant", g>>
        /\ Clean(Target(messages)) \/ Fails(Target(messages))
        /\ \A i \in 1..(Len(messages) - 1) : Closed(req, messages[i])
        /\ editing # <<"assistant", g>>
        /\ Active => /\ isAssistantMessagePending(Target(messages))
                     /\ queue \in Seq(Reports(g, {"flush"}))
        /\ ~Active => \/ isAssistantMessageFinal(Target(messages))
                      \/ queue # <<>> /\ queue[Len(queue)].kind # "flush"
        /\ queue # <<>> => isAssistantMessagePending(Target(messages))
    BY <1>0, <1>1, FocusIs
  <1>3. Committed /\ messages' = x
    <2>1. queue \o <<>> = queue
      BY <1>2
    <2> QED
      BY <1>0, <2>1, CommitIs
  <1>4. /\ x \in Lists(g, messages, Statuses)
        /\ Active => x \in Lists(g, messages, PendingStatuses)
        /\ queue # <<>> /\ queue[Len(queue)].kind # "flush" => x \in Lists(g, messages, FinalStatuses)
    BY <1>2, QueueRuns
  <1> HIDE DEF x
  <1>5. /\ x \in Seq(Msgs(g)) /\ Len(x) = Len(messages) /\ x # <<>>
        /\ \A i \in 1..(Len(x) - 1) : Closed(req, x[i])
        /\ Target(x).key = <<"assistant", g>>
        /\ Clean(Target(x)) \/ Fails(Target(x))
        /\ Active => isAssistantMessagePending(Target(x))
    BY <1>2, <1>4 DEF Lists, PendingStatuses, isAssistantMessagePending
  <1>6. RefInv' /\ ReqInv' /\ MarksKept
    <2>1. RefInv'
      <3>1. saveTimer' \in BOOLEAN /\ dirty' \in BOOLEAN
        BY <1>3 DEF IndInv, RefInv, Committed
      <3> QED
        BY <1>0, <3>1 DEF IndInv, RefInv
    <2> QED
      BY <1>0, <2>1 DEF IndInv, ReqInv, MarksKept
  <1>7. (Active' <=> Active) /\ (Streaming' <=> Streaming)
    BY <1>0 DEF Active, Streaming, At
  <1>8. CASE Active
    <2>1. Clean(Target(x)) /\ isAssistantMessagePending(Target(x))
      BY <1>5, <1>8, PendingClean
    <2>2. flags' = [requesting |-> Active', streaming |-> Streaming']
      BY <1>0, Zenon DEF IndInv, FlowInv, Active, Streaming, At
    <2>3. /\ flushTimer' # None => Streaming'
          /\ pending'.generation = requestGeneration' =>
               /\ pending'.content \in Texts(requestGeneration')
               /\ pending'.content # <<>> => Streaming'
      BY <1>0, <1>7 DEF IndInv, FlowInv
    <2>4. requestGeneration <= requestGeneration'
      BY <1>0, <1>2
    <2> QED
      BY <1>0, <1>2, <1>3, <1>5, <1>6, <1>7, <1>8, <2>1, <2>2, <2>3, <2>4, CommittedBusy
  <1>9. CASE ~Active
    <2>1. isAssistantMessageFinal(Target(x))
      <3>1. CASE queue # <<>> /\ queue[Len(queue)].kind # "flush"
        BY <1>4, <3>1 DEF Lists, FinalStatuses, isAssistantMessageFinal
      <3>2. CASE ~(queue # <<>> /\ queue[Len(queue)].kind # "flush")
        <4>1. isAssistantMessageFinal(Target(messages))
          BY <1>2, <1>9, <3>2
        <4>2. queue = <<>>
          BY <1>2, <4>1 DEF isAssistantMessageFinal, isAssistantMessagePending
        <4>3. x = messages
          BY <4>2, RunEmpty DEF x
        <4> QED
          BY <4>1, <4>3
      <3> QED
        BY <3>1, <3>2
    <2>2. \A i \in 1..Len(x) : Closed(req, x[i])
      <3>1. Closed(req, x[Len(x)])
        BY <2>1 DEF Closed, Target, isAssistantMessageFinal, isAssistantMessagePending
      <3>2. Len(x) \in Nat /\ \A i \in 1..Len(x) : i = Len(x) \/ i \in 1..(Len(x) - 1)
        BY <1>5
      <3> QED
        BY <1>5, <3>1, <3>2
    <2>3. flags' = Idle
      <3>1. Active = FALSE /\ Streaming = FALSE
        BY <1>9, Zenon DEF Active, Streaming, At
      <3> QED
        BY <1>0, <3>1, Zenon DEF IndInv, FlowInv, Idle
    <2>4. ~Streaming
      BY <1>9 DEF Active, Streaming, At
    <2>5. flushTimer' = None /\ (pending'.generation = requestGeneration' => pending'.content = <<>>)
      BY <1>0, <2>4 DEF IndInv, FlowInv
    <2>6. requestGeneration <= requestGeneration'
      BY <1>0, <1>2
    <2> QED
      BY <1>0, <1>3, <1>5, <1>6, <1>7, <1>9, <2>2, <2>3, <2>5, <2>6, CommittedIdle
  <1> QED
    BY <1>8, <1>9

(* What an update scheduled by a handler of the request under way does;    *)
(* over: it is the last one of the request.                                *)
Scheduled(over) ==
    /\ dirty' = TRUE /\ view' = view /\ latest' = messages'
    /\ messages' \in Lists(requestGeneration, messages, Statuses)
    /\ queue' \in Seq(Reports(requestGeneration, Kinds))
    /\ saveTimer' = TRUE \/ (messages' = messages /\ saveTimer' = saveTimer)
    /\ queue' # <<>> => isAssistantMessagePending(Target(messages'))
    /\ ~over => /\ isAssistantMessagePending(Target(messages'))
                /\ queue' \in Seq(Reports(requestGeneration, {"flush"}))
    /\ over => \/ isAssistantMessageFinal(Target(messages'))
               \/ queue' # <<>> /\ queue'[Len(queue')].kind # "flush"

(* The updaters of one handler: a flush, an outcome, both or none. *)
Outcomes == Kinds \ {"flush"}
Shape(g, us, over) ==
    \/ us = <<>> /\ ~over
    \/ ~over /\ \E f \in Reports(g, {"flush"}) : us = <<f>>
    \/ over /\ \E u \in Reports(g, Outcomes) : us = <<u>>
    \/ over /\ \E f \in Reports(g, {"flush"}), u \in Reports(g, Outcomes) : us = <<f, u>>

LEMMA ActiveIs ==
    ASSUME IndInv, page = "open", Active
    PROVE  isGenerating
  <1>1. Active = TRUE
    BY Zenon DEF Active, At
  <1>2. flags = [requesting |-> Active, streaming |-> Streaming]
    BY DEF IndInv, FlowInv
  <1>3. flags.requesting = TRUE
    BY <1>1, <1>2
  <1>4. flags # Idle
    BY <1>3 DEF Idle
  <1> QED
    BY <1>4 DEF IndInv, FlowInv

LEMMA ScheduleIs ==
    ASSUME IndInv, page = "open", Active, NEW us, Schedule(us), NEW over \in BOOLEAN,
           Shape(requestGeneration, us, over)
    PROVE  Scheduled(over)
  <1> DEFINE g == requestGeneration
  <1>0. /\ g \in Nat /\ messages \in Seq(Msgs(g)) /\ messages # <<>>
        /\ Target(messages).key = <<"assistant", g>> /\ Target(messages) \in Msgs(g)
        /\ (Clean(Target(messages)) \/ Fails(Target(messages)))
        /\ isAssistantMessagePending(Target(messages))
        /\ queue \in Seq(Reports(g, {"flush"})) /\ queue \in Seq(Reports(g, Kinds))
    BY ActiveIs, FocusIs
  <1>1. latest = messages /\ (~dirty => queue = <<>>)
    BY DEF IndInv, ListInv, FlowInv
  <1>2. messages \in Lists(g, messages, PendingStatuses) /\ messages \in Lists(g, messages, Statuses)
    BY <1>0 DEF Lists, PendingStatuses, Statuses, isAssistantMessagePending
  <1>3. \A f \in Reports(g, {"flush"}) : f \in Reports(g, Kinds) /\ f.kind = "flush"
    BY DEF Reports, Kinds
  <1>4. \A u \in Reports(g, Outcomes) : u \in Reports(g, Kinds) /\ u.kind # "flush"
    BY DEF Reports, Outcomes
  <1>5. CASE ScheduleLater(us)
    <2>0. /\ dirty' = TRUE /\ queue' = queue \o us /\ view' = view
          /\ messages' = messages /\ latest' = latest /\ saveTimer' = saveTimer
      BY <1>5 DEF ScheduleLater
    <2>1. CASE ~over
      <3>1. us \in Seq(Reports(g, {"flush"}))
        <4>1. \A S : <<>> \in Seq(S) /\ \A f \in S : <<f>> \in Seq(S)
          OBVIOUS
        <4> QED
          BY <2>1, <4>1, Zenon DEF Shape
      <3>2. queue' \in Seq(Reports(g, {"flush"}))
        BY <1>0, <2>0, <3>1
      <3>3. queue' \in Seq(Reports(g, Kinds))
        BY <1>3, <3>2
      <3> QED
        BY <1>0, <1>1, <1>2, <2>0, <2>1, <3>2, <3>3 DEF Scheduled
    <2>2. CASE over
      <3>1. us \in Seq(Reports(g, Kinds)) /\ us # <<>> /\ us[Len(us)].kind # "flush"
        BY <1>3, <1>4, <2>2 DEF Shape
      <3> HIDE DEF g
      <3>2. queue' \in Seq(Reports(g, Kinds)) /\ queue' # <<>> /\ queue'[Len(queue')] = us[Len(us)]
        BY <1>0, <2>0, <3>1
      <3> QED
        BY <1>0, <1>1, <1>2, <2>0, <2>2, <3>1, <3>2 DEF Scheduled, g
    <2> QED
      BY <2>1, <2>2
  <1>6. CASE /\ ~dirty /\ us # <<>>
             /\ dirty' = TRUE /\ queue' = Tail(us)
             /\ messages' = applyMessageStateUpdate(requestGeneration, messages, us[1])
             /\ persistMessages(messages')
             /\ UNCHANGED view
    <2>0. latest' = messages' /\ saveTimer' = TRUE /\ view' = view /\ dirty' = TRUE /\ queue' = Tail(us)
      BY <1>6 DEF persistMessages
    <2>1. us[1] \in Reports(g, Kinds)
      BY <1>3, <1>4, <1>6 DEF Shape
    <2>2. /\ messages' \in Lists(g, messages, Statuses)
          /\ us[1].kind = "flush" => messages' \in Lists(g, messages, PendingStatuses)
          /\ us[1].kind # "flush" => messages' \in Lists(g, messages, FinalStatuses)
      BY <1>0, <1>2, <1>6, <2>1, ReportKeeps
    <2>3. /\ us[1].kind = "flush" => isAssistantMessagePending(Target(messages'))
          /\ us[1].kind # "flush" => isAssistantMessageFinal(Target(messages'))
      BY <2>2 DEF Lists, PendingStatuses, FinalStatuses, isAssistantMessagePending, isAssistantMessageFinal
    <2>4. CASE ~over /\ \E f \in Reports(g, {"flush"}) : us = <<f>>
      <3>1. PICK f \in Reports(g, {"flush"}) : us = <<f>>
        BY <2>4
      <3>2. us[1].kind = "flush" /\ queue' = <<>>
        BY <1>3, <2>0, <3>1
      <3>3. \A S : <<>> \in Seq(S)
        OBVIOUS
      <3> QED
        BY <2>0, <2>2, <2>3, <2>4, <3>2, <3>3 DEF Scheduled
    <2>5. CASE over /\ \E u \in Reports(g, Outcomes) : us = <<u>>
      <3>1. PICK u \in Reports(g, Outcomes) : us = <<u>>
        BY <2>5
      <3>2. us[1].kind # "flush" /\ queue' = <<>>
        BY <1>4, <2>0, <3>1
      <3>3. \A S : <<>> \in Seq(S)
        OBVIOUS
      <3> QED
        BY <2>0, <2>2, <2>3, <2>5, <3>2, <3>3 DEF Scheduled
    <2>6. CASE over /\ \E f \in Reports(g, {"flush"}), u \in Reports(g, Outcomes) : us = <<f, u>>
      <3>1. PICK f \in Reports(g, {"flush"}), u \in Reports(g, Outcomes) : us = <<f, u>>
        BY <2>6
      <3>2. us[1] = f /\ f.kind = "flush" /\ u.kind # "flush" /\ u \in Reports(g, Kinds)
        BY <1>3, <1>4, <3>1
      <3>3. queue' = <<u>>
        BY <2>0, <3>1
      <3>4. queue' # <<>> /\ queue'[Len(queue')] = u /\ queue' \in Seq(Reports(g, Kinds))
        BY <3>2, <3>3
      <3> QED
        BY <2>0, <2>2, <2>3, <2>6, <3>2, <3>4 DEF Scheduled
    <2> QED
      BY <1>6, <2>4, <2>5, <2>6 DEF Shape
  <1> QED
    BY <1>5, <1>6 DEF Schedule

LEMMA ReportStep ==
    ASSUME IndInv, page = "open", Active, NEW over \in BOOLEAN, Scheduled(over),
           RefInv', ReqInv', MarksKept, over <=> ~Active',
           page' = page, stored' = stored, requestGeneration' = requestGeneration, editing' = editing,
           At({"headers", "sent", "open", "quiet", "over"})',
           flags' = [requesting |-> Active', streaming |-> Streaming'],
           flushTimer' # None => Streaming',
           pending'.generation = requestGeneration' =>
             /\ pending'.content \in Texts(requestGeneration')
             /\ pending'.content # <<>> => Streaming'
    PROVE  IndInv'
  <1> DEFINE g == requestGeneration
             x == messages'
  <1>0. isGenerating
    BY ActiveIs
  <1>1. /\ messages # <<>> /\ Len(view.messages) = Len(messages)
        /\ \A i \in 1..(Len(messages) - 1) : view.messages[i] = messages[i]
        /\ Target(messages).key = <<"assistant", g>>
        /\ Target(view.messages).key = <<"assistant", g>>
        /\ Clean(Target(view.messages)) /\ isAssistantMessagePending(Target(view.messages))
        /\ editing # <<"assistant", g>>
        /\ messages \in Seq(Msgs(g)) /\ view.messages \in Seq(Msgs(g)) /\ stored \in Seq(Msgs(g))
        /\ \A i \in 1..(Len(messages) - 1) : Closed(req, messages[i])
        /\ \A i \in 1..(Len(stored) - 1) : Closed(req, stored[i])
    BY <1>0 DEF IndInv, FocusInv, ListInv, StuckInv
  <1>2. /\ x \in Seq(Msgs(g)) /\ Len(x) = Len(messages) /\ x # <<>>
        /\ \A i \in 1..(Len(x) - 1) : x[i] = messages[i]
        /\ Target(x).key = <<"assistant", g>>
        /\ (Clean(Target(x)) \/ Fails(Target(x)))
    BY <1>1 DEF Scheduled, Lists
  <1>3. ListInv'
    BY <1>1, <1>2 DEF ListInv, Scheduled
  <1>4. isGenerating'
    BY <1>0 DEF Scheduled, isGenerating
  <1>5. FlowInv'
    BY <1>4 DEF FlowInv, Scheduled
  <1>6. FocusInv'
    <2>1. \A i \in 1..(Len(x) - 1) : view'.messages[i] = x[i]
      BY <1>1, <1>2 DEF Scheduled
    <2>2. view' = view
      BY DEF Scheduled
    <2>3. Active' => /\ isAssistantMessagePending(Target(x))
                     /\ queue' \in Seq(Reports(g, {"flush"}))
      BY DEF Scheduled
    <2>4. queue' # <<>> => isAssistantMessagePending(Target(x))
      BY DEF Scheduled
    <2>5. ~Active' => \/ isAssistantMessageFinal(Target(x))
                      \/ queue' # <<>> /\ queue'[Len(queue')].kind # "flush"
      BY DEF Scheduled
    <2> QED
      BY <1>1, <1>2, <2>1, <2>2, <2>3, <2>4, <2>5 DEF FocusInv
  <1>7. StuckInv'
    <2>1. \A i \in 1..(Len(x) - 1) : Closed(req', x[i])
      BY <1>1, <1>2, ClosedKept
    <2>2. \A i \in 1..(Len(stored) - 1) : Closed(req', stored[i])
      BY <1>1, ClosedKept
    <2> QED
      BY <1>4, <2>1, <2>2 DEF StuckInv
  <1>8. SaveInv'
    <2>1. CASE saveTimer' = TRUE
      BY <2>1 DEF IndInv, SaveInv
    <2>2. CASE messages' = messages /\ saveTimer' = saveTimer
      BY <2>2 DEF IndInv, SaveInv, saveMessages
    <2> QED
      BY <2>1, <2>2 DEF Scheduled
  <1> QED
    BY <1>3, <1>5, <1>6, <1>7, <1>8 DEF IndInv

-----------------------------------------------------------------------------
(* The steps of the network and of the flush timer.                        *)

(* Only the latest request is served. *)
LEMMA ServedIs ==
    ASSUME IndInv, NEW g \in Gens, req[g].at \in {"headers", "sent", "open", "quiet"},
           Latest(g) \/ generation = req[g].generation
    PROVE  g = requestGeneration /\ Active
  <1>1. g = requestGeneration
    BY DEF IndInv, ReqInv, RefInv, Latest
  <1> QED
    BY <1>1 DEF Active, At

(* The updater of a flush. *)
LEMMA FlushIs ==
    ASSUME IndInv, NEW g, g = requestGeneration
    PROVE  \/ Flush(g) = <<>>
           \/ \E f \in Reports(g, {"flush"}) : Flush(g) = <<f>>
  <1>1. CASE Latest(g) /\ pending.generation = g /\ pending.content # <<>>
    <2>1. pending.content \in Texts(g)
      BY <1>1 DEF IndInv, FlowInv
    <2>2. Updater("flush", g, pending.content) \in Reports(g, {"flush"})
      BY <2>1 DEF Updater, Reports
    <2> QED
      BY <1>1, <2>2 DEF Flush
  <1> QED
    BY <1>1 DEF Flush

LEMMA FlushOnly ==
    ASSUME IndInv, NEW g, g = requestGeneration
    PROVE  Shape(g, Flush(g), FALSE)
  BY FlushIs, Zenon DEF Shape

LEMMA Pair ==
    ASSUME NEW f, NEW u
    PROVE  <<f>> \o <<u>> = <<f, u>>
  <1> DEFINE s == <<f>> \o <<u>>
  <1>1. <<f>> \in Seq({f, u}) /\ <<u>> \in Seq({f, u}) /\ Len(<<f>>) = 1 /\ Len(<<u>>) = 1
    OBVIOUS
  <1>2. s \in Seq({f, u}) /\ Len(s) = 2 /\ s[1] = f /\ s[2] = u
    BY <1>1
  <1>3. <<f, u>> \in Seq({f, u}) /\ Len(<<f, u>>) = 2 /\ <<f, u>>[1] = f /\ <<f, u>>[2] = u
    OBVIOUS
  <1> HIDE DEF s
  <1>4. \A i \in 1..2 : s[i] = <<f, u>>[i]
    BY <1>2, <1>3
  <1>5. s = [i \in 1..2 |-> s[i]] /\ <<f, u>> = [i \in 1..2 |-> <<f, u>>[i]]
    BY <1>2, <1>3
  <1>6. s = <<f, u>>
    BY <1>4, <1>5
  <1> QED
    BY <1>6 DEF s

LEMMA FlagOff ==
    ASSUME NEW f, f = [requesting |-> TRUE, streaming |-> FALSE]
    PROVE  /\ [f EXCEPT !.requesting = FALSE] = [requesting |-> FALSE, streaming |-> FALSE]
           /\ [f EXCEPT !.streaming = TRUE] = [requesting |-> TRUE, streaming |-> TRUE]
  <1>1. \A a, b, c : [[requesting |-> a, streaming |-> b] EXCEPT !.requesting = c]
                        = [requesting |-> c, streaming |-> b]
    OBVIOUS
  <1>2. \A a, b, c : [[requesting |-> a, streaming |-> b] EXCEPT !.streaming = c]
                        = [requesting |-> a, streaming |-> c]
    OBVIOUS
  <1>3. [f EXCEPT !.requesting = FALSE] = [requesting |-> FALSE, streaming |-> FALSE]
    BY <1>1, Zenon
  <1>4. [f EXCEPT !.streaming = TRUE] = [requesting |-> TRUE, streaming |-> TRUE]
    BY <1>2, Zenon
  <1> QED
    BY <1>3, <1>4

LEMMA FlushThen ==
    ASSUME IndInv, NEW g, g = requestGeneration, NEW u \in Reports(g, Outcomes)
    PROVE  Shape(g, Flush(g) \o <<u>>, TRUE)
  <1>1. CASE Flush(g) = <<>>
    <2>1. Flush(g) \o <<u>> = <<u>>
      BY <1>1
    <2> QED
      BY <2>1, Zenon DEF Shape
  <1>2. CASE \E f \in Reports(g, {"flush"}) : Flush(g) = <<f>>
    <2>1. PICK f \in Reports(g, {"flush"}) : Flush(g) = <<f>>
      BY <1>2
    <2>2. <<f>> \o <<u>> = <<f, u>>
      BY Pair
    <2>3. Flush(g) \o <<u>> = <<f, u>>
      BY <2>1, <2>2, Zenon
    <2> QED
      BY <2>3, Zenon DEF Shape
  <1> QED
    BY <1>1, <1>2, FlushIs

LEMMA EndShapes ==
    ASSUME IndInv, NEW g, g = requestGeneration
    PROVE  Shape(g, FailUpdaters(g), TRUE) /\ Shape(g, CompleteUpdaters(g), TRUE)
  <1>1. /\ Updater("error", g, <<>>) \in Reports(g, Outcomes)
        /\ Updater("complete", g, <<>>) \in Reports(g, Outcomes)
    BY DEF Updater, Reports, Outcomes, Kinds, Texts
  <1> QED
    BY <1>1, FlushThen DEF FailUpdaters, CompleteUpdaters

(* A flush empties the buffer. *)
LEMMA FlushedIs ==
    ASSUME IndInv, NEW g, g = requestGeneration, Flushed(g)
    PROVE  /\ flushTimer' = None
           /\ pending' \in [generation : Nat, content : AllTexts]
           /\ pending'.generation = pending.generation
           /\ pending'.generation = requestGeneration => pending'.content = <<>>
  <1>1. pending \in [generation : Nat, content : AllTexts] /\ <<>> \in AllTexts
    BY DEF IndInv, RefInv, AllTexts
  <1> QED
    BY <1>1 DEF Flushed, Latest

LEMMA OverIs ==
    ASSUME NEW r
    PROVE  Over(r) = [at |-> "over", generation |-> None, mode |-> "delta",
                      answer |-> r.answer, got |-> 0, mark |-> r.mark]
  <1> DEFINE a == [NoRequest EXCEPT !.at = "over"]
             b == [a EXCEPT !.answer = r.answer]
  <1>1. a = [at |-> "over", generation |-> None, mode |-> "delta",
             answer |-> <<>>, got |-> 0, mark |-> "none"]
    BY DEF NoRequest
  <1>2. b = [at |-> "over", generation |-> None, mode |-> "delta",
             answer |-> r.answer, got |-> 0, mark |-> "none"]
    <2> HIDE DEF a
    <2> QED
      BY <1>1
  <1>3. Over(r) = [b EXCEPT !.mark = r.mark]
    BY DEF Over
  <1> HIDE DEF b
  <1> QED
    BY <1>2, <1>3

(* The state after the last handler of a request has run. *)
LEMMA EndStep ==
    ASSUME IndInv, page = "open", Active, Scheduled(TRUE),
           req' = [req EXCEPT ![requestGeneration] = Over(@)],
           flags' = Idle, flushTimer' = None,
           pending' \in [generation : Nat, content : AllTexts],
           pending'.generation = pending.generation,
           pending'.generation = requestGeneration => pending'.content = <<>>,
           abort' \in {None, abort}, source' \in {None, source},
           UNCHANGED <<requestGeneration, generation, editing, stored, page, sends, acts>>
    PROVE  IndInv'
  <1> DEFINE g == requestGeneration
             r == req[g]
  <1>0. g \in Gens /\ r \in Requests(g) /\ r.at # "none" /\ DOMAIN req = Gens
    BY DEF Active, At, IndInv, ReqInv
  <1>1. /\ req'[g] = Over(r) /\ DOMAIN req' = Gens
        /\ \A h \in Gens : h # g => req'[h] = req[h]
    BY <1>0
  <1>2. Over(r) = [at |-> "over", generation |-> None, mode |-> "delta",
                   answer |-> r.answer, got |-> 0, mark |-> r.mark]
    BY OverIs
  <1>3. Over(r) \in Requests(g) /\ Over(r).at = "over" /\ Over(r).mark = r.mark
    BY <1>0, <1>2 DEF Requests, None
  <1>4. ReqInv'
    <2>1. requestGeneration' = g
      OBVIOUS
    <2> HIDE DEF r, g
    <2>2. ASSUME NEW h \in Gens
          PROVE  /\ req'[h] \in Requests(h)
                 /\ req'[h].at \notin {"none", "over"} => req'[h].generation = h
                 /\ h > g => req'[h].at = "none"
                 /\ req'[h].at = "none" => req'[h].mark = "none"
      <3>1. CASE h = g
        <4>1. g \in Nat
          BY DEF IndInv, RefInv, g
        <4> QED
          BY <1>1, <1>3, <3>1, <4>1
      <3>2. CASE h # g
        BY <1>1, <3>2 DEF IndInv, ReqInv, g
      <3> QED
        BY <3>1, <3>2
    <2> QED
      BY <1>1, <2>1, <2>2 DEF ReqInv
  <1>5. MarksKept
    BY <1>1, <1>3 DEF MarksKept
  <1>6. RefInv'
    <2>1. Idle \in FlagSet
      BY DEF Idle, FlagSet
    <2>2. dirty' \in BOOLEAN /\ saveTimer' \in BOOLEAN
      BY DEF Scheduled, IndInv, RefInv
    <2> QED
      BY <2>1, <2>2 DEF IndInv, RefInv
  <1>7. /\ At({"headers", "sent", "open", "quiet", "over"})' /\ ~Active' /\ ~Streaming'
    BY <1>0, <1>1, <1>3 DEF Active, Streaming, At
  <1>8. flags' = [requesting |-> Active', streaming |-> Streaming']
    <2>1. Active' = FALSE /\ Streaming' = FALSE
      BY <1>7, Zenon DEF Active, Streaming, At
    <2> QED
      BY <2>1, Zenon DEF Idle
  <1>9. <<>> \in Texts(requestGeneration')
    BY DEF Texts
  <1> QED
    BY <1>4, <1>5, <1>6, <1>7, <1>8, <1>9, ReportStep

LEMMA FlagsIs ==
    ASSUME IndInv, page = "open", requestGeneration \in Gens,
           req[requestGeneration].at \in {"headers", "sent"}
    PROVE  /\ flags = [requesting |-> TRUE, streaming |-> FALSE]
           /\ [flags EXCEPT !.requesting = FALSE] = Idle
           /\ flushTimer = None
           /\ pending.generation = requestGeneration => pending.content = <<>>
  <1>1. Active /\ ~Streaming
    BY DEF Active, Streaming, At
  <1>2. Active = TRUE /\ Streaming = FALSE
    BY <1>1, Zenon DEF Active, Streaming, At
  <1>3. flags = [requesting |-> TRUE, streaming |-> FALSE]
    BY <1>2, Zenon DEF IndInv, FlowInv
  <1>4. [flags EXCEPT !.requesting = FALSE] = Idle
    BY <1>3, FlagOff DEF Idle
  <1>5. flushTimer = None /\ (pending.generation = requestGeneration => pending.content = <<>>)
    BY <1>1 DEF IndInv, FlowInv
  <1> QED
    BY <1>3, <1>4, <1>5

LEMMA FlushTimerStep == ASSUME IndInv, FlushTimer PROVE IndInv'
  <1> DEFINE g == requestGeneration
  <1>0. /\ page = "open" /\ flushTimer = g /\ flushTimer # None /\ Schedule(Flush(g)) /\ Flushed(g)
        /\ UNCHANGED <<requestGeneration, abort, generation, source, req, flags, editing,
                       stored, page, sends, acts>>
    BY DEF FlushTimer, Latest, controllerVars
  <1>1. Streaming /\ Active
    BY <1>0 DEF IndInv, FlowInv, Active, Streaming, At
  <1>2. Scheduled(FALSE)
    BY <1>0, <1>1, FlushOnly, ScheduleIs
  <1>3. /\ flushTimer' = None
        /\ pending' \in [generation : Nat, content : AllTexts]
        /\ pending'.generation = pending.generation
        /\ pending'.generation = requestGeneration => pending'.content = <<>>
    BY <1>0, FlushedIs
  <1>4. RefInv'
    <2>1. dirty' \in BOOLEAN /\ saveTimer' \in BOOLEAN
      BY <1>2 DEF Scheduled, IndInv, RefInv
    <2> QED
      BY <1>0, <1>3, <2>1 DEF IndInv, RefInv
  <1>5. ReqInv' /\ MarksKept
    BY <1>0 DEF IndInv, ReqInv, MarksKept
  <1>6. Active' /\ At({"headers", "sent", "open", "quiet", "over"})'
    BY <1>0, <1>1 DEF Active, At
  <1>7. flags' = [requesting |-> Active', streaming |-> Streaming']
    BY <1>0, Zenon DEF IndInv, FlowInv, Active, Streaming, At
  <1>8. <<>> \in Texts(requestGeneration')
    BY DEF Texts
  <1> QED
    BY <1>0, <1>1, <1>2, <1>3, <1>4, <1>5, <1>6, <1>7, <1>8, ReportStep

(* The record of the request under way changes. *)
LEMMA ReqStep ==
    ASSUME IndInv, NEW g \in Gens, g = requestGeneration, requestGeneration' = requestGeneration,
           NEW r \in Requests(g), r.at # "none", r.at # "over" => r.generation = g,
           r.mark = req[g].mark, req' = [req EXCEPT ![g] = r]
    PROVE  ReqInv' /\ MarksKept /\ req'[g] = r
  <1>0. DOMAIN req = Gens /\ g \in Nat
    BY DEF IndInv, ReqInv, RefInv
  <1>1. /\ req'[g] = r /\ DOMAIN req' = Gens
        /\ \A h \in Gens : h # g => req'[h] = req[h]
    BY <1>0
  <1>2. ASSUME NEW h \in Gens
        PROVE  /\ req'[h] \in Requests(h)
               /\ req'[h].at \notin {"none", "over"} => req'[h].generation = h
               /\ h > g => req'[h].at = "none"
               /\ req'[h].at = "none" => req'[h].mark = "none"
    <2>1. CASE h = g
      BY <1>0, <1>1, <2>1
    <2>2. CASE h # g
      BY <1>1, <2>2 DEF IndInv, ReqInv
    <2> QED
      BY <2>1, <2>2
  <1>3. ReqInv'
    BY <1>1, <1>2 DEF ReqInv
  <1>4. MarksKept
    BY <1>1 DEF MarksKept
  <1> QED
    BY <1>1, <1>3, <1>4

(* Steps of a request that React does not see. *)
LEMMA UnseenStep ==
    ASSUME IndInv, page = "open", Active, Streaming, RefInv', ReqInv', MarksKept,
           Active', Streaming',
           UNCHANGED <<requestGeneration, messages, flags, queue, dirty, view, latest,
                       saveTimer, editing, stored, page>>,
           pending'.generation = requestGeneration' => pending'.content \in Texts(requestGeneration')
    PROVE  IndInv'
  <1>0. isGenerating /\ isGenerating'
    BY ActiveIs DEF isGenerating
  <1>1. ListInv' /\ SaveInv'
    BY DEF IndInv, ListInv, SaveInv, saveMessages
  <1>2. FlowInv'
    <2>1. flags' = [requesting |-> Active', streaming |-> Streaming']
      <3>1. Active = TRUE /\ Streaming = TRUE /\ Active' = TRUE /\ Streaming' = TRUE
        BY Zenon DEF Active, Streaming, At
      <3>2. flags = [requesting |-> Active, streaming |-> Streaming]
        BY DEF IndInv, FlowInv
      <3> QED
        BY <3>1, <3>2, Zenon
    <2> QED
      BY <1>0, <2>1 DEF IndInv, FlowInv
  <1>3. FocusInv'
    <2>1. At({"headers", "sent", "open", "quiet", "over"})'
      BY DEF Active, At
    <2> QED
      BY <1>0, <2>1 DEF IndInv, FocusInv
  <1>4. StuckInv'
    BY <1>0, ClosedKept DEF IndInv, StuckInv
  <1> QED
    BY <1>1, <1>2, <1>3, <1>4 DEF IndInv

LEMMA ReceiveHeadersStep == ASSUME IndInv, NEW g \in Gens, ReceiveHeaders(g) PROVE IndInv'
  <1>0. /\ page = "open" /\ req[g].at = "headers" /\ generation = req[g].generation
        /\ UNCHANGED <<requestGeneration, abort, generation, editing, stored, page, sends, acts>>
    BY DEF ReceiveHeaders
  <1>1. g = requestGeneration /\ Active
    BY <1>0, ServedIs
  <1>2. /\ flags = [requesting |-> TRUE, streaming |-> FALSE]
        /\ [flags EXCEPT !.requesting = FALSE] = Idle
        /\ flushTimer = None
        /\ pending.generation = requestGeneration => pending.content = <<>>
    BY <1>0, <1>1, FlagsIs
  <1>3. CASE /\ req' = [req EXCEPT ![g].at = "open"]
             /\ source' = g
             /\ flags' = [flags EXCEPT !.streaming = TRUE]
             /\ ScheduleLater(<<>>)
             /\ UNCHANGED <<pending, flushTimer>>
    <2> DEFINE r == [req[g] EXCEPT !.at = "open"]
    <2>1. Scheduled(FALSE)
      <3>1. Schedule(<<>>) /\ Shape(g, <<>>, FALSE)
        BY <1>3 DEF Schedule, Shape
      <3> QED
        BY <1>0, <1>1, <3>1, ScheduleIs
    <2>2. req[g] \in Requests(g) /\ req[g].generation = g /\ req' = [req EXCEPT ![g] = r]
      BY <1>0, <1>3 DEF IndInv, ReqInv
    <2>3. r \in Requests(g) /\ r.at = "open" /\ r.generation = g /\ r.mark = req[g].mark
      BY <2>2 DEF Requests
    <2> HIDE DEF r
    <2>4. ReqInv' /\ MarksKept /\ req'[g] = r
      BY <1>0, <1>1, <2>2, <2>3, ReqStep
    <2>5. Active' /\ Streaming' /\ At({"headers", "sent", "open", "quiet", "over"})'
      BY <1>0, <1>1, <2>3, <2>4 DEF Active, Streaming, At
    <2>6. flags' = [requesting |-> TRUE, streaming |-> TRUE]
      <3>1. [flags EXCEPT !.streaming = TRUE] = [requesting |-> TRUE, streaming |-> TRUE]
        BY <1>2, FlagOff
      <3> QED
        BY <1>3, <3>1, Zenon
    <2>7. flags' = [requesting |-> Active', streaming |-> Streaming'] /\ flags' \in FlagSet
      <3>1. Active' = TRUE /\ Streaming' = TRUE
        BY <2>5, Zenon DEF Active, Streaming, At
      <3>2. flags' = [requesting |-> Active', streaming |-> Streaming']
        BY <2>6, <3>1, Zenon
      <3>3. flags' \in FlagSet
        BY <2>6 DEF FlagSet
      <3> QED
        BY <3>2, <3>3, Zenon
    <2>8. RefInv'
      <3>1. dirty' \in BOOLEAN /\ saveTimer' \in BOOLEAN
        BY <2>1 DEF Scheduled, IndInv, RefInv
      <3> QED
        BY <1>0, <1>1, <1>3, <2>7, <3>1 DEF IndInv, RefInv
    <2>9. <<>> \in Texts(requestGeneration')
      BY DEF Texts
    <2> QED
      BY <1>0, <1>1, <1>2, <1>3, <2>1, <2>4, <2>5, <2>7, <2>8, <2>9, ReportStep
  <1>4. CASE /\ Latest(g)
             /\ req' = [req EXCEPT ![g] = Over(@)]
             /\ flags' = [flags EXCEPT !.requesting = FALSE]
             /\ Schedule(FailUpdaters(g))
             /\ Flushed(g)
             /\ UNCHANGED source
    <2>1. Scheduled(TRUE)
      BY <1>0, <1>1, <1>4, EndShapes, ScheduleIs
    <2>2. flags' = Idle
      BY <1>2, <1>4, Zenon
    <2>3. /\ flushTimer' = None
          /\ pending' \in [generation : Nat, content : AllTexts]
          /\ pending'.generation = pending.generation
          /\ pending'.generation = requestGeneration => pending'.content = <<>>
      BY <1>1, <1>4, FlushedIs
    <2> QED
      BY <1>0, <1>1, <1>4, <2>1, <2>2, <2>3, EndStep
  <1> QED
    BY <1>3, <1>4 DEF ReceiveHeaders

LEMMA ReceiveDoneStep == ASSUME IndInv, NEW g \in Gens, ReceiveDone(g) PROVE IndInv'
  <1>0. /\ page = "open" /\ req[g].at = "open" /\ generation = req[g].generation
        /\ req' = [req EXCEPT ![g] = Over(@)] /\ source' = None /\ flags' = Idle
        /\ ScheduleLater(CompleteUpdaters(g)) /\ Flushed(g)
        /\ UNCHANGED <<requestGeneration, abort, generation, editing, stored, page, sends, acts>>
    BY DEF ReceiveDone, isCurrent
  <1>1. g = requestGeneration /\ Active
    BY <1>0, ServedIs
  <1>2. Scheduled(TRUE)
    <2>1. Schedule(CompleteUpdaters(g))
      BY <1>0 DEF Schedule
    <2> QED
      BY <1>0, <1>1, <2>1, EndShapes, ScheduleIs
  <1>3. /\ flushTimer' = None
        /\ pending' \in [generation : Nat, content : AllTexts]
        /\ pending'.generation = pending.generation
        /\ pending'.generation = requestGeneration => pending'.content = <<>>
    BY <1>0, <1>1, FlushedIs
  <1> QED
    BY <1>0, <1>1, <1>2, <1>3, EndStep

LEMMA StreamErrorStep == ASSUME IndInv, NEW g \in Gens, StreamError(g) PROVE IndInv'
  <1>0. /\ page = "open" /\ req[g].at = "open" /\ generation = req[g].generation
        /\ req' = [req EXCEPT ![g] = Over(@)] /\ source' = None /\ flags' = Idle
        /\ Schedule(FailUpdaters(g)) /\ Flushed(g)
        /\ UNCHANGED <<requestGeneration, abort, generation, editing, stored, page, sends, acts>>
    BY DEF StreamError, isCurrent, AfterError
  <1>1. g = requestGeneration /\ Active
    BY <1>0, ServedIs
  <1>2. Scheduled(TRUE)
    BY <1>0, <1>1, EndShapes, ScheduleIs
  <1>3. /\ flushTimer' = None
        /\ pending' \in [generation : Nat, content : AllTexts]
        /\ pending'.generation = pending.generation
        /\ pending'.generation = requestGeneration => pending'.content = <<>>
    BY <1>0, <1>1, FlushedIs
  <1> QED
    BY <1>0, <1>1, <1>2, <1>3, EndStep

LEMMA ReceiveResponseStep == ASSUME IndInv, NEW g \in Gens, ReceiveResponse(g) PROVE IndInv'
  <1>0. /\ page = "open" /\ req[g].at = "sent" /\ Latest(g)
        /\ req' = [req EXCEPT ![g] = Over(@)] /\ abort' = None
        /\ flags' = [flags EXCEPT !.requesting = FALSE]
        /\ \/ Schedule(<<Updater("answer", g, req[g].answer)>>)
           \/ Schedule(FailUpdaters(g))
        /\ UNCHANGED <<requestGeneration, pending, flushTimer, generation, source, editing,
                       stored, page, sends, acts>>
    BY DEF ReceiveResponse, controllerVars
  <1>1. g = requestGeneration /\ Active
    BY <1>0, ServedIs
  <1>2. /\ [flags EXCEPT !.requesting = FALSE] = Idle
        /\ flushTimer = None
        /\ pending.generation = requestGeneration => pending.content = <<>>
    BY <1>0, <1>1, FlagsIs
  <1>3. Shape(g, <<Updater("answer", g, req[g].answer)>>, TRUE)
    <2>1. req[g].answer \in Texts(g)
      BY DEF IndInv, ReqInv, Requests
    <2>2. Updater("answer", g, req[g].answer) \in Reports(g, Outcomes)
      BY <2>1 DEF Updater, Reports, Outcomes, Kinds
    <2> QED
      BY <2>2, Zenon DEF Shape
  <1>4. Scheduled(TRUE)
    BY <1>0, <1>1, <1>3, EndShapes, ScheduleIs
  <1>5. flags' = Idle
    BY <1>0, <1>2, Zenon
  <1>6. pending' \in [generation : Nat, content : AllTexts]
    BY <1>0 DEF IndInv, RefInv
  <1> QED
    BY <1>0, <1>1, <1>2, <1>4, <1>5, <1>6, EndStep

LEMMA CloseQuietlyStep == ASSUME IndInv, NEW g \in Gens, CloseQuietly(g) PROVE IndInv'
  <1>0. /\ page = "open" /\ req[g].at = "open" /\ generation = req[g].generation
        /\ req' = [req EXCEPT ![g].at = "quiet"]
        /\ UNCHANGED <<requestGeneration, pending, flushTimer, abort, generation, source,
                       messages, flags, queue, dirty, view, latest, saveTimer,
                       editing, stored, page, sends, acts>>
    BY DEF CloseQuietly, isCurrent, handlerVars, controllerVars, reactVars
  <1>1. g = requestGeneration /\ Active
    BY <1>0, ServedIs
  <1> DEFINE r == [req[g] EXCEPT !.at = "quiet"]
  <1>2. req[g] \in Requests(g) /\ req[g].generation = g /\ req' = [req EXCEPT ![g] = r]
    BY <1>0 DEF IndInv, ReqInv
  <1>3. r \in Requests(g) /\ r.at = "quiet" /\ r.generation = g /\ r.mark = req[g].mark
    BY <1>2 DEF Requests
  <1> HIDE DEF r
  <1>4. ReqInv' /\ MarksKept /\ req'[g] = r
    BY <1>0, <1>1, <1>2, <1>3, ReqStep
  <1>5. Streaming /\ Active' /\ Streaming'
    BY <1>0, <1>1, <1>3, <1>4 DEF Active, Streaming, At
  <1>6. RefInv'
    BY <1>0 DEF IndInv, RefInv
  <1>7. pending'.generation = requestGeneration' => pending'.content \in Texts(requestGeneration')
    BY <1>0 DEF IndInv, FlowInv
  <1> QED
    BY <1>0, <1>1, <1>4, <1>5, <1>6, <1>7, UnseenStep

LEMMA ReceiveChunkStep == ASSUME IndInv, NEW g \in Gens, ReceiveChunk(g) PROVE IndInv'
  <1> DEFINE n == req[g].got + 1
             lo == IF req[g].mode = "delta" THEN n ELSE 1
             chunk == SubSeq(req[g].answer, lo, n)
             r == [req[g] EXCEPT !.got = @ + 1]
             c == mergePendingStreamChunk(pending.content, chunk)
  <1>0. /\ page = "open" /\ req[g].at = "open" /\ generation = req[g].generation
        /\ req[g].got < Len(req[g].answer) /\ Latest(g) /\ pending.generation = g
        /\ pending' = [pending EXCEPT !.content = mergePendingStreamChunk(@, chunk)]
        /\ flushTimer' = IF flushTimer = None THEN g ELSE flushTimer
        /\ req' = [req EXCEPT ![g].got = @ + 1]
        /\ UNCHANGED <<requestGeneration, abort, generation, source,
                       messages, flags, queue, dirty, view, latest, saveTimer,
                       editing, stored, page, sends, acts>>
    BY DEF ReceiveChunk, isCurrent, controllerVars, reactVars
  <1>1. g = requestGeneration /\ Active
    BY <1>0, ServedIs
  <1>2. req[g] \in Requests(g) /\ req[g].generation = g /\ req' = [req EXCEPT ![g] = r]
    BY <1>0 DEF IndInv, ReqInv
  <1>3. r \in Requests(g) /\ r.at = "open" /\ r.generation = g /\ r.mark = req[g].mark
    BY <1>0, <1>2 DEF Requests
  <1>4. chunk \in Texts(g)
    <2>1. req[g].answer \in Texts(g) /\ req[g].got \in Nat
      BY <1>2 DEF Requests
    <2>2. lo \in Nat \ {0} /\ n \in 1..Len(req[g].answer) /\ lo <= n
      BY <1>0, <2>1 DEF Texts
    <2> HIDE DEF lo, n
    <2> QED
      BY <2>1, <2>2 DEF Texts
  <1> HIDE DEF chunk, r
  <1>5. c \in Texts(g)
    <2>1. pending.content \in Texts(g)
      BY <1>0, <1>1 DEF IndInv, FlowInv
    <2> QED
      BY <1>4, <2>1, AppendableType DEF Texts
  <1>6. pending' \in [generation : Nat, content : AllTexts] /\ pending'.content = c /\ pending'.generation = g
    <2>1. c \in AllTexts
      <3>1. g \in Nat
        BY <1>1 DEF IndInv, RefInv
      <3>2. {g} \X Words \subseteq Nat \X Words
        BY <3>1
      <3> QED
        BY <1>5, <3>2 DEF Texts, AllTexts
    <2>2. pending \in [generation : Nat, content : AllTexts] /\ pending' = [pending EXCEPT !.content = c]
      BY <1>0 DEF IndInv, RefInv
    <2> HIDE DEF c
    <2> QED
      BY <1>0, <2>1, <2>2
  <1> HIDE DEF c
  <1>7. ReqInv' /\ MarksKept /\ req'[g] = r
    BY <1>0, <1>1, <1>2, <1>3, ReqStep
  <1>8. Streaming /\ Active' /\ Streaming'
    BY <1>0, <1>1, <1>3, <1>7 DEF Active, Streaming, At
  <1>9. RefInv'
    <2>1. g \in Nat /\ pending'.generation <= requestGeneration' /\ flushTimer' \in {None, requestGeneration'}
      BY <1>0, <1>1, <1>6 DEF IndInv, RefInv
    <2> QED
      BY <1>0, <1>6, <2>1 DEF IndInv, RefInv
  <1> QED
    BY <1>0, <1>1, <1>5, <1>6, <1>7, <1>8, <1>9, UnseenStep

-----------------------------------------------------------------------------
(* The steps of the user.                                                  *)

(* Nothing is under way when the page shows no generation. *)
LEMMA RestIs ==
    ASSUME IndInv, page = "open", ~isGenerating
    PROVE  /\ ~Active /\ ~Streaming /\ ~dirty /\ queue = <<>> /\ flags = Idle /\ flushTimer = None
           /\ view.messages = messages
           /\ pending.generation = requestGeneration => pending.content = <<>>
           /\ \A i \in 1..Len(messages) : Closed(req, messages[i])
  <1>1. ~dirty /\ flags = Idle /\ queue = <<>>
    BY DEF IndInv, FlowInv
  <1>2. ~Active
    BY ActiveIs
  <1>3. ~Streaming
    BY <1>2 DEF Active, Streaming, At
  <1>4. view.messages = messages
    BY <1>1 DEF IndInv, FlowInv
  <1>5. messages \in Seq(Msgs(requestGeneration))
    BY DEF IndInv, ListInv
  <1>6. \A i \in 1..Len(messages) : Closed(req, messages[i])
    BY <1>5 DEF IndInv, StuckInv
  <1>7. flushTimer = None /\ (pending.generation = requestGeneration => pending.content = <<>>)
    BY <1>3 DEF IndInv, FlowInv
  <1> QED
    BY <1>1, <1>2, <1>3, <1>4, <1>6, <1>7

(* What is rendered, with or without a generation. *)
LEMMA ViewIs ==
    ASSUME IndInv, page = "open"
    PROVE  /\ view.messages \in Seq(Msgs(requestGeneration))
           /\ \A i \in 1..Len(view.messages) :
                \/ Closed(req, view.messages[i])
                \/ /\ isGenerating /\ i = Len(view.messages)
                   /\ view.messages[i].key = <<"assistant", requestGeneration>>
  <1>1. view.messages \in Seq(Msgs(requestGeneration))
    BY DEF IndInv, ListInv
  <1>2. CASE ~isGenerating
    BY <1>1, <1>2, RestIs
  <1>3. CASE isGenerating
    <2>1. /\ Len(view.messages) = Len(messages)
          /\ \A i \in 1..(Len(messages) - 1) : view.messages[i] = messages[i]
          /\ Target(view.messages).key = <<"assistant", requestGeneration>>
          /\ \A i \in 1..(Len(messages) - 1) : Closed(req, messages[i])
      BY <1>3 DEF IndInv, FocusInv, StuckInv
    <2>2. Len(view.messages) \in Nat
          /\ \A i \in 1..Len(view.messages) : i = Len(view.messages) \/ i \in 1..(Len(view.messages) - 1)
      BY <1>1
    <2> QED
      BY <1>1, <1>3, <2>1, <2>2 DEF Target
  <1> QED
    BY <1>1, <1>2, <1>3

(* A message of the list is edited. *)
LEMMA EditedIs ==
    ASSUME NEW g \in Nat, NEW ms \in Seq(Msgs(g)), NEW i \in 1..Len(ms),
           NEW n, n = [ms[i] EXCEPT !.text = EditedText],
           NEW x, x = [ms EXCEPT ![i] = n]
    PROVE  /\ x \in Seq(Msgs(g)) /\ Len(x) = Len(ms) /\ DOMAIN x = 1..Len(ms)
           /\ \A j \in 1..Len(ms) : x[j].key = ms[j].key /\ x[j].status = ms[j].status
           /\ \A j \in 1..Len(ms) : j # i => x[j] = ms[j]
  <1> DEFINE m == ms[i]
  <1>1. m \in Msgs(g) /\ n = [m EXCEPT !.text = EditedText] /\ DOMAIN ms = 1..Len(ms)
    OBVIOUS
  <1> HIDE DEF m
  <1>2. /\ m = [key |-> m.key, status |-> m.status, text |-> m.text]
        /\ m.key \in Keys(g) /\ m.status \in Statuses
    BY <1>1, MsgType
  <1>3. n = [key |-> m.key, status |-> m.status, text |-> EditedText]
    BY <1>1, <1>2
  <1>4. n \in Msgs(g) /\ n.key = m.key /\ n.status = m.status
    BY <1>2, <1>3, MsgMake
  <1> QED
    BY <1>1, <1>4 DEF m

(* The record of a request that is sent. *)
LEMMA SentIs ==
    \A at, h, mode, text :
        [NoRequest EXCEPT !.at = at, !.generation = h, !.mode = mode, !.answer = text]
            = [at |-> at, generation |-> h, mode |-> mode, answer |-> text, got |-> 0, mark |-> "none"]
  <1> TAKE at, h, mode, text
  <1> DEFINE a == [NoRequest EXCEPT !.at = at]
             b == [a EXCEPT !.generation = h]
             c == [b EXCEPT !.mode = mode]
  <1>1. a = [at |-> at, generation |-> None, mode |-> "delta",
             answer |-> <<>>, got |-> 0, mark |-> "none"]
    BY DEF NoRequest
  <1>2. b = [at |-> at, generation |-> h, mode |-> "delta",
             answer |-> <<>>, got |-> 0, mark |-> "none"]
    <2> HIDE DEF a
    <2> QED
      BY <1>1
  <1>3. c = [at |-> at, generation |-> h, mode |-> mode,
             answer |-> <<>>, got |-> 0, mark |-> "none"]
    <2> HIDE DEF b
    <2> QED
      BY <1>2
  <1>4. [c EXCEPT !.answer = text]
          = [at |-> at, generation |-> h, mode |-> mode, answer |-> text, got |-> 0, mark |-> "none"]
    <2> HIDE DEF c
    <2> QED
      BY <1>3
  <1> QED
    BY <1>4

(* The tokens of an answer are those of its request. *)
LEMMA AnswerIs ==
    ASSUME NEW g, NEW a \in Answers
    PROVE  [i \in DOMAIN a |-> <<g, a[i]>>] \in Texts(g)
  <1>1. a \in Seq(Range(a)) /\ Range(a) \subseteq Words
    <2>1. Range(a) \in {Range(b) : b \in Answers}
      OBVIOUS
    <2> QED
      BY <2>1, ConstantsAssumption, Zenon DEF Words
  <1>2. Len(a) \in Nat /\ DOMAIN a = 1..Len(a) /\ \A i \in 1..Len(a) : a[i] \in Words
    <2>1. a \in Seq(Words)
      BY <1>1
    <2> QED
      BY <2>1
  <1>3. \A i \in 1..Len(a) : <<g, a[i]>> \in {g} \X Words
    BY <1>2
  <1> QED
    BY <1>2, <1>3 DEF Texts

LEMMA SendStep ==
    ASSUME IndInv, page = "open", page' = page, stored' = stored, acts' = acts,
           editing' \in {editing, NoKey}, NEW x, sendChat(x),
           x \in Seq(Msgs(requestGeneration + 1)), x # <<>>,
           Target(x) = createLoadingAssistantMessage(requestGeneration + 1),
           \A i \in 1..(Len(x) - 1) : Closed(req, x[i])
    PROVE  IndInv'
  <1> DEFINE g == requestGeneration + 1
  <1>0. /\ requestGeneration \in Nat /\ sends \in 0..MaxSends /\ acts \in 0..MaxActs
        /\ requestGeneration <= sends + acts /\ generation = requestGeneration
        /\ MaxSends \in Nat /\ MaxActs \in Nat
    BY ConstantsAssumption DEF IndInv, RefInv
  <1>1. /\ sends < MaxSends /\ sends' = sends + 1 /\ requestGeneration' = g
        /\ flushTimer' = None /\ pending' = [generation |-> g, content |-> <<>>]
        /\ generation' = generation + 1 /\ source' = None
        /\ flags' = [requesting |-> TRUE, streaming |-> FALSE]
        /\ Commit(messages, <<SetTo(x)>>)
    BY DEF sendChat, discardPendingStreamUpdates
  <1>2. PICK mode \in Modes, answer \in Answers :
             /\ abort' = IF mode = "plain" THEN g ELSE None
             /\ req' = [req EXCEPT ![g] =
                   [NoRequest EXCEPT !.at = IF mode = "plain" THEN "sent" ELSE "headers",
                       !.generation = generation + 1, !.mode = mode,
                       !.answer = [i \in DOMAIN answer |-> <<g, answer[i]>>]]]
    BY DEF sendChat
  <1>3. g \in Gens /\ g \in Nat /\ requestGeneration <= g /\ g <= sends' + acts' /\ sends' \in 0..MaxSends
    BY <1>0, <1>1 DEF Gens
  <1>4. Committed /\ messages' = x
    BY <1>1, SetIs
  <1> DEFINE at == IF mode = "plain" THEN "sent" ELSE "headers"
             text == [i \in DOMAIN answer |-> <<g, answer[i]>>]
             r == [NoRequest EXCEPT !.at = at, !.generation = g, !.mode = mode, !.answer = text]
  <1>5. text \in Texts(g) /\ at \in {"sent", "headers"} /\ mode \in {"delta", "snapshot", "plain"}
    BY AnswerIs, ConstantsAssumption
  <1>6. req' = [req EXCEPT ![g] = r]
    BY <1>0, <1>2
  <1> HIDE DEF at, text
  <1>6a. r = [NoRequest EXCEPT !.at = at, !.generation = g, !.mode = mode, !.answer = text]
    OBVIOUS
  <1> HIDE DEF r
  <1>7. r = [at |-> at, generation |-> g, mode |-> mode, answer |-> text, got |-> 0, mark |-> "none"]
    <2> HIDE DEF g
    <2> QED
      BY <1>6a, SentIs, Zenon
  <1>8. r \in Requests(g) /\ r.at \in {"sent", "headers"} /\ r.generation = g /\ r.mark = "none"
    BY <1>3, <1>5, <1>7 DEF Requests
  <1>9. /\ DOMAIN req = Gens /\ DOMAIN req' = Gens /\ req'[g] = r
        /\ \A h \in Gens : h # g => req'[h] = req[h]
    BY <1>3, <1>6 DEF IndInv, ReqInv
  <1>10. ReqInv'
    <2> HIDE DEF g
    <2>1. ASSUME NEW h \in Gens
          PROVE  /\ req'[h] \in Requests(h)
                 /\ req'[h].at \notin {"none", "over"} => req'[h].generation = h
                 /\ h > g => req'[h].at = "none"
                 /\ req'[h].at = "none" => req'[h].mark = "none"
      <3>1. CASE h = g
        BY <1>3, <1>8, <1>9, <3>1
      <3>2. CASE h # g
        <4>1. h > g => h > requestGeneration
          BY <1>0 DEF g, Gens
        <4> QED
          BY <1>9, <3>2, <4>1 DEF IndInv, ReqInv
      <3> QED
        BY <3>1, <3>2
    <2> QED
      BY <1>1, <1>9, <2>1 DEF ReqInv
  <1>11. MarksKept
    <2>1. req[g].mark = "none"
      <3>1. g > requestGeneration
        BY <1>0
      <3> QED
        BY <1>3, <3>1 DEF IndInv, ReqInv
    <2> HIDE DEF g
    <2> QED
      BY <1>9, <2>1 DEF MarksKept
  <1>12. RefInv'
    <2>1. /\ pending' \in [generation : Nat, content : AllTexts] /\ pending'.generation = g
          /\ pending'.content = <<>>
      <3>1. <<>> \in AllTexts
        BY DEF AllTexts
      <3> QED
        BY <1>1, <1>3, <3>1
    <2>2. flags' \in FlagSet
      BY <1>1 DEF FlagSet
    <2>3. dirty' \in BOOLEAN /\ saveTimer' \in BOOLEAN
      BY <1>4 DEF Committed, IndInv, RefInv
    <2>4. editing' \in Keys(g) \cup {NoKey}
      BY <1>0, <1>3, MsgsGrow DEF IndInv, RefInv
    <2>5. abort' \in {None, g} /\ generation' = g /\ g <= g
      BY <1>0, <1>1, <1>2
    <2> HIDE DEF g
    <2> QED
      BY <1>0, <1>1, <1>3, <2>1, <2>2, <2>3, <2>4, <2>5 DEF IndInv, RefInv
  <1>13. Active' /\ ~Streaming'
    BY <1>1, <1>3, <1>8, <1>9 DEF Active, Streaming, At
  <1>14. flags' = [requesting |-> Active', streaming |-> Streaming']
    <2>1. Active' = TRUE /\ Streaming' = FALSE
      BY <1>13, Zenon DEF Active, Streaming, At
    <2> QED
      BY <1>1, <2>1, Zenon
  <1>15. /\ Target(x).key = <<"assistant", g>> /\ Clean(Target(x)) /\ isAssistantMessagePending(Target(x))
    <2>1. <<>> \in Texts(g)
      BY DEF Texts
    <2> QED
      BY <2>1 DEF createLoadingAssistantMessage, Clean, isAssistantMessagePending
  <1>16. editing' # <<"assistant", g>>
    <2>1. \A k \in Keys(requestGeneration) : k[2] # g
      BY <1>0 DEF Keys
    <2>2. NoKey[2] = 0 /\ g # 0 /\ <<"assistant", g>>[2] = g
      BY <1>0 DEF NoKey, None
    <2> HIDE DEF g
    <2> QED
      BY <2>1, <2>2 DEF IndInv, RefInv
  <1>17. \A i \in 1..(Len(x) - 1) : Closed(req', x[i])
    BY <1>11, ClosedKept
  <1>18. <<>> \in Texts(requestGeneration') /\ pending'.content = <<>>
    BY <1>1 DEF Texts
  <1> QED
    BY <1>1, <1>3, <1>4, <1>10, <1>11, <1>12, <1>13, <1>14, <1>15, <1>16, <1>17, <1>18, CommittedBusy

LEMMA SendKeeps == ASSUME IndInv, Send PROVE IndInv'
  <1> DEFINE g == requestGeneration + 1
             u == createUserMessage(g)
             a == createLoadingAssistantMessage(g)
             x == messages \o <<u, a>>
  <1>0. /\ page = "open" /\ ~isGenerating /\ page' = page /\ stored' = stored /\ acts' = acts
        /\ editing' = editing
        /\ sendChat(view.messages \o <<createUserMessage(g), createLoadingAssistantMessage(g)>>)
    BY DEF Send
  <1>1. view.messages = messages /\ \A i \in 1..Len(messages) : Closed(req, messages[i])
    BY <1>0, RestIs
  <1>2. requestGeneration \in Nat /\ messages \in Seq(Msgs(requestGeneration))
    BY DEF IndInv, RefInv, ListInv
  <1>3. u \in Msgs(g) /\ a \in Msgs(g) /\ Closed(req, u)
    <2>1. /\ <<"assistant", g>> \in Keys(g) /\ <<"user", g>> \in Keys(g) /\ "loading" \in Statuses
          /\ "sent" \in Statuses /\ <<>> \in Texts(g)
      BY <1>2 DEF Keys, Statuses, Texts
    <2>2. <<"assistant", g>>[2] = g /\ <<"user", g>>[2] = g
      OBVIOUS
    <2>3. u \in Msgs(g) /\ a \in Msgs(g)
      BY <1>2, <2>1, <2>2, MsgMake DEF createLoadingAssistantMessage, createUserMessage
    <2> QED
      BY <2>3 DEF createUserMessage, Closed, isAssistantMessagePending
  <1>4. messages \in Seq(Msgs(g))
    BY <1>2, MsgsGrow
  <1>5. sendChat(x)
    BY <1>0, <1>1
  <1> HIDE DEF u, a
  <1>6. /\ x \in Seq(Msgs(g)) /\ Len(x) = Len(messages) + 2 /\ x[Len(messages) + 2] = a
        /\ x[Len(messages) + 1] = u /\ \A i \in 1..Len(messages) : x[i] = messages[i]
    <2> HIDE DEF g
    <2> QED
      BY <1>3, <1>4
  <1> HIDE DEF x
  <1>7. Len(messages) \in Nat /\ \A i \in 1..(Len(x) - 1) : i \in 1..Len(messages) \/ i = Len(messages) + 1
    BY <1>2, <1>6
  <1>8. x # <<>> /\ Target(x) = a
    BY <1>6, <1>7 DEF Target
  <1>9. \A i \in 1..(Len(x) - 1) : Closed(req, x[i])
    BY <1>1, <1>3, <1>6, <1>7
  <1> QED
    BY <1>0, <1>5, <1>6, <1>8, <1>9, SendStep DEF a

LEMMA RegenerateKeeps == ASSUME IndInv, Regenerate PROVE IndInv'
  <1>0. /\ page = "open" /\ ~isGenerating /\ page' = page /\ stored' = stored /\ acts' = acts
        /\ editing' = editing
    BY DEF Regenerate
  <1>1. view.messages = messages /\ \A i \in 1..Len(messages) : Closed(req, messages[i])
    BY <1>0, RestIs
  <1>2. requestGeneration \in Nat /\ messages \in Seq(Msgs(requestGeneration))
    BY DEF IndInv, RefInv, ListInv
  <1>3. PICK i \in DOMAIN messages :
           sendChat(createRegeneratedMessages(messages, i, requestGeneration + 1))
    BY <1>1 DEF Regenerate
  <1> DEFINE x == createRegeneratedMessages(messages, i, requestGeneration + 1)
  <1>4. sendChat(x)
    BY <1>3
  <1>5. /\ x \in Seq(Msgs(requestGeneration + 1)) /\ x # <<>>
        /\ Target(x) = createLoadingAssistantMessage(requestGeneration + 1)
        /\ \A j \in 1..(Len(x) - 1) : x[j] = messages[j] /\ j \in DOMAIN messages
    BY <1>2, RegeneratedIs
  <1> HIDE DEF x
  <1>6. \A j \in 1..(Len(x) - 1) : Closed(req, x[j])
    BY <1>1, <1>2, <1>5
  <1> QED
    BY <1>0, <1>4, <1>5, <1>6, SendStep

(* Marks change nothing else of a request. *)
LEMMA MarkIs ==
    ASSUME IndInv, NEW gs, NEW what \in {"edited", "stopped", "left"}, Mark(gs, what),
           requestGeneration' \in Nat, requestGeneration <= requestGeneration'
    PROVE  /\ ReqInv' /\ MarksKept
           /\ \A g \in Gens : req'[g].at = req[g].at
           /\ \A g \in Gens : g \in gs /\ req[g].at # "none" /\ what = "edited"
                                => req'[g].mark = "edited"
  <1>0. DOMAIN req = Gens /\ DOMAIN req' = Gens /\ requestGeneration \in Nat
    BY DEF IndInv, ReqInv, RefInv, Mark
  <1>1. ASSUME NEW g \in Gens
        PROVE  /\ req'[g] \in Requests(g) /\ req'[g].at = req[g].at
               /\ req'[g].generation = req[g].generation
               /\ req[g].mark = "edited" => req'[g].mark = "edited"
               /\ req[g].at = "none" => req'[g].mark = req[g].mark
               /\ g \in gs /\ req[g].at # "none" /\ what = "edited" => req'[g].mark = "edited"
    <2> DEFINE r == req[g]
               n == [r EXCEPT !.mark = what]
    <2>1. r \in Requests(g)
      BY DEF IndInv, ReqInv
    <2>2. req'[g] = IF g \in gs /\ r.at # "none" /\ r.mark # "edited" THEN n ELSE r
      BY DEF Mark
    <2> HIDE DEF r
    <2>3. /\ n \in Requests(g) /\ n.at = r.at /\ n.generation = r.generation /\ n.mark = what
      BY <2>1 DEF Requests
    <2> HIDE DEF n
    <2> QED
      BY <2>1, <2>2, <2>3 DEF r
  <1>2. MarksKept
    BY <1>1 DEF MarksKept
  <1>3. ReqInv'
    <2>1. \A g \in Gens : g > requestGeneration' => g > requestGeneration
      BY <1>0 DEF Gens
    <2>2. \A g \in Gens : req[g].at # "none" => ~(g > requestGeneration)
      BY DEF IndInv, ReqInv
    <2>3. ASSUME NEW g \in Gens
          PROVE  /\ req'[g] \in Requests(g)
                 /\ req'[g].at \notin {"none", "over"} => req'[g].generation = g
                 /\ g > requestGeneration' => req'[g].at = "none"
                 /\ req'[g].at = "none" => req'[g].mark = "none"
      BY <1>1, <2>1, <2>2 DEF IndInv, ReqInv
    <2> QED
      BY <1>0, <2>3 DEF ReqInv
  <1> QED
    BY <1>1, <1>2, <1>3

(* A generation that no request has is not under way. *)
LEMMA NewIs ==
    ASSUME IndInv, requestGeneration' = requestGeneration + 1,
           \A g \in Gens : req'[g].at = req[g].at
    PROVE  ~Active' /\ ~Streaming'
  <1>1. requestGeneration \in Nat
    BY DEF IndInv, RefInv
  <1>2. requestGeneration' \in Gens => req'[requestGeneration'].at = "none"
    BY <1>1 DEF IndInv, ReqInv
  <1> QED
    BY <1>2 DEF Active, Streaming, At

LEMMA DeleteKeeps == ASSUME IndInv, Delete PROVE IndInv'
  <1>0. /\ page = "open" /\ ~isGenerating /\ acts < MaxActs /\ acts' = acts + 1
        /\ UNCHANGED <<flags, requestGeneration, pending, flushTimer, abort, generation, source,
                       req, editing, stored, page, sends>>
    BY DEF Delete, Act, controllerVars
  <1>1. PICK i \in DOMAIN view.messages :
           Commit(messages, <<removeMessageByKey(view.messages[i].key)>>)
    BY DEF Delete
  <1>2. /\ ~Active /\ queue = <<>> /\ flags = Idle /\ flushTimer = None
        /\ pending.generation = requestGeneration => pending.content = <<>>
        /\ \A j \in 1..Len(messages) : Closed(req, messages[j])
    BY <1>0, RestIs
  <1> DEFINE g == requestGeneration
             u == removeMessageByKey(view.messages[i].key)
             S == {m \in Msgs(g) : Closed(req, m)}
  <1>3. u.kind = "remove"
    BY DEF removeMessageByKey, Updater
  <1>4. Committed /\ messages' = Run(g, messages, <<u>>)
    <2>1. <<>> \o <<u>> = <<u>>
      OBVIOUS
    <2> QED
      BY <1>0, <1>1, <1>2, <2>1, CommitIs
  <1> HIDE DEF u
  <1>5. messages' = WithoutKey(messages, u.key)
    <2>1. messages' = applyMessageStateUpdate(g, messages, u)
      BY <1>4, OneRuns
    <2> QED
      BY <1>3, <2>1 DEF applyMessageStateUpdate
  <1>6. messages \in Seq(S)
    <2>1. messages \in Seq(Msgs(g))
      BY DEF IndInv, ListInv
    <2> QED
      BY <1>2, <2>1
  <1>7. messages' \in Seq(S)
    <2> HIDE DEF S
    <2> QED
      BY <1>5, <1>6, WithoutKeyType
  <1>8. messages' \in Seq(Msgs(g)) /\ \A j \in 1..Len(messages') : Closed(req, messages'[j])
    BY <1>7
  <1>9. RefInv'
    <2>1. dirty' \in BOOLEAN /\ saveTimer' \in BOOLEAN
      BY <1>4 DEF Committed, IndInv, RefInv
    <2>2. acts' \in 0..MaxActs /\ requestGeneration' <= sends' + acts'
      BY <1>0, ConstantsAssumption DEF IndInv, RefInv
    <2> QED
      BY <1>0, <2>1, <2>2 DEF IndInv, RefInv
  <1>10. ReqInv' /\ MarksKept /\ ~Active' /\ requestGeneration <= requestGeneration'
    BY <1>0, <1>2 DEF IndInv, ReqInv, RefInv, MarksKept, Active, At
  <1> QED
    BY <1>0, <1>2, <1>4, <1>8, <1>9, <1>10, CommittedIdle

LEMMA ClearKeeps == ASSUME IndInv, Clear PROVE IndInv'
  <1>0. /\ page = "open" /\ ~isGenerating /\ acts < MaxActs /\ acts' = acts + 1 /\ editing' = NoKey
        /\ Commit(messages, <<SetTo(<<>>)>>)
        /\ UNCHANGED <<flags, requestGeneration, pending, flushTimer, abort, generation, source,
                       req, stored, page, sends>>
    BY DEF Clear, Act, controllerVars
  <1>2. /\ ~Active /\ flags = Idle /\ flushTimer = None
        /\ pending.generation = requestGeneration => pending.content = <<>>
    BY <1>0, RestIs
  <1>4. Committed /\ messages' = <<>>
    BY <1>0, SetIs
  <1>8. messages' \in Seq(Msgs(requestGeneration')) /\ \A j \in 1..Len(messages') : Closed(req', messages'[j])
    BY <1>4
  <1>9. RefInv'
    <2>1. dirty' \in BOOLEAN /\ saveTimer' \in BOOLEAN
      BY <1>4 DEF Committed, IndInv, RefInv
    <2>2. acts' \in 0..MaxActs /\ requestGeneration' <= sends' + acts'
      BY <1>0, ConstantsAssumption DEF IndInv, RefInv
    <2> QED
      BY <1>0, <2>1, <2>2 DEF IndInv, RefInv
  <1>10. ReqInv' /\ MarksKept /\ ~Active' /\ requestGeneration <= requestGeneration'
    BY <1>0, <1>2 DEF IndInv, ReqInv, RefInv, MarksKept, Active, At
  <1> QED
    BY <1>0, <1>2, <1>4, <1>8, <1>9, <1>10, CommittedIdle

LEMMA SaveEditKeeps == ASSUME IndInv, SaveEdit PROVE IndInv'
  <1> DEFINE g == requestGeneration
             i == IndexOf(view.messages, editing)
             x == [view.messages EXCEPT ![i].text = EditedText]
  <1>0. /\ page = "open" /\ i # 0 /\ editing' = NoKey
        /\ UNCHANGED <<stored, page, acts>>
    BY DEF SaveEdit
  <1>1. /\ view.messages \in Seq(Msgs(g)) /\ g \in Nat
        /\ \A j \in 1..Len(view.messages) :
             \/ Closed(req, view.messages[j])
             \/ /\ isGenerating /\ j = Len(view.messages)
                /\ view.messages[j].key = <<"assistant", g>>
    BY <1>0, ViewIs DEF IndInv, RefInv
  <1>2. i \in 1..Len(view.messages) /\ view.messages[i].key = editing
    BY <1>0, <1>1, IndexOfIs
  <1>3. /\ x \in Seq(Msgs(g)) /\ Len(x) = Len(view.messages) /\ DOMAIN x = 1..Len(view.messages)
        /\ \A j \in 1..Len(view.messages) :
             x[j].key = view.messages[j].key /\ x[j].status = view.messages[j].status
        /\ \A j \in 1..Len(view.messages) : j # i => x[j] = view.messages[j]
    <2> DEFINE n == [view.messages[i] EXCEPT !.text = EditedText]
    <2>1. x = [view.messages EXCEPT ![i] = n] /\ n = [view.messages[i] EXCEPT !.text = EditedText]
      OBVIOUS
    <2> HIDE DEF x, i, n
    <2>2. g \in Nat /\ view.messages \in Seq(Msgs(g)) /\ i \in 1..Len(view.messages)
      BY <1>1, <1>2
    <2> QED
      BY ONLY <2>1, <2>2, EditedIs
  <1>4. Len(x) \in Nat /\ \A j \in 1..Len(x) : j \in 1..(Len(x) - 1) \/ j = Len(x)
    BY <1>3
  <1>5. \A j \in 1..Len(x) : Closed(req, x[j]) \/ (isGenerating /\ j = Len(x) /\ x[j].key = <<"assistant", g>>)
    BY <1>1, <1>3 DEF Closed, isAssistantMessagePending
  <1>6. CASE /\ UNCHANGED <<flags, requestGeneration, pending, flushTimer, abort, controllerVars, sends>>
             /\ IF dirty THEN Mark({requestGeneration}, "edited") ELSE UNCHANGED req
             /\ Commit(messages, <<SetTo(x)>>)
    <2>0. UNCHANGED <<flags, requestGeneration, pending, flushTimer, abort, generation, source, sends>>
      BY <1>6 DEF controllerVars
    <2>1. Committed /\ messages' = x
      BY <1>6, SetIs
    <2>2. /\ ReqInv' /\ MarksKept /\ \A h \in Gens : req'[h].at = req[h].at
          /\ dirty /\ g \in Gens /\ req[g].at # "none" => req'[g].mark = "edited"
      <3>1. CASE dirty
        <4>1. g <= g /\ requestGeneration' = g
          BY <1>1, <2>0
        <4> QED
          BY <1>1, <1>6, <3>1, <4>1, MarkIs
      <3>2. CASE ~dirty
        BY <1>6, <2>0, <3>2 DEF IndInv, ReqInv, MarksKept
      <3> QED
        BY <3>1, <3>2
    <2>3. RefInv'
      <3>1. dirty' \in BOOLEAN /\ saveTimer' \in BOOLEAN
        BY <2>1 DEF Committed, IndInv, RefInv
      <3> QED
        BY <1>0, <2>0, <3>1 DEF IndInv, RefInv
    <2>4. (Active' <=> Active) /\ (Streaming' <=> Streaming) /\ g <= requestGeneration'
      BY <1>1, <2>0, <2>2 DEF Active, Streaming, At
    <2>5. CASE Active
      <3>1. isGenerating
        BY <1>0, <2>5, ActiveIs
      <3>2. /\ view.messages # <<>> /\ editing # <<"assistant", g>>
            /\ Target(view.messages).key = <<"assistant", g>>
            /\ Clean(Target(view.messages)) /\ isAssistantMessagePending(Target(view.messages))
        BY <1>0, <1>1, <3>1 DEF IndInv, FocusInv
      <3>3. i # Len(view.messages) /\ Target(x) = Target(view.messages) /\ x # <<>>
        <4>1. view.messages[i].key # Target(view.messages).key
          BY <1>2, <3>2
        <4>2. i # Len(view.messages)
          BY <4>1 DEF Target
        <4>3. Len(view.messages) \in 1..Len(view.messages)
          BY <1>1, <3>2
        <4> HIDE DEF x, i
        <4>4. x[Len(x)] = view.messages[Len(view.messages)]
          BY <1>3, <4>2, <4>3
        <4>5. x # <<>>
          BY <1>3, <4>3
        <4> QED
          BY <4>2, <4>4, <4>5 DEF Target
      <3>4. \A j \in 1..(Len(x) - 1) : Closed(req', x[j])
        <4>1. \A j \in 1..(Len(x) - 1) : j \in 1..Len(x) /\ j # Len(x)
          BY <1>4
        <4> QED
          BY <1>5, <2>2, <4>1, ClosedKept
      <3>5. flags' = [requesting |-> Active', streaming |-> Streaming']
        <4>1. flags = [requesting |-> Active, streaming |-> Streaming]
          BY <1>0 DEF IndInv, FlowInv
        <4>2. Active' = Active /\ Streaming' = Streaming
          BY <2>4, Zenon DEF Active, Streaming, At
        <4> QED
          BY <2>0, <4>1, <4>2, Zenon
      <3>6. /\ flushTimer' # None => Streaming'
            /\ pending'.generation = requestGeneration' =>
                 /\ pending'.content \in Texts(requestGeneration')
                 /\ pending'.content # <<>> => Streaming'
        BY <2>0, <2>4 DEF IndInv, FlowInv
      <3>7. /\ messages' \in Seq(Msgs(requestGeneration')) /\ messages' # <<>>
            /\ \A j \in 1..(Len(messages') - 1) : Closed(req', messages'[j])
            /\ Target(messages').key = <<"assistant", requestGeneration'>>
            /\ Clean(Target(messages')) /\ isAssistantMessagePending(Target(messages'))
        BY <1>3, <2>0, <2>1, <3>2, <3>3, <3>4
      <3>8. editing' # <<"assistant", requestGeneration'>> /\ stored' = stored /\ page' = "open"
        BY <1>0 DEF NoKey
      <3> QED
        BY <1>0, <2>1, <2>2, <2>3, <2>4, <2>5, <3>5, <3>6, <3>7, <3>8, CommittedBusy
    <2>6. CASE ~Active
      <3>1. Active = FALSE /\ Streaming = FALSE
        BY <2>6, Zenon DEF Active, Streaming, At
      <3>2. flags = Idle /\ flags' = Idle
        <4>1. flags = [requesting |-> Active, streaming |-> Streaming]
          BY <1>0 DEF IndInv, FlowInv
        <4>2. flags = Idle
          BY <3>1, <4>1, Zenon DEF Idle
        <4> QED
          BY <2>0, <4>2, Zenon
      <3>3. isGenerating => dirty
        BY <1>0, <3>2 DEF IndInv, FlowInv, isGenerating
      <3>4. \A j \in 1..Len(x) : Closed(req', x[j])
        <4> SUFFICES ASSUME NEW j \in 1..Len(x) PROVE Closed(req', x[j])
          OBVIOUS
        <4>1. CASE Closed(req, x[j])
          BY <2>2, <4>1, ClosedKept
        <4>2. CASE isGenerating /\ j = Len(x) /\ x[j].key = <<"assistant", g>>
          <5>1. g \in Gens /\ req[g].at # "none"
            BY <1>0, <4>2 DEF IndInv, FocusInv, At
          <5>2. req'[g].mark = "edited" /\ x[j].key[2] = g
            BY <2>2, <3>3, <4>2, <5>1
          <5> QED
            BY <5>1, <5>2 DEF Closed
        <4> QED
          BY <1>5, <4>1, <4>2
      <3>5. flushTimer' = None /\ (pending'.generation = requestGeneration' => pending'.content = <<>>)
        <4>1. ~Streaming
          BY <3>1
        <4> QED
          BY <2>0, <4>1 DEF IndInv, FlowInv
      <3>6. messages' \in Seq(Msgs(requestGeneration')) /\ \A j \in 1..Len(messages') : Closed(req', messages'[j])
        BY <1>3, <2>0, <2>1, <3>4
      <3> QED
        BY <1>0, <2>1, <2>2, <2>3, <2>4, <2>6, <3>2, <3>5, <3>6, CommittedIdle
    <2> QED
      BY <2>5, <2>6
  <1>7. CASE /\ From(view.messages[i]) = "user"
             /\ sendChat(createRegeneratedMessages(x, i, g + 1))
    <2> DEFINE y == createRegeneratedMessages(x, i, g + 1)
    <2>1. /\ y \in Seq(Msgs(g + 1)) /\ y # <<>>
          /\ Target(y) = createLoadingAssistantMessage(g + 1)
          /\ \A j \in 1..(Len(y) - 1) : y[j] = x[j] /\ j <= i /\ j \in DOMAIN x
      <3>1. y = createRegeneratedMessages(x, i, g + 1) /\ i \in DOMAIN x
        BY <1>2, <1>3
      <3> HIDE DEF x, i, y
      <3> QED
        BY <1>1, <1>3, <3>1, RegeneratedIs
    <2>2. sendChat(y)
      BY <1>7
    <2> HIDE DEF y
    <2>3. isGenerating => i # Len(x)
      <3>1. isGenerating => Target(view.messages).key = <<"assistant", g>>
        BY <1>0 DEF IndInv, FocusInv
      <3>2. view.messages[i].key[1] = "user" /\ <<"assistant", g>>[1] = "assistant"
        BY <1>7 DEF From
      <3>3. Target(view.messages).key = <<"assistant", g>> => i # Len(view.messages)
        BY <3>2 DEF Target
      <3> QED
        BY <1>3, <3>1, <3>3
    <2>4. \A j \in 1..(Len(y) - 1) : Closed(req, y[j])
      <3> SUFFICES ASSUME NEW j \in 1..(Len(y) - 1) PROVE Closed(req, y[j])
        OBVIOUS
      <3>1. y[j] = x[j] /\ j <= i /\ j \in 1..Len(x) /\ i \in 1..Len(x)
        BY <1>2, <1>3, <2>1
      <3> HIDE DEF x, i
      <3>2. j = Len(x) => i = Len(x)
        BY <3>1, <1>4
      <3> QED
        BY <1>5, <2>3, <3>1, <3>2
    <2> QED
      BY <1>0, <2>1, <2>2, <2>4, SendStep
  <1> QED
    BY <1>6, <1>7 DEF SaveEdit

LEMMA OpenEditorKeeps == ASSUME IndInv, OpenEditor PROVE IndInv'
  <1>0. /\ page = "open" /\ ~isGenerating /\ acts < MaxActs /\ acts' = acts + 1
        /\ \E i \in DOMAIN view.messages : editing' = view.messages[i].key
        /\ UNCHANGED <<requestGeneration, pending, flushTimer, abort, generation, source, req,
                       messages, flags, queue, dirty, view, latest, saveTimer, stored, page, sends>>
    BY DEF OpenEditor, Act, handlerVars, controllerVars, reactVars
  <1>1. RefInv'
    <2>1. acts' \in 0..MaxActs /\ requestGeneration' <= sends' + acts'
      BY <1>0, ConstantsAssumption DEF IndInv, RefInv
    <2>2. view.messages \in Seq(Msgs(requestGeneration)) /\ requestGeneration \in Nat
      BY DEF IndInv, ListInv, RefInv
    <2>3. editing' \in Keys(requestGeneration)
      <3>1. PICK i \in DOMAIN view.messages : editing' = view.messages[i].key
        BY <1>0
      <3>2. view.messages[i] \in Msgs(requestGeneration)
        BY <2>2
      <3> QED
        BY <2>2, <3>1, <3>2, MsgType
    <2> QED
      BY <1>0, <2>1, <2>3 DEF IndInv, RefInv
  <1>2. ListInv' /\ ReqInv' /\ SaveInv'
    BY <1>0 DEF IndInv, ListInv, ReqInv, SaveInv, saveMessages
  <1>3. FlowInv'
    <2>1. ~Active /\ ~Active' /\ ~Streaming /\ ~Streaming'
      BY <1>0, ActiveIs DEF Active, Streaming, At
    <2>2. flags' = [requesting |-> Active', streaming |-> Streaming']
      <3>1. flags = [requesting |-> Active, streaming |-> Streaming]
        BY <1>0 DEF IndInv, FlowInv
      <3>2. Active' = Active /\ Streaming' = Streaming
        BY <2>1, Zenon DEF Active, Streaming, At
      <3> QED
        BY <1>0, <3>1, <3>2, Zenon
    <2> QED
      BY <1>0, <2>1, <2>2 DEF IndInv, FlowInv, isGenerating
  <1>4. FocusInv' /\ StuckInv'
    BY <1>0 DEF IndInv, FocusInv, StuckInv, isGenerating, Closed
  <1> QED
    BY <1>1, <1>2, <1>3, <1>4 DEF IndInv

LEMMA SaveKeeps == ASSUME IndInv, Save PROVE IndInv'
  <1> DEFINE S == {m \in Msgs(requestGeneration) : Closed(req, m)}
  <1>0. /\ page = "open" /\ saveTimer' = FALSE /\ stored' = saveMessages(latest)
        /\ UNCHANGED <<requestGeneration, pending, flushTimer, abort, generation, source, req,
                       messages, flags, queue, dirty, view, editing, latest, page, sends, acts>>
    BY DEF Save, handlerVars, controllerVars
  <1>1. messages \in Seq(Msgs(requestGeneration)) /\ latest = messages
    BY DEF IndInv, ListInv
  <1>2. /\ stored' \in Seq(Msgs(requestGeneration)) /\ Len(stored') <= MaxStored
        /\ \A i \in 1..(Len(stored') - 1) : Closed(req, stored'[i])
    <2>1. \A i \in 1..(Len(messages) - 1) : messages[i] \in S
      BY <1>1 DEF IndInv, StuckInv
    <2>2. \A i \in 1..(Len(stored') - 1) : stored'[i] \in S
      <3> HIDE DEF S
      <3> QED
        BY <1>0, <1>1, <2>1, SaveFits
    <2> QED
      BY <1>0, <1>1, <2>2, SaveFits
  <1>3. RefInv' /\ ListInv' /\ ReqInv'
    BY <1>0, <1>2 DEF IndInv, RefInv, ListInv, ReqInv
  <1>4. SaveInv'
    <2>1. saveMessages(messages') = saveMessages(messages) /\ saveMessages(latest) = saveMessages(messages)
      BY <1>0, <1>1
    <2> QED
      BY <1>0, <1>2, <2>1 DEF SaveInv
  <1>5. FlowInv' /\ FocusInv'
    <2>1. Active' = Active /\ Streaming' = Streaming
      BY <1>0, Zenon DEF Active, Streaming, At
    <2>2. page # "open" => ~saveTimer'
      BY <1>0
    <2>3. flags' = [requesting |-> Active', streaming |-> Streaming']
      <3>1. flags = [requesting |-> Active, streaming |-> Streaming]
        BY <1>0 DEF IndInv, FlowInv
      <3> QED
        BY <1>0, <2>1, <3>1, Zenon
    <2>4. FlowInv'
      BY <1>0, <2>1, <2>3 DEF IndInv, FlowInv, isGenerating
    <2>5. FocusInv'
      BY <1>0, <2>1 DEF IndInv, FocusInv, isGenerating, At
    <2> QED
      BY <2>4, <2>5
  <1>6. StuckInv'
    BY <1>0, <1>2 DEF IndInv, StuckInv, isGenerating
  <1> QED
    BY <1>3, <1>4, <1>5, <1>6 DEF IndInv

(* The list a stop leaves: nothing in it is pending. *)
LEMMA StopIs ==
    ASSUME IndInv, page = "open", page' = page, stored' = stored, editing' = editing, sends' = sends,
           Act, requestGeneration' = requestGeneration + 1,
           discardPendingStreamUpdates(requestGeneration + 1),
           generation' = generation + 1, source' = None, abort' = None, flags' = Idle,
           Mark({requestGeneration}, "stopped"), Committed,
           messages' \in Seq(Msgs(requestGeneration)), messages' # <<>>,
           \A i \in 1..(Len(messages') - 1) : Closed(req, messages'[i]),
           ~isAssistantMessagePending(Target(messages'))
    PROVE  IndInv'
  <1> DEFINE g == requestGeneration
  <1>0. /\ g \in Nat /\ sends \in 0..MaxSends /\ acts \in 0..MaxActs /\ g <= sends + acts
        /\ generation = g /\ MaxActs \in Nat /\ acts < MaxActs /\ acts' = acts + 1
        /\ editing \in Keys(g) \cup {NoKey}
    BY ConstantsAssumption DEF IndInv, RefInv, Act
  <1>1. flushTimer' = None /\ pending' = [generation |-> g + 1, content |-> <<>>]
    BY DEF discardPendingStreamUpdates
  <1>2. ReqInv' /\ MarksKept /\ \A h \in Gens : req'[h].at = req[h].at
    <2>1. requestGeneration' \in Nat /\ requestGeneration <= requestGeneration'
      BY <1>0
    <2> QED
      BY <2>1, MarkIs
  <1>3. ~Active' /\ ~Streaming'
    BY <1>2, NewIs
  <1>4. RefInv'
    <2>1. Idle \in FlagSet /\ None = 0
      BY DEF Idle, FlagSet, None
    <2>2. dirty' \in BOOLEAN /\ saveTimer' \in BOOLEAN
      BY DEF Committed, IndInv, RefInv
    <2>3. /\ pending' \in [generation : Nat, content : AllTexts] /\ pending'.generation = g + 1
      <3>1. <<>> \in AllTexts /\ g + 1 \in Nat
        BY <1>0 DEF AllTexts
      <3> QED
        BY <1>1, <3>1
    <2>4. /\ acts' \in 0..MaxActs /\ requestGeneration' \in Nat /\ requestGeneration' <= sends' + acts'
          /\ generation' = requestGeneration' /\ pending'.generation <= requestGeneration'
      BY <1>0, <2>3
    <2>5. editing' \in Keys(requestGeneration') \cup {NoKey}
      BY <1>0, MsgsGrow
    <2> QED
      BY <1>0, <1>1, <2>1, <2>2, <2>3, <2>4, <2>5 DEF IndInv, RefInv
  <1>5. messages' \in Seq(Msgs(requestGeneration')) /\ requestGeneration <= requestGeneration'
    BY <1>0, MsgsGrow
  <1>6. \A i \in 1..Len(messages') : Closed(req', messages'[i])
    <2>1. Closed(req', messages'[Len(messages')])
      BY DEF Closed, Target
    <2>2. Len(messages') \in Nat /\ \A i \in 1..Len(messages') : i \in 1..(Len(messages') - 1) \/ i = Len(messages')
      OBVIOUS
    <2> QED
      BY <1>2, <2>1, <2>2, ClosedKept
  <1>7. pending'.content = <<>>
    BY <1>1
  <1> QED
    BY <1>1, <1>2, <1>3, <1>4, <1>5, <1>6, <1>7, CommittedIdle

LEMMA StopKeeps == ASSUME IndInv, Stop PROVE IndInv'
  <1> DEFINE g == requestGeneration
             flush == Flush(g)
             stop == StopUpdaters(g + 1)
  <1>0. /\ page = "open" /\ isGenerating /\ page' = page /\ stored' = stored
        /\ editing' = editing /\ sends' = sends /\ Act /\ requestGeneration' = g + 1
        /\ discardPendingStreamUpdates(g + 1)
        /\ generation' = generation + 1 /\ source' = None /\ abort' = None /\ flags' = Idle
        /\ Mark({g}, "stopped")
    BY DEF Stop
  <1>1. \/ Commit(messages, flush \o stop)
        \/ /\ ~dirty /\ flush # <<>>
           /\ Commit(applyMessageStateUpdate(g, messages, flush[1]), stop)
    BY DEF Stop
  <1>2. /\ g \in Nat /\ messages \in Seq(Msgs(g)) /\ messages # <<>>
        /\ queue \in Seq(Reports(g, Kinds))
        /\ Target(messages).key = <<"assistant", g>> /\ Target(messages) \in Msgs(g)
        /\ (Clean(Target(messages)) \/ Fails(Target(messages)))
        /\ \A i \in 1..(Len(messages) - 1) : Closed(req, messages[i])
    BY <1>0, FocusIs
  <1>3. flush \in Seq(Reports(g, Kinds)) /\ (flush # <<>> => flush[1] \in Reports(g, Kinds))
    <2>1. \A f \in Reports(g, {"flush"}) : f \in Reports(g, Kinds)
      BY DEF Reports, Kinds
    <2>2. \A S : <<>> \in Seq(S) /\ \A f \in S : <<f>> \in Seq(S) /\ <<f>>[1] = f
      OBVIOUS
    <2>3. flush = <<>> \/ \E f \in Reports(g, {"flush"}) : flush = <<f>>
      BY FlushIs
    <2> HIDE DEF flush
    <2> QED
      BY <2>1, <2>2, <2>3, Zenon
  <1> HIDE DEF flush
  <1>4. ASSUME NEW ms \in Seq(Msgs(g)), ms # <<>>, Target(ms).key = <<"assistant", g>>,
               \A i \in 1..(Len(ms) - 1) : Closed(req, ms[i]),
               NEW q \in Seq(Reports(g, Kinds)), Committed, messages' = Run(g + 1, ms, q \o stop)
        PROVE  IndInv'
    <2>1. /\ messages' \in Seq(Msgs(g)) /\ Len(messages') = Len(ms)
          /\ \A i \in 1..(Len(ms) - 1) : messages'[i] = ms[i]
          /\ ~isAssistantMessagePending(Target(messages'))
      BY <1>2, <1>4, StopRuns
    <2>2. messages' # <<>>
      BY <1>4, <2>1
    <2>3. \A i \in 1..(Len(messages') - 1) : Closed(req, messages'[i])
      BY <1>4, <2>1
    <2> QED
      BY <1>0, <1>4, <2>1, <2>2, <2>3, StopIs
  <1>5. CASE Commit(messages, flush \o stop)
    <2>1. Committed /\ messages' = Run(g + 1, messages, queue \o (flush \o stop))
      BY <1>0, <1>5, CommitIs
    <2>2. queue \o (flush \o stop) = (queue \o flush) \o stop /\ queue \o flush \in Seq(Reports(g, Kinds))
      <3> DEFINE S == Reports(g, Kinds) \cup {Updater("stop", g + 1, <<>>)}
      <3>1. queue \in Seq(S) /\ flush \in Seq(S) /\ stop \in Seq(S)
        BY <1>2, <1>3 DEF StopUpdaters
      <3>2. \A a, b, c \in Seq(S) : a \o (b \o c) = (a \o b) \o c
        OBVIOUS
      <3>3. queue \o flush \in Seq(Reports(g, Kinds))
        BY <1>2, <1>3
      <3> HIDE DEF S, stop
      <3>4. queue \o (flush \o stop) = (queue \o flush) \o stop
        BY <3>1, <3>2, Zenon
      <3> QED
        BY <3>3, <3>4
    <2> QED
      BY <1>2, <1>4, <2>1, <2>2
  <1>6. CASE /\ ~dirty /\ flush # <<>>
             /\ Commit(applyMessageStateUpdate(g, messages, flush[1]), stop)
    <2> DEFINE x == applyMessageStateUpdate(g, messages, flush[1])
    <2>1. Committed /\ messages' = Run(g + 1, x, queue \o stop)
      BY <1>0, <1>6, CommitIs
    <2>2. x \in Lists(g, messages, Statuses)
      <3>1. messages \in Lists(g, messages, Statuses)
        BY <1>2, MsgType DEF Lists
      <3> QED
        BY <1>2, <1>3, <1>6, <3>1, ReportKeeps
    <2> HIDE DEF x
    <2>3. /\ x \in Seq(Msgs(g)) /\ x # <<>> /\ Target(x).key = <<"assistant", g>>
          /\ \A i \in 1..(Len(x) - 1) : Closed(req, x[i])
      BY <1>2, <2>2 DEF Lists
    <2> QED
      BY <1>2, <1>4, <2>1, <2>3
  <1> QED
    BY <1>1, <1>5, <1>6

(* The page is gone: nothing is under way. *)
LEMMA GoneStep ==
    ASSUME IndInv, page = "open", page' \in {"left", "closed"}, Act,
           requestGeneration' = requestGeneration + 1,
           flushTimer' = None, abort' = None, generation' = generation + 1, source' = None,
           queue' = <<>>, dirty' = FALSE, saveTimer' = FALSE,
           UNCHANGED <<pending, messages, flags, view, editing, latest, sends>>,
           NEW gs, Mark(gs, "left"), stored' \in {stored, saveMessages(messages)},
           page' = "left" => stored' = saveMessages(messages)
    PROVE  IndInv'
  <1> DEFINE g == requestGeneration
             S == {m \in Msgs(g) : Closed(req, m)}
  <1>0. /\ g \in Nat /\ sends \in 0..MaxSends /\ acts \in 0..MaxActs /\ g <= sends + acts
        /\ generation = g /\ MaxActs \in Nat /\ acts < MaxActs /\ acts' = acts + 1
        /\ editing \in Keys(g) \cup {NoKey} /\ pending.generation <= g
        /\ pending \in [generation : Nat, content : AllTexts]
    BY ConstantsAssumption DEF IndInv, RefInv, Act
  <1>1. ReqInv' /\ MarksKept /\ \A h \in Gens : req'[h].at = req[h].at
    <2>1. requestGeneration' \in Nat /\ requestGeneration <= requestGeneration'
      BY <1>0
    <2> QED
      BY <2>1, MarkIs
  <1>2. ~Active' /\ ~Streaming'
    BY <1>1, NewIs
  <1>3. RefInv'
    <2>1. /\ acts' \in 0..MaxActs /\ requestGeneration' \in Nat /\ requestGeneration' <= sends' + acts'
          /\ generation' = requestGeneration' /\ pending'.generation <= requestGeneration'
      BY <1>0
    <2>2. editing' \in Keys(requestGeneration') \cup {NoKey}
      BY <1>0, MsgsGrow
    <2>3. page' \in {"open", "left", "closed"} /\ dirty' \in BOOLEAN /\ saveTimer' \in BOOLEAN
      OBVIOUS
    <2> QED
      BY <1>0, <2>1, <2>2, <2>3 DEF IndInv, RefInv
  <1>4. /\ messages \in Seq(Msgs(g)) /\ stored \in Seq(Msgs(g)) /\ view.messages \in Seq(Msgs(g))
        /\ latest = messages /\ Len(stored) <= MaxStored
        /\ \A i \in 1..(Len(messages) - 1) : Closed(req, messages[i])
        /\ \A i \in 1..(Len(stored) - 1) : Closed(req, stored[i])
    BY DEF IndInv, ListInv, SaveInv, StuckInv
  <1>5. /\ stored' \in Seq(Msgs(g)) /\ Len(stored') <= MaxStored
        /\ \A i \in 1..(Len(stored') - 1) : Closed(req, stored'[i])
    <2>1. CASE stored' = stored
      BY <1>4, <2>1
    <2>2. CASE stored' = saveMessages(messages)
      <3>1. \A i \in 1..(Len(messages) - 1) : messages[i] \in S
        BY <1>4
      <3>2. \A i \in 1..(Len(stored') - 1) : stored'[i] \in S
        <4> HIDE DEF S
        <4> QED
          BY <1>4, <2>2, <3>1, SaveFits
      <3> QED
        BY <1>4, <2>2, <3>2, SaveFits
    <2> QED
      BY <2>1, <2>2
  <1>6. ListInv'
    <2>1. Seq(Msgs(g)) \subseteq Seq(Msgs(requestGeneration'))
      BY <1>0, MsgsGrow
    <2> QED
      BY <1>4, <1>5, <2>1 DEF ListInv
  <1>7. FlowInv' /\ FocusInv'
    <2>1. pending'.generation # requestGeneration'
      BY <1>0
    <2> QED
      BY <1>2, <2>1 DEF FlowInv, FocusInv
  <1>8. StuckInv'
    BY <1>1, <1>4, <1>5, ClosedKept DEF StuckInv
  <1>9. SaveInv'
    BY <1>5 DEF SaveInv, saveMessages
  <1> QED
    BY <1>1, <1>3, <1>6, <1>7, <1>8, <1>9 DEF IndInv

LEMMA UnmountKeeps == ASSUME IndInv, Unmount PROVE IndInv'
  <1>1. stored' = saveMessages(messages)
    <2>1. latest = messages
      BY DEF IndInv, ListInv
    <2>2. CASE saveTimer
      BY <2>1, <2>2 DEF Unmount, SavedOnUnmount
    <2>3. CASE ~saveTimer
      BY <2>3 DEF Unmount, SavedOnUnmount, IndInv, SaveInv
    <2> QED
      BY <2>2, <2>3
  <1> QED
    BY <1>1, GoneStep DEF Unmount

LEMMA CloseTabKeeps == ASSUME IndInv, CloseTab PROVE IndInv'
  <1>1. page' = "closed" /\ stored' = stored
    BY DEF CloseTab
  <1> QED
    BY <1>1, GoneStep DEF CloseTab

LEMMA MountKeeps == ASSUME IndInv, Mount PROVE IndInv'
  <1> DEFINE g == requestGeneration
             x == loadMessages
  <1>0. /\ page # "open" /\ page' = "open" /\ messages' = x /\ latest' = x /\ stored' = x
        /\ view' = [messages |-> x, flags |-> Idle] /\ flags' = Idle /\ editing' = NoKey
        /\ pending' = [generation |-> g, content |-> <<>>]
        /\ UNCHANGED <<requestGeneration, flushTimer, abort, generation, source, req, queue,
                       dirty, saveTimer, sends, acts>>
    BY DEF Mount, controllerVars
  <1>1. ~dirty /\ ~saveTimer /\ flushTimer = None /\ ~Active /\ queue = <<>>
    BY <1>0 DEF IndInv, FlowInv
  <1>2. g \in Nat /\ stored \in Seq(Msgs(g)) /\ Len(stored) <= MaxStored
    BY DEF IndInv, RefInv, ListInv, SaveInv
  <1>3. /\ x \in Seq(Msgs(g)) /\ Len(x) = Len(stored)
        /\ \A i \in 1..Len(stored) :
             /\ x[i].key = stored[i].key
             /\ isAssistantMessagePending(x[i]) => isAssistantMessagePending(stored[i]) /\ i # Len(stored)
    BY <1>2, LoadIs
  <1> HIDE DEF x
  <1>4. \A i \in 1..Len(x) : Closed(req, x[i])
    <2> SUFFICES ASSUME NEW i \in 1..Len(x), isAssistantMessagePending(x[i])
                 PROVE  x[i].key[2] \in Gens /\ req[x[i].key[2]].mark = "edited"
      BY DEF Closed
    <2>1. i \in 1..Len(stored) /\ i \in 1..(Len(stored) - 1)
      BY <1>2, <1>3
    <2> QED
      BY <1>3, <2>1 DEF IndInv, StuckInv, Closed
  <1>5. RefInv'
    <2>1. Idle \in FlagSet
      BY DEF Idle, FlagSet
    <2>2. pending' \in [generation : Nat, content : AllTexts] /\ pending'.generation = g /\ g <= g
      <3>1. <<>> \in AllTexts
        BY DEF AllTexts
      <3> QED
        BY <1>0, <1>2, <3>1
    <2> QED
      BY <1>0, <2>1, <2>2 DEF IndInv, RefInv
  <1>6. ListInv' /\ ReqInv'
    <2>1. view'.messages = x
      BY <1>0
    <2> QED
      BY <1>0, <1>1, <1>3, <2>1 DEF IndInv, ListInv, ReqInv
  <1>7. ~isGenerating'
    BY <1>0 DEF isGenerating
  <1>8. FlowInv'
    <2>1. ~Active' /\ ~Streaming'
      BY <1>0, <1>1 DEF Active, Streaming, At
    <2>2. flags' = [requesting |-> Active', streaming |-> Streaming']
      <3>1. Active' = FALSE /\ Streaming' = FALSE
        BY <2>1, Zenon DEF Active, Streaming, At
      <3> QED
        BY <1>0, <3>1, Zenon DEF Idle
    <2>3. pending'.content = <<>> /\ <<>> \in Texts(requestGeneration')
      BY <1>0 DEF Texts
    <2> QED
      BY <1>0, <1>1, <1>7, <2>1, <2>2, <2>3 DEF FlowInv
  <1>9. FocusInv'
    BY <1>7 DEF FocusInv
  <1>10. StuckInv'
    <2>1. Len(x) \in Nat /\ DOMAIN x = 1..Len(x) /\ \A i \in 1..(Len(x) - 1) : i \in 1..Len(x)
      BY <1>3
    <2> QED
      BY <1>0, <1>4, <2>1 DEF StuckInv
  <1>11. SaveInv'
    <2>1. saveMessages(x) = x
      BY <1>2, <1>3, SaveFits
    <2> QED
      BY <1>0, <1>2, <1>3, <2>1 DEF SaveInv
  <1> QED
    BY <1>5, <1>6, <1>8, <1>9, <1>10, <1>11 DEF IndInv

-----------------------------------------------------------------------------
(* The theorems.                                                           *)

LEMMA IndNext == IndInv /\ [Next]_vars => IndInv'
  <1> SUFFICES ASSUME IndInv, [Next]_vars PROVE IndInv'
    OBVIOUS
  <1>1. CASE User
    BY <1>1, SendKeeps, RegenerateKeeps, DeleteKeeps, ClearKeeps, OpenEditorKeeps,
       SaveEditKeeps, StopKeeps, UnmountKeeps, CloseTabKeeps, MountKeeps DEF User
  <1>2. CASE Browser
    BY <1>2, RenderStep, FlushTimerStep, SaveKeeps DEF Browser
  <1>3. CASE \E g \in Gens : Network(g)
    BY <1>3, ReceiveHeadersStep, ReceiveChunkStep, ReceiveDoneStep, StreamErrorStep,
       CloseQuietlyStep, ReceiveResponseStep DEF Network
  <1>4. CASE UNCHANGED vars
    <2>1. /\ UNCHANGED <<requestGeneration, pending, flushTimer, abort, generation, source, req>>
          /\ UNCHANGED <<messages, flags, queue, dirty, view, latest, saveTimer>>
          /\ UNCHANGED <<editing, stored, page, sends, acts>>
      BY <1>4 DEF vars, handlerVars, controllerVars, reactVars
    <2>2. Active' = Active /\ Streaming' = Streaming /\ isGenerating' = isGenerating
      BY <2>1, Zenon DEF Active, Streaming, At, isGenerating
    <2>3. RefInv' /\ ListInv' /\ ReqInv'
      BY <2>1 DEF IndInv, RefInv, ListInv, ReqInv
    <2>4. FlowInv'
      BY <2>1, <2>2 DEF IndInv, FlowInv
    <2>5. FocusInv'
      BY <2>1, <2>2 DEF IndInv, FocusInv, At
    <2>6. StuckInv' /\ SaveInv'
      BY <2>1, <2>2 DEF IndInv, StuckInv, SaveInv, saveMessages
    <2> QED
      BY <2>3, <2>4, <2>5, <2>6 DEF IndInv
  <1> QED
    BY <1>1, <1>2, <1>3, <1>4 DEF Next

(* The inductive invariant holds in every reachable state of the           *)
(* playground, whatever the answers, the number of requests and acts of    *)
(* the user, and the length of what is stored.                             *)
THEOREM IndCorrect == Spec => []IndInv
  BY IndInit, IndNext, PTL DEF Spec

(* The state has its type: one generation is shared by the chat handler    *)
(* and the stream controller, and every ref that is set belongs to it.     *)
THEOREM TypeCorrect == Spec => []TypeOK
  <1>1. IndInv => TypeOK
    <2> SUFFICES ASSUME IndInv PROVE TypeOK
      OBVIOUS
    <2>1. /\ requestGeneration \in Nat /\ sends \in 0..MaxSends /\ acts \in 0..MaxActs
          /\ requestGeneration <= sends + acts /\ MaxSends \in Nat /\ MaxActs \in Nat
          /\ pending.generation \in Nat /\ pending.generation <= requestGeneration
      BY ConstantsAssumption DEF IndInv, RefInv
    <2>2. requestGeneration \in 0..(MaxSends + MaxActs) /\ pending.generation \in 0..requestGeneration
      BY <2>1
    <2>3. ASSUME NEW i \in DOMAIN messages
          PROVE  [key |-> messages[i].key, status |-> messages[i].status] \in Messages
      <3>1. messages[i] \in Msgs(requestGeneration)
        BY DEF IndInv, ListInv
      <3>2. messages[i].key \in Keys(requestGeneration) /\ messages[i].status \in Statuses
        BY <2>1, <3>1, MsgType
      <3>3. 0..requestGeneration \subseteq Gens \cup {None}
        <4>1. \A h \in 0..requestGeneration : h = 0 \/ h \in 1..(MaxSends + MaxActs)
          BY <2>1, <2>2
        <4> QED
          BY <4>1 DEF Gens, None
      <3> QED
        BY <3>2, <3>3 DEF Keys, Statuses, Messages
    <2> QED
      BY <2>2, <2>3 DEF IndInv, RefInv, FlowInv, FlagSet, TypeOK
  <1> QED
    BY <1>1, IndCorrect, PTL

(* An answer only ever holds text of its own request: neither the buffer,  *)
(* nor React's queue, nor a late chunk of a request that was superseded,   *)
(* stopped or left puts a token into the message of another one.           *)
THEOREM OwnTextCorrect == Spec => []OwnText
  <1>1. IndInv => OwnText
    <2> SUFFICES ASSUME IndInv, NEW i \in DOMAIN messages, Unedited(messages[i]),
                        NEW k \in DOMAIN messages[i].text
                 PROVE  messages[i].text[k][1] = messages[i].key[2]
      BY DEF OwnText
    <2>1. messages[i] \in Msgs(requestGeneration) /\ requestGeneration \in Nat
      BY DEF IndInv, ListInv, RefInv
    <2>2. messages[i].text \in Texts(messages[i].key[2])
      BY <2>1, MsgType DEF Unedited
    <2>3. messages[i].text[k] \in {messages[i].key[2]} \X Words
      BY <2>2 DEF Texts
    <2> QED
      BY <2>3
  <1> QED
    BY <1>1, IndCorrect, PTL

(* When the page shows no generation and nothing is left to render, no     *)
(* answer is loading or streaming, except one over which an edit was saved *)
(* before an update of it was rendered.                                    *)
THEOREM NoStuckAnswerCorrect == Spec => []NoStuckAnswer
  <1>1. IndInv => NoStuckAnswer
    BY DEF IndInv, StuckInv, Closed, NoStuckAnswer
  <1> QED
    BY <1>1, IndCorrect, PTL

(* Leaving the playground stores the conversation as React last had it:    *)
(* latestMessagesRef is never behind, and without a running save timer the *)
(* last save was of the same messages.                                     *)
THEOREM SavedOnLeaveCorrect == Spec => []SavedOnLeave
  <1>1. IndInv => SavedOnLeave
    BY DEF IndInv, SaveInv, SavedOnLeave
  <1> QED
    BY <1>1, IndCorrect, PTL

FinalKept == \A i \in DOMAIN messages :
                isAssistantMessageFinal(messages[i]) => messages'[i] = messages[i]

(* A handler of the request under way finds its message pending. *)
LEMMA ScheduleFinal ==
    ASSUME IndInv, page = "open", Active, NEW over \in BOOLEAN, Scheduled(over)
    PROVE  FinalKept
  <1>1. /\ messages \in Seq(Msgs(requestGeneration)) /\ isAssistantMessagePending(Target(messages))
    BY ActiveIs, FocusIs
  <1>2. \A i \in 1..(Len(messages) - 1) : messages'[i] = messages[i]
    BY DEF Scheduled, Lists
  <1>3. ~isAssistantMessageFinal(messages[Len(messages)])
    BY <1>1 DEF Target, isAssistantMessagePending, isAssistantMessageFinal
  <1>4. \A i \in DOMAIN messages : i = Len(messages) \/ i \in 1..(Len(messages) - 1)
    BY <1>1
  <1> QED
    BY <1>2, <1>3, <1>4 DEF FinalKept

LEMMA RenderFinal == ASSUME IndInv, Render PROVE FinalKept
  <1> DEFINE g == requestGeneration
  <1>0. page = "open" /\ dirty /\ requestGeneration' = g /\ Commit(messages, <<>>)
    BY DEF Render
  <1>1. isGenerating
    BY <1>0 DEF IndInv, FlowInv
  <1>2. /\ g \in Nat /\ messages \in Seq(Msgs(g)) /\ messages # <<>>
        /\ queue \in Seq(Reports(g, Kinds))
        /\ Target(messages).key = <<"assistant", g>>
        /\ (Clean(Target(messages)) \/ Fails(Target(messages)))
        /\ queue # <<>> => isAssistantMessagePending(Target(messages))
    BY <1>0, <1>1, FocusIs
  <1>3. messages' = Run(g, messages, queue)
    <2>1. queue \o <<>> = queue
      BY <1>2
    <2> QED
      BY <1>0, <2>1, CommitIs
  <1>4. CASE queue = <<>>
    BY <1>3, <1>4, RunEmpty DEF FinalKept
  <1>5. CASE queue # <<>>
    <2>1. messages' \in Lists(g, messages, Statuses)
      BY <1>2, <1>3, QueueRuns
    <2>2. \A i \in 1..(Len(messages) - 1) : messages'[i] = messages[i]
      BY <2>1 DEF Lists
    <2>3. ~isAssistantMessageFinal(messages[Len(messages)])
      BY <1>2, <1>5 DEF Target, isAssistantMessagePending, isAssistantMessageFinal
    <2>4. \A i \in DOMAIN messages : i = Len(messages) \/ i \in 1..(Len(messages) - 1)
      BY <1>2
    <2> QED
      BY <2>2, <2>3, <2>4 DEF FinalKept
  <1> QED
    BY <1>4, <1>5

LEMMA NetworkFinal == ASSUME IndInv, NEW g \in Gens, Network(g) PROVE FinalKept
  <1>1. CASE ReceiveChunk(g) \/ CloseQuietly(g)
    BY <1>1 DEF ReceiveChunk, CloseQuietly, reactVars, FinalKept
  <1>2. CASE ReceiveHeaders(g)
    <2>1. g = requestGeneration /\ Active /\ page = "open"
      BY <1>2, ServedIs DEF ReceiveHeaders
    <2>2. CASE ScheduleLater(<<>>)
      BY <2>2 DEF ScheduleLater, FinalKept
    <2>3. CASE Schedule(FailUpdaters(g))
      BY <2>1, <2>3, EndShapes, ScheduleIs, ScheduleFinal
    <2> QED
      BY <1>2, <2>2, <2>3 DEF ReceiveHeaders
  <1>3. CASE ReceiveDone(g)
    BY <1>3 DEF ReceiveDone, ScheduleLater, FinalKept
  <1>4. CASE StreamError(g)
    <2>1. g = requestGeneration /\ Active /\ page = "open" /\ Schedule(FailUpdaters(g))
      BY <1>4, ServedIs DEF StreamError, isCurrent
    <2> QED
      BY <2>1, EndShapes, ScheduleIs, ScheduleFinal
  <1>5. CASE ReceiveResponse(g)
    <2>1. g = requestGeneration /\ Active /\ page = "open"
      BY <1>5, ServedIs DEF ReceiveResponse
    <2>2. CASE Schedule(FailUpdaters(g))
      BY <2>1, <2>2, EndShapes, ScheduleIs, ScheduleFinal
    <2>3. CASE Schedule(<<Updater("answer", g, req[g].answer)>>)
      <3>1. req[g].answer \in Texts(g)
        BY DEF IndInv, ReqInv, Requests
      <3>2. Updater("answer", g, req[g].answer) \in Reports(g, Outcomes)
        BY <3>1 DEF Updater, Reports, Outcomes, Kinds
      <3>3. Shape(g, <<Updater("answer", g, req[g].answer)>>, TRUE)
        BY <3>2, Zenon DEF Shape
      <3> QED
        BY <2>1, <2>3, <3>3, ScheduleIs, ScheduleFinal
    <2> QED
      BY <1>5, <2>2, <2>3 DEF ReceiveResponse
  <1> QED
    BY <1>1, <1>2, <1>3, <1>4, <1>5 DEF Network

LEMMA BrowserFinal == ASSUME IndInv, Browser PROVE FinalKept
  <1>1. CASE FlushTimer
    <2>1. page = "open" /\ flushTimer = requestGeneration /\ flushTimer # None
          /\ Schedule(Flush(requestGeneration))
      BY <1>1 DEF FlushTimer, Latest
    <2>2. Active
      BY <2>1 DEF IndInv, FlowInv, Active, Streaming, At
    <2> QED
      BY <2>1, <2>2, FlushOnly, ScheduleIs, ScheduleFinal
  <1>2. CASE Save
    BY <1>2 DEF Save, FinalKept
  <1> QED
    BY <1>1, <1>2, RenderFinal DEF Browser

(* An answer that is complete or has failed changes by an act of the user  *)
(* only: while updates of its request are queued, it is still pending.     *)
THEOREM FinalStaysCorrect == Spec => FinalStays
  <1>1. IndInv /\ [Next]_vars =>
          [(Browser \/ \E g \in Gens : Network(g)) =>
             \A i \in DOMAIN messages :
                isAssistantMessageFinal(messages[i]) => messages'[i] = messages[i]]_vars
    BY BrowserFinal, NetworkFinal DEF FinalKept
  <1> QED
    BY <1>1, IndCorrect, PTL DEF FinalStays, Spec

-----------------------------------------------------------------------------
(* Answers are kept whole.                                                 *)

(* No token is the one before it, and the tokens do not begin with a piece *)
(* that is repeated at once.  This is what tells a delta from a chunk that *)
(* repeats the text so far: getAppendableChunk and mergePendingStreamChunk *)
(* compare texts and know nothing else.                                    *)
NoEcho(a) ==
    /\ \A i \in 1..(Len(a) - 1) : a[i] # a[i + 1]
    /\ \A k \in 1..Len(a) : k + k <= Len(a) => \E i \in 1..k : a[i] # a[k + i]

(* What the queue will make of the messages. *)
Outcome == Run(requestGeneration, messages, queue)

(* A message that counts as a full answer is one, or the user interfered   *)
(* with its request, one of r.                                             *)
Told(r, m) ==
    From(m) = "assistant" /\ m.status = "complete" /\ Unedited(m) =>
        /\ m.key[2] \in Gens
        /\ \/ r[m.key[2]].mark # "none"
           \/ r[m.key[2]].at = "over" /\ m.text = r[m.key[2]].answer

(* A pending message belongs to a request, and when the page is gone the   *)
(* user has interfered with it.                                            *)
Known(r, m, gone) ==
    isAssistantMessagePending(m) =>
        /\ m.key[2] \in Gens /\ r[m.key[2]].at # "none"
        /\ gone => r[m.key[2]].mark # "none"

(* Of the n tokens that have arrived of an answer, the first k are in the  *)
(* text or on their way through the queue, and the others in the buffer.   *)
Split(answer, mode, n, k, text, buffer) ==
    /\ text = SubSeq(answer, 1, k)
    /\ buffer = IF k = n THEN <<>>
                ELSE IF mode = "delta" THEN SubSeq(answer, k + 1, n) ELSE SubSeq(answer, 1, n)

(* What holds of request r while it is under way; text is what its message *)
(* will be when the queue has run.                                         *)
Streams(r, text, buffer) ==
    /\ r.got <= Len(r.answer)
    /\ r.at \in {"headers", "sent"} => r.got = 0
    /\ r.mode = "delta" => NoEcho(r.answer)
    /\ r.mark = "none" =>
         \E k \in 0..r.got : Split(r.answer, r.mode, r.got, k, text, buffer)

StreamInv ==
    Active => /\ pending.generation = requestGeneration
              /\ Streams(req[requestGeneration], Target(Outcome).text, pending.content)

ToldInv ==
    /\ \A i \in DOMAIN messages : Told(req, messages[i])
    /\ \A i \in DOMAIN stored : Told(req, stored[i])
    /\ page = "open" /\ isGenerating => Told(req, Target(Outcome))
    /\ \A i \in DOMAIN stored : Known(req, stored[i], page # "open")

TextInv == StreamInv /\ ToldInv

(* Pieces of a sequence. *)
LEMMA PieceIs ==
    ASSUME NEW S, NEW a \in Seq(S), NEW lo \in Nat, NEW hi \in Nat, 1 <= lo, lo <= hi + 1, hi <= Len(a)
    PROVE  /\ SubSeq(a, lo, hi) \in Seq(S) /\ Len(SubSeq(a, lo, hi)) = (hi + 1) - lo
           /\ \A i \in 1..((hi + 1) - lo) : SubSeq(a, lo, hi)[i] = a[(lo + i) - 1]
           /\ lo = hi + 1 => SubSeq(a, lo, hi) = <<>>
  <1>1. SubSeq(a, lo, hi) \in Seq(S) /\ Len(SubSeq(a, lo, hi)) = (hi + 1) - lo
    OBVIOUS
  <1>2. \A i \in 1..((hi + 1) - lo) : SubSeq(a, lo, hi)[i] = a[(lo + i) - 1]
    OBVIOUS
  <1> QED
    BY <1>1, <1>2

LEMMA SameSeq ==
    ASSUME NEW S, NEW s \in Seq(S), NEW t \in Seq(S), Len(s) = Len(t),
           \A i \in 1..Len(s) : s[i] = t[i]
    PROVE  s = t
  OBVIOUS

LEMMA Pieces ==
    ASSUME NEW S, NEW a \in Seq(S), NEW lo \in Nat, NEW k \in Nat, NEW n \in Nat,
           1 <= lo, lo <= k + 1, k <= n, n <= Len(a)
    PROVE  SubSeq(a, lo, k) \o SubSeq(a, k + 1, n) = SubSeq(a, lo, n)
  <1> DEFINE s == SubSeq(a, lo, k)
             t == SubSeq(a, k + 1, n)
             u == SubSeq(a, lo, n)
  <1>0. Len(a) \in Nat
    OBVIOUS
  <1>1. /\ s \in Seq(S) /\ Len(s) = (k + 1) - lo
        /\ \A i \in 1..((k + 1) - lo) : s[i] = a[(lo + i) - 1]
    BY <1>0, PieceIs
  <1>2. /\ t \in Seq(S) /\ Len(t) = n - k
        /\ \A i \in 1..(n - k) : t[i] = a[k + i]
    <2>1. 1 <= k + 1 /\ k + 1 <= n + 1 /\ k + 1 \in Nat /\ (n + 1) - (k + 1) = n - k
      OBVIOUS
    <2>2. /\ t \in Seq(S) /\ Len(t) = (n + 1) - (k + 1)
          /\ \A i \in 1..((n + 1) - (k + 1)) : t[i] = a[((k + 1) + i) - 1]
      BY <2>1, PieceIs
    <2>3. \A i \in 1..(n - k) : ((k + 1) + i) - 1 = k + i
      OBVIOUS
    <2> HIDE DEF t
    <2> QED
      BY <2>1, <2>2, <2>3
  <1>3. /\ u \in Seq(S) /\ Len(u) = (n + 1) - lo
        /\ \A i \in 1..((n + 1) - lo) : u[i] = a[(lo + i) - 1]
    <2>1. lo <= n + 1
      OBVIOUS
    <2> QED
      BY <1>0, <2>1, PieceIs
  <1> HIDE DEF s, t, u
  <1>4. /\ s \o t \in Seq(S) /\ Len(s \o t) = (n + 1) - lo
        /\ \A i \in 1..((n + 1) - lo) :
              (s \o t)[i] = IF i <= (k + 1) - lo THEN s[i] ELSE t[i - ((k + 1) - lo)]
    BY <1>1, <1>2
  <1>5. \A i \in 1..((n + 1) - lo) : (s \o t)[i] = u[i]
    <2> SUFFICES ASSUME NEW i \in 1..((n + 1) - lo) PROVE (s \o t)[i] = u[i]
      OBVIOUS
    <2>0. u[i] = a[(lo + i) - 1]
      BY <1>3
    <2>1. CASE i <= (k + 1) - lo
      <3>1. i \in 1..((k + 1) - lo)
        BY <2>1
      <3>2. s[i] = a[(lo + i) - 1]
        BY <1>1, <3>1
      <3>3. (s \o t)[i] = s[i]
        BY <1>4, <2>1
      <3> QED
        BY <2>0, <3>2, <3>3
    <2>2. CASE ~(i <= (k + 1) - lo)
      <3>1. i - ((k + 1) - lo) \in 1..(n - k) /\ k + (i - ((k + 1) - lo)) = (lo + i) - 1
        BY <2>2
      <3>2. t[i - ((k + 1) - lo)] = a[k + (i - ((k + 1) - lo))]
        BY <1>2, <3>1
      <3>3. (s \o t)[i] = t[i - ((k + 1) - lo)]
        BY <1>4, <2>2
      <3> QED
        BY <2>0, <3>1, <3>2, <3>3
    <2> QED
      BY <2>1, <2>2
  <1>6. s \o t = u
    BY <1>3, <1>4, <1>5, SameSeq
  <1> QED
    BY <1>6 DEF s, t, u

(* A prefix agrees with the sequence. *)
LEMMA PrefixIs ==
    ASSUME NEW S, NEW s \in Seq(S), NEW t \in Seq(S)
    PROVE  IsPrefix(s, t) <=> Len(s) <= Len(t) /\ \A i \in 1..Len(s) : s[i] = t[i]
  <1>0. Len(s) \in Nat /\ Len(t) \in Nat
    OBVIOUS
  <1>1. ASSUME Len(s) <= Len(t)
        PROVE  SubSeq(s, 1, Len(s)) = SubSeq(t, 1, Len(s)) <=> \A i \in 1..Len(s) : s[i] = t[i]
    <2> DEFINE n == Len(s)
               p == SubSeq(s, 1, n)
               q == SubSeq(t, 1, n)
    <2>0. n \in Nat /\ 1 <= n + 1 /\ (n + 1) - 1 = n /\ n <= Len(s) /\ n <= Len(t)
      BY <1>0, <1>1
    <2> HIDE DEF n
    <2>1. /\ p \in Seq(S) /\ Len(p) = n /\ \A i \in 1..n : p[i] = s[(1 + i) - 1]
      BY <2>0, PieceIs
    <2>2. /\ q \in Seq(S) /\ Len(q) = n /\ \A i \in 1..n : q[i] = t[(1 + i) - 1]
      BY <2>0, PieceIs
    <2>3. \A i \in 1..n : (1 + i) - 1 = i
      BY <2>0
    <2> HIDE DEF p, q
    <2>4. (\A i \in 1..n : s[i] = t[i]) => p = q
      <3>1. (\A i \in 1..n : s[i] = t[i]) => \A i \in 1..Len(p) : p[i] = q[i]
        BY <2>1, <2>2, <2>3
      <3> QED
        BY <2>1, <2>2, <3>1, SameSeq
    <2>5. p = q => \A i \in 1..n : s[i] = t[i]
      BY <2>1, <2>2, <2>3
    <2> QED
      BY <2>4, <2>5 DEF n, p, q
  <1> QED
    BY <1>1 DEF IsPrefix

(* The first tokens and the next ones, index by index. *)
LEMMA FirstIs ==
    ASSUME NEW S, NEW a \in Seq(S), NEW n \in Nat, n <= Len(a), NEW s, s = SubSeq(a, 1, n)
    PROVE  s \in Seq(S) /\ Len(s) = n /\ \A i \in 1..n : s[i] = a[i]
  <1>1. 1 <= n + 1 /\ (n + 1) - 1 = n /\ \A i \in 1..n : (1 + i) - 1 = i
    OBVIOUS
  <1>2. s \in Seq(S) /\ Len(s) = (n + 1) - 1 /\ \A i \in 1..((n + 1) - 1) : s[i] = a[(1 + i) - 1]
    BY <1>1, PieceIs
  <1> QED
    BY <1>1, <1>2

LEMMA RestOf ==
    ASSUME NEW S, NEW a \in Seq(S), NEW k \in Nat, NEW n \in Nat, k <= n, n <= Len(a),
           NEW s, s = SubSeq(a, k + 1, n)
    PROVE  s \in Seq(S) /\ Len(s) = n - k /\ \A i \in 1..(n - k) : s[i] = a[k + i]
  <1>1. 1 <= k + 1 /\ k + 1 <= n + 1 /\ (n + 1) - (k + 1) = n - k /\ k + 1 \in Nat
        /\ \A i \in 1..(n - k) : ((k + 1) + i) - 1 = k + i
    OBVIOUS
  <1>2. /\ s \in Seq(S) /\ Len(s) = (n + 1) - (k + 1)
        /\ \A i \in 1..((n + 1) - (k + 1)) : s[i] = a[((k + 1) + i) - 1]
    BY <1>1, PieceIs
  <1> QED
    BY <1>1, <1>2

(* A delta is appended to the buffer. *)
LEMMA DeltaMerges ==
    ASSUME NEW S, NEW a \in Seq(S), NoEcho(a), NEW k \in Nat, NEW n \in Nat, k <= n, n < Len(a)
    PROVE  mergePendingStreamChunk(SubSeq(a, k + 1, n), SubSeq(a, n + 1, n + 1)) = SubSeq(a, k + 1, n + 1)
  <1> DEFINE s == SubSeq(a, k + 1, n)
             c == SubSeq(a, n + 1, n + 1)
  <1>0. Len(a) \in Nat /\ n <= Len(a) /\ n + 1 <= Len(a) /\ n <= n + 1 /\ (n + 1) - n = 1 /\ n + 1 \in Nat
    OBVIOUS
  <1>1. s \in Seq(S) /\ Len(s) = n - k /\ \A i \in 1..(n - k) : s[i] = a[k + i]
    BY <1>0, RestOf
  <1>2. c \in Seq(S) /\ Len(c) = 1 /\ c[1] = a[n + 1]
    <2>1. c \in Seq(S) /\ Len(c) = (n + 1) - n /\ \A i \in 1..((n + 1) - n) : c[i] = a[n + i]
      BY <1>0, RestOf
    <2> QED
      BY <1>0, <2>1
  <1> HIDE DEF s, c
  <1>3. s # <<>> => ~IsPrefix(s, c)
    <2>1. SUFFICES ASSUME n # k, Len(s) <= Len(c), \A i \in 1..Len(s) : s[i] = c[i]
                   PROVE  FALSE
      <3>1. s # <<>> => n # k
        BY <1>1
      <3>2. IsPrefix(s, c) => Len(s) <= Len(c) /\ \A i \in 1..Len(s) : s[i] = c[i]
        BY ONLY <1>1, <1>2, PrefixIs
      <3> QED
        BY <3>1, <3>2
    <2>2. n - k = 1 /\ k + 1 = n /\ 1 \in 1..(n - k)
      BY <1>1, <1>2, <2>1
    <2>3. a[n] = a[n + 1]
      BY <1>1, <1>2, <2>1, <2>2
    <2>4. n \in 1..(Len(a) - 1)
      BY <1>0, <2>2
    <2> QED
      BY <2>3, <2>4 DEF NoEcho
  <1>4. mergePendingStreamChunk(s, c) = s \o c
    BY <1>3 DEF mergePendingStreamChunk
  <1>5. 1 <= k + 1 /\ k + 1 <= n + 1 /\ k + 1 \in Nat
    OBVIOUS
  <1>6. SubSeq(a, k + 1, n) \o SubSeq(a, n + 1, n + 1) = SubSeq(a, k + 1, n + 1)
    BY <1>0, <1>5, Pieces
  <1> QED
    BY <1>4, <1>6 DEF s, c

(* A chunk that repeats the text so far replaces the buffer. *)
LEMMA SnapshotMerges ==
    ASSUME NEW S, NEW a \in Seq(S), NEW n \in Nat, n < Len(a)
    PROVE  mergePendingStreamChunk(SubSeq(a, 1, n), SubSeq(a, 1, n + 1)) = SubSeq(a, 1, n + 1)
  <1> DEFINE s == SubSeq(a, 1, n)
             c == SubSeq(a, 1, n + 1)
  <1> SUFFICES mergePendingStreamChunk(s, c) = c
    OBVIOUS
  <1>0. Len(a) \in Nat /\ n <= Len(a) /\ n + 1 <= Len(a) /\ n <= n + 1 /\ n + 1 \in Nat
    OBVIOUS
  <1>1. s \in Seq(S) /\ Len(s) = n /\ \A i \in 1..n : s[i] = a[i]
    BY <1>0, FirstIs
  <1>2. c \in Seq(S) /\ Len(c) = n + 1 /\ \A i \in 1..(n + 1) : c[i] = a[i]
    BY <1>0, FirstIs
  <1> HIDE DEF s, c
  <1>3. IsPrefix(s, c)
    <2>1. Len(s) <= Len(c) /\ \A i \in 1..Len(s) : s[i] = c[i]
      BY <1>0, <1>1, <1>2
    <2> QED
      BY <1>1, <1>2, <2>1, PrefixIs
  <1>4. CASE s = <<>>
    <2>1. <<>> \o c = c
      BY <1>2
    <2>2. mergePendingStreamChunk(<<>>, c) = <<>> \o c
      BY DEF mergePendingStreamChunk
    <2> QED
      BY <1>4, <2>1, <2>2
  <1>5. CASE s # <<>>
    BY <1>3, <1>5 DEF mergePendingStreamChunk
  <1> QED
    BY <1>4, <1>5

(* What a flush adds to the text. *)
LEMMA DeltaAppends ==
    ASSUME NEW S, NEW a \in Seq(S), NoEcho(a), NEW k \in Nat, NEW n \in Nat, k <= n, n <= Len(a)
    PROVE  SubSeq(a, 1, k) \o getAppendableChunk(SubSeq(a, 1, k), SubSeq(a, k + 1, n)) = SubSeq(a, 1, n)
  <1> DEFINE t == SubSeq(a, 1, k)
             s == SubSeq(a, k + 1, n)
  <1>0. Len(a) \in Nat /\ k <= Len(a)
    OBVIOUS
  <1>1. s \in Seq(S) /\ Len(s) = n - k /\ \A i \in 1..(n - k) : s[i] = a[k + i]
    BY <1>0, RestOf
  <1>2. t \in Seq(S) /\ Len(t) = k /\ \A i \in 1..k : t[i] = a[i]
    BY <1>0, FirstIs
  <1> HIDE DEF s, t
  <1>3. t # <<>> => ~IsPrefix(t, s)
    <2>1. SUFFICES ASSUME k # 0, Len(t) <= Len(s), \A i \in 1..Len(t) : t[i] = s[i]
                   PROVE  FALSE
      <3>1. t # <<>> => k # 0
        BY <1>2
      <3>2. IsPrefix(t, s) => Len(t) <= Len(s) /\ \A i \in 1..Len(t) : t[i] = s[i]
        BY ONLY <1>1, <1>2, PrefixIs
      <3> QED
        BY <3>1, <3>2
    <2>2. k \in 1..Len(a) /\ k + k <= Len(a) /\ \A i \in 1..k : i \in 1..(n - k)
      BY <1>0, <1>1, <1>2, <2>1
    <2>3. \A i \in 1..k : a[i] = a[k + i]
      BY <1>1, <1>2, <2>1, <2>2
    <2> QED
      BY <2>2, <2>3 DEF NoEcho
  <1>4. getAppendableChunk(t, s) = s
    BY <1>3 DEF getAppendableChunk
  <1>5. SubSeq(a, 1, k) \o SubSeq(a, k + 1, n) = SubSeq(a, 1, n)
    <2>1. 1 <= k + 1 /\ 1 \in Nat /\ 1 <= 1
      OBVIOUS
    <2> QED
      BY <2>1, Pieces
  <1> QED
    BY <1>4, <1>5 DEF s, t

LEMMA SnapshotAppends ==
    ASSUME NEW S, NEW a \in Seq(S), NEW k \in Nat, NEW n \in Nat, k <= n, n <= Len(a)
    PROVE  SubSeq(a, 1, k) \o getAppendableChunk(SubSeq(a, 1, k), SubSeq(a, 1, n)) = SubSeq(a, 1, n)
  <1> DEFINE t == SubSeq(a, 1, k)
             s == SubSeq(a, 1, n)
  <1> SUFFICES t \o getAppendableChunk(t, s) = s
    OBVIOUS
  <1>0. Len(a) \in Nat /\ k <= Len(a)
    OBVIOUS
  <1>1. s \in Seq(S) /\ Len(s) = n /\ \A i \in 1..n : s[i] = a[i]
    BY <1>0, FirstIs
  <1>2. t \in Seq(S) /\ Len(t) = k /\ \A i \in 1..k : t[i] = a[i]
    BY <1>0, FirstIs
  <1> HIDE DEF s, t
  <1>3. IsPrefix(t, s)
    <2>1. Len(t) <= Len(s) /\ \A i \in 1..Len(t) : t[i] = s[i]
      BY <1>0, <1>1, <1>2
    <2> QED
      BY <1>1, <1>2, <2>1, PrefixIs
  <1>4. CASE t = <<>>
    BY <1>1, <1>4 DEF getAppendableChunk
  <1>5. CASE t # <<>>
    <2>1. getAppendableChunk(t, s) = SubSeq(s, k + 1, n)
      BY <1>1, <1>2, <1>3, <1>5 DEF getAppendableChunk
    <2>2. t = SubSeq(s, 1, k)
      <3> DEFINE p == SubSeq(s, 1, k)
      <3>1. k <= Len(s)
        BY <1>1
      <3>2. p \in Seq(S) /\ Len(p) = k /\ \A i \in 1..k : p[i] = s[i]
        BY <1>1, <3>1, FirstIs
      <3> HIDE DEF p
      <3>3. \A i \in 1..Len(t) : t[i] = p[i]
        BY <1>0, <1>1, <1>2, <3>2
      <3>4. t = p
        BY <1>2, <3>2, <3>3, SameSeq
      <3> QED
        BY <3>4 DEF p
    <2>3. SubSeq(s, 1, k) \o SubSeq(s, k + 1, n) = SubSeq(s, 1, n)
      <3>1. 1 <= k + 1 /\ 1 \in Nat /\ 1 <= 1 /\ n <= Len(s)
        BY <1>1
      <3> QED
        BY <1>1, <3>1, Pieces
    <2>4. SubSeq(s, 1, n) = s
      BY <1>1
    <2> QED
      BY <2>1, <2>2, <2>3, <2>4
  <1> QED
    BY <1>4, <1>5

(* A chunk arrives: the buffer has the tokens it had, and the new one. *)
ChunkGood(a, n, mode) ==
    \A k, text, buffer : k \in 0..n /\ Split(a, mode, n, k, text, buffer) =>
        Split(a, mode, n + 1, k, text,
              mergePendingStreamChunk(buffer, SubSeq(a, IF mode = "delta" THEN n + 1 ELSE 1, n + 1)))

LEMMA ChunkGoodIs ==
    ASSUME NEW S, NEW a \in Seq(S), NEW n \in Nat, n < Len(a), NEW mode,
           mode = "delta" => NoEcho(a)
    PROVE  ChunkGood(a, n, mode)
  <1> SUFFICES ASSUME NEW k \in 0..n, NEW text, NEW buffer, Split(a, mode, n, k, text, buffer)
               PROVE  Split(a, mode, n + 1, k, text,
                            mergePendingStreamChunk(buffer,
                                SubSeq(a, IF mode = "delta" THEN n + 1 ELSE 1, n + 1)))
    BY DEF ChunkGood
  <1>0. /\ k \in Nat /\ k <= n /\ k # n + 1 /\ n + 1 \in Nat /\ n + 1 <= Len(a) /\ n <= Len(a)
        /\ a \in Seq(S) /\ n \in Nat /\ n < Len(a) /\ (mode = "delta" => NoEcho(a))
    OBVIOUS
  <1>1. CASE mode = "delta"
    <2>1. buffer = SubSeq(a, k + 1, n)
      <3>1. CASE k = n
        <4>1. buffer = <<>>
          BY <3>1 DEF Split
        <4>2. k + 1 \in Nat /\ 1 <= k + 1 /\ k + 1 <= n + 1 /\ k + 1 = n + 1
          BY <1>0, <3>1
        <4>3. SubSeq(a, k + 1, n) = <<>>
          BY <1>0, <4>2, PieceIs
        <4> QED
          BY <4>1, <4>3
      <3>2. CASE k # n
        BY <1>1, <3>2 DEF Split
      <3> QED
        BY <3>1, <3>2
    <2>2. mergePendingStreamChunk(buffer, SubSeq(a, n + 1, n + 1)) = SubSeq(a, k + 1, n + 1)
      BY ONLY <1>0, <1>1, <2>1, DeltaMerges
    <2> QED
      BY <1>0, <1>1, <2>2 DEF Split
  <1>2. CASE mode # "delta"
    <2> DEFINE c == SubSeq(a, 1, n + 1)
    <2>1. c \in Seq(S)
      BY <1>0, FirstIs
    <2>2. mergePendingStreamChunk(buffer, c) = c
      <3>1. CASE k = n
        <4>1. buffer = <<>>
          BY <3>1 DEF Split
        <4>2. <<>> \o c = c
          BY <2>1
        <4>3. mergePendingStreamChunk(<<>>, c) = <<>> \o c
          BY DEF mergePendingStreamChunk
        <4> QED
          BY <4>1, <4>2, <4>3
      <3>2. CASE k # n
        <4>1. buffer = SubSeq(a, 1, n)
          BY <1>2, <3>2 DEF Split
        <4> QED
          BY ONLY <1>0, <4>1, SnapshotMerges
      <3> QED
        BY <3>1, <3>2
    <2> QED
      BY <1>0, <1>2, <2>2 DEF Split
  <1> QED
    BY <1>1, <1>2

(* A flush brings everything the request has got into the text. *)
FlushGood(a, n, mode) ==
    \A k, text, buffer : k \in 0..n /\ Split(a, mode, n, k, text, buffer) =>
        /\ buffer = <<>> => text = SubSeq(a, 1, n)
        /\ buffer # <<>> => text \o getAppendableChunk(text, buffer) = SubSeq(a, 1, n)

LEMMA FlushGoodIs ==
    ASSUME NEW S, NEW a \in Seq(S), NEW n \in Nat, n <= Len(a), NEW mode,
           mode = "delta" => NoEcho(a)
    PROVE  FlushGood(a, n, mode)
  <1> SUFFICES ASSUME NEW k \in 0..n, NEW text, NEW buffer, Split(a, mode, n, k, text, buffer)
               PROVE  /\ buffer = <<>> => text = SubSeq(a, 1, n)
                      /\ buffer # <<>> => text \o getAppendableChunk(text, buffer) = SubSeq(a, 1, n)
    BY DEF FlushGood
  <1>0. /\ k \in Nat /\ k <= n /\ text = SubSeq(a, 1, k)
        /\ a \in Seq(S) /\ n \in Nat /\ n <= Len(a) /\ (mode = "delta" => NoEcho(a))
    BY DEF Split
  <1>1. CASE k = n
    BY <1>0, <1>1 DEF Split
  <1>2. CASE k # n /\ mode = "delta"
    <2>1. buffer = SubSeq(a, k + 1, n)
      BY <1>2 DEF Split
    <2>2. text \o getAppendableChunk(text, buffer) = SubSeq(a, 1, n)
      BY ONLY <1>0, <1>2, <2>1, DeltaAppends
    <2>3. buffer # <<>>
      <3>1. Len(buffer) = n - k /\ n - k # 0
        BY <1>0, <1>2, <2>1, RestOf
      <3> QED
        BY <3>1
    <2> QED
      BY <2>2, <2>3
  <1>3. CASE k # n /\ mode # "delta"
    <2>1. buffer = SubSeq(a, 1, n)
      BY <1>3 DEF Split
    <2>2. text \o getAppendableChunk(text, buffer) = buffer
      BY ONLY <1>0, <1>3, <2>1, SnapshotAppends
    <2>3. buffer # <<>>
      <3>1. Len(buffer) = n /\ n # 0
        BY <1>0, <1>3, <2>1, FirstIs
      <3> QED
        BY <3>1
    <2> QED
      BY <2>1, <2>2, <2>3
  <1> QED
    BY <1>1, <1>2, <1>3

(* The last updater runs on what the others leave. *)
LEMMA RunAppends ==
    ASSUME NEW g, NEW ms, NEW U, NEW us \in Seq(U), NEW u
    PROVE  Run(g, ms, us \o <<u>>) = applyMessageStateUpdate(g, Run(g, ms, us), u)
  <1> DEFINE vs == us \o <<u>>
             n == Len(us)
  <1>1. Len(vs) = n + 1 /\ n \in Nat /\ vs[n + 1] = u /\ \A i \in 1..n : vs[i] = us[i]
    OBVIOUS
  <1> HIDE DEF vs
  <1>2. PICK f : RunSteps(f, n + 1, g, ms, vs) /\ Run(g, ms, vs) = f[n + 1]
    <2>1. Len(vs) \in Nat
      BY <1>1
    <2>2. \E f : RunSteps(f, Len(vs), g, ms, vs) /\ Run(g, ms, vs) = f[Len(vs)]
      BY <2>1, RunSolves
    <2> QED
      BY <1>1, <2>2
  <1>3. PICK h : RunSteps(h, n, g, ms, us) /\ Run(g, ms, us) = h[n]
    BY <1>1, RunSolves
  <1> HIDE DEF n
  <1> DEFINE N == {i \in Nat : i <= n => f[i] = h[i]}
  <1>4. 0 \in N
    <2>1. 0 \in 0..n /\ 0 \in 0..(n + 1)
      BY <1>1
    <2> QED
      BY <1>2, <1>3, <2>1 DEF RunSteps
  <1>5. ASSUME NEW i \in Nat, i \in N PROVE i + 1 \in N
    <2> SUFFICES ASSUME i + 1 <= n PROVE f[i + 1] = h[i + 1]
      OBVIOUS
    <2>1. i + 1 \in 0..n /\ i + 1 \in 0..(n + 1) /\ i + 1 # 0 /\ (i + 1) - 1 = i /\ i + 1 \in 1..n /\ i <= n
      BY <1>1
    <2>2. f[i + 1] = applyMessageStateUpdate(g, f[i], vs[i + 1])
      BY <1>2, <2>1 DEF RunSteps
    <2>3. h[i + 1] = applyMessageStateUpdate(g, h[i], us[i + 1])
      BY <1>3, <2>1 DEF RunSteps
    <2> QED
      BY <1>1, <1>5, <2>1, <2>2, <2>3
  <1> HIDE DEF N
  <1>6. Nat \subseteq N
    BY <1>4, <1>5, NatInd
  <1>7. f[n] = h[n]
    BY <1>1, <1>6 DEF N
  <1>8. f[n + 1] = applyMessageStateUpdate(g, f[n], u)
    <2>1. n + 1 \in 0..(n + 1) /\ n + 1 # 0 /\ (n + 1) - 1 = n
      BY <1>1
    <2> QED
      BY <1>1, <1>2, <2>1 DEF RunSteps
  <1> QED
    BY <1>2, <1>3, <1>7, <1>8 DEF vs

(* Run at once or later, an updater is applied to what the queue makes of  *)
(* the messages.                                                           *)
LEMMA OneScheduled ==
    ASSUME IndInv, requestGeneration' = requestGeneration, NEW u, Schedule(<<u>>)
    PROVE  Outcome' = applyMessageStateUpdate(requestGeneration, Outcome, u)
  <1> DEFINE g == requestGeneration
  <1>0. queue \in Seq(Reports(g, Kinds)) /\ (~dirty => queue = <<>>)
    BY DEF IndInv, ListInv, FlowInv
  <1>1. CASE ScheduleLater(<<u>>)
    <2>1. messages' = messages /\ queue' = queue \o <<u>>
      BY <1>1 DEF ScheduleLater
    <2>2. Run(g, messages, queue \o <<u>>) = applyMessageStateUpdate(g, Run(g, messages, queue), u)
      BY <1>0, RunAppends
    <2> QED
      BY <2>1, <2>2 DEF Outcome
  <1>2. CASE /\ ~dirty /\ queue' = Tail(<<u>>)
             /\ messages' = applyMessageStateUpdate(g, messages, <<u>>[1])
    <2>1. queue = <<>> /\ queue' = <<>> /\ messages' = applyMessageStateUpdate(g, messages, u)
      BY <1>0, <1>2
    <2> QED
      BY <2>1, RunEmpty DEF Outcome
  <1> QED
    BY <1>1, <1>2 DEF Schedule

LEMMA TwoScheduled ==
    ASSUME IndInv, requestGeneration' = requestGeneration, NEW f, NEW u, Schedule(<<f, u>>)
    PROVE  Outcome' = applyMessageStateUpdate(requestGeneration,
                          applyMessageStateUpdate(requestGeneration, Outcome, f), u)
  <1> DEFINE g == requestGeneration
  <1>0. queue \in Seq(Reports(g, Kinds)) /\ (~dirty => queue = <<>>)
    BY DEF IndInv, ListInv, FlowInv
  <1>1. CASE ScheduleLater(<<f, u>>)
    <2> DEFINE q == queue \o <<f>>
               U == Reports(g, Kinds) \cup {f, u}
    <2>1. messages' = messages /\ queue' = queue \o <<f, u>>
      BY <1>1 DEF ScheduleLater
    <2>2. queue \in Seq(U) /\ <<f>> \in Seq(U) /\ <<u>> \in Seq(U) /\ q \in Seq(U)
      BY <1>0
    <2>3. queue \o <<f, u>> = q \o <<u>>
      <3>1. <<f, u>> = <<f>> \o <<u>>
        BY Pair
      <3>2. \A a, b, c \in Seq(U) : a \o (b \o c) = (a \o b) \o c
        OBVIOUS
      <3> HIDE DEF U
      <3>3. queue \o (<<f>> \o <<u>>) = (queue \o <<f>>) \o <<u>>
        BY <2>2, <3>2, Zenon
      <3> QED
        BY <3>1, <3>3, Zenon
    <2>4. Run(g, messages, queue \o <<f>>) = applyMessageStateUpdate(g, Run(g, messages, queue), f)
      BY <1>0, RunAppends
    <2> HIDE DEF q, U
    <2>5. Run(g, messages, q \o <<u>>) = applyMessageStateUpdate(g, Run(g, messages, q), u)
      BY <2>2, RunAppends
    <2> QED
      BY <2>1, <2>3, <2>4, <2>5 DEF Outcome, q
  <1>2. CASE /\ ~dirty /\ queue' = Tail(<<f, u>>)
             /\ messages' = applyMessageStateUpdate(g, messages, <<f, u>>[1])
    <2>1. queue = <<>> /\ queue' = <<u>> /\ messages' = applyMessageStateUpdate(g, messages, f)
      BY <1>0, <1>2
    <2>2. Outcome = messages
      BY <2>1, RunEmpty DEF Outcome
    <2>3. Run(g, messages', <<u>>) = applyMessageStateUpdate(g, messages', u)
      BY OneRuns
    <2> QED
      BY <2>1, <2>2, <2>3 DEF Outcome
  <1> QED
    BY <1>1, <1>2 DEF Schedule

(* What the queue makes of the messages while a generation is shown: only  *)
(* the last one differs, and it is pending as long as the request is under *)
(* way.                                                                    *)
LEMMA OutcomeIs ==
    ASSUME IndInv, page = "open", isGenerating
    PROVE  /\ Outcome \in Lists(requestGeneration, messages, Statuses)
           /\ Active => Outcome \in Lists(requestGeneration, messages, PendingStatuses)
           /\ queue = <<>> => Outcome = messages
  <1>1. /\ requestGeneration \in Nat
        /\ messages \in Seq(Msgs(requestGeneration)) /\ messages # <<>>
        /\ queue \in Seq(Reports(requestGeneration, Kinds))
        /\ Target(messages).key = <<"assistant", requestGeneration>>
        /\ Clean(Target(messages)) \/ Fails(Target(messages))
        /\ Active => /\ isAssistantMessagePending(Target(messages))
                     /\ queue \in Seq(Reports(requestGeneration, {"flush"}))
    BY FocusIs
  <1> QED
    BY <1>1, QueueRuns, RunEmpty DEF Outcome

(* An updater of the request changes the last message. *)
LEMMA ApplyIs ==
    ASSUME NEW g \in Nat, NEW ms \in Seq(Msgs(g)), ms # <<>>,
           Target(ms).key = <<"assistant", g>>, NEW statuses,
           NEW x \in Lists(g, ms, statuses), NEW u \in Reports(g, Kinds)
    PROVE  /\ Target(applyMessageStateUpdate(g, x, u)) = UpdateAnswer(u, Target(x))
           /\ Target(x) \in Msgs(g) /\ Target(x).key = <<"assistant", g>> /\ Target(x).status \in statuses
  <1>0. /\ x \in Seq(Msgs(g)) /\ Len(x) = Len(ms) /\ Len(ms) \in Nat \ {0}
        /\ Target(x).key = <<"assistant", g>> /\ Target(x).status \in statuses
    BY DEF Lists
  <1>1. u.kind \in Kinds /\ u.generation = g
    BY DEF Reports
  <1>2. u.kind # "set" /\ u.kind # "remove"
    BY <1>1 DEF Kinds
  <1>3. x # <<>> /\ Last(x) = Target(x) /\ From(Target(x)) = "assistant" /\ Target(x) \in Msgs(g)
    BY <1>0 DEF Last, Target, From
  <1>4. applyMessageStateUpdate(g, x, u) = updateLastAssistantMessage(x, u)
    BY <1>1, <1>2 DEF applyMessageStateUpdate
  <1>5. applyMessageStateUpdate(g, x, u) = [x EXCEPT ![Len(x)] = UpdateAnswer(u, Target(x))]
    BY <1>3, <1>4 DEF updateLastAssistantMessage, Target
  <1> DEFINE n == UpdateAnswer(u, Target(x))
             z == [x EXCEPT ![Len(x)] = n]
  <1> HIDE DEF n
  <1>6. Target(z) = n
    BY <1>0 DEF Target
  <1> QED
    BY <1>0, <1>3, <1>5, <1>6 DEF n

(* What it makes of it, if it is pending. *)
LEMMA UpdateIs ==
    ASSUME NEW g \in Nat, NEW m \in Msgs(g), m.status \in PendingStatuses, NEW u
    PROVE  /\ u.kind = "flush" =>
                UpdateAnswer(u, m).text = m.text \o getAppendableChunk(m.text, u.text)
           /\ u.kind = "complete" => /\ UpdateAnswer(u, m).text = m.text
                                     /\ UpdateAnswer(u, m).key = m.key
           /\ u.kind = "error" => UpdateAnswer(u, m).status = "error"
           /\ u.kind = "answer" => /\ UpdateAnswer(u, m).text = u.text
                                   /\ UpdateAnswer(u, m).key = m.key
  <1>0. m = [key |-> m.key, status |-> m.status, text |-> m.text]
    BY MsgType
  <1>1. CASE u.kind = "flush"
    <2> DEFINE t == m.text \o getAppendableChunk(m.text, u.text)
    <2>1. m.status # "error"
      BY DEF PendingStatuses
    <2>2. UpdateAnswer(u, m) = [key |-> m.key, status |-> "streaming", text |-> t]
      BY <1>0, <1>1, <2>1 DEF UpdateAnswer, applyStreamingChunk
    <2> HIDE DEF t
    <2>3. UpdateAnswer(u, m).text = t
      BY <2>2
    <2> QED
      BY <1>1, <2>3 DEF t
  <1>2. CASE u.kind = "complete"
    <2>1. ~isAssistantMessageFinal(m)
      BY DEF PendingStatuses, isAssistantMessageFinal
    <2>2. UpdateAnswer(u, m) = [key |-> m.key, status |-> "complete", text |-> m.text]
      BY <1>0, <1>2, <2>1 DEF UpdateAnswer, completeAssistantMessage
    <2> QED
      BY <1>2, <2>2
  <1>3. CASE u.kind = "error"
    <2>1. UpdateAnswer(u, m) = [key |-> m.key, status |-> "error", text |-> ErrorText]
      BY <1>3, ErrorIs DEF UpdateAnswer
    <2> QED
      BY <1>3, <2>1
  <1>4. CASE u.kind = "answer"
    <2>1. UpdateAnswer(u, m) = [key |-> m.key, status |-> "complete", text |-> u.text]
      BY <1>0, <1>4 DEF UpdateAnswer, applyChatCompletionResponse
    <2> QED
      BY <1>4, <2>1
  <1>5. CASE u.kind \notin Kinds
    BY <1>5 DEF Kinds
  <1> QED
    BY <1>1, <1>2, <1>3, <1>4, <1>5 DEF Kinds

(* The message as a flush leaves it: everything the request has got. *)
Caught(y) ==
    /\ y \in Lists(requestGeneration, messages, PendingStatuses)
    /\ req[requestGeneration].mark = "none" =>
         Target(y).text = SubSeq(req[requestGeneration].answer, 1, req[requestGeneration].got)

LEMMA FlushReads ==
    ASSUME IndInv, StreamInv, page = "open", Active, NEW g, g = requestGeneration
    PROVE  \E y : /\ Caught(y)
                  /\ \/ Flush(g) = <<>> /\ y = Outcome
                     \/ \E f \in Reports(g, {"flush"}) :
                          Flush(g) = <<f>> /\ y = applyMessageStateUpdate(g, Outcome, f)
  <1> DEFINE r == req[g]
             x == Outcome
             t == Target(x)
             b == pending.content
  <1>0. /\ g \in Nat /\ messages \in Seq(Msgs(g)) /\ messages # <<>>
        /\ Target(messages).key = <<"assistant", g>> /\ g \in Gens
    BY ActiveIs, FocusIs
  <1>1. x \in Lists(g, messages, PendingStatuses)
    BY ActiveIs, OutcomeIs
  <1>2. r \in Requests(g)
    BY <1>0 DEF IndInv, ReqInv
  <1>3. /\ pending.generation = g /\ r.got <= Len(r.answer)
        /\ r.mode = "delta" => NoEcho(r.answer)
        /\ r.mark = "none" => \E k \in 0..r.got : Split(r.answer, r.mode, r.got, k, t.text, b)
    BY DEF StreamInv, Streams
  <1>4. r.answer \in Seq({g} \X Words) /\ r.got \in Nat
    BY <1>2 DEF Requests, Texts
  <1> DEFINE a == r.answer
             n == r.got
  <1> HIDE DEF x, t
  <1>5. r.mark = "none" =>
          /\ b = <<>> => t.text = SubSeq(a, 1, n)
          /\ b # <<>> => t.text \o getAppendableChunk(t.text, b) = SubSeq(a, 1, n)
    <2> SUFFICES ASSUME r.mark = "none"
                 PROVE  /\ b = <<>> => t.text = SubSeq(a, 1, n)
                        /\ b # <<>> => t.text \o getAppendableChunk(t.text, b) = SubSeq(a, 1, n)
      OBVIOUS
    <2>1. PICK k \in 0..n : Split(a, r.mode, n, k, t.text, b)
      BY <1>3
    <2>2. a \in Seq({g} \X Words) /\ n \in Nat /\ n <= Len(a) /\ (r.mode = "delta" => NoEcho(a))
      BY <1>3, <1>4
    <2> HIDE DEF a, n
    <2> DEFINE S == {g} \X Words
               md == r.mode
               tt == t.text
    <2> HIDE DEF S, md, tt, b
    <2>3. a \in Seq(S) /\ n \in Nat /\ n <= Len(a) /\ (md = "delta" => NoEcho(a))
          /\ k \in 0..n /\ Split(a, md, n, k, tt, b)
      BY <2>1, <2>2 DEF S, md, tt
    <2>4. /\ b = <<>> => tt = SubSeq(a, 1, n)
          /\ b # <<>> => tt \o getAppendableChunk(tt, b) = SubSeq(a, 1, n)
      <3>1. FlushGood(a, n, md)
        BY ONLY <2>3, FlushGoodIs
      <3> QED
        BY ONLY <2>3, <3>1 DEF FlushGood
    <2> QED
      BY <2>4 DEF tt
  <1>6. CASE b = <<>>
    <2>1. Flush(g) = <<>>
      BY <1>6 DEF Flush
    <2>2. Caught(x)
      BY <1>1, <1>5, <1>6 DEF Caught, t
    <2> QED
      BY <2>1, <2>2 DEF x
  <1>7. CASE b # <<>>
    <2> DEFINE f == Updater("flush", g, b)
               y == applyMessageStateUpdate(g, x, f)
    <2>1. Flush(g) = <<f>>
      BY <1>3, <1>7 DEF Flush, Latest
    <2>2. f \in Reports(g, {"flush"}) /\ f \in Reports(g, Kinds) /\ f.kind = "flush" /\ f.text = b
      <3>1. b \in Texts(g)
        BY <1>3 DEF IndInv, FlowInv
      <3> QED
        BY <3>1 DEF Updater, Reports, Kinds
    <2> HIDE DEF f
    <2>3. y \in Lists(g, messages, PendingStatuses)
      BY <1>0, <1>1, <2>2, ReportKeeps
    <2>4. Target(y) = UpdateAnswer(f, t) /\ t \in Msgs(g) /\ t.status \in PendingStatuses
      BY <1>0, <1>1, <2>2, ApplyIs DEF t
    <2>5. Target(y).text = t.text \o getAppendableChunk(t.text, b)
      <3>1. UpdateAnswer(f, t).text = t.text \o getAppendableChunk(t.text, f.text)
        BY ONLY <1>0, <2>2, <2>4, UpdateIs
      <3> QED
        BY <2>2, <2>4, <3>1
    <2> HIDE DEF y
    <2>6. Caught(y)
      BY <1>5, <1>7, <2>3, <2>5 DEF Caught
    <2> QED
      BY <2>1, <2>2, <2>6 DEF x, y
  <1> QED
    BY <1>6, <1>7

(* The last updater of a request finds everything the request has got. *)
LEMMA EndsWith ==
    ASSUME IndInv, StreamInv, page = "open", Active, NEW g, g = requestGeneration,
           requestGeneration' = requestGeneration, NEW u, Schedule(Flush(g) \o <<u>>)
    PROVE  \E y : Caught(y) /\ Outcome' = applyMessageStateUpdate(g, y, u)
  <1>1. PICK y : /\ Caught(y)
                 /\ \/ Flush(g) = <<>> /\ y = Outcome
                    \/ \E f \in Reports(g, {"flush"}) :
                         Flush(g) = <<f>> /\ y = applyMessageStateUpdate(g, Outcome, f)
    BY FlushReads
  <1>2. CASE Flush(g) = <<>> /\ y = Outcome
    <2>1. Flush(g) \o <<u>> = <<u>>
      BY <1>2
    <2>2. Schedule(<<u>>)
      BY <2>1
    <2> QED
      BY <1>1, <1>2, <2>2, OneScheduled
  <1>3. CASE \E f \in Reports(g, {"flush"}) :
                Flush(g) = <<f>> /\ y = applyMessageStateUpdate(g, Outcome, f)
    <2>1. PICK f \in Reports(g, {"flush"}) :
                Flush(g) = <<f>> /\ y = applyMessageStateUpdate(g, Outcome, f)
      BY <1>3
    <2>2. Flush(g) \o <<u>> = <<f, u>>
      BY <2>1, Pair
    <2>3. Schedule(<<f, u>>)
      BY <2>2
    <2> QED
      BY <1>1, <2>1, <2>3, TwoScheduled
  <1> QED
    BY <1>1, <1>2, <1>3

(* What Told says of a message goes on being true. *)
ReqKept ==
    \A h \in Gens : h <= requestGeneration =>
        /\ req[h].mark # "none" => req'[h].mark # "none"
        /\ req[h].at # "none" => req'[h].at # "none"
        /\ req[h].at = "over" => req'[h].at = "over" /\ req'[h].answer = req[h].answer

LEMMA ToldKept ==
    ASSUME ReqKept, requestGeneration \in Nat, NEW m \in Msgs(requestGeneration), Told(req, m)
    PROVE  Told(req', m)
  <1>1. m.key[2] \in 0..requestGeneration
    BY MsgType
  <1> QED
    BY <1>1 DEF ReqKept, Told

LEMMA AllToldKept ==
    ASSUME ReqKept, requestGeneration \in Nat, NEW ms \in Seq(Msgs(requestGeneration)),
           \A i \in DOMAIN ms : Told(req, ms[i])
    PROVE  \A i \in DOMAIN ms : Told(req', ms[i])
  <1> SUFFICES ASSUME NEW i \in DOMAIN ms PROVE Told(req', ms[i])
    OBVIOUS
  <1>1. ms[i] \in Msgs(requestGeneration) /\ Told(req, ms[i])
    OBVIOUS
  <1> QED
    BY <1>1, ToldKept

LEMMA KnownKept ==
    ASSUME ReqKept, requestGeneration \in Nat, NEW ms \in Seq(Msgs(requestGeneration)),
           NEW gone, NEW still, still => gone, \A i \in DOMAIN ms : Known(req, ms[i], gone)
    PROVE  \A i \in DOMAIN ms : Known(req', ms[i], still)
  <1> SUFFICES ASSUME NEW i \in DOMAIN ms PROVE Known(req', ms[i], still)
    OBVIOUS
  <1>1. ms[i] \in Msgs(requestGeneration) /\ Known(req, ms[i], gone)
    OBVIOUS
  <1>2. ms[i].key[2] \in 0..requestGeneration
    BY <1>1, MsgType
  <1> QED
    BY <1>1, <1>2 DEF ReqKept, Known

LEMMA OpenTold ==
    ASSUME NEW r, NEW m, m.status # "complete"
    PROVE  Told(r, m)
  BY DEF Told

LEMMA SameReqKept ==
    ASSUME req' = req
    PROVE  ReqKept
  BY DEF ReqKept

LEMMA OneReqKept ==
    ASSUME IndInv, NEW g \in Gens, g = requestGeneration, Active,
           NEW r, req' = [req EXCEPT ![g] = r], r.mark = req[g].mark, r.at # "none"
    PROVE  ReqKept /\ req'[g] = r
  <1>1. DOMAIN req = Gens /\ req[g].at # "over"
    BY DEF IndInv, ReqInv, Active, At
  <1>2. req'[g] = r /\ \A h \in Gens : h # g => req'[h] = req[h]
    BY <1>1
  <1> QED
    BY <1>1, <1>2 DEF ReqKept

(* No message changes once the target is complete. *)
LEMMA FinalOutcome ==
    IndInv /\ page = "open" /\ isGenerating /\ Target(messages).status = "complete"
        => Outcome = messages
  <1> SUFFICES ASSUME IndInv, page = "open", isGenerating, Target(messages).status = "complete"
               PROVE  Outcome = messages
    OBVIOUS
  <1>1. queue = <<>>
    BY FocusIs DEF isAssistantMessagePending
  <1> QED
    BY <1>1, OutcomeIs

(* A step of a handler of the request under way, or of React. *)
LEMMA ReportTold ==
    ASSUME IndInv, IndInv', ToldInv, page = "open", isGenerating, page' = page, view' = view,
           stored' = stored, requestGeneration' = requestGeneration, ReqKept,
           messages' \in Lists(requestGeneration, messages, Statuses),
           Told(req', Target(Outcome'))
    PROVE  ToldInv'
  <1>0. /\ requestGeneration \in Nat /\ messages \in Seq(Msgs(requestGeneration)) /\ messages # <<>>
        /\ stored \in Seq(Msgs(requestGeneration))
    BY FocusIs DEF IndInv, ListInv
  <1>1. /\ messages' \in Seq(Msgs(requestGeneration)) /\ Len(messages') = Len(messages)
        /\ \A i \in 1..(Len(messages) - 1) : messages'[i] = messages[i]
        /\ Len(messages) \in Nat \ {0}
    BY <1>0 DEF Lists
  <1>2. \A i \in DOMAIN messages : Told(req', messages[i])
    BY <1>0, AllToldKept DEF ToldInv
  <1>3. \A i \in DOMAIN stored' : Told(req', stored'[i])
    BY <1>0, AllToldKept DEF ToldInv
  <1>3a. \A i \in DOMAIN stored' : Known(req', stored'[i], page' # "open")
    <2>1. \A i \in DOMAIN stored : Known(req', stored[i], page # "open")
      BY <1>0, KnownKept DEF ToldInv
    <2> QED
      BY <2>1
  <1>4. page' = "open" /\ isGenerating'
    BY DEF isGenerating
  <1>5. Told(req', Target(messages'))
    <2>1. CASE Target(messages').status # "complete"
      BY <2>1, OpenTold
    <2>2. CASE Target(messages').status = "complete"
      <3>1. (IndInv /\ page = "open" /\ isGenerating /\ Target(messages).status = "complete")'
        BY <1>4, <2>2 DEF Target
      <3>2. (Outcome = messages)'
        BY <3>1, FinalOutcome, PTL
      <3>3. Target(messages') = Target(Outcome')
        BY <3>2
      <3> QED
        BY <3>3
    <2> QED
      BY <2>1, <2>2
  <1>6. \A i \in DOMAIN messages' : Told(req', messages'[i])
    <2> SUFFICES ASSUME NEW i \in DOMAIN messages' PROVE Told(req', messages'[i])
      OBVIOUS
    <2>1. i \in 1..Len(messages) /\ DOMAIN messages = 1..Len(messages)
      BY <1>0, <1>1
    <2>2. CASE i = Len(messages)
      BY <1>1, <1>5, <2>2 DEF Target
    <2>3. CASE i # Len(messages)
      <3>1. messages'[i] = messages[i]
        BY <1>1, <2>1, <2>3
      <3> QED
        BY <1>2, <2>1, <3>1
    <2> QED
      BY <2>2, <2>3
  <1>7. Told(req, Target(Outcome))'
    BY DEF Target, Told, Unedited, From
  <1> QED
    BY <1>3, <1>3a, <1>4, <1>6, <1>7 DEF ToldInv

(* The last handler of a request. *)
LEMMA EndTold ==
    ASSUME IndInv, IndInv', TextInv, page = "open", Active, NEW g \in Gens, g = requestGeneration,
           req' = [req EXCEPT ![g] = Over(@)],
           UNCHANGED <<requestGeneration, stored, page>>, Scheduled(TRUE),
           Told(req', Target(Outcome'))
    PROVE  TextInv'
  <1>1. isGenerating
    BY ActiveIs
  <1>2. req' = [req EXCEPT ![g] = Over(req[g])]
    OBVIOUS
  <1>3. Over(req[g]).mark = req[g].mark /\ Over(req[g]).at = "over"
    BY OverIs
  <1>4. ReqKept /\ req'[g] = Over(req[g])
    BY <1>2, <1>3, OneReqKept
  <1>5. ~Active'
    BY <1>3, <1>4 DEF Active, At
  <1>6. StreamInv'
    BY <1>5 DEF StreamInv
  <1>7. ToldInv'
    BY <1>1, <1>4, ReportTold DEF TextInv, Scheduled
  <1> QED
    BY <1>6, <1>7 DEF TextInv

(* The last handler of a request finds in the text all the request has     *)
(* got, or fails.                                                          *)
LEMMA EndFails ==
    ASSUME IndInv, StreamInv, page = "open", Active, NEW g, g = requestGeneration,
           requestGeneration' = requestGeneration, Schedule(FailUpdaters(g)), NEW r
    PROVE  Told(r, Target(Outcome'))
  <1> DEFINE u == Updater("error", g, <<>>)
  <1>0. /\ g \in Nat /\ messages \in Seq(Msgs(g)) /\ messages # <<>>
        /\ Target(messages).key = <<"assistant", g>> /\ g \in Gens
    BY ActiveIs, FocusIs
  <1>1. u.kind = "error" /\ u \in Reports(g, Kinds)
    BY DEF Updater, Reports, Kinds, Texts
  <1>2. Schedule(Flush(g) \o <<u>>)
    BY DEF FailUpdaters
  <1> HIDE DEF u
  <1>3. PICK y : Caught(y) /\ Outcome' = applyMessageStateUpdate(g, y, u)
    BY <1>2, EndsWith
  <1>4. y \in Lists(g, messages, PendingStatuses)
    BY <1>3 DEF Caught
  <1>5. /\ Target(applyMessageStateUpdate(g, y, u)) = UpdateAnswer(u, Target(y))
        /\ Target(y) \in Msgs(g) /\ Target(y).status \in PendingStatuses
    BY <1>0, <1>1, <1>4, ApplyIs
  <1>6. UpdateAnswer(u, Target(y)).status = "error"
    BY <1>0, <1>1, <1>5, UpdateIs
  <1> QED
    BY <1>3, <1>5, <1>6, OpenTold

LEMMA EndCompletes ==
    ASSUME IndInv, StreamInv, page = "open", Active, NEW g, g = requestGeneration,
           requestGeneration' = requestGeneration, Schedule(CompleteUpdaters(g)),
           req[g].got = Len(req[g].answer), NEW r,
           r[g].mark = req[g].mark, r[g].at = "over", r[g].answer = req[g].answer
    PROVE  Told(r, Target(Outcome'))
  <1> DEFINE u == Updater("complete", g, <<>>)
             a == req[g].answer
  <1>0. /\ g \in Nat /\ messages \in Seq(Msgs(g)) /\ messages # <<>>
        /\ Target(messages).key = <<"assistant", g>> /\ g \in Gens
    BY ActiveIs, FocusIs
  <1>1. u.kind = "complete" /\ u \in Reports(g, Kinds)
    BY DEF Updater, Reports, Kinds, Texts
  <1>2. Schedule(Flush(g) \o <<u>>)
    BY DEF CompleteUpdaters
  <1> HIDE DEF u
  <1>3. PICK y : Caught(y) /\ Outcome' = applyMessageStateUpdate(g, y, u)
    BY <1>2, EndsWith
  <1>4. y \in Lists(g, messages, PendingStatuses)
    BY <1>3 DEF Caught
  <1>5. /\ Target(applyMessageStateUpdate(g, y, u)) = UpdateAnswer(u, Target(y))
        /\ Target(y) \in Msgs(g) /\ Target(y).status \in PendingStatuses
        /\ Target(y).key = <<"assistant", g>>
    BY <1>0, <1>1, <1>4, ApplyIs
  <1>6. UpdateAnswer(u, Target(y)).text = Target(y).text /\ UpdateAnswer(u, Target(y)).key = Target(y).key
    BY <1>0, <1>1, <1>5, UpdateIs
  <1>7. a \in Seq({g} \X Words)
    BY <1>0 DEF IndInv, ReqInv, Requests, Texts
  <1>8. SubSeq(a, 1, Len(a)) = a
    BY <1>7
  <1>9. req[g].mark = "none" => Target(y).text = a
    BY <1>3, <1>8 DEF Caught
  <1>10. Target(Outcome').key[2] = g /\ (req[g].mark = "none" => Target(Outcome').text = a)
    BY <1>3, <1>5, <1>6, <1>9
  <1> QED
    BY <1>0, <1>10 DEF Told

LEMMA EndAnswers ==
    ASSUME IndInv, page = "open", Active, NEW g, g = requestGeneration,
           requestGeneration' = requestGeneration,
           Schedule(<<Updater("answer", g, req[g].answer)>>), NEW r,
           r[g].at = "over", r[g].answer = req[g].answer
    PROVE  Told(r, Target(Outcome'))
  <1> DEFINE a == req[g].answer
             u == Updater("answer", g, a)
  <1>0. /\ g \in Nat /\ messages \in Seq(Msgs(g)) /\ messages # <<>>
        /\ Target(messages).key = <<"assistant", g>> /\ g \in Gens
    BY ActiveIs, FocusIs
  <1>1. a \in Texts(g)
    BY <1>0 DEF IndInv, ReqInv, Requests
  <1>2. u.kind = "answer" /\ u.text = a /\ u \in Reports(g, Kinds)
    BY <1>1 DEF Updater, Reports, Kinds
  <1>3. Schedule(<<u>>)
    OBVIOUS
  <1> HIDE DEF u
  <1>4. Outcome' = applyMessageStateUpdate(g, Outcome, u)
    BY <1>3, OneScheduled
  <1>5. Outcome \in Lists(g, messages, PendingStatuses)
    BY ActiveIs, OutcomeIs
  <1>6. /\ Target(applyMessageStateUpdate(g, Outcome, u)) = UpdateAnswer(u, Target(Outcome))
        /\ Target(Outcome) \in Msgs(g) /\ Target(Outcome).status \in PendingStatuses
        /\ Target(Outcome).key = <<"assistant", g>>
    BY <1>0, <1>2, <1>5, ApplyIs
  <1>7. UpdateAnswer(u, Target(Outcome)).text = a /\ UpdateAnswer(u, Target(Outcome)).key = Target(Outcome).key
    BY <1>0, <1>2, <1>6, UpdateIs
  <1>8. Target(Outcome').key[2] = g /\ Target(Outcome').text = a
    BY <1>4, <1>6, <1>7
  <1> QED
    BY <1>0, <1>8 DEF Told

(* A step of a request that stays under way. *)
LEMMA StayText ==
    ASSUME IndInv, IndInv', TextInv, page = "open", Active, NEW g, g = requestGeneration,
           UNCHANGED <<requestGeneration, stored, page, view>>, ReqKept,
           messages' \in Lists(g, messages, Statuses),
           Outcome' \in Lists(g, messages, PendingStatuses),
           pending'.generation = g, Streams(req'[g], Target(Outcome').text, pending'.content)
    PROVE  TextInv'
  <1>1. isGenerating
    BY ActiveIs
  <1>2. Told(req', Target(Outcome'))
    BY OpenTold DEF Lists, PendingStatuses
  <1>3. ToldInv'
    BY <1>1, <1>2, ReportTold DEF TextInv
  <1>4. StreamInv'
    BY DEF StreamInv
  <1> QED
    BY <1>3, <1>4 DEF TextInv

LEMMA SameLists ==
    ASSUME IndInv, page = "open", Active, NEW g, g = requestGeneration
    PROVE  messages \in Lists(g, messages, Statuses) /\ Outcome \in Lists(g, messages, PendingStatuses)
  <1>1. Outcome \in Lists(g, messages, PendingStatuses)
    BY ActiveIs, OutcomeIs
  <1>2. /\ g \in Nat /\ messages \in Seq(Msgs(g)) /\ Target(messages) \in Msgs(g)
        /\ Clean(Target(messages)) \/ Fails(Target(messages))
    BY ActiveIs, FocusIs
  <1>3. Target(messages).status \in Statuses
    BY <1>2, MsgType
  <1> QED
    BY <1>1, <1>2, <1>3 DEF Lists

LEMMA OverKept ==
    ASSUME IndInv, NEW g \in Gens, g = requestGeneration, Active, req' = [req EXCEPT ![g] = Over(@)]
    PROVE  req'[g].mark = req[g].mark /\ req'[g].at = "over" /\ req'[g].answer = req[g].answer
  <1>1. DOMAIN req = Gens
    BY DEF IndInv, ReqInv
  <1>2. req'[g] = Over(req[g])
    BY <1>1
  <1> QED
    BY <1>2, OverIs

LEMMA FlushTimerText == ASSUME IndInv, IndInv', TextInv, FlushTimer PROVE TextInv'
  <1> DEFINE g == requestGeneration
             r == req[g]
  <1>0. /\ page = "open" /\ flushTimer = g /\ flushTimer # None /\ Schedule(Flush(g)) /\ Flushed(g)
        /\ UNCHANGED <<requestGeneration, req, stored, page>>
    BY DEF FlushTimer, Latest
  <1>1. Active
    BY <1>0 DEF IndInv, FlowInv, Active, Streaming, At
  <1>2. Scheduled(FALSE)
    BY <1>0, <1>1, FlushOnly, ScheduleIs
  <1>3. PICK y : /\ Caught(y)
                 /\ \/ Flush(g) = <<>> /\ y = Outcome
                    \/ \E f \in Reports(g, {"flush"}) :
                         Flush(g) = <<f>> /\ y = applyMessageStateUpdate(g, Outcome, f)
    BY <1>0, <1>1, FlushReads DEF TextInv
  <1>4. Outcome' = y
    <2>1. CASE Flush(g) = <<>> /\ y = Outcome
      <3>1. ScheduleLater(<<>>)
        BY <1>0, <2>1 DEF Schedule
      <3>2. messages' = messages /\ queue' = queue \o <<>> /\ queue \in Seq(Reports(g, Kinds))
        BY <3>1 DEF ScheduleLater, IndInv, ListInv
      <3>3. queue' = queue
        BY <3>2
      <3> QED
        BY <1>0, <2>1, <3>2, <3>3 DEF Outcome
    <2>2. CASE \E f \in Reports(g, {"flush"}) :
                  Flush(g) = <<f>> /\ y = applyMessageStateUpdate(g, Outcome, f)
      <3>1. PICK f \in Reports(g, {"flush"}) :
                  Flush(g) = <<f>> /\ y = applyMessageStateUpdate(g, Outcome, f)
        BY <2>2
      <3>2. Schedule(<<f>>)
        BY <1>0, <3>1
      <3> QED
        BY <1>0, <3>1, <3>2, OneScheduled
    <2> QED
      BY <1>3, <2>1, <2>2
  <1>5. /\ pending.generation = g /\ r.got <= Len(r.answer)
        /\ r.at \in {"headers", "sent"} => r.got = 0
        /\ r.mode = "delta" => NoEcho(r.answer)
    BY <1>1 DEF TextInv, StreamInv, Streams
  <1>6. pending'.generation = g /\ pending'.content = <<>>
    BY <1>0, <1>5, FlushedIs
  <1>7. y \in Lists(g, messages, PendingStatuses) /\ (r.mark = "none" => Target(y).text = SubSeq(r.answer, 1, r.got))
    BY <1>3 DEF Caught
  <1>8. g \in Gens /\ r.got \in Nat
    BY <1>1 DEF Active, At, IndInv, ReqInv, Requests
  <1>9. Streams(r, Target(y).text, <<>>)
    <2>1. r.got \in 0..r.got
      BY <1>8
    <2>2. r.mark = "none" => Split(r.answer, r.mode, r.got, r.got, Target(y).text, <<>>)
      BY <1>7 DEF Split
    <2> QED
      BY <1>5, <2>1, <2>2 DEF Streams
  <1>10. ReqKept
    BY <1>0, SameReqKept
  <1>11. messages' \in Lists(g, messages, Statuses) /\ view' = view
    BY <1>2 DEF Scheduled
  <1> QED
    BY <1>0, <1>1, <1>4, <1>6, <1>7, <1>9, <1>10, <1>11, StayText

LEMMA ReceiveHeadersText ==
    ASSUME IndInv, IndInv', TextInv, NEW g \in Gens, ReceiveHeaders(g) PROVE TextInv'
  <1>0. /\ page = "open" /\ req[g].at = "headers" /\ generation = req[g].generation
        /\ UNCHANGED <<requestGeneration, stored, page>>
    BY DEF ReceiveHeaders
  <1>1. g = requestGeneration /\ Active
    BY <1>0, ServedIs
  <1>2. CASE /\ req' = [req EXCEPT ![g].at = "open"]
             /\ ScheduleLater(<<>>)
             /\ UNCHANGED pending
    <2> DEFINE r == [req[g] EXCEPT !.at = "open"]
    <2>1. req[g] \in Requests(g) /\ req' = [req EXCEPT ![g] = r]
      BY <1>2 DEF IndInv, ReqInv
    <2>2. /\ r.mark = req[g].mark /\ r.at = "open" /\ r.got = req[g].got /\ r.mode = req[g].mode
          /\ r.answer = req[g].answer
      BY <2>1 DEF Requests
    <2> HIDE DEF r
    <2>3. ReqKept /\ req'[g] = r
      BY <1>1, <2>1, <2>2, OneReqKept
    <2>4. messages' = messages /\ queue' = queue \o <<>> /\ queue \in Seq(Reports(g, Kinds)) /\ view' = view
      BY <1>1, <1>2 DEF ScheduleLater, IndInv, ListInv
    <2>5. Outcome' = Outcome
      <3>1. queue' = queue
        BY <2>4
      <3> QED
        BY <1>0, <2>4, <3>1 DEF Outcome
    <2>6. Streams(req[g], Target(Outcome).text, pending.content) /\ pending.generation = g
      BY <1>1 DEF TextInv, StreamInv
    <2>7. Streams(r, Target(Outcome).text, pending.content)
      BY <2>2, <2>6 DEF Streams
    <2> QED
      BY <1>0, <1>1, <1>2, <2>3, <2>4, <2>5, <2>6, <2>7, SameLists, StayText
  <1>3. CASE /\ req' = [req EXCEPT ![g] = Over(@)]
             /\ Schedule(FailUpdaters(g))
    <2>1. Scheduled(TRUE)
      BY <1>0, <1>1, <1>3, EndShapes, ScheduleIs
    <2>2. Told(req', Target(Outcome'))
      BY <1>0, <1>1, <1>3, EndFails DEF TextInv
    <2> QED
      BY <1>0, <1>1, <1>3, <2>1, <2>2, EndTold
  <1> QED
    BY <1>2, <1>3 DEF ReceiveHeaders

LEMMA ReceiveDoneText ==
    ASSUME IndInv, IndInv', TextInv, NEW g \in Gens, ReceiveDone(g) PROVE TextInv'
  <1>0. /\ page = "open" /\ req[g].at = "open" /\ generation = req[g].generation
        /\ req[g].got = Len(req[g].answer) /\ req' = [req EXCEPT ![g] = Over(@)]
        /\ ScheduleLater(CompleteUpdaters(g)) /\ UNCHANGED <<requestGeneration, stored, page>>
    BY DEF ReceiveDone, isCurrent
  <1>1. g = requestGeneration /\ Active
    BY <1>0, ServedIs
  <1>2. Schedule(CompleteUpdaters(g))
    BY <1>0 DEF Schedule
  <1>3. Scheduled(TRUE)
    BY <1>0, <1>1, <1>2, EndShapes, ScheduleIs
  <1>4. Told(req', Target(Outcome'))
    BY <1>0, <1>1, <1>2, OverKept, EndCompletes DEF TextInv
  <1> QED
    BY <1>0, <1>1, <1>3, <1>4, EndTold

LEMMA StreamErrorText ==
    ASSUME IndInv, IndInv', TextInv, NEW g \in Gens, StreamError(g) PROVE TextInv'
  <1>0. /\ page = "open" /\ req[g].at = "open" /\ generation = req[g].generation
        /\ req' = [req EXCEPT ![g] = Over(@)]
        /\ Schedule(FailUpdaters(g)) /\ UNCHANGED <<requestGeneration, stored, page>>
    BY DEF StreamError, isCurrent
  <1>1. g = requestGeneration /\ Active
    BY <1>0, ServedIs
  <1>2. Scheduled(TRUE)
    BY <1>0, <1>1, EndShapes, ScheduleIs
  <1>3. Told(req', Target(Outcome'))
    BY <1>0, <1>1, EndFails DEF TextInv
  <1> QED
    BY <1>0, <1>1, <1>2, <1>3, EndTold

LEMMA ReceiveResponseText ==
    ASSUME IndInv, IndInv', TextInv, NEW g \in Gens, ReceiveResponse(g) PROVE TextInv'
  <1>0. /\ page = "open" /\ req[g].at = "sent" /\ Latest(g)
        /\ req' = [req EXCEPT ![g] = Over(@)]
        /\ \/ Schedule(<<Updater("answer", g, req[g].answer)>>)
           \/ Schedule(FailUpdaters(g))
        /\ UNCHANGED <<requestGeneration, stored, page>>
    BY DEF ReceiveResponse
  <1>1. g = requestGeneration /\ Active
    BY <1>0, ServedIs
  <1>2. Shape(g, <<Updater("answer", g, req[g].answer)>>, TRUE)
    <2>1. req[g].answer \in Texts(g)
      BY DEF IndInv, ReqInv, Requests
    <2>2. Updater("answer", g, req[g].answer) \in Reports(g, Outcomes)
      BY <2>1 DEF Updater, Reports, Outcomes, Kinds
    <2> QED
      BY <2>2, Zenon DEF Shape
  <1>3. Scheduled(TRUE)
    BY <1>0, <1>1, <1>2, EndShapes, ScheduleIs
  <1>4. Told(req', Target(Outcome'))
    <2>1. CASE Schedule(<<Updater("answer", g, req[g].answer)>>)
      BY <1>0, <1>1, <2>1, OverKept, EndAnswers
    <2>2. CASE Schedule(FailUpdaters(g))
      BY <1>0, <1>1, <2>2, EndFails DEF TextInv
    <2> QED
      BY <1>0, <2>1, <2>2
  <1> QED
    BY <1>0, <1>1, <1>3, <1>4, EndTold

LEMMA CloseQuietlyText ==
    ASSUME IndInv, IndInv', TextInv, NEW g \in Gens, CloseQuietly(g) PROVE TextInv'
  <1>0. /\ page = "open" /\ req[g].at = "open" /\ generation = req[g].generation
        /\ req' = [req EXCEPT ![g].at = "quiet"]
        /\ UNCHANGED <<requestGeneration, pending, messages, queue, view, stored, page>>
    BY DEF CloseQuietly, isCurrent, handlerVars, reactVars
  <1>1. g = requestGeneration /\ Active
    BY <1>0, ServedIs
  <1> DEFINE r == [req[g] EXCEPT !.at = "quiet"]
  <1>2. req[g] \in Requests(g) /\ req' = [req EXCEPT ![g] = r]
    BY <1>0 DEF IndInv, ReqInv
  <1>3. /\ r.mark = req[g].mark /\ r.at = "quiet" /\ r.got = req[g].got /\ r.mode = req[g].mode
        /\ r.answer = req[g].answer
    BY <1>2 DEF Requests
  <1> HIDE DEF r
  <1>4. ReqKept /\ req'[g] = r
    BY <1>1, <1>2, <1>3, OneReqKept
  <1>5. Outcome' = Outcome
    BY <1>0 DEF Outcome
  <1>6. Streams(req[g], Target(Outcome).text, pending.content) /\ pending.generation = g
    BY <1>1 DEF TextInv, StreamInv
  <1>7. Streams(r, Target(Outcome).text, pending.content)
    BY <1>3, <1>6 DEF Streams
  <1> QED
    BY <1>0, <1>1, <1>4, <1>5, <1>6, <1>7, SameLists, StayText

LEMMA ReceiveChunkText ==
    ASSUME IndInv, IndInv', TextInv, NEW g \in Gens, ReceiveChunk(g) PROVE TextInv'
  <1> DEFINE a == req[g].answer
             n == req[g].got
             mode == req[g].mode
             r == [req[g] EXCEPT !.got = @ + 1]
             c == mergePendingStreamChunk(pending.content,
                      SubSeq(a, IF mode = "delta" THEN n + 1 ELSE 1, n + 1))
             t == Target(Outcome).text
             b == pending.content
  <1>0. /\ page = "open" /\ req[g].at = "open" /\ generation = req[g].generation
        /\ n < Len(a) /\ pending.generation = g
        /\ pending' = [pending EXCEPT !.content = c]
        /\ req' = [req EXCEPT ![g].got = @ + 1]
        /\ UNCHANGED <<requestGeneration, messages, queue, view, stored, page>>
    BY DEF ReceiveChunk, isCurrent, reactVars
  <1>1. g = requestGeneration /\ Active
    BY <1>0, ServedIs
  <1>2. req[g] \in Requests(g) /\ req' = [req EXCEPT ![g] = r]
    BY <1>0 DEF IndInv, ReqInv
  <1>3. /\ r.mark = req[g].mark /\ r.at = "open" /\ r.got = n + 1 /\ r.mode = mode
        /\ r.answer = a
    BY <1>0, <1>2 DEF Requests
  <1>4. a \in Seq({g} \X Words) /\ n \in Nat
    BY <1>2 DEF Requests, Texts
  <1> HIDE DEF r
  <1>5. ReqKept /\ req'[g] = r
    BY <1>1, <1>2, <1>3, OneReqKept
  <1>6. Outcome' = Outcome
    BY <1>0 DEF Outcome
  <1>7. /\ mode = "delta" => NoEcho(a)
        /\ req[g].mark = "none" => \E k \in 0..n : Split(a, mode, n, k, t, b)
    BY <1>1 DEF TextInv, StreamInv, Streams
  <1> HIDE DEF t, a, n, mode
  <1>8. ChunkGood(a, n, mode)
    BY ONLY <1>0, <1>4, <1>7, ChunkGoodIs
  <1>9. pending'.content = c /\ pending'.generation = g
    <2>1. pending \in [generation : Nat, content : AllTexts]
      BY DEF IndInv, RefInv
    <2> HIDE DEF c
    <2> QED
      BY <1>0, <2>1
  <1>10. req[g].mark = "none" => \E k \in 0..(n + 1) : Split(a, mode, n + 1, k, t, c)
    <2> SUFFICES ASSUME req[g].mark = "none"
                 PROVE  \E k \in 0..(n + 1) : Split(a, mode, n + 1, k, t, c)
      OBVIOUS
    <2>1. PICK k \in 0..n : Split(a, mode, n, k, t, b)
      BY <1>7
    <2>2. Split(a, mode, n + 1, k, t, c)
      BY ONLY <1>8, <2>1 DEF ChunkGood
    <2>3. k \in 0..(n + 1)
      BY <1>4
    <2> QED
      BY <2>2, <2>3
  <1> HIDE DEF c
  <1>11. Streams(r, t, c)
    BY <1>0, <1>3, <1>4, <1>7, <1>10 DEF Streams
  <1>12. Streams(req'[g], Target(Outcome').text, pending'.content)
    BY <1>5, <1>6, <1>9, <1>11 DEF t
  <1>13. messages' \in Lists(g, messages, Statuses) /\ Outcome' \in Lists(g, messages, PendingStatuses)
    BY <1>0, <1>1, <1>6, SameLists
  <1> QED
    BY <1>0, <1>1, <1>5, <1>9, <1>12, <1>13, StayText

(* A step that renders everything. *)
LEMMA RenderedText ==
    ASSUME IndInv', page' = "open", queue' = <<>>, StreamInv',
           \A i \in DOMAIN messages' : Told(req', messages'[i]),
           \A i \in DOMAIN stored' : Told(req', stored'[i]),
           \A i \in DOMAIN stored' : Known(req', stored'[i], FALSE)
    PROVE  TextInv'
  <1>1. Outcome' = messages'
    BY RunEmpty DEF Outcome
  <1>2. isGenerating' => Told(req', Target(Outcome'))
    <2>1. isGenerating' => messages' # <<>>
      BY DEF IndInv, FocusInv
    <2>2. messages' \in Seq(Msgs(requestGeneration'))
      BY DEF IndInv, ListInv
    <2>3. messages' # <<>> => Len(messages') \in DOMAIN messages'
      BY <2>2
    <2>4. messages' # <<>> => Told(req', Target(messages'))
      BY <2>3 DEF Target
    <2> QED
      BY <1>1, <2>1, <2>4
  <1>3. (page = "open" /\ isGenerating => Told(req, Target(Outcome)))'
    BY <1>2
  <1>4. \A i \in DOMAIN stored' : Known(req', stored'[i], page' # "open")
    BY DEF Known
  <1> QED
    BY <1>3, <1>4 DEF TextInv, ToldInv

LEMMA StoredKept ==
    ASSUME IndInv, ToldInv, ReqKept, stored' = stored
    PROVE  /\ \A i \in DOMAIN stored' : Told(req', stored'[i])
           /\ \A i \in DOMAIN stored' : Known(req', stored'[i], FALSE)
  <1>0. requestGeneration \in Nat /\ stored \in Seq(Msgs(requestGeneration))
    BY DEF IndInv, RefInv, ListInv
  <1>1. \A i \in DOMAIN stored : Told(req', stored[i])
    BY <1>0, AllToldKept DEF ToldInv
  <1>2. \A i \in DOMAIN stored : Known(req', stored[i], FALSE)
    BY <1>0, KnownKept DEF ToldInv
  <1> QED
    BY <1>1, <1>2

(* The messages are told, as they are, as they are rendered. *)
LEMMA MessagesKept ==
    ASSUME IndInv, ToldInv, ReqKept
    PROVE  \A i \in DOMAIN messages : Told(req', messages[i])
  <1>0. requestGeneration \in Nat /\ messages \in Seq(Msgs(requestGeneration))
    BY DEF IndInv, RefInv, ListInv
  <1> QED
    BY <1>0, AllToldKept DEF ToldInv

LEMMA ViewTold ==
    ASSUME IndInv, ToldInv, ReqKept, page = "open"
    PROVE  \A i \in DOMAIN view.messages : Told(req', view.messages[i])
  <1>0. \A i \in DOMAIN messages : Told(req', messages[i])
    BY MessagesKept
  <1>1. CASE ~isGenerating
    BY <1>0, <1>1, RestIs
  <1>2. CASE isGenerating
    <2>0. /\ Len(view.messages) = Len(messages) /\ isAssistantMessagePending(Target(view.messages))
          /\ \A i \in 1..(Len(messages) - 1) : view.messages[i] = messages[i]
      BY <1>2 DEF IndInv, FocusInv
    <2>1. view.messages \in Seq(Msgs(requestGeneration)) /\ messages \in Seq(Msgs(requestGeneration))
      BY DEF IndInv, ListInv
    <2> SUFFICES ASSUME NEW i \in DOMAIN view.messages PROVE Told(req', view.messages[i])
      OBVIOUS
    <2>2. CASE i = Len(view.messages)
      <3>1. view.messages[i].status # "complete"
        BY <2>0, <2>2 DEF Target, isAssistantMessagePending
      <3> QED
        BY <3>1, OpenTold
    <2>3. CASE i # Len(view.messages)
      <3>1. i \in 1..(Len(messages) - 1) /\ i \in DOMAIN messages
        BY <2>0, <2>1, <2>3
      <3> QED
        BY <1>0, <2>0, <3>1
    <2> QED
      BY <2>2, <2>3
  <1> QED
    BY <1>1, <1>2

LEMMA IdleStreams ==
    ASSUME ~Active'
    PROVE  StreamInv'
  BY DEF StreamInv

LEMMA RenderText == ASSUME IndInv, IndInv', TextInv, Render PROVE TextInv'
  <1> DEFINE g == requestGeneration
  <1>0. /\ page = "open" /\ page' = "open" /\ dirty /\ stored' = stored /\ requestGeneration' = requestGeneration
        /\ UNCHANGED <<pending, req>> /\ Commit(messages, <<>>)
    BY DEF Render
  <1>1. isGenerating
    BY <1>0 DEF IndInv, FlowInv
  <1>2. /\ g \in Nat /\ messages \in Seq(Msgs(g)) /\ messages # <<>> /\ queue \in Seq(Reports(g, Kinds))
    BY <1>0, <1>1, FocusIs
  <1>3. Committed /\ messages' = Outcome
    <2>1. queue \o <<>> = queue
      BY <1>2
    <2> QED
      BY <1>0, <2>1, CommitIs DEF Outcome
  <1>4. queue' = <<>>
    BY <1>3 DEF Committed
  <1>5. Outcome' = Outcome
    BY <1>3, <1>4, RunEmpty DEF Outcome
  <1>6. StreamInv'
    <2>1. Active' => Active
      BY <1>0 DEF Active, At
    <2>2. Active => pending.generation = g /\ Streams(req[g], Target(Outcome).text, pending.content)
      BY DEF TextInv, StreamInv
    <2> QED
      BY <1>0, <1>5, <2>1, <2>2 DEF StreamInv
  <1>7. ReqKept
    BY <1>0, SameReqKept
  <1>8. Outcome \in Lists(g, messages, Statuses) /\ Told(req, Target(Outcome))
    BY <1>0, <1>1, OutcomeIs DEF TextInv, ToldInv
  <1>9. \A i \in DOMAIN messages : Told(req, messages[i])
    BY DEF TextInv, ToldInv
  <1>10. \A i \in DOMAIN Outcome : Told(req, Outcome[i])
    <2>1. /\ Outcome \in Seq(Msgs(g)) /\ Len(Outcome) = Len(messages)
          /\ \A i \in 1..(Len(messages) - 1) : Outcome[i] = messages[i]
      BY <1>8 DEF Lists
    <2> SUFFICES ASSUME NEW i \in DOMAIN Outcome PROVE Told(req, Outcome[i])
      OBVIOUS
    <2>2. CASE i = Len(Outcome)
      BY <1>8, <2>2 DEF Target
    <2>3. CASE i # Len(Outcome)
      <3>1. i \in 1..(Len(messages) - 1) /\ i \in DOMAIN messages
        BY <1>2, <2>1, <2>3
      <3> QED
        BY <1>9, <2>1, <3>1
    <2> QED
      BY <2>2, <2>3
  <1>11. \A i \in DOMAIN messages' : Told(req', messages'[i])
    BY <1>0, <1>3, <1>10
  <1> QED
    BY <1>0, <1>4, <1>6, <1>7, <1>11, StoredKept, RenderedText DEF TextInv

(* Nothing the invariant speaks of changes. *)
LEMMA SameText ==
    ASSUME TextInv, UNCHANGED <<requestGeneration, pending, req, messages, queue, view, stored, page>>
    PROVE  TextInv'
  <1>1. Outcome' = Outcome
    BY DEF Outcome
  <1>2. StreamInv'
    BY <1>1 DEF TextInv, StreamInv, Active, At
  <1>3. ToldInv'
    BY <1>1 DEF TextInv, ToldInv, isGenerating
  <1> QED
    BY <1>2, <1>3 DEF TextInv

LEMMA DeleteText == ASSUME IndInv, IndInv', TextInv, Delete PROVE TextInv'
  <1>0. page = "open" /\ ~isGenerating /\ UNCHANGED <<flags, requestGeneration, pending, req, stored, page>>
    BY DEF Delete
  <1>1. PICK i \in DOMAIN view.messages :
           Commit(messages, <<removeMessageByKey(view.messages[i].key)>>)
    BY DEF Delete
  <1>2. ~Active /\ queue = <<>>
    BY <1>0, RestIs
  <1> DEFINE g == requestGeneration
             u == removeMessageByKey(view.messages[i].key)
             S == {m \in Msgs(g) : Told(req, m)}
  <1>3. u.kind = "remove"
    BY DEF removeMessageByKey, Updater
  <1>4. Committed /\ messages' = Run(g, messages, <<u>>)
    <2>1. <<>> \o <<u>> = <<u>>
      OBVIOUS
    <2> QED
      BY <1>0, <1>1, <1>2, <2>1, CommitIs
  <1> HIDE DEF u
  <1>5. messages' = WithoutKey(messages, u.key)
    <2>1. messages' = applyMessageStateUpdate(g, messages, u)
      BY <1>4, OneRuns
    <2> QED
      BY <1>3, <2>1 DEF applyMessageStateUpdate
  <1>6. messages \in Seq(S)
    <2>1. messages \in Seq(Msgs(g)) /\ \A j \in DOMAIN messages : Told(req, messages[j])
      BY DEF IndInv, ListInv, TextInv, ToldInv
    <2> QED
      BY <2>1
  <1>7. messages' \in Seq(S)
    <2> HIDE DEF S
    <2> QED
      BY <1>5, <1>6, WithoutKeyType
  <1>8. \A j \in DOMAIN messages' : Told(req', messages'[j])
    BY <1>0, <1>7
  <1>9. ReqKept /\ ~Active'
    BY <1>0, <1>2, SameReqKept DEF Active, At
  <1> QED
    BY <1>0, <1>4, <1>8, <1>9, IdleStreams, StoredKept, RenderedText DEF TextInv, Committed

LEMMA ClearText == ASSUME IndInv, IndInv', TextInv, Clear PROVE TextInv'
  <1>0. /\ page = "open" /\ ~isGenerating /\ UNCHANGED <<requestGeneration, pending, req, stored, page>>
        /\ Commit(messages, <<SetTo(<<>>)>>)
    BY DEF Clear
  <1>1. Committed /\ messages' = <<>>
    BY <1>0, SetIs
  <1>2. ReqKept /\ ~Active'
    BY <1>0, RestIs, SameReqKept DEF Active, At
  <1>3. \A j \in DOMAIN messages' : Told(req', messages'[j])
    BY <1>1
  <1> QED
    BY <1>0, <1>1, <1>2, <1>3, IdleStreams, StoredKept, RenderedText DEF TextInv, Committed

(* What an upstream says in deltas has no echo.  Without this, FullAnswer  *)
(* does not hold: run playground_repeat.                                   *)
Echoless == "delta" \in Modes => \A a \in Answers : NoEcho(a)

LEMMA TokensEcho ==
    ASSUME NEW g, NEW a \in Answers, NoEcho(a)
    PROVE  NoEcho([i \in DOMAIN a |-> <<g, a[i]>>])
  <1> DEFINE t == [i \in DOMAIN a |-> <<g, a[i]>>]
  <1>1. a \in Seq(Range(a)) /\ Len(a) \in Nat /\ DOMAIN a = 1..Len(a)
    BY ConstantsAssumption
  <1>2. t \in Texts(g)
    BY AnswerIs
  <1>3. DOMAIN t = 1..Len(a) /\ \A i \in 1..Len(a) : t[i] = <<g, a[i]>>
    BY <1>1
  <1> HIDE DEF t
  <1>4. Len(t) = Len(a)
    BY <1>1, <1>2, <1>3 DEF Texts
  <1>5. \A i \in 1..(Len(a) - 1) : t[i] # t[i + 1]
    <2> SUFFICES ASSUME NEW i \in 1..(Len(a) - 1) PROVE t[i] # t[i + 1]
      OBVIOUS
    <2>1. i \in 1..Len(a) /\ i + 1 \in 1..Len(a) /\ a[i] # a[i + 1]
      BY <1>1 DEF NoEcho
    <2> QED
      BY <1>3, <2>1
  <1>6. \A k \in 1..Len(a) : k + k <= Len(a) => \E i \in 1..k : t[i] # t[k + i]
    <2> SUFFICES ASSUME NEW k \in 1..Len(a), k + k <= Len(a) PROVE \E i \in 1..k : t[i] # t[k + i]
      OBVIOUS
    <2>1. PICK i \in 1..k : a[i] # a[k + i]
      BY DEF NoEcho
    <2>2. i \in 1..Len(a) /\ k + i \in 1..Len(a)
      BY <1>1
    <2>3. t[i] = <<g, a[i]>> /\ t[k + i] = <<g, a[k + i]>>
      BY <1>3, <2>2
    <2> QED
      BY <2>1, <2>3
  <1>7. NoEcho(t)
    BY <1>4, <1>5, <1>6 DEF NoEcho
  <1> QED
    BY <1>7 DEF t

(* What sending a request does to the requests. *)
LEMMA SentText ==
    ASSUME Echoless, IndInv, NEW x, sendChat(x)
    PROVE  /\ ReqKept /\ Committed /\ messages' = x
           /\ requestGeneration' = requestGeneration + 1
           /\ pending' = [generation |-> requestGeneration + 1, content |-> <<>>]
           /\ Streams(req'[requestGeneration + 1], <<>>, <<>>)
  <1> DEFINE g == requestGeneration + 1
  <1>0. /\ requestGeneration \in Nat /\ sends \in 0..MaxSends /\ acts \in 0..MaxActs
        /\ requestGeneration <= sends + acts /\ generation = requestGeneration
        /\ MaxSends \in Nat /\ MaxActs \in Nat
    BY ConstantsAssumption DEF IndInv, RefInv
  <1>1. /\ sends < MaxSends /\ requestGeneration' = g
        /\ pending' = [generation |-> g, content |-> <<>>]
        /\ Commit(messages, <<SetTo(x)>>)
    BY DEF sendChat, discardPendingStreamUpdates
  <1>2. PICK mode \in Modes, answer \in Answers :
             req' = [req EXCEPT ![g] =
                   [NoRequest EXCEPT !.at = IF mode = "plain" THEN "sent" ELSE "headers",
                       !.generation = generation + 1, !.mode = mode,
                       !.answer = [i \in DOMAIN answer |-> <<g, answer[i]>>]]]
    BY DEF sendChat
  <1>3. g \in Gens /\ g \in Nat
    BY <1>0, <1>1 DEF Gens
  <1>4. Committed /\ messages' = x
    BY <1>1, SetIs
  <1> DEFINE at == IF mode = "plain" THEN "sent" ELSE "headers"
             text == [i \in DOMAIN answer |-> <<g, answer[i]>>]
             r == [NoRequest EXCEPT !.at = at, !.generation = g, !.mode = mode, !.answer = text]
  <1>5. text \in Texts(g) /\ (mode = "delta" => NoEcho(text))
    BY AnswerIs, TokensEcho DEF Echoless
  <1>6. req' = [req EXCEPT ![g] = r]
    BY <1>0, <1>2
  <1> HIDE DEF at, text
  <1>6a. r = [NoRequest EXCEPT !.at = at, !.generation = g, !.mode = mode, !.answer = text]
    OBVIOUS
  <1> HIDE DEF r
  <1>7. r = [at |-> at, generation |-> g, mode |-> mode, answer |-> text, got |-> 0, mark |-> "none"]
    <2> HIDE DEF g
    <2> QED
      BY <1>6a, SentIs, Zenon
  <1>8. r.got = 0 /\ r.mode = mode /\ r.answer = text
    BY <1>7
  <1>9. DOMAIN req = Gens /\ req'[g] = r /\ \A h \in Gens : h # g => req'[h] = req[h]
    BY <1>3, <1>6 DEF IndInv, ReqInv
  <1>10. ReqKept
    <2>1. \A h \in Gens : h <= requestGeneration => h # g
      BY <1>0 DEF Gens
    <2> QED
      BY <1>9, <2>1 DEF ReqKept
  <1>11. Streams(r, <<>>, <<>>)
    <2>1. text \in Seq({g} \X Words) /\ Len(text) \in Nat /\ 0 <= Len(text)
      BY <1>5 DEF Texts
    <2>2. SubSeq(text, 1, 0) = <<>>
      BY <2>1
    <2>3. 0 \in 0..0 /\ Split(text, mode, 0, 0, <<>>, <<>>)
      BY <2>2 DEF Split
    <2> QED
      BY <1>5, <1>8, <2>1, <2>3 DEF Streams
  <1> QED
    BY <1>1, <1>4, <1>9, <1>10, <1>11

LEMMA SendChatText ==
    ASSUME Echoless, IndInv, IndInv', TextInv, page = "open", page' = page, stored' = stored,
           NEW x, sendChat(x), x # <<>>,
           Target(x) = createLoadingAssistantMessage(requestGeneration + 1),
           \A i \in 1..(Len(x) - 1) : Told(req', x[i])
    PROVE  TextInv'
  <1> DEFINE g == requestGeneration + 1
  <1>1. /\ ReqKept /\ Committed /\ messages' = x /\ requestGeneration' = g
        /\ pending' = [generation |-> g, content |-> <<>>]
        /\ Streams(req'[g], <<>>, <<>>)
    BY SentText
  <1>2. queue' = <<>> /\ pending'.generation = g /\ pending'.content = <<>>
    BY <1>1 DEF Committed
  <1>3. Outcome' = x
    BY <1>1, <1>2, RunEmpty DEF Outcome
  <1>4. Target(x).text = <<>> /\ Target(x).status # "complete"
    BY DEF createLoadingAssistantMessage
  <1> HIDE DEF g
  <1>5. StreamInv'
    BY <1>1, <1>2, <1>3, <1>4 DEF StreamInv
  <1>6. \A i \in DOMAIN messages' : Told(req', messages'[i])
    <2>1. x \in Seq(Msgs(g))
      BY <1>1 DEF IndInv, ListInv
    <2> SUFFICES ASSUME NEW i \in DOMAIN x PROVE Told(req', x[i])
      BY <1>1
    <2>2. CASE i = Len(x)
      BY <1>4, <2>2, OpenTold DEF Target
    <2>3. CASE i # Len(x)
      <3>1. i \in 1..(Len(x) - 1)
        BY <2>1, <2>3
      <3> QED
        BY <3>1
    <2> QED
      BY <2>2, <2>3
  <1> QED
    BY <1>1, <1>2, <1>5, <1>6, StoredKept, RenderedText DEF TextInv

LEMMA SendsText == ASSUME Echoless, IndInv, IndInv', TextInv, Send PROVE TextInv'
  <1> DEFINE g == requestGeneration + 1
             u == createUserMessage(g)
             a == createLoadingAssistantMessage(g)
             x == messages \o <<u, a>>
  <1>0. /\ page = "open" /\ ~isGenerating /\ page' = page /\ stored' = stored
        /\ sendChat(view.messages \o <<createUserMessage(g), createLoadingAssistantMessage(g)>>)
    BY DEF Send
  <1>1. view.messages = messages
    BY <1>0, RestIs
  <1>2. messages \in Seq(Msgs(requestGeneration))
    BY DEF IndInv, ListInv
  <1>3. Told(req', u)
    BY DEF Told, From, createUserMessage
  <1>5. sendChat(x)
    BY <1>0, <1>1
  <1> HIDE DEF u, a
  <1>6. /\ Len(x) = Len(messages) + 2 /\ x[Len(messages) + 2] = a
        /\ x[Len(messages) + 1] = u /\ \A i \in 1..Len(messages) : x[i] = messages[i]
    <2> HIDE DEF g
    <2> QED
      BY <1>2
  <1>6a. x # <<>>
    BY <1>2
  <1> HIDE DEF x
  <1>7. Len(messages) \in Nat /\ \A i \in 1..(Len(x) - 1) : i \in 1..Len(messages) \/ i = Len(messages) + 1
    BY <1>2, <1>6
  <1>8. Target(x) = a
    BY <1>6, <1>7 DEF Target
  <1>9. \A i \in DOMAIN messages : Told(req', messages[i])
    BY <1>5, SentText, MessagesKept DEF TextInv
  <1>10. \A i \in 1..(Len(x) - 1) : Told(req', x[i])
    BY <1>2, <1>3, <1>6, <1>7, <1>9
  <1> QED
    BY <1>0, <1>5, <1>6a, <1>8, <1>10, SendChatText DEF a

LEMMA RegenerateText == ASSUME Echoless, IndInv, IndInv', TextInv, Regenerate PROVE TextInv'
  <1>0. page = "open" /\ ~isGenerating /\ page' = page /\ stored' = stored
    BY DEF Regenerate
  <1>1. view.messages = messages
    BY <1>0, RestIs
  <1>2. requestGeneration \in Nat /\ messages \in Seq(Msgs(requestGeneration))
    BY DEF IndInv, RefInv, ListInv
  <1>3. PICK i \in DOMAIN messages :
           sendChat(createRegeneratedMessages(messages, i, requestGeneration + 1))
    BY <1>1 DEF Regenerate
  <1> DEFINE x == createRegeneratedMessages(messages, i, requestGeneration + 1)
  <1>4. sendChat(x)
    BY <1>3
  <1>5. /\ x # <<>> /\ Target(x) = createLoadingAssistantMessage(requestGeneration + 1)
        /\ \A j \in 1..(Len(x) - 1) : x[j] = messages[j] /\ j \in DOMAIN messages
    BY <1>2, RegeneratedIs
  <1> HIDE DEF x
  <1>6. \A j \in DOMAIN messages : Told(req', messages[j])
    BY <1>4, SentText, MessagesKept DEF TextInv
  <1>7. \A j \in 1..(Len(x) - 1) : Told(req', x[j])
    BY <1>5, <1>6
  <1> QED
    BY <1>0, <1>4, <1>5, <1>7, SendChatText

(* Marks change nothing else of a request, and stay. *)
LEMMA MarkKeeps ==
    ASSUME IndInv, NEW gs, NEW what \in {"edited", "stopped", "left"}, Mark(gs, what)
    PROVE  /\ ReqKept
           /\ \A h \in Gens : /\ req'[h].at = req[h].at /\ req'[h].got = req[h].got
                              /\ req'[h].answer = req[h].answer /\ req'[h].mode = req[h].mode
           /\ \A h \in Gens : h \in gs /\ req[h].at # "none" => req'[h].mark # "none"
  <1>1. ASSUME NEW h \in Gens
        PROVE  /\ req'[h].at = req[h].at /\ req'[h].got = req[h].got
               /\ req'[h].answer = req[h].answer /\ req'[h].mode = req[h].mode
               /\ h \in gs /\ req[h].at # "none" => req'[h].mark # "none"
               /\ req[h].mark # "none" => req'[h].mark # "none"
    <2> DEFINE r == req[h]
               n == [r EXCEPT !.mark = what]
    <2>1. r \in Requests(h)
      BY DEF IndInv, ReqInv
    <2>2. req'[h] = IF h \in gs /\ r.at # "none" /\ r.mark # "edited" THEN n ELSE r
      BY DEF Mark
    <2> HIDE DEF r
    <2>3. /\ n.at = r.at /\ n.got = r.got /\ n.answer = r.answer /\ n.mode = r.mode /\ n.mark = what
      BY <2>1 DEF Requests
    <2> HIDE DEF n
    <2> QED
      BY <2>1, <2>2, <2>3 DEF r
  <1>2. ReqKept
    BY <1>1 DEF ReqKept
  <1> QED
    BY <1>1, <1>2

LEMMA SaveEditText == ASSUME Echoless, IndInv, IndInv', TextInv, SaveEdit PROVE TextInv'
  <1> DEFINE g == requestGeneration
             i == IndexOf(view.messages, editing)
             x == [view.messages EXCEPT ![i].text = EditedText]
  <1>0. page = "open" /\ i # 0 /\ UNCHANGED <<stored, page>>
    BY DEF SaveEdit
  <1>1. view.messages \in Seq(Msgs(g)) /\ g \in Nat
    BY DEF IndInv, RefInv, ListInv
  <1>2. i \in 1..Len(view.messages) /\ view.messages[i].key = editing
    BY <1>0, <1>1, IndexOfIs
  <1>3. /\ x \in Seq(Msgs(g)) /\ Len(x) = Len(view.messages) /\ DOMAIN x = 1..Len(view.messages)
        /\ \A j \in 1..Len(view.messages) : j # i => x[j] = view.messages[j]
    <2> DEFINE n == [view.messages[i] EXCEPT !.text = EditedText]
    <2>1. x = [view.messages EXCEPT ![i] = n] /\ n = [view.messages[i] EXCEPT !.text = EditedText]
      OBVIOUS
    <2> HIDE DEF x, i, n
    <2>2. g \in Nat /\ view.messages \in Seq(Msgs(g)) /\ i \in 1..Len(view.messages)
      BY <1>1, <1>2
    <2> QED
      BY ONLY <2>1, <2>2, EditedIs
  <1>4. x[i].text = EditedText
    <2>1. view.messages[i] \in Msgs(g)
      BY <1>1, <1>2
    <2>2. view.messages[i] = [key |-> view.messages[i].key, status |-> view.messages[i].status,
                              text |-> view.messages[i].text]
      BY <1>1, <2>1, MsgType
    <2> DEFINE n == [view.messages[i] EXCEPT !.text = EditedText]
    <2>3. n.text = EditedText
      BY <2>2
    <2>4. x[i] = n
      BY <1>1, <1>2
    <2> QED
      BY <2>3, <2>4
  <1>5. ASSUME ReqKept PROVE \A j \in DOMAIN x : Told(req', x[j])
    <2>1. \A j \in DOMAIN view.messages : Told(req', view.messages[j])
      BY <1>0, <1>5, ViewTold DEF TextInv
    <2>2. Told(req', x[i])
      BY <1>4 DEF Told, Unedited
    <2>3. DOMAIN view.messages = 1..Len(view.messages)
      BY <1>1
    <2> HIDE DEF x, i
    <2> QED
      BY <1>3, <2>1, <2>2, <2>3
  <1>6. CASE /\ UNCHANGED <<requestGeneration, pending>>
             /\ IF dirty THEN Mark({requestGeneration}, "edited") ELSE UNCHANGED req
             /\ Commit(messages, <<SetTo(x)>>)
    <2>1. Committed /\ messages' = x
      BY <1>6, SetIs
    <2>2. /\ ReqKept
          /\ \A h \in Gens : /\ req'[h].at = req[h].at /\ req'[h].got = req[h].got
                             /\ req'[h].answer = req[h].answer /\ req'[h].mode = req[h].mode
          /\ dirty => \A h \in Gens : h = g /\ req[h].at # "none" => req'[h].mark # "none"
          /\ ~dirty => req' = req
      <3>1. CASE dirty
        BY <1>6, <3>1, MarkKeeps
      <3>2. CASE ~dirty
        BY <1>6, <3>2, SameReqKept
      <3> QED
        BY <3>1, <3>2
    <2>3. queue' = <<>> /\ Outcome' = x
      BY <2>1, RunEmpty DEF Outcome, Committed
    <2>4. StreamInv'
      <3> SUFFICES ASSUME Active'
                   PROVE  /\ pending'.generation = g
                          /\ Streams(req'[g], Target(x).text, pending'.content)
        BY <1>6, <2>3 DEF StreamInv
      <3>1. Active /\ g \in Gens /\ req[g].at # "none"
        BY <1>6, <2>2 DEF Active, At
      <3>2. pending.generation = g /\ Streams(req[g], Target(Outcome).text, pending.content)
        BY <3>1 DEF TextInv, StreamInv
      <3>3. CASE dirty
        <4>1. req'[g].mark # "none"
          BY <2>2, <3>1, <3>3
        <4> QED
          BY <1>6, <2>2, <3>1, <3>2, <4>1 DEF Streams
      <3>4. CASE ~dirty
        <4>1. isGenerating
          BY <1>0, <3>1, ActiveIs
        <4>2. view.messages = messages /\ queue = <<>>
          BY <1>0, <3>4 DEF IndInv, FlowInv
        <4>3. Outcome = messages
          BY <1>0, <4>1, <4>2, OutcomeIs
        <4>4. messages # <<>> /\ editing # <<"assistant", g>> /\ Target(messages).key = <<"assistant", g>>
          BY <1>0, <4>1, FocusIs
        <4>5. i # Len(messages)
          BY <1>2, <4>2, <4>4 DEF Target
        <4>6. Len(messages) \in 1..Len(messages) /\ Len(x) = Len(messages)
          BY <1>1, <1>3, <4>2, <4>4
        <4> HIDE DEF x, i
        <4>7. Target(x) = Target(messages)
          BY <1>3, <4>2, <4>5, <4>6 DEF Target
        <4> QED
          BY <1>6, <2>2, <3>2, <3>4, <4>3, <4>7
      <3> QED
        BY <3>3, <3>4
    <2>5. \A j \in DOMAIN messages' : Told(req', messages'[j])
      BY <1>5, <2>1, <2>2
    <2> QED
      BY <1>0, <2>2, <2>3, <2>4, <2>5, StoredKept, RenderedText DEF TextInv
  <1>7. CASE sendChat(createRegeneratedMessages(x, i, g + 1))
    <2> DEFINE y == createRegeneratedMessages(x, i, g + 1)
    <2>1. /\ y # <<>> /\ Target(y) = createLoadingAssistantMessage(g + 1)
          /\ \A j \in 1..(Len(y) - 1) : y[j] = x[j] /\ j \in DOMAIN x
      <3>1. y = createRegeneratedMessages(x, i, g + 1) /\ i \in DOMAIN x
        BY <1>2, <1>3
      <3> HIDE DEF x, i, y
      <3> QED
        BY <1>1, <1>3, <3>1, RegeneratedIs
    <2>2. sendChat(y)
      BY <1>7
    <2> HIDE DEF y
    <2>3. ReqKept
      BY <2>2, SentText
    <2>4. \A j \in 1..(Len(y) - 1) : Told(req', y[j])
      <3>1. \A j \in DOMAIN x : Told(req', x[j])
        BY <1>5, <2>3
      <3> HIDE DEF x
      <3> QED
        BY <2>1, <3>1
    <2> QED
      BY <1>0, <2>1, <2>2, <2>4, SendChatText
  <1> QED
    BY <1>6, <1>7 DEF SaveEdit

LEMMA OpenEditorText == ASSUME TextInv, OpenEditor PROVE TextInv'
  BY SameText DEF OpenEditor, handlerVars, reactVars

(* What is stored of the messages. *)
LEMMA SavedIs ==
    ASSUME NEW g, NEW ms \in Seq(Msgs(g)), NEW r, NEW gone,
           \A i \in DOMAIN ms : Told(r, ms[i]) /\ Known(r, ms[i], gone)
    PROVE  \A i \in DOMAIN saveMessages(ms) :
               Told(r, saveMessages(ms)[i]) /\ Known(r, saveMessages(ms)[i], gone)
  <1> DEFINE S == {m \in Msgs(g) : Told(r, m) /\ Known(r, m, gone)}
  <1>1. ms \in Seq(S)
    OBVIOUS
  <1>2. saveMessages(ms) \in Seq(S)
    <2> HIDE DEF S
    <2> QED
      BY <1>1, SaveFits
  <1>3. \A i \in DOMAIN saveMessages(ms) : saveMessages(ms)[i] \in S
    <2> HIDE DEF S
    <2> QED
      BY <1>2
  <1> QED
    BY <1>3

(* A pending message is the target, or was edited over. *)
LEMMA PendingIs ==
    ASSUME IndInv, page = "open", NEW i \in DOMAIN messages, isAssistantMessagePending(messages[i])
    PROVE  /\ messages[i].key[2] \in Gens /\ req[messages[i].key[2]].at # "none"
           /\ messages[i].key[2] <= requestGeneration
           /\ req[messages[i].key[2]].mark # "none" \/ messages[i].key[2] = requestGeneration
  <1>0. messages \in Seq(Msgs(requestGeneration)) /\ requestGeneration \in Nat
    BY DEF IndInv, ListInv, RefInv
  <1>1. messages[i] \in Msgs(requestGeneration)
    BY <1>0
  <1>2. messages[i].key[2] \in 0..requestGeneration
    BY <1>0, <1>1, MsgType
  <1>3. CASE Closed(req, messages[i])
    BY <1>2, <1>3 DEF Closed, IndInv, ReqInv
  <1>4. CASE ~Closed(req, messages[i])
    <2>1. isGenerating /\ i = Len(messages)
      <3>1. ~(i \in 1..(Len(messages) - 1)) /\ i \in 1..Len(messages)
        BY <1>0, <1>4 DEF IndInv, StuckInv
      <3> QED
        BY <1>0, <1>4, <3>1 DEF IndInv, StuckInv
    <2>2. messages[i].key = <<"assistant", requestGeneration>>
      BY <2>1, FocusIs DEF Target
    <2> QED
      BY <1>2, <2>1, <2>2, FocusIs
  <1> QED
    BY <1>3, <1>4

LEMMA SaveText == ASSUME IndInv, TextInv, Save PROVE TextInv'
  <1>0. /\ page = "open" /\ stored' = saveMessages(latest)
        /\ UNCHANGED <<requestGeneration, pending, req, messages, queue, view, page>>
    BY DEF Save, handlerVars
  <1>1. messages \in Seq(Msgs(requestGeneration)) /\ latest = messages
    BY DEF IndInv, ListInv
  <1>2. \A i \in DOMAIN messages : Told(req, messages[i]) /\ Known(req, messages[i], FALSE)
    BY <1>0, PendingIs DEF Known, TextInv, ToldInv
  <1>3. \A i \in DOMAIN stored' : Told(req, stored'[i]) /\ Known(req, stored'[i], FALSE)
    BY <1>0, <1>1, <1>2, SavedIs
  <1>4. Outcome' = Outcome
    BY <1>0 DEF Outcome
  <1>5. StreamInv'
    BY <1>0, <1>4 DEF TextInv, StreamInv, Active, At
  <1>6. \A i \in DOMAIN stored' : Known(req', stored'[i], page' # "open")
    BY <1>0, <1>3 DEF Known
  <1>7. (page = "open" /\ isGenerating => Told(req, Target(Outcome)))'
    BY <1>0, <1>4 DEF TextInv, ToldInv, isGenerating
  <1> QED
    BY <1>0, <1>2, <1>3, <1>5, <1>6, <1>7 DEF TextInv, ToldInv

LEMMA StopText == ASSUME IndInv, IndInv', TextInv, Stop PROVE TextInv'
  <1> DEFINE g == requestGeneration
             flush == Flush(g)
             stop == StopUpdaters(g + 1)
  <1>0. /\ page = "open" /\ isGenerating /\ page' = page /\ stored' = stored
        /\ requestGeneration' = g + 1 /\ Mark({g}, "stopped")
    BY DEF Stop
  <1>1. \/ Commit(messages, flush \o stop)
        \/ /\ ~dirty /\ flush # <<>>
           /\ Commit(applyMessageStateUpdate(g, messages, flush[1]), stop)
    BY DEF Stop
  <1>2. /\ g \in Nat /\ g \in Gens /\ req[g].at # "none"
        /\ messages \in Seq(Msgs(g)) /\ messages # <<>>
        /\ queue \in Seq(Reports(g, Kinds))
        /\ Target(messages).key = <<"assistant", g>> /\ Target(messages) \in Msgs(g)
        /\ (Clean(Target(messages)) \/ Fails(Target(messages)))
    BY <1>0, FocusIs
  <1>3. flush \in Seq(Reports(g, Kinds)) /\ (flush # <<>> => flush[1] \in Reports(g, Kinds))
    <2>1. \A f \in Reports(g, {"flush"}) : f \in Reports(g, Kinds)
      BY DEF Reports, Kinds
    <2>2. \A S : <<>> \in Seq(S) /\ \A f \in S : <<f>> \in Seq(S) /\ <<f>>[1] = f
      OBVIOUS
    <2>3. flush = <<>> \/ \E f \in Reports(g, {"flush"}) : flush = <<f>>
      BY FlushIs
    <2> HIDE DEF flush
    <2> QED
      BY <2>1, <2>2, <2>3, Zenon
  <1> HIDE DEF flush
  <1>4. /\ ReqKept /\ \A h \in Gens : req'[h].at = req[h].at
        /\ req'[g].mark # "none"
    <2>1. /\ ReqKept /\ \A h \in Gens : req'[h].at = req[h].at
          /\ \A h \in Gens : h \in {g} /\ req[h].at # "none" => req'[h].mark # "none"
      BY <1>0, MarkKeeps
    <2> QED
      BY <1>2, <2>1
  <1>5. StreamInv'
    BY <1>0, <1>4, NewIs, IdleStreams
  <1>6. ASSUME NEW ms \in Seq(Msgs(g)), ms # <<>>, Target(ms).key = <<"assistant", g>>,
               Len(ms) = Len(messages), \A i \in 1..(Len(ms) - 1) : ms[i] = messages[i],
               NEW q \in Seq(Reports(g, Kinds)), Committed, messages' = Run(g + 1, ms, q \o stop)
        PROVE  TextInv'
    <2>1. /\ messages' \in Seq(Msgs(g)) /\ Len(messages') = Len(ms)
          /\ \A i \in 1..(Len(ms) - 1) : messages'[i] = ms[i]
          /\ Target(messages').key = <<"assistant", g>>
      BY <1>2, <1>6, StopRuns
    <2>2. \A i \in DOMAIN messages : Told(req', messages[i])
      BY <1>4, MessagesKept DEF TextInv
    <2>3. Told(req', Target(messages'))
      BY <1>2, <1>4, <2>1 DEF Told
    <2>4. \A i \in DOMAIN messages' : Told(req', messages'[i])
      <3> SUFFICES ASSUME NEW i \in DOMAIN messages' PROVE Told(req', messages'[i])
        OBVIOUS
      <3>1. CASE i = Len(messages')
        BY <2>3, <3>1 DEF Target
      <3>2. CASE i # Len(messages')
        <4>1. i \in 1..(Len(messages) - 1) /\ i \in DOMAIN messages /\ i \in 1..(Len(ms) - 1)
          BY <1>2, <1>6, <2>1, <3>2
        <4>2. messages'[i] = messages[i]
          BY <1>6, <2>1, <4>1
        <4> QED
          BY <2>2, <4>1, <4>2
      <3> QED
        BY <3>1, <3>2
    <2>5. queue' = <<>>
      BY <1>6 DEF Committed
    <2> QED
      BY <1>0, <1>4, <1>5, <2>4, <2>5, StoredKept, RenderedText DEF TextInv
  <1>7. CASE Commit(messages, flush \o stop)
    <2>1. Committed /\ messages' = Run(g + 1, messages, queue \o (flush \o stop))
      BY <1>0, <1>7, CommitIs
    <2>2. queue \o (flush \o stop) = (queue \o flush) \o stop /\ queue \o flush \in Seq(Reports(g, Kinds))
      <3> DEFINE S == Reports(g, Kinds) \cup {Updater("stop", g + 1, <<>>)}
      <3>1. queue \in Seq(S) /\ flush \in Seq(S) /\ stop \in Seq(S)
        BY <1>2, <1>3 DEF StopUpdaters
      <3>2. \A a, b, c \in Seq(S) : a \o (b \o c) = (a \o b) \o c
        OBVIOUS
      <3>3. queue \o flush \in Seq(Reports(g, Kinds))
        BY <1>2, <1>3
      <3> HIDE DEF S, stop
      <3>4. queue \o (flush \o stop) = (queue \o flush) \o stop
        BY <3>1, <3>2, Zenon
      <3> QED
        BY <3>3, <3>4
    <2> QED
      BY <1>2, <1>6, <2>1, <2>2
  <1>8. CASE /\ ~dirty /\ flush # <<>>
             /\ Commit(applyMessageStateUpdate(g, messages, flush[1]), stop)
    <2> DEFINE x == applyMessageStateUpdate(g, messages, flush[1])
    <2>1. Committed /\ messages' = Run(g + 1, x, queue \o stop)
      BY <1>0, <1>8, CommitIs
    <2>2. x \in Lists(g, messages, Statuses)
      <3>1. messages \in Lists(g, messages, Statuses)
        BY <1>2, MsgType DEF Lists
      <3> QED
        BY <1>2, <1>3, <1>8, <3>1, ReportKeeps
    <2> HIDE DEF x
    <2>3. /\ x \in Seq(Msgs(g)) /\ x # <<>> /\ Target(x).key = <<"assistant", g>>
          /\ Len(x) = Len(messages) /\ \A i \in 1..(Len(x) - 1) : x[i] = messages[i]
      BY <1>2, <2>2 DEF Lists
    <2> QED
      BY <1>2, <1>6, <2>1, <2>3
  <1> QED
    BY <1>1, <1>7, <1>8

LEMMA UnmountText == ASSUME IndInv, TextInv, Unmount PROVE TextInv'
  <1> DEFINE g == requestGeneration
  <1>0. /\ page = "open" /\ page' = "left" /\ requestGeneration' = g + 1 /\ messages' = messages
        /\ Mark({g}, "left")
    BY DEF Unmount
  <1>1. stored' = saveMessages(messages)
    <2>1. latest = messages
      BY DEF IndInv, ListInv
    <2>2. CASE saveTimer
      BY <2>1, <2>2 DEF Unmount, SavedOnUnmount
    <2>3. CASE ~saveTimer
      BY <2>3 DEF Unmount, SavedOnUnmount, IndInv, SaveInv
    <2> QED
      BY <2>2, <2>3
  <1>2. /\ ReqKept /\ \A h \in Gens : req'[h].at = req[h].at
        /\ \A h \in Gens : h \in {g} /\ req[h].at # "none" => req'[h].mark # "none"
    BY <1>0, MarkKeeps
  <1>3. \A i \in DOMAIN messages : Told(req', messages[i])
    BY <1>2, MessagesKept DEF TextInv
  <1>4. \A i \in DOMAIN messages : Known(req', messages[i], TRUE)
    <2> SUFFICES ASSUME NEW i \in DOMAIN messages, isAssistantMessagePending(messages[i])
                 PROVE  /\ messages[i].key[2] \in Gens /\ req'[messages[i].key[2]].at # "none"
                        /\ req'[messages[i].key[2]].mark # "none"
      BY DEF Known
    <2> DEFINE h == messages[i].key[2]
    <2>1. h \in Gens /\ req[h].at # "none" /\ h <= g /\ (req[h].mark # "none" \/ h = g)
      BY <1>0, PendingIs
    <2> HIDE DEF h
    <2>2. h \in Gens /\ req'[h].at # "none" /\ req'[h].mark # "none"
      BY <1>2, <2>1 DEF ReqKept
    <2> QED
      BY <2>2 DEF h
  <1>5. \A i \in DOMAIN stored' : Told(req', stored'[i]) /\ Known(req', stored'[i], TRUE)
    <2>1. messages \in Seq(Msgs(g))
      BY DEF IndInv, ListInv
    <2> QED
      BY <1>1, <1>3, <1>4, <2>1, SavedIs
  <1>6. StreamInv'
    BY <1>0, <1>2, NewIs, IdleStreams
  <1>7. \A i \in DOMAIN stored' : Known(req', stored'[i], page' # "open")
    BY <1>5 DEF Known
  <1>8. (page = "open" /\ isGenerating => Told(req, Target(Outcome)))'
    BY <1>0
  <1> QED
    BY <1>0, <1>3, <1>5, <1>6, <1>7, <1>8 DEF TextInv, ToldInv

LEMMA CloseTabText == ASSUME IndInv, TextInv, CloseTab PROVE TextInv'
  <1> DEFINE g == requestGeneration
  <1>0. /\ page = "open" /\ page' = "closed" /\ requestGeneration' = g + 1 /\ messages' = messages
        /\ stored' = stored /\ Mark(Gens, "left")
    BY DEF CloseTab
  <1>1. /\ ReqKept /\ \A h \in Gens : req'[h].at = req[h].at
        /\ \A h \in Gens : h \in Gens /\ req[h].at # "none" => req'[h].mark # "none"
    BY <1>0, MarkKeeps
  <1>2. \A i \in DOMAIN messages' : Told(req', messages'[i])
    BY <1>0, <1>1, MessagesKept DEF TextInv
  <1>3. \A i \in DOMAIN stored' : Told(req', stored'[i])
    BY <1>0, <1>1, StoredKept DEF TextInv
  <1>4. \A i \in DOMAIN stored' : Known(req', stored'[i], page' # "open")
    BY <1>0, <1>1 DEF Known, TextInv, ToldInv
  <1>5. StreamInv'
    BY <1>0, <1>1, NewIs, IdleStreams
  <1>6. (page = "open" /\ isGenerating => Told(req, Target(Outcome)))'
    BY <1>0
  <1> QED
    BY <1>2, <1>3, <1>4, <1>5, <1>6 DEF TextInv, ToldInv

LEMMA MountText == ASSUME IndInv, IndInv', TextInv, Mount PROVE TextInv'
  <1> DEFINE g == requestGeneration
             x == loadMessages
  <1>0. /\ page # "open" /\ page' = "open" /\ messages' = x /\ stored' = x
        /\ UNCHANGED <<requestGeneration, req, queue>>
    BY DEF Mount
  <1>1. ~Active /\ queue = <<>>
    BY <1>0 DEF IndInv, FlowInv
  <1>2. g \in Nat /\ stored \in Seq(Msgs(g))
    BY DEF IndInv, RefInv, ListInv
  <1>3. /\ x \in Seq(Msgs(g)) /\ Len(x) = Len(stored)
        /\ \A i \in 1..Len(stored) :
             /\ x[i].key = stored[i].key
             /\ isAssistantMessagePending(x[i]) => isAssistantMessagePending(stored[i])
             /\ x[i] = stored[i] \/ x[i].status = "error" \/ isAssistantMessagePending(stored[i])
    BY <1>2, LoadIs
  <1> HIDE DEF x
  <1>4. \A i \in DOMAIN x : Told(req, x[i]) /\ Known(req, x[i], FALSE)
    <2> SUFFICES ASSUME NEW i \in DOMAIN x PROVE Told(req, x[i]) /\ Known(req, x[i], FALSE)
      OBVIOUS
    <2>1. i \in 1..Len(stored) /\ i \in DOMAIN stored
      BY <1>2, <1>3
    <2>2. Told(req, stored[i]) /\ Known(req, stored[i], page # "open")
      BY <2>1 DEF TextInv, ToldInv
    <2>3. Known(req, x[i], FALSE)
      BY <1>3, <2>1, <2>2 DEF Known
    <2>4. CASE x[i] = stored[i]
      BY <2>2, <2>3, <2>4
    <2>5. CASE x[i].status = "error"
      BY <2>3, <2>5, OpenTold
    <2>6. CASE isAssistantMessagePending(stored[i])
      <3>1. x[i].key[2] \in Gens /\ req[x[i].key[2]].mark # "none"
        BY <1>0, <1>3, <2>1, <2>2, <2>6 DEF Known
      <3> QED
        BY <2>3, <3>1 DEF Told
    <2> QED
      BY <1>3, <2>1, <2>4, <2>5, <2>6
  <1>5. StreamInv'
    BY <1>0, <1>1, IdleStreams DEF Active, At
  <1> QED
    BY <1>0, <1>1, <1>4, <1>5, RenderedText

-----------------------------------------------------------------------------
LEMMA TextInit == Init => TextInv
  <1> SUFFICES ASSUME Init PROVE TextInv
    OBVIOUS
  <1>0. /\ requestGeneration = 0 /\ messages = <<>> /\ page = "closed"
        /\ stored = <<createUserMessage(None)>>
    BY DEF Init
  <1>1. ~Active
    BY <1>0 DEF Active, At, Gens
  <1>2. \A r : Told(r, createUserMessage(None)) /\ Known(r, createUserMessage(None), TRUE)
    BY DEF createUserMessage, Told, Known, From, isAssistantMessagePending
  <1>3. DOMAIN stored = {1} /\ stored[1] = createUserMessage(None) /\ DOMAIN messages = {}
    BY <1>0
  <1>4. \A i \in DOMAIN stored : Known(req, stored[i], page # "open")
    BY <1>2, <1>3 DEF Known
  <1> QED
    BY <1>0, <1>1, <1>2, <1>3, <1>4 DEF TextInv, StreamInv, ToldInv

LEMMA TextNext == ASSUME Echoless PROVE IndInv /\ TextInv /\ [Next]_vars => TextInv'
  <1> SUFFICES ASSUME IndInv, TextInv, [Next]_vars PROVE TextInv'
    OBVIOUS
  <1>0. IndInv'
    BY IndNext
  <1>1. CASE User
    BY <1>0, <1>1, SendsText, RegenerateText, DeleteText, ClearText, OpenEditorText,
       SaveEditText, StopText, UnmountText, CloseTabText, MountText DEF User
  <1>2. CASE Browser
    BY <1>0, <1>2, RenderText, FlushTimerText, SaveText DEF Browser
  <1>3. CASE \E g \in Gens : Network(g)
    BY <1>0, <1>3, ReceiveHeadersText, ReceiveChunkText, ReceiveDoneText, StreamErrorText,
       CloseQuietlyText, ReceiveResponseText DEF Network
  <1>4. CASE UNCHANGED vars
    BY <1>4, SameText DEF vars, handlerVars, reactVars
  <1> QED
    BY <1>1, <1>2, <1>3, <1>4 DEF Next

(* If no upstream that speaks in deltas repeats itself at once, an answer  *)
(* that is complete, that the user neither stopped nor left nor saved an   *)
(* edit over, is everything the upstream said, each token once and in      *)
(* order, however chunks, flush timer, rendering and [DONE] interleave.    *)
THEOREM FullAnswerCorrect == ASSUME Echoless PROVE Spec => []FullAnswer
  <1>1. TextInv => FullAnswer
    <2> SUFFICES ASSUME TextInv, NEW i \in DOMAIN messages,
                        From(messages[i]) = "assistant", messages[i].status = "complete",
                        Unedited(messages[i]), req[messages[i].key[2]].mark = "none"
                 PROVE  messages[i].text = req[messages[i].key[2]].answer
      BY DEF FullAnswer
    <2>1. Told(req, messages[i])
      BY DEF TextInv, ToldInv
    <2> QED
      BY <2>1 DEF Told
  <1>2. IndInv /\ TextInv /\ [Next]_vars => TextInv'
    BY TextNext
  <1> QED
    BY <1>1, <1>2, TextInit, IndCorrect, PTL DEF Spec
=============================================================================
