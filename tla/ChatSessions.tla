---------------------------- MODULE ChatSessions ----------------------------
(***************************************************************************)
(* The AI assistant's chats: the sessions and messages in the database,    *)
(* the handler of POST /api/ollama/chat that stores a question, streams    *)
(* the answer, stores it and names the session, and the chat page, which   *)
(* keeps a copy of the messages of the session it shows.  Several handlers *)
(* run at once, and the page does not wait for one before it moves on.     *)
(* What a message says, and which documents are added to it, is left out.  *)
(***************************************************************************)
EXTENDS Naturals, Sequences, SequencesExt

CONSTANTS
    MaxSessions,  \* bound: sessions created
    MaxSends,     \* bound: messages the user sends
    MaxSelects,   \* bound: sessions the user opens, or leaves for a new chat
    MaxDeletes,   \* bound: calls that delete sessions
    MaxRestarts   \* bound: restarts of the server

ASSUME ChatAssumption ==
    /\ MaxSessions \in Nat \ {0} /\ MaxSends \in Nat \ {0}
    /\ MaxSelects \in Nat /\ MaxDeletes \in Nat /\ MaxRestarts \in Nat

VARIABLES
    created,   \* sessions created so far: they are 1 .. created
    live,      \* the sessions in chat_sessions
    title,     \* the message a title was made from, or NewChat
    log,       \* the rows of chat_messages, by session
    sent,      \* messages sent so far: they are 1 .. sent
    home,      \* the session each was sent to
    stage,     \* how far its handler is
    wrote,     \* messages whose answer has begun to stream
    reply,     \* how the stream to the page ended
    active,    \* activeSessionId
    shown,     \* messages
    loading,   \* isStreamingResponse
    page,      \* how far handleSendMessage is with each message
    loads,     \* sessions handleSessionSelect is waiting for
    selects, deletes, restarts

dbVars == <<created, live, title, log>>
serverVars == <<stage, wrote, reply>>
pageVars == <<active, shown, loading, page, loads, sent, home>>
bounds == <<selects, deletes, restarts>>
vars == <<dbVars, serverVars, pageVars, bounds>>

Session == 1 .. MaxSessions
Send == 1 .. MaxSends
NoSession == 0
NewChat == 0

Stored == {"user", "assistant"} \X Send
\* On the page an answer is there before it is complete, and so is an apology.
Shown == {"user", "assistant", "partial", "sorry"} \X Send

Working == {"prepare", "touch question", "ask", "stream", "save answer",
            "touch answer", "count", "title"}
Stages == Working \cup {"none", "done", "failed", "lost"}

TypeOK ==
    /\ created \in 0 .. MaxSessions /\ live \subseteq 1 .. created
    /\ title \in [Session -> {NewChat} \cup Send]
    /\ log \in [Session -> Seq(Stored)]
    /\ sent \in 0 .. MaxSends
    /\ home \in [Send -> {NoSession} \cup Session]
    /\ stage \in [Send -> Stages]
    /\ wrote \subseteq Send
    /\ reply \in [Send -> {"none", "end", "error"}]
    /\ active \in 0 .. created
    /\ shown \in Seq(Shown)
    /\ loading \in BOOLEAN
    /\ page \in [Send -> {"none", "creating", "waiting", "streaming", "closed"}]
    /\ loads \subseteq 1 .. created
    /\ selects \in 0 .. MaxSelects /\ deletes \in 0 .. MaxDeletes
    /\ restarts \in 0 .. MaxRestarts
    /\ \A k \in Send : stage[k] # "none" => home[k] \in 1 .. created

Init ==
    /\ created = 0 /\ live = {}
    /\ title = [s \in Session |-> NewChat]
    /\ log = [s \in Session |-> <<>>]
    /\ sent = 0
    /\ home = [k \in Send |-> NoSession]
    /\ stage = [k \in Send |-> "none"]
    /\ wrote = {}
    /\ reply = [k \in Send |-> "none"]
    /\ active = NoSession /\ shown = <<>> /\ loading = FALSE
    /\ page = [k \in Send |-> "none"]
    /\ loads = {}
    /\ selects = 0 /\ deletes = 0 /\ restarts = 0

-----------------------------------------------------------------------------
(* The handler of a message, in the server *)

\* The stream to the page ends with an error, and the handler with it.
Fail(k) ==
    /\ stage' = [stage EXCEPT ![k] = "failed"]
    /\ reply' = [reply EXCEPT ![k] = IF @ = "none" THEN "error" ELSE @]

\* addMessage, first half: the row refers to its session, which must be there.
Insert(k, role, next) ==
    IF home[k] \in live
    THEN /\ log' = [log EXCEPT ![home[k]] = Append(@, <<role, k>>)]
         /\ stage' = [stage EXCEPT ![k] = next]
         /\ UNCHANGED reply
    ELSE Fail(k) /\ UNCHANGED log

\* addMessage, second half: the session is looked up again, and saved.
Touch(k, next) ==
    IF home[k] \in live
    THEN stage' = [stage EXCEPT ![k] = next] /\ UNCHANGED reply
    ELSE Fail(k)

\* The question is stored once Ollama has been asked about the model.
SaveQuestion(k) ==
    /\ stage[k] = "prepare"
    /\ \/ Insert(k, "user", "touch question")
       \/ Fail(k) /\ UNCHANGED log
    /\ UNCHANGED <<created, live, title, wrote, pageVars, bounds>>

TouchQuestion(k) ==
    /\ stage[k] = "touch question"
    /\ Touch(k, "ask")
    /\ UNCHANGED <<dbVars, wrote, pageVars, bounds>>

\* Something of the answer arrives; or the model fails before it.
FirstChunk(k) ==
    /\ stage[k] = "ask"
    /\ \/ /\ stage' = [stage EXCEPT ![k] = "stream"]
          /\ wrote' = wrote \cup {k}
          /\ UNCHANGED reply
       \/ Fail(k) /\ UNCHANGED wrote
    /\ UNCHANGED <<dbVars, pageVars, bounds>>

\* The page sees the end before the answer is stored; an empty answer is not stored.
EndStream(k) ==
    /\ stage[k] = "stream"
    /\ \/ /\ \E next \in {"save answer", "done"} : stage' = [stage EXCEPT ![k] = next]
          /\ reply' = [reply EXCEPT ![k] = "end"]
       \/ Fail(k)
    /\ UNCHANGED <<dbVars, wrote, pageVars, bounds>>

\* Mutation: the answer is stored whether its session is there or not.
SaveAnswerUnchecked(k) ==
    /\ stage[k] = "save answer"
    /\ log' = [log EXCEPT ![home[k]] = Append(@, <<"assistant", k>>)]
    /\ stage' = [stage EXCEPT ![k] = "touch answer"]
    /\ UNCHANGED <<created, live, title, wrote, reply, pageVars, bounds>>

SaveAnswer(k) ==
    /\ stage[k] = "save answer"
    /\ Insert(k, "assistant", "touch answer")
    /\ UNCHANGED <<created, live, title, wrote, pageVars, bounds>>

TouchAnswer(k) ==
    /\ stage[k] = "touch answer"
    /\ Touch(k, "count")
    /\ UNCHANGED <<dbVars, wrote, pageVars, bounds>>

\* Mutation: the limit is one message too high.
CountMessagesLate(k) ==
    /\ stage[k] = "count"
    /\ stage' = [stage EXCEPT ![k] = IF Len(log[home[k]]) <= 3 THEN "title" ELSE "done"]
    /\ UNCHANGED <<dbVars, wrote, reply, pageVars, bounds>>

\* Only the first exchange of a session names it.
CountMessages(k) ==
    /\ stage[k] = "count"
    /\ stage' = [stage EXCEPT ![k] = IF Len(log[home[k]]) <= 2 THEN "title" ELSE "done"]
    /\ UNCHANGED <<dbVars, wrote, reply, pageVars, bounds>>

\* Mutation: a title that cannot be generated is not replaced by the question.
GenerateTitleOrNot(k) ==
    /\ stage[k] = "title"
    /\ stage' = [stage EXCEPT ![k] = "done"]
    /\ \/ title' = [title EXCEPT ![home[k]] = IF home[k] \in live THEN k ELSE @]
       \/ UNCHANGED title
    /\ UNCHANGED <<created, live, log, wrote, reply, pageVars, bounds>>

\* The model's words, or the question cut short; of a deleted session, nothing.
GenerateTitle(k) ==
    /\ stage[k] = "title"
    /\ stage' = [stage EXCEPT ![k] = "done"]
    /\ title' = [title EXCEPT ![home[k]] = IF home[k] \in live THEN k ELSE @]
    /\ UNCHANGED <<created, live, log, wrote, reply, pageVars, bounds>>

Handler(k) ==
    \/ SaveQuestion(k) \/ TouchQuestion(k) \/ FirstChunk(k) \/ EndStream(k)
    \/ SaveAnswer(k) \/ TouchAnswer(k) \/ CountMessages(k) \/ GenerateTitle(k)

\* Sessions go with their messages, through the API or another page.
Delete ==
    /\ deletes < MaxDeletes
    /\ \E gone \in {{s} : s \in live} \cup {live} :
         /\ gone # {}
         /\ live' = live \ gone
         /\ log' = [s \in Session |-> IF s \in gone THEN <<>> ELSE log[s]]
    /\ deletes' = deletes + 1
    /\ UNCHANGED <<created, title, serverVars, pageVars, selects, restarts>>

\* The handlers die with the process; the page's requests end in an error.
Restart ==
    /\ restarts < MaxRestarts
    /\ restarts' = restarts + 1
    /\ stage' = [k \in Send |-> IF stage[k] \in Working THEN "lost" ELSE stage[k]]
    /\ reply' = [k \in Send |-> IF stage[k] \in Working /\ reply[k] = "none"
                                THEN "error" ELSE reply[k]]
    /\ page' = [k \in Send |-> IF page[k] = "creating" THEN "closed" ELSE page[k]]
    /\ UNCHANGED <<dbVars, wrote, active, shown, loading, loads, sent, home,
                   selects, deletes>>

-----------------------------------------------------------------------------
(* The page *)

\* Mutation: the request carries the session that was active, not the one just created.
PostToActive(k, s) ==
    /\ shown' = Append(shown, <<"user", k>>)
    /\ loading' = TRUE
    /\ page' = [page EXCEPT ![k] = "waiting"]
    /\ home' = [home EXCEPT ![k] = active]
    /\ stage' = [stage EXCEPT ![k] = "prepare"]

\* The question is shown at once, and the request sent.
Post(k, s) ==
    /\ shown' = Append(shown, <<"user", k>>)
    /\ loading' = TRUE
    /\ page' = [page EXCEPT ![k] = "waiting"]
    /\ home' = [home EXCEPT ![k] = s]
    /\ stage' = [stage EXCEPT ![k] = "prepare"]

\* handleSendMessage; in a new chat it first asks for a session.
SendMessage ==
    /\ ~loading
    /\ sent < MaxSends
    /\ sent' = sent + 1
    /\ IF active = NoSession
       THEN /\ page' = [page EXCEPT ![sent + 1] = "creating"]
            /\ UNCHANGED <<shown, loading, home, stage>>
       ELSE Post(sent + 1, active)
    /\ UNCHANGED <<dbVars, wrote, reply, active, loads, bounds>>

\* The new session becomes the active one, whatever the user has opened meanwhile.
SessionCreated(k) ==
    /\ page[k] = "creating"
    /\ created < MaxSessions
    /\ created' = created + 1
    /\ live' = live \cup {created + 1}
    /\ active' = created + 1
    /\ Post(k, created + 1)
    /\ UNCHANGED <<title, log, sent, wrote, reply, loads, bounds>>

\* The first chunk appends the answer to what is shown, and lets the user write again.
ShowAnswer(k) ==
    /\ page[k] = "waiting"
    /\ k \in wrote
    /\ page' = [page EXCEPT ![k] = "streaming"]
    /\ shown' = Append(shown, <<"partial", k>>)
    /\ loading' = FALSE
    /\ UNCHANGED <<dbVars, serverVars, active, loads, sent, home, bounds>>

\* The answer that is being shown, if it still is, is complete as it stands.
Settled(k) ==
    [i \in DOMAIN shown |-> IF shown[i] = <<"partial", k>> THEN <<"assistant", k>> ELSE shown[i]]

\* Mutation: only the stream's good end lets the user write again.
EndAnswerLoading(k) ==
    /\ page[k] \in {"waiting", "streaming"}
    /\ reply[k] # "none"
    /\ k \in wrote => page[k] = "streaming"
    /\ page' = [page EXCEPT ![k] = "closed"]
    /\ loading' = (loading /\ reply[k] = "error")
    /\ shown' = IF reply[k] = "error" /\ <<"partial", k>> \notin Range(shown)
                THEN Append(shown, <<"sorry", k>>)
                ELSE Settled(k)
    /\ UNCHANGED <<dbVars, serverVars, active, loads, sent, home, bounds>>

\* An error is told only if nothing of the answer is there.
EndAnswer(k) ==
    /\ page[k] \in {"waiting", "streaming"}
    /\ reply[k] # "none"
    /\ k \in wrote => page[k] = "streaming"
    /\ page' = [page EXCEPT ![k] = "closed"]
    /\ loading' = FALSE
    /\ shown' = IF reply[k] = "error" /\ <<"partial", k>> \notin Range(shown)
                THEN Append(shown, <<"sorry", k>>)
                ELSE Settled(k)
    /\ UNCHANGED <<dbVars, serverVars, active, loads, sent, home, bounds>>

\* handleSessionSelect: the session is active before its messages are here.
SelectSession ==
    /\ selects < MaxSelects
    /\ selects' = selects + 1
    /\ \E s \in 1 .. created :
         /\ active' = s
         /\ loads' = loads \cup {s}
    /\ UNCHANGED <<dbVars, serverVars, shown, loading, page, sent, home, deletes, restarts>>

\* Its messages replace what is shown; a session that is gone has none.
SessionLoaded(s) ==
    /\ s \in loads
    /\ loads' = loads \ {s}
    /\ shown' = log[s]
    /\ UNCHANGED <<dbVars, serverVars, active, loading, page, sent, home, bounds>>

NewConversation ==
    /\ selects < MaxSelects
    /\ selects' = selects + 1
    /\ active' = NoSession
    /\ shown' = <<>>
    /\ UNCHANGED <<dbVars, serverVars, loading, page, loads, sent, home, deletes, restarts>>

\* deleteAllSessionsMutation and its onSuccess.
ClearHistory ==
    /\ deletes < MaxDeletes
    /\ deletes' = deletes + 1
    /\ live' = {}
    /\ log' = [s \in Session |-> <<>>]
    /\ active' = NoSession
    /\ shown' = <<>>
    /\ UNCHANGED <<created, title, serverVars, loading, page, loads, sent, home,
                   selects, restarts>>

\* What the browser does with the server's replies.
Replies ==
    \/ \E k \in Send : SessionCreated(k) \/ ShowAnswer(k) \/ EndAnswer(k)
    \/ \E s \in Session : SessionLoaded(s)

User == SendMessage \/ SelectSession \/ NewConversation \/ ClearHistory

Next == (\E k \in Send : Handler(k)) \/ Delete \/ Restart \/ Replies \/ User

Spec == Init /\ [][Next]_vars

\* A handler runs on its own and a stream ends, well or not; the browser delivers.
FairSpec ==
    /\ Spec
    /\ \A k \in Send : WF_vars(Handler(k))
    /\ \A k \in Send : WF_vars(ShowAnswer(k) \/ EndAnswer(k))

-----------------------------------------------------------------------------
(* Properties *)

\* In every session an answer comes after the question it answers, each is there once,
\* and none outlives its session, however handlers, deletions and restarts overlap
\* (ollama_controller.ts:114-140, the foreign key of chat_messages).
AnswersInPlace ==
    \A s \in Session :
        /\ s \notin live => log[s] = <<>>
        /\ \A i, j \in DOMAIN log[s] : log[s][i] = log[s][j] => i = j
        /\ \A i \in DOMAIN log[s] :
             /\ home[log[s][i][2]] = s
             /\ log[s][i][1] = "assistant" =>
                  \E j \in 1 .. i - 1 : log[s][j] = <<"user", log[s][i][2]>>

\* A session is named after its own first exchange, though the count that decides it is
\* taken after other handlers may have stored messages (ollama_controller.ts:138-145).
TitleOfFirst ==
    \A s \in live :
        title[s] # NewChat =>
            /\ Len(log[s]) >= 2
            /\ log[s][1] = <<"user", title[s]>>
            /\ log[s][2] = <<"assistant", title[s]>>

\* A session with one exchange keeps the name "New Chat" only while its handler is at
\* work or was lost with the server (chat_service.ts:235-274).
TitledWhenAnswered ==
    \A s \in live, k \in Send :
        log[s] = << <<"user", k>>, <<"assistant", k>> >> /\ stage[k] = "done"
            => title[s] = k

\* The user can write again, whatever became of the answer (index.tsx:316-319).
InputFrees == loading ~> ~loading

\* Nothing is under way on the page.
Still == loads = {} /\ \A k \in Send : page[k] \in {"none", "closed"} /\ stage[k] \notin Working

\* "Refresh sessions to pick up backend-persisted messages and title" (index.tsx:329):
\* at rest the page shows the answers of the session it is in.
ShowsSavedAnswers ==
    Still /\ active \in live =>
        \A i \in DOMAIN log[active] :
            log[active][i][1] = "assistant" => log[active][i] \in Range(shown)

-----------------------------------------------------------------------------
(* The conversations it implements *)

\* How far a message got, for whoever reads the tables.
Progress(st) ==
    IF st = "none" THEN "unsent"
    ELSE IF st = "prepare" THEN "sent"
    ELSE IF st \in {"touch question", "ask", "stream", "save answer"} THEN "asked"
    ELSE IF st \in {"touch answer", "count", "title"} THEN "answered"
    ELSE "over"

Conv == INSTANCE Conversations WITH
    Session  <- Session,
    Message  <- Send,
    None     <- 0,
    opened   <- 1 .. created,
    present  <- live,
    name     <- title,
    rows     <- log,
    place    <- home,
    progress <- [k \in Send |-> Progress(stage[k])]

\* However handlers, pages, deletions and restarts overlap, the tables keep to the order of
\* a conversation: question, answer, and one name from the first exchange; nothing is added
\* to a session that is gone, and nothing but its deletion takes a row away
\* (ollama_controller.ts:108-145, chat_service.ts:179-274).
KeepsConversations == Conv!ConvSpec

=============================================================================
