------------------------- MODULE ChatSessionsProofs -------------------------
(***************************************************************************)
(* The order of the messages in a session and the session's name, for any  *)
(* number of sessions, messages, deletions and restarts.  None of the      *)
(* handlers of a message looks at what the others store, so the invariant  *)
(* says of each stage of a handler which of its two rows are in the table. *)
(***************************************************************************)
EXTENDS ChatSessions, SequenceTheorems, TLAPS

Has(s, m) == \E i \in DOMAIN log[s] : log[s][i] = m

Question(k) == <<"user", k>>
Answer(k) == <<"assistant", k>>

Unstored(k) ==
    stage[k] \in {"none", "prepare"} =>
        \A s \in Session : ~Has(s, Question(k)) /\ ~Has(s, Answer(k))

Asking == {"touch question", "ask", "stream", "save answer"}

Asked(k) ==
    stage[k] \in Asking =>
        /\ home[k] \in live => Has(home[k], Question(k))
        /\ \A s \in Session : ~Has(s, Answer(k))

Answered(k) ==
    stage[k] \in {"touch answer", "count"} /\ home[k] \in live =>
        Has(home[k], Question(k)) /\ Has(home[k], Answer(k))

FirstExchange(s, k) ==
    Len(log[s]) >= 2 /\ log[s][1] = Question(k) /\ log[s][2] = Answer(k)

Titling(k) == stage[k] = "title" /\ home[k] \in live => FirstExchange(home[k], k)

Done(k) ==
    stage[k] = "done" /\ home[k] \in live =>
        \/ title[home[k]] # NewChat
        \/ Len(log[home[k]]) > 2
        \/ ~Has(home[k], Answer(k))

StageInv == \A k \in Send : Unstored(k) /\ Asked(k) /\ Answered(k) /\ Titling(k) /\ Done(k)

PageInv ==
    \A k \in Send : /\ k > sent => stage[k] = "none" /\ page[k] = "none"
                    /\ page[k] = "creating" => stage[k] = "none"

\* A session that does not exist yet has no name.
Unnamed == \A s \in Session : s > created => title[s] = NewChat

Inv == TypeOK /\ StageInv /\ PageInv /\ Unnamed /\ AnswersInPlace /\ TitleOfFirst

-----------------------------------------------------------------------------
(* The logs *)

LEMMA LogTyped ==
    ASSUME TypeOK, NEW s \in Session
    PROVE  /\ log[s] \in Seq(Stored) /\ Len(log[s]) \in Nat
           /\ DOMAIN log[s] = 1 .. Len(log[s])
           /\ \A i \in DOMAIN log[s] : \E k \in Send : log[s][i] \in {Question(k), Answer(k)}
<1>1. log[s] \in Seq(Stored)
  BY DEF TypeOK
<1>2. \A i \in DOMAIN log[s] : log[s][i] \in Stored
  BY <1>1
<1> QED BY <1>1, <1>2 DEF Stored, Question, Answer

LEMMA LiveSessions ==
    ASSUME TypeOK
    PROVE  live \subseteq Session /\ created \in Nat /\ 1 .. created \subseteq Session
BY ChatAssumption DEF TypeOK, Session

LEMMA TwoRows ==
    ASSUME NEW j, NEW k PROVE Question(j) # Answer(k) /\ (Question(j) = Question(k) => j = k)
                              /\ (Answer(j) = Answer(k) => j = k)
                              /\ Question(j)[2] = j /\ Answer(j)[2] = j
                              /\ Question(j)[1] = "user" /\ Answer(j)[1] = "assistant"
BY DEF Question, Answer

\* What appending a row does to the logs.
Appended(s, m) ==
    /\ \A t \in Session \ {s} : log'[t] = log[t]
    /\ Len(log'[s]) = Len(log[s]) + 1
    /\ \A i \in 1 .. Len(log[s]) : log'[s][i] = log[s][i]
    /\ log'[s][Len(log[s]) + 1] = m
    /\ DOMAIN log'[s] = 1 .. Len(log[s]) + 1

LEMMA AppendRow ==
    ASSUME TypeOK, NEW s \in Session, NEW m \in Stored,
           log' = [log EXCEPT ![s] = Append(@, m)]
    PROVE  log' \in [Session -> Seq(Stored)] /\ Appended(s, m)
<1>1. log[s] \in Seq(Stored)
  BY DEF TypeOK
<1>2. /\ Append(log[s], m) \in Seq(Stored)
      /\ Len(Append(log[s], m)) = Len(log[s]) + 1
      /\ \A i \in 1 .. Len(log[s]) : Append(log[s], m)[i] = log[s][i]
      /\ Append(log[s], m)[Len(log[s]) + 1] = m
      /\ DOMAIN Append(log[s], m) = 1 .. Len(log[s]) + 1
  BY <1>1, AppendProperties
<1>3. log' = [log EXCEPT ![s] = Append(log[s], m)]
  OBVIOUS
<1>4. log' \in [Session -> Seq(Stored)] /\ log'[s] = Append(log[s], m)
      /\ \A t \in Session \ {s} : log'[t] = log[t]
  BY <1>2, <1>3 DEF TypeOK
<1> QED BY <1>2, <1>4 DEF Appended

LEMMA AppendedHas ==
    ASSUME TypeOK, NEW s \in Session, NEW m, Appended(s, m)
    PROVE  \A t \in Session : \A n : Has(t, n)' <=> (Has(t, n) \/ (t = s /\ n = m))
<1> SUFFICES ASSUME NEW t \in Session, NEW n
             PROVE  Has(t, n)' <=> (Has(t, n) \/ (t = s /\ n = m))
  OBVIOUS
<1>1. CASE t # s
  BY <1>1 DEF Appended, Has
<1>2. CASE t = s
  <2>1. Len(log[s]) \in Nat /\ DOMAIN log[s] = 1 .. Len(log[s])
    BY LogTyped
  <2>2. 1 .. Len(log[s]) + 1 = 1 .. Len(log[s]) \cup {Len(log[s]) + 1}
    BY <2>1
  <2> QED BY <1>2, <2>1, <2>2 DEF Appended, Has
<1> QED BY <1>1, <1>2

\* A row of its own leaves every session in order.
LEMMA AppendedInPlace ==
    ASSUME Inv, NEW k \in Send, home[k] \in live, UNCHANGED <<live, home>>,
           NEW m, Appended(home[k], m), ~Has(home[k], m),
           \/ m = Question(k)
           \/ m = Answer(k) /\ Has(home[k], Question(k))
    PROVE  AnswersInPlace'
<1> USE DEF Inv
<1>1. home[k] \in Session
  BY LiveSessions
<1> DEFINE h == home[k]
           n == Len(log[h])
<1>2. n \in Nat /\ DOMAIN log[h] = 1 .. n /\ DOMAIN log'[h] = 1 .. n + 1
      /\ log'[h][n + 1] = m /\ \A i \in 1 .. n : log'[h][i] = log[h][i]
  BY <1>1, LogTyped DEF Appended
<1>3. ASSUME NEW s \in Session, s # h
      PROVE  /\ s \notin live' => log'[s] = <<>>
             /\ \A i, j \in DOMAIN log'[s] : log'[s][i] = log'[s][j] => i = j
             /\ \A i \in DOMAIN log'[s] :
                  /\ home'[log'[s][i][2]] = s
                  /\ log'[s][i][1] = "assistant" =>
                       \E j \in 1 .. i - 1 : log'[s][j] = <<"user", log'[s][i][2]>>
  <2>1. log'[s] = log[s]
    BY <1>3 DEF Appended
  <2>2. /\ s \notin live => log[s] = <<>>
        /\ \A i, j \in DOMAIN log[s] : log[s][i] = log[s][j] => i = j
        /\ \A i \in DOMAIN log[s] :
             /\ home[log[s][i][2]] = s
             /\ log[s][i][1] = "assistant" =>
                  \E j \in 1 .. i - 1 : log[s][j] = <<"user", log[s][i][2]>>
    BY <1>3 DEF AnswersInPlace
  <2>3. live' = live /\ home' = home
    OBVIOUS
  <2> QED BY <2>1, <2>2, <2>3
<1>4. \A i, j \in DOMAIN log'[h] : log'[h][i] = log'[h][j] => i = j
  <2>1. \A i \in 1 .. n : log[h][i] # m
    BY <1>2 DEF Has
  <2>2. \A i, j \in 1 .. n : log[h][i] = log[h][j] => i = j
    BY <1>1, <1>2 DEF AnswersInPlace
  <2>3. SUFFICES ASSUME NEW i \in 1 .. n + 1, NEW j \in 1 .. n + 1,
                        log'[h][i] = log'[h][j]
                 PROVE  i = j
    BY <1>2
  <2>4. CASE i \in 1 .. n /\ j \in 1 .. n
    BY <1>2, <2>2, <2>3, <2>4
  <2>5. CASE i = n + 1 \/ j = n + 1
    <3>1. \A l \in 1 .. n : log'[h][l] # log'[h][n + 1]
      BY <1>2, <2>1
    <3>2. \A l \in 1 .. n + 1 : l \in 1 .. n \/ l = n + 1
      BY <1>2
    <3> QED BY <2>3, <2>5, <3>1, <3>2
  <2>6. i \in 1 .. n \/ i = n + 1
    BY <1>2
  <2>7. j \in 1 .. n \/ j = n + 1
    BY <1>2
  <2> QED BY <2>4, <2>5, <2>6, <2>7
<1>5. ASSUME NEW i \in DOMAIN log'[h]
      PROVE  /\ home'[log'[h][i][2]] = h
             /\ log'[h][i][1] = "assistant" =>
                  \E j \in 1 .. i - 1 : log'[h][j] = <<"user", log'[h][i][2]>>
  <2>1. CASE i \in 1 .. n
    <3>1. /\ home[log[h][i][2]] = h
          /\ log[h][i][1] = "assistant" =>
               \E j \in 1 .. i - 1 : log[h][j] = <<"user", log[h][i][2]>>
      BY <1>1, <1>2, <2>1 DEF AnswersInPlace
    <3>2. log'[h][i] = log[h][i] /\ \A j \in 1 .. i - 1 : log'[h][j] = log[h][j]
      BY <1>2, <2>1
    <3> QED BY <3>1, <3>2
  <2>2. CASE i = n + 1
    <3>1. log'[h][i] = m /\ m[2] = k
      BY <1>2, <2>2, TwoRows
    <3>2. CASE m = Question(k)
      BY <3>1, <3>2, TwoRows
    <3>3. CASE m = Answer(k) /\ Has(h, Question(k))
      <4>1. PICK j \in 1 .. n : log[h][j] = Question(k)
        BY <1>2, <3>3 DEF Has
      <4>2. j \in 1 .. i - 1 /\ log'[h][j] = Question(k)
        BY <1>2, <2>2, <4>1
      <4> QED BY <3>1, <4>2 DEF Question
    <3> QED BY <3>2, <3>3
  <2> QED BY <1>2, <2>1, <2>2
<1>6. h \in live'
  OBVIOUS
<1> HIDE DEF h, n
<1>7. ASSUME NEW s \in Session
      PROVE  /\ s \notin live' => log'[s] = <<>>
             /\ \A i, j \in DOMAIN log'[s] : log'[s][i] = log'[s][j] => i = j
             /\ \A i \in DOMAIN log'[s] :
                  /\ home'[log'[s][i][2]] = s
                  /\ log'[s][i][1] = "assistant" =>
                       \E j \in 1 .. i - 1 : log'[s][j] = <<"user", log'[s][i][2]>>
  <2>1. CASE s # h
    BY <1>3, <2>1
  <2>2. CASE s = h
    <3>1. s \notin live' => log'[s] = <<>>
      BY <1>6, <2>2
    <3> QED BY <1>4, <1>5, <2>2, <3>1
  <2> QED BY <2>1, <2>2
<1> QED BY <1>7 DEF AnswersInPlace

\* The first two rows of a session stay what they are.
LEMMA AppendedFirst ==
    ASSUME TypeOK, NEW s \in Session, NEW m, Appended(s, m), NEW t \in Session
    PROVE  /\ Len(log'[t]) >= Len(log[t]) /\ Len(log'[t]) \in Nat
           /\ \A j : FirstExchange(t, j) => FirstExchange(t, j)'
<1>1. Len(log[t]) \in Nat
  BY LogTyped
<1>2. CASE t # s
  BY <1>1, <1>2 DEF Appended, FirstExchange
<1>3. CASE t = s
  BY <1>1, <1>3 DEF Appended, FirstExchange
<1> QED BY <1>2, <1>3

LEMMA AppendedTitles ==
    ASSUME Inv, NEW s \in Session, NEW m, Appended(s, m), UNCHANGED <<live, title>>
    PROVE  TitleOfFirst'
<1>1. live \subseteq Session
  BY LiveSessions DEF Inv
<1>2. \A t \in live : title[t] # NewChat => FirstExchange(t, title[t])
  BY DEF Inv, TitleOfFirst, FirstExchange, Question, Answer
<1>3. \A t \in live : title[t] # NewChat => FirstExchange(t, title[t])'
  BY <1>1, <1>2, AppendedFirst DEF Inv, FirstExchange
<1> QED BY <1>3 DEF TitleOfFirst, FirstExchange, Question, Answer

\* A row says nothing of the other messages.
LEMMA AppendedOthers ==
    ASSUME Inv, NEW k \in Send, home[k] \in Session, UNCHANGED <<live, home, title>>,
           NEW m \in {Question(k), Answer(k)}, Appended(home[k], m),
           NEW j \in Send \ {k}, stage'[j] = stage[j]
    PROVE  (Unstored(j) /\ Asked(j) /\ Answered(j) /\ Titling(j) /\ Done(j))'
<1> USE DEF Inv, StageInv
<1>1. \A s \in Session : \A n \in {Question(j), Answer(j)} : Has(s, n)' <=> Has(s, n)
  BY AppendedHas, TwoRows
<1>2. live \subseteq Session
  BY LiveSessions
<1>3. \A s \in Session : /\ Len(log'[s]) >= Len(log[s]) /\ Len(log'[s]) \in Nat
                         /\ Len(log[s]) \in Nat
                         /\ FirstExchange(s, j) => FirstExchange(s, j)'
  BY AppendedFirst, LogTyped
<1>4. Unstored(j)'
  BY <1>1 DEF Unstored
<1>5. Asked(j)' /\ Answered(j)'
  BY <1>1, <1>2 DEF Asked, Answered
<1>6. Titling(j)'
  BY <1>2, <1>3 DEF Titling, FirstExchange
<1>7. Done(j)'
  <2>1. SUFFICES ASSUME stage[j] = "done", home[j] \in live
                 PROVE  \/ title[home[j]] # NewChat
                        \/ Len(log'[home[j]]) > 2
                        \/ ~Has(home[j], Answer(j))'
    BY DEF Done
  <2>2. CASE Len(log[home[j]]) > 2
    BY <1>2, <1>3, <2>1, <2>2
  <2>3. CASE ~Has(home[j], Answer(j))
    BY <1>1, <1>2, <2>1, <2>3
  <2> QED BY <2>1, <2>2, <2>3 DEF Done
<1> QED BY <1>4, <1>5, <1>6, <1>7

-----------------------------------------------------------------------------
(* What a step leaves alone *)

LEMMA SamePlaces ==
    ASSUME AnswersInPlace, UNCHANGED <<log, live, home>> PROVE AnswersInPlace'
<1>1. log' = log /\ live' = live /\ home' = home
  OBVIOUS
<1>2. ASSUME NEW s \in Session
      PROVE  /\ s \notin live' => log'[s] = <<>>
             /\ \A i, j \in DOMAIN log'[s] : log'[s][i] = log'[s][j] => i = j
             /\ \A i \in DOMAIN log'[s] :
                  /\ home'[log'[s][i][2]] = s
                  /\ log'[s][i][1] = "assistant" =>
                       \E j \in 1 .. i - 1 : log'[s][j] = <<"user", log'[s][i][2]>>
  <2>1. /\ s \notin live => log[s] = <<>>
        /\ \A i, j \in DOMAIN log[s] : log[s][i] = log[s][j] => i = j
        /\ \A i \in DOMAIN log[s] :
             /\ home[log[s][i][2]] = s
             /\ log[s][i][1] = "assistant" =>
                  \E j \in 1 .. i - 1 : log[s][j] = <<"user", log[s][i][2]>>
    BY <1>2 DEF AnswersInPlace
  <2> QED BY <1>1, <2>1
<1> QED BY <1>2 DEF AnswersInPlace

LEMMA SameRows ==
    ASSUME Inv, UNCHANGED <<live, title, log, home, created>>
    PROVE  Unnamed' /\ AnswersInPlace' /\ TitleOfFirst'
<1>1. Unnamed'
  BY DEF Inv, Unnamed
<1>2. AnswersInPlace'
  BY SamePlaces DEF Inv
<1>3. TitleOfFirst'
  BY DEF Inv, TitleOfFirst
<1> QED BY <1>1, <1>2, <1>3

LEMMA SameStage ==
    ASSUME Inv, UNCHANGED <<live, title, log, home>>, NEW j \in Send, stage'[j] = stage[j]
    PROVE  (Unstored(j) /\ Asked(j) /\ Answered(j) /\ Titling(j) /\ Done(j))'
<1> USE DEF Inv, StageInv
<1>1. Unstored(j)' /\ Asked(j)'
  BY DEF Unstored, Asked, Has
<1>2. Answered(j)' /\ Titling(j)'
  BY DEF Answered, Titling, FirstExchange, Has
<1>3. Done(j)'
  BY DEF Done, Has
<1> QED BY <1>1, <1>2, <1>3

LEMMA EndedStage ==
    ASSUME NEW j \in Send, stage'[j] \in {"failed", "lost"}
    PROVE  (Unstored(j) /\ Asked(j) /\ Answered(j) /\ Titling(j) /\ Done(j))'
BY DEF Unstored, Asked, Asking, Answered, Titling, Done

-----------------------------------------------------------------------------
(* Handlers *)

LEMMA InsertTyped ==
    ASSUME TypeOK, NEW k \in Send, NEW role \in {"user", "assistant"}, NEW next \in Working,
           Insert(k, role, next)
    PROVE  /\ log' \in [Session -> Seq(Stored)]
           /\ \E x \in Working \cup {"failed"} : stage' = [stage EXCEPT ![k] = x]
           /\ reply' \in [Send -> {"none", "end", "error"}]
<1>1. CASE home[k] \in live
  <2>1. log' = [log EXCEPT ![home[k]] = Append(@, <<role, k>>)]
        /\ stage' = [stage EXCEPT ![k] = next] /\ reply' = reply
    BY <1>1 DEF Insert
  <2>2. home[k] \in Session /\ <<role, k>> \in Stored
    BY <1>1, LiveSessions DEF Stored
  <2>3. log' \in [Session -> Seq(Stored)]
    BY <2>1, <2>2, AppendRow
  <2> QED BY <2>1, <2>3 DEF TypeOK
<1>2. CASE home[k] \notin live
  BY <1>2 DEF Insert, Fail, TypeOK
<1> QED BY <1>1, <1>2

LEMMA TouchTyped ==
    ASSUME TypeOK, NEW k \in Send, NEW next \in Working, Touch(k, next)
    PROVE  /\ \E x \in Working \cup {"failed"} : stage' = [stage EXCEPT ![k] = x]
           /\ reply' \in [Send -> {"none", "end", "error"}]
BY DEF Touch, Fail, TypeOK

\* What every step of a handler keeps.
Stepped(k) ==
    /\ stage[k] \in Working
    /\ \E x \in Working \cup {"done", "failed"} : stage' = [stage EXCEPT ![k] = x]
    /\ log' \in [Session -> Seq(Stored)]
    /\ reply' \in [Send -> {"none", "end", "error"}]
    /\ wrote' \subseteq Send
    /\ title' \in [Session -> {NewChat} \cup Send]
    /\ UNCHANGED <<created, live, pageVars, bounds>>

LEMMA HandlerStepped == ASSUME TypeOK, NEW k \in Send, Handler(k) PROVE Stepped(k)
<1>1. CASE SaveQuestion(k)
  <2>1. stage[k] \in Working /\ UNCHANGED <<created, live, title, wrote, pageVars, bounds>>
    BY <1>1 DEF SaveQuestion, Working
  <2>2. CASE Insert(k, "user", "touch question")
    BY <2>1, <2>2, InsertTyped DEF Stepped, Working, TypeOK
  <2>3. CASE Fail(k) /\ UNCHANGED log
    BY <2>1, <2>3 DEF Stepped, Fail, TypeOK
  <2> QED BY <1>1, <2>2, <2>3 DEF SaveQuestion
<1>2. CASE TouchQuestion(k)
  BY <1>2, TouchTyped DEF TouchQuestion, Stepped, Working, TypeOK, dbVars
<1>3. CASE FirstChunk(k)
  BY <1>3 DEF FirstChunk, Fail, Stepped, Working, TypeOK, dbVars
<1>4. CASE EndStream(k)
  BY <1>4 DEF EndStream, Fail, Stepped, Working, TypeOK, dbVars
<1>5. CASE SaveAnswer(k)
  BY <1>5, InsertTyped DEF SaveAnswer, Stepped, Working, TypeOK
<1>6. CASE TouchAnswer(k)
  BY <1>6, TouchTyped DEF TouchAnswer, Stepped, Working, TypeOK, dbVars
<1>7. CASE CountMessages(k)
  BY <1>7 DEF CountMessages, Stepped, Working, TypeOK, dbVars
<1>8. CASE GenerateTitle(k)
  BY <1>8 DEF GenerateTitle, Stepped, Working, TypeOK
<1> QED BY <1>1, <1>2, <1>3, <1>4, <1>5, <1>6, <1>7, <1>8 DEF Handler

LEMMA SteppedKeeps ==
    ASSUME Inv, NEW k \in Send, Stepped(k)
    PROVE  TypeOK' /\ PageInv' /\ \A j \in Send \ {k} : stage'[j] = stage[j]
<1> USE DEF Inv
<1>1. PICK x \in Working \cup {"done", "failed"} : stage' = [stage EXCEPT ![k] = x]
  BY DEF Stepped
<1>2. stage[k] # "none" /\ stage' \in [Send -> Stages]
  BY <1>1 DEF Stepped, Working, Stages, TypeOK
<1>3. TypeOK'
  BY <1>1, <1>2 DEF Stepped, TypeOK, pageVars, bounds
<1>4. PageInv'
  BY <1>1, <1>2 DEF PageInv, Stepped, pageVars, TypeOK
<1>5. \A j \in Send \ {k} : stage'[j] = stage[j]
  BY <1>1 DEF TypeOK
<1> QED BY <1>3, <1>4, <1>5

\* The part of the invariant that is about the message itself.
OfMessage(j) == Unstored(j) /\ Asked(j) /\ Answered(j) /\ Titling(j) /\ Done(j)

\* A step that moves on one handler, and stores nothing.
LEMMA MovesOn ==
    ASSUME Inv, NEW k \in Send, Stepped(k), UNCHANGED <<title, log>>, OfMessage(k)'
    PROVE  Inv'
<1>1. UNCHANGED <<live, title, log, home, created>>
  BY DEF Stepped, pageVars
<1>2. \A j \in Send \ {k} : stage'[j] = stage[j]
  BY SteppedKeeps
<1>3. ASSUME NEW j \in Send PROVE OfMessage(j)'
  <2>1. CASE j = k
    BY <2>1
  <2>2. CASE j # k
    BY <1>1, <1>2, <2>2, SameStage DEF OfMessage
  <2> QED BY <2>1, <2>2
<1> QED BY <1>1, <1>3, SteppedKeeps, SameRows DEF Inv, StageInv, OfMessage

LEMMA FailKeeps ==
    ASSUME Inv, NEW k \in Send, Stepped(k), UNCHANGED <<title, log>>, Fail(k) PROVE Inv'
<1>1. stage'[k] = "failed"
  BY DEF Fail, Inv, TypeOK
<1> QED BY <1>1, EndedStage, MovesOn DEF OfMessage

\* A step that stores a row of the message.
LEMMA Stores ==
    ASSUME Inv, NEW k \in Send, Stepped(k), title' = title, home[k] \in live,
           NEW role \in {"user", "assistant"},
           log' = [log EXCEPT ![home[k]] = Append(@, <<role, k>>)],
           ~Has(home[k], <<role, k>>),
           role = "assistant" => Has(home[k], Question(k)),
           OfMessage(k)'
    PROVE  Inv'
<1> DEFINE m == <<role, k>>
<1>1. home[k] \in Session /\ m \in Stored /\ m \in {Question(k), Answer(k)}
  BY LiveSessions DEF Inv, Stored, Question, Answer
<1>2. Appended(home[k], m)
  BY <1>1, AppendRow DEF Inv
<1>3. UNCHANGED <<live, title, home, created>>
  BY DEF Stepped, pageVars
<1>4. AnswersInPlace'
  <2>1. CASE role = "user"
    <3>1. m = Question(k)
      BY <2>1 DEF Question
    <3> QED BY <1>2, <1>3, <3>1, AppendedInPlace
  <2>2. CASE role = "assistant"
    <3>1. m = Answer(k)
      BY <2>2 DEF Answer
    <3> QED BY <1>2, <1>3, <2>2, <3>1, AppendedInPlace
  <2> QED BY <2>1, <2>2
<1> HIDE DEF m
<1>5. TitleOfFirst'
  BY <1>1, <1>2, <1>3, AppendedTitles
<1>6. \A j \in Send \ {k} : stage'[j] = stage[j]
  BY SteppedKeeps
<1>7. ASSUME NEW j \in Send PROVE OfMessage(j)'
  <2>1. CASE j = k
    BY <2>1
  <2>2. CASE j # k
    BY <1>1, <1>2, <1>3, <1>6, <2>2, AppendedOthers DEF OfMessage
  <2> QED BY <2>1, <2>2
<1>8. Unnamed'
  BY <1>3 DEF Inv, Unnamed
<1> QED BY <1>4, <1>5, <1>7, <1>8, SteppedKeeps DEF Inv, StageInv, OfMessage

LEMMA StoredRow ==
    ASSUME Inv, NEW k \in Send, home[k] \in live,
           NEW role \in {"user", "assistant"},
           log' = [log EXCEPT ![home[k]] = Append(@, <<role, k>>)]
    PROVE  /\ home[k] \in Session
           /\ \A t \in Session : \A n :
                Has(t, n)' <=> (Has(t, n) \/ (t = home[k] /\ n = <<role, k>>))
<1>1. home[k] \in Session /\ <<role, k>> \in Stored
  BY LiveSessions DEF Inv, Stored
<1>2. Appended(home[k], <<role, k>>)
  BY <1>1, AppendRow DEF Inv
<1> QED BY <1>1, <1>2, AppendedHas DEF Inv

LEMMA SaveQuestionKeeps == ASSUME Inv, NEW k \in Send, SaveQuestion(k) PROVE Inv'
<1>1. Stepped(k)
  BY HandlerStepped DEF Inv, Handler
<1>2. stage[k] = "prepare" /\ title' = title
  BY DEF SaveQuestion
<1>3. CASE Fail(k) /\ UNCHANGED log
  BY <1>1, <1>2, <1>3, FailKeeps
<1>4. CASE /\ home[k] \in live
           /\ log' = [log EXCEPT ![home[k]] = Append(@, <<"user", k>>)]
           /\ stage' = [stage EXCEPT ![k] = "touch question"]
  <2>1. home[k] \in Session
        /\ \A t \in Session : \A n :
             Has(t, n)' <=> (Has(t, n) \/ (t = home[k] /\ n = <<"user", k>>))
    BY <1>4, StoredRow
  <2>2. \A t \in Session : ~Has(t, Question(k)) /\ ~Has(t, Answer(k))
    BY <1>2 DEF Inv, StageInv, Unstored
  <2>3. stage'[k] = "touch question" /\ live' = live /\ home' = home
    BY <1>1, <1>4 DEF Inv, TypeOK, Stepped, pageVars
  <2>4. Question(k) = <<"user", k>> /\ Answer(k) # <<"user", k>>
    BY TwoRows DEF Question
  <2>5. OfMessage(k)'
    BY <2>1, <2>2, <2>3, <2>4
       DEF OfMessage, Unstored, Asked, Asking, Answered, Titling, Done
  <2>6. ~Has(home[k], <<"user", k>>)
    BY <2>1, <2>2, <2>4
  <2> QED BY <1>1, <1>2, <1>4, <2>5, <2>6, Stores
<1> QED BY <1>3, <1>4 DEF SaveQuestion, Insert

LEMMA SaveAnswerKeeps == ASSUME Inv, NEW k \in Send, SaveAnswer(k) PROVE Inv'
<1>1. Stepped(k)
  BY HandlerStepped DEF Inv, Handler
<1>2. stage[k] = "save answer" /\ title' = title
  BY DEF SaveAnswer
<1>3. CASE Fail(k) /\ UNCHANGED log
  BY <1>1, <1>2, <1>3, FailKeeps
<1>4. CASE /\ home[k] \in live
           /\ log' = [log EXCEPT ![home[k]] = Append(@, <<"assistant", k>>)]
           /\ stage' = [stage EXCEPT ![k] = "touch answer"]
  <2>1. home[k] \in Session
        /\ \A t \in Session : \A n :
             Has(t, n)' <=> (Has(t, n) \/ (t = home[k] /\ n = <<"assistant", k>>))
    BY <1>4, StoredRow
  <2>2. Has(home[k], Question(k)) /\ \A t \in Session : ~Has(t, Answer(k))
    BY <1>2, <1>4 DEF Inv, StageInv, Asked, Asking
  <2>3. stage'[k] = "touch answer" /\ live' = live /\ home' = home
    BY <1>1, <1>4 DEF Inv, TypeOK, Stepped, pageVars
  <2>4. Answer(k) = <<"assistant", k>>
    BY DEF Answer
  <2>5. OfMessage(k)'
    BY <2>1, <2>2, <2>3, <2>4
       DEF OfMessage, Unstored, Asked, Asking, Answered, Titling, Done
  <2>6. ~Has(home[k], <<"assistant", k>>)
    BY <2>1, <2>2, <2>4
  <2> QED BY <1>1, <1>2, <1>4, <2>2, <2>5, <2>6, Stores
<1> QED BY <1>3, <1>4 DEF SaveAnswer, Insert

\* The handlers' other steps, but the title.
LEMMA OtherHandlersKeep ==
    ASSUME Inv, NEW k \in Send,
           TouchQuestion(k) \/ FirstChunk(k) \/ EndStream(k) \/ TouchAnswer(k)
    PROVE  Inv'
<1>1. Stepped(k) /\ UNCHANGED <<title, log>>
  BY HandlerStepped
     DEF Inv, Handler, TouchQuestion, FirstChunk, EndStream, TouchAnswer, dbVars
<1>2. UNCHANGED <<live, home>>
  BY <1>1 DEF Stepped, pageVars
<1>3. CASE Fail(k)
  BY <1>1, <1>3, FailKeeps
<1>4. CASE /\ stage[k] \in Asking
           /\ \E x \in Asking \cup {"done"} : stage' = [stage EXCEPT ![k] = x]
  <2>1. /\ home[k] \in live => Has(home[k], Question(k))
        /\ \A s \in Session : ~Has(s, Answer(k))
    BY <1>4 DEF Inv, StageInv, Asked
  <2>2. stage'[k] \in Asking \cup {"done"}
    BY <1>4 DEF Inv, TypeOK
  <2>3. home[k] \in live => home[k] \in Session
    BY LiveSessions DEF Inv
  <2>4. Has(home[k], Question(k))' <=> Has(home[k], Question(k))
    BY <1>1, <1>2 DEF Has
  <2>5. \A s \in Session : Has(s, Answer(k))' <=> Has(s, Answer(k))
    BY <1>1 DEF Has
  <2>6. OfMessage(k)'
    BY <1>2, <2>1, <2>2, <2>3, <2>4, <2>5
       DEF OfMessage, Unstored, Asked, Asking, Answered, Titling, Done
  <2> QED BY <1>1, <2>6, MovesOn
<1>5. CASE stage[k] = "touch answer" /\ stage' = [stage EXCEPT ![k] = "count"]
  <2>1. home[k] \in live => Has(home[k], Question(k)) /\ Has(home[k], Answer(k))
    BY <1>5 DEF Inv, StageInv, Answered
  <2>2. stage'[k] = "count"
    BY <1>5 DEF Inv, TypeOK
  <2>3. OfMessage(k)'
    BY <1>1, <1>2, <2>1, <2>2
       DEF OfMessage, Unstored, Asked, Asking, Answered, Titling, Done, Has
  <2> QED BY <1>1, <2>3, MovesOn
<1> QED BY <1>3, <1>4, <1>5
        DEF TouchQuestion, FirstChunk, EndStream, TouchAnswer, Touch, Asking

\* Two rows in order, an answer after its question: no room for another message's.
LEMMA TwoIsFirst ==
    ASSUME Inv, NEW k \in Send, NEW s \in Session, Has(s, Answer(k)), Len(log[s]) <= 2
    PROVE  FirstExchange(s, k)
<1>1. Len(log[s]) \in Nat /\ DOMAIN log[s] = 1 .. Len(log[s])
  BY LogTyped DEF Inv
<1>2. PICK i \in 1 .. Len(log[s]) : log[s][i] = Answer(k)
  BY <1>1 DEF Has
<1>3. log[s][i][1] = "assistant" /\ log[s][i][2] = k
  BY <1>2, TwoRows
<1>4. PICK j \in 1 .. i - 1 : log[s][j] = <<"user", k>>
  <2>1. \A l \in DOMAIN log[s] :
          log[s][l][1] = "assistant" => \E j \in 1 .. l - 1 : log[s][j] = <<"user", log[s][l][2]>>
    BY DEF Inv, AnswersInPlace
  <2>2. i \in DOMAIN log[s]
    BY <1>1
  <2> QED BY <1>3, <2>1, <2>2
<1>5. i = 2 /\ j = 1 /\ Len(log[s]) = 2
  <2>1. \A n \in Nat : n <= 2 =>
          \A l \in 1 .. n : \A h \in 1 .. l - 1 : l = 2 /\ h = 1 /\ n = 2
    OBVIOUS
  <2> QED BY <1>1, <2>1
<1> QED BY <1>2, <1>4, <1>5 DEF FirstExchange, Question

LEMMA CountKeeps == ASSUME Inv, NEW k \in Send, CountMessages(k) PROVE Inv'
<1>1. Stepped(k) /\ UNCHANGED <<title, log>> /\ stage[k] = "count"
  BY HandlerStepped DEF Inv, Handler, CountMessages, dbVars
<1>2. UNCHANGED <<live, home>>
  BY <1>1 DEF Stepped, pageVars
<1>3. stage'[k] = IF Len(log[home[k]]) <= 2 THEN "title" ELSE "done"
  BY DEF CountMessages, Inv, TypeOK
<1>4. home[k] \in live =>
        home[k] \in Session /\ Has(home[k], Answer(k)) /\ Len(log[home[k]]) \in Nat
  BY <1>1, LiveSessions, LogTyped DEF Inv, StageInv, Answered
<1>5. Titling(k)'
  <2>1. home[k] \in live /\ Len(log[home[k]]) <= 2 => FirstExchange(home[k], k)
    BY <1>4, TwoIsFirst
  <2>2. FirstExchange(home[k], k)' <=> FirstExchange(home[k], k)
    BY <1>1, <1>2 DEF FirstExchange
  <2> QED BY <1>2, <1>3, <2>1, <2>2 DEF Titling
<1>6. Done(k)'
  BY <1>1, <1>2, <1>3, <1>4 DEF Done
<1>7. (Unstored(k) /\ Asked(k) /\ Answered(k))'
  BY <1>3 DEF Unstored, Asked, Asking, Answered
<1> QED BY <1>1, <1>5, <1>6, <1>7, MovesOn DEF OfMessage

LEMMA TitleKeeps == ASSUME Inv, NEW k \in Send, GenerateTitle(k) PROVE Inv'
<1> USE DEF Inv
<1>1. Stepped(k)
  BY HandlerStepped DEF Handler
<1>2. UNCHANGED <<log, live, home, created>> /\ stage[k] = "title" /\ stage'[k] = "done"
  BY <1>1 DEF GenerateTitle, Stepped, pageVars, TypeOK
<1>3. home[k] \notin live => title' = title
  BY DEF GenerateTitle, TypeOK
<1>4. home[k] \in live =>
        /\ home[k] \in Session /\ home[k] <= created /\ title'[home[k]] = k
        /\ \A s \in Session \ {home[k]} : title'[s] = title[s]
        /\ FirstExchange(home[k], k)
  <2>1. SUFFICES ASSUME home[k] \in live
                 PROVE  /\ home[k] \in Session /\ home[k] <= created /\ title'[home[k]] = k
                        /\ \A s \in Session \ {home[k]} : title'[s] = title[s]
                        /\ FirstExchange(home[k], k)
    OBVIOUS
  <2>2. home[k] \in Session /\ home[k] <= created
    <3>1. home[k] \in 1 .. created
      BY <2>1 DEF TypeOK
    <3> QED BY <3>1, LiveSessions
  <2>3. title' = [title EXCEPT ![home[k]] = k]
    BY <2>1 DEF GenerateTitle
  <2>4. FirstExchange(home[k], k)
    BY <1>2, <2>1 DEF StageInv, Titling
  <2> QED BY <2>2, <2>3, <2>4 DEF TypeOK
<1>5. k # NewChat
  BY DEF Send, NewChat
<1>6. TitleOfFirst'
  <2>1. ASSUME NEW s \in live, title'[s] # NewChat PROVE FirstExchange(s, title'[s])
    <3>1. CASE title'[s] = title[s]
      BY <2>1, <3>1 DEF TitleOfFirst, FirstExchange, Question, Answer
    <3>2. CASE title'[s] # title[s]
      <4>1. s = home[k]
        BY <1>3, <1>4, <3>2, LiveSessions
      <4> QED BY <1>4, <4>1
    <3> QED BY <3>1, <3>2
  <2> QED BY <1>2, <2>1 DEF TitleOfFirst, FirstExchange, Question, Answer
<1>7. Unnamed'
  <2> SUFFICES ASSUME NEW s \in Session, s > created PROVE title'[s] = NewChat
    BY <1>2 DEF Unnamed
  <2>1. title[s] = NewChat
    BY DEF Unnamed
  <2>2. home[k] \in live => s # home[k]
    BY <1>4, LiveSessions DEF Session
  <2> QED BY <1>3, <1>4, <2>1, <2>2
<1>8. AnswersInPlace'
  <2>1. UNCHANGED <<log, live, home>>
    BY <1>2
  <2> QED BY <2>1, SamePlaces
<1>9. ASSUME NEW j \in Send PROVE OfMessage(j)'
  <2>1. CASE j = k
    <3>1. Done(k)'
      BY <1>2, <1>4, <1>5 DEF Done
    <3> QED BY <1>2, <2>1, <3>1 DEF OfMessage, Unstored, Asked, Asking, Answered, Titling
  <2>2. CASE j # k
    <3>1. stage'[j] = stage[j]
      BY <1>1, <2>2, SteppedKeeps
    <3>2. Unstored(j) /\ Asked(j) /\ Answered(j) /\ Titling(j) /\ Done(j)
      BY DEF StageInv
    <3>3. (Unstored(j) /\ Asked(j))'
      BY <1>2, <3>1, <3>2 DEF Unstored, Asked, Has
    <3>4. (Answered(j) /\ Titling(j))'
      BY <1>2, <3>1, <3>2 DEF Answered, Titling, FirstExchange, Has
    <3>5. Done(j)'
      <4>1. home[j] \in live /\ title[home[j]] # NewChat => title'[home[j]] # NewChat
        BY <1>3, <1>4, <1>5, LiveSessions
      <4>2. Has(home[j], Answer(j))' <=> Has(home[j], Answer(j))
        BY <1>2 DEF Has
      <4> QED BY <1>2, <3>1, <3>2, <4>1, <4>2 DEF Done
    <3> QED BY <3>3, <3>4, <3>5 DEF OfMessage
  <2> QED BY <2>1, <2>2
<1> QED BY <1>1, <1>6, <1>7, <1>8, <1>9, SteppedKeeps DEF StageInv, OfMessage

-----------------------------------------------------------------------------
(* Deletions and restarts *)

LEMMA ClearedKeeps ==
    ASSUME Inv, NEW gone \in SUBSET live, live' = live \ gone,
           log' = [s \in Session |-> IF s \in gone THEN <<>> ELSE log[s]],
           UNCHANGED <<created, title, home, stage>>
    PROVE  /\ StageInv' /\ Unnamed' /\ AnswersInPlace' /\ TitleOfFirst'
           /\ live' \subseteq 1 .. created' /\ log' \in [Session -> Seq(Stored)]
<1> USE DEF Inv
<1>1. \A s \in Session \ gone : log'[s] = log[s]
  OBVIOUS
<1>2. \A s \in Session \cap gone : log'[s] = <<>> /\ \A m : ~Has(s, m)'
  BY DEF Has
<1>3. \A s \in Session : \A m : Has(s, m)' => Has(s, m)
  BY <1>1, <1>2 DEF Has
<1>4. \A s \in live' : /\ s \in live /\ s \in Session /\ log'[s] = log[s]
                       /\ \A m : Has(s, m)' <=> Has(s, m)
  BY <1>1, LiveSessions DEF Has
<1>5. ASSUME NEW j \in Send PROVE OfMessage(j)'
  <2>1. Unstored(j) /\ Asked(j) /\ Answered(j) /\ Titling(j) /\ Done(j)
    BY DEF StageInv
  <2>2. (Unstored(j) /\ Asked(j) /\ Answered(j))'
    BY <1>3, <1>4, <2>1 DEF Unstored, Asked, Answered
  <2>3. (Titling(j) /\ Done(j))'
    BY <1>4, <2>1 DEF Titling, Done, FirstExchange
  <2> QED BY <2>2, <2>3 DEF OfMessage
<1>6. AnswersInPlace'
  <2>1. ASSUME NEW s \in Session
        PROVE  /\ s \notin live' => log'[s] = <<>>
               /\ \A i, j \in DOMAIN log'[s] : log'[s][i] = log'[s][j] => i = j
               /\ \A i \in DOMAIN log'[s] :
                    /\ home'[log'[s][i][2]] = s
                    /\ log'[s][i][1] = "assistant" =>
                         \E j \in 1 .. i - 1 : log'[s][j] = <<"user", log'[s][i][2]>>
    <3>1. CASE s \in gone
      <4>1. log'[s] = <<>> /\ DOMAIN log'[s] = {}
        BY <3>1
      <4> QED BY <4>1
    <3>2. CASE s \notin gone
      <4>1. /\ s \notin live => log[s] = <<>>
            /\ \A i, j \in DOMAIN log[s] : log[s][i] = log[s][j] => i = j
            /\ \A i \in DOMAIN log[s] :
                 /\ home[log[s][i][2]] = s
                 /\ log[s][i][1] = "assistant" =>
                      \E j \in 1 .. i - 1 : log[s][j] = <<"user", log[s][i][2]>>
        BY DEF AnswersInPlace
      <4>2. log'[s] = log[s] /\ home' = home /\ (s \notin live' => s \notin live)
        BY <1>1, <3>2
      <4> QED BY <4>1, <4>2
    <3> QED BY <3>1, <3>2
  <2> QED BY <2>1 DEF AnswersInPlace
<1>7. TitleOfFirst'
  BY <1>4 DEF TitleOfFirst
<1>8. Unnamed'
  BY DEF Unnamed
<1>9. live' \subseteq 1 .. created' /\ log' \in [Session -> Seq(Stored)]
  <2>1. \A s \in Session : log'[s] \in Seq(Stored)
    BY <1>1, <1>2 DEF TypeOK
  <2> QED BY <2>1 DEF TypeOK
<1> QED BY <1>5, <1>6, <1>7, <1>8, <1>9 DEF StageInv, OfMessage

LEMMA DeleteKeeps == ASSUME Inv, Delete PROVE Inv'
<1>1. PICK gone \in {{s} : s \in live} \cup {live} :
        /\ live' = live \ gone
        /\ log' = [s \in Session |-> IF s \in gone THEN <<>> ELSE log[s]]
  BY DEF Delete
<1>2. gone \in SUBSET live
  OBVIOUS
<1>3. UNCHANGED <<created, title, stage, wrote, reply, pageVars, selects, restarts>>
  BY DEF Delete, serverVars
<1>4. StageInv' /\ Unnamed' /\ AnswersInPlace' /\ TitleOfFirst'
      /\ live' \subseteq 1 .. created' /\ log' \in [Session -> Seq(Stored)]
  BY <1>1, <1>2, <1>3, ClearedKeeps DEF pageVars
<1>5. deletes' \in 0 .. MaxDeletes
  BY ChatAssumption DEF Inv, TypeOK, Delete
<1>6. TypeOK'
  BY <1>3, <1>4, <1>5 DEF Inv, TypeOK, pageVars
<1>7. PageInv'
  BY <1>3 DEF Inv, PageInv, pageVars
<1> QED BY <1>4, <1>6, <1>7 DEF Inv

LEMMA ClearKeeps == ASSUME Inv, ClearHistory PROVE Inv'
<1>1. live' = live \ live /\ log' = [s \in Session |-> IF s \in live THEN <<>> ELSE log[s]]
  <2>1. live' = {} /\ log' = [s \in Session |-> <<>>]
    BY DEF ClearHistory
  <2>2. \A s \in Session : s \notin live => log[s] = <<>>
    BY DEF Inv, AnswersInPlace
  <2> QED BY <2>1, <2>2
<1>2. /\ UNCHANGED <<created, title, stage, wrote, reply, loading, page, loads, sent, home>>
      /\ UNCHANGED <<selects, restarts>>
      /\ active' = NoSession /\ shown' = <<>>
  BY DEF ClearHistory, serverVars
<1>3. live \in SUBSET live
  OBVIOUS
<1>4. StageInv' /\ Unnamed' /\ AnswersInPlace' /\ TitleOfFirst'
      /\ live' \subseteq 1 .. created' /\ log' \in [Session -> Seq(Stored)]
  BY <1>1, <1>2, <1>3, ClearedKeeps
<1>5. deletes' \in 0 .. MaxDeletes /\ active' \in 0 .. created' /\ shown' \in Seq(Shown)
  BY <1>2, LiveSessions, ChatAssumption DEF Inv, TypeOK, ClearHistory, NoSession
<1>6. TypeOK'
  BY <1>2, <1>4, <1>5 DEF Inv, TypeOK
<1>7. PageInv'
  BY <1>2 DEF Inv, PageInv
<1> QED BY <1>4, <1>6, <1>7 DEF Inv

LEMMA RestartKeeps == ASSUME Inv, Restart PROVE Inv'
<1> USE DEF Inv
<1>1. UNCHANGED <<created, live, title, log, wrote, active, shown, loading, loads, sent, home,
                  selects, deletes>>
  BY DEF Restart, dbVars
<1>2. /\ stage' = [k \in Send |-> IF stage[k] \in Working THEN "lost" ELSE stage[k]]
      /\ page' = [k \in Send |-> IF page[k] = "creating" THEN "closed" ELSE page[k]]
      /\ reply' \in [Send -> {"none", "end", "error"}]
      /\ restarts' \in 0 .. MaxRestarts
  BY ChatAssumption DEF Restart, TypeOK
<1>3. ASSUME NEW j \in Send PROVE OfMessage(j)'
  <2>1. CASE stage[j] \in Working
    BY <1>2, <2>1, EndedStage DEF OfMessage
  <2>2. CASE stage[j] \notin Working
    BY <1>1, <1>2, <2>2, SameStage DEF OfMessage
  <2> QED BY <2>1, <2>2
<1>4. TypeOK'
  <2>1. stage' \in [Send -> Stages]
    BY <1>2 DEF TypeOK, Stages
  <2>2. page' \in [Send -> {"none", "creating", "waiting", "streaming", "closed"}]
    BY <1>2 DEF TypeOK
  <2>3. \A k \in Send : stage'[k] # "none" => home'[k] \in 1 .. created'
    BY <1>1, <1>2 DEF TypeOK, Working
  <2> QED BY <1>1, <1>2, <2>1, <2>2, <2>3 DEF TypeOK
<1>5. PageInv'
  BY <1>1, <1>2 DEF PageInv, Working
<1> QED BY <1>1, <1>3, <1>4, <1>5, SameRows DEF StageInv, OfMessage

-----------------------------------------------------------------------------
(* The page *)

LEMMA SettledTyped == ASSUME TypeOK, NEW k \in Send PROVE Settled(k) \in Seq(Shown)
<1>1. Len(shown) \in Nat /\ DOMAIN shown = 1 .. Len(shown)
      /\ \A i \in 1 .. Len(shown) : shown[i] \in Shown
  BY DEF TypeOK
<1>2. <<"assistant", k>> \in Shown
  BY DEF Shown
<1>3. \A i \in 1 .. Len(shown) :
        (IF shown[i] = <<"partial", k>> THEN <<"assistant", k>> ELSE shown[i]) \in Shown
  BY <1>1, <1>2
<1>4. Settled(k) \in [1 .. Len(shown) -> Shown]
  BY <1>1, <1>3 DEF Settled
<1> QED BY <1>1, <1>4, SeqDef

\* The page's own steps leave the database and the handlers alone.
LEMMA PageKeeps ==
    ASSUME Inv, UNCHANGED <<dbVars, serverVars, sent, home>>, PageInv',
           active' \in 0 .. created, shown' \in Seq(Shown), loading' \in BOOLEAN,
           page' \in [Send -> {"none", "creating", "waiting", "streaming", "closed"}],
           loads' \subseteq 1 .. created,
           selects' \in 0 .. MaxSelects, UNCHANGED <<deletes, restarts>>
    PROVE  Inv'
<1>1. UNCHANGED <<live, title, log, home, created, stage>>
  BY DEF dbVars, serverVars
<1>2. TypeOK'
  BY DEF Inv, TypeOK, dbVars, serverVars
<1>3. StageInv'
  BY <1>1, SameStage DEF StageInv
<1> QED BY <1>1, <1>2, <1>3, SameRows DEF Inv

LEMMA PageStepKeeps ==
    ASSUME Inv, NEW k \in Send, NEW s \in Session,
           \/ ShowAnswer(k) \/ EndAnswer(k) \/ SelectSession \/ SessionLoaded(s)
           \/ NewConversation
    PROVE  Inv'
<1> USE DEF Inv
<1>1. CASE ShowAnswer(k)
  <2>1. <<"partial", k>> \in Shown
    BY DEF Shown
  <2>2. shown' \in Seq(Shown)
    BY <1>1, <2>1, AppendProperties DEF ShowAnswer, TypeOK
  <2>3. /\ UNCHANGED <<dbVars, serverVars, active, loads, sent, home, selects, deletes, restarts>>
        /\ loading' = FALSE /\ page[k] = "waiting"
        /\ page' = [page EXCEPT ![k] = "streaming"]
    BY <1>1 DEF ShowAnswer, bounds
  <2>4. PageInv'
    BY <2>3 DEF PageInv, TypeOK, serverVars
  <2> QED BY <2>2, <2>3, <2>4, PageKeeps DEF TypeOK
<1>2. CASE EndAnswer(k)
  <2>1. <<"sorry", k>> \in Shown
    BY DEF Shown
  <2>2. shown' \in Seq(Shown)
    BY <1>2, <2>1, AppendProperties, SettledTyped DEF EndAnswer, TypeOK
  <2>3. /\ UNCHANGED <<dbVars, serverVars, active, loads, sent, home, selects, deletes, restarts>>
        /\ loading' = FALSE /\ page[k] \in {"waiting", "streaming"}
        /\ page' = [page EXCEPT ![k] = "closed"]
    BY <1>2 DEF EndAnswer, bounds
  <2>4. PageInv'
    BY <2>3 DEF PageInv, TypeOK, serverVars
  <2> QED BY <2>2, <2>3, <2>4, PageKeeps DEF TypeOK
<1>3. CASE SelectSession
  <2>1. PICK t \in 1 .. created : active' = t /\ loads' = loads \cup {t}
    BY <1>3 DEF SelectSession
  <2>2. active' \in 0 .. created /\ loads' \subseteq 1 .. created
    BY <2>1, LiveSessions DEF TypeOK
  <2>3. selects' \in 0 .. MaxSelects
    BY <1>3, ChatAssumption DEF SelectSession, TypeOK
  <2>4. UNCHANGED <<dbVars, serverVars, shown, loading, page, sent, home, deletes, restarts>>
    BY <1>3 DEF SelectSession
  <2>5. PageInv'
    BY <2>4 DEF PageInv, serverVars
  <2> QED BY <2>2, <2>3, <2>4, <2>5, PageKeeps DEF TypeOK
<1>4. CASE SessionLoaded(s)
  <2>1. UNCHANGED <<dbVars, serverVars, active, loading, page, sent, home,
                    selects, deletes, restarts>>
        /\ shown' = log[s] /\ loads' \subseteq loads
    BY <1>4 DEF SessionLoaded, bounds
  <2>2. shown' \in Seq(Shown)
    <3>1. Len(log[s]) \in Nat /\ DOMAIN log[s] = 1 .. Len(log[s]) /\ log[s] \in Seq(Stored)
      BY LogTyped
    <3>2. \A i \in 1 .. Len(log[s]) : log[s][i] \in Shown
      BY <3>1 DEF Stored, Shown
    <3>3. log[s] \in [1 .. Len(log[s]) -> Shown]
      BY <3>1, <3>2
    <3> QED BY <2>1, <3>1, <3>3, SeqDef
  <2>3. PageInv'
    BY <2>1 DEF PageInv, serverVars
  <2> QED BY <2>1, <2>2, <2>3, PageKeeps DEF TypeOK
<1>5. CASE NewConversation
  <2>1. UNCHANGED <<dbVars, serverVars, loading, page, loads, sent, home, deletes, restarts>>
        /\ active' = 0 /\ shown' = <<>>
    BY <1>5 DEF NewConversation, NoSession
  <2>2. active' \in 0 .. created /\ shown' \in Seq(Shown)
    BY <2>1, LiveSessions
  <2>3. selects' \in 0 .. MaxSelects
    BY <1>5, ChatAssumption DEF NewConversation, TypeOK
  <2>4. PageInv'
    BY <2>1 DEF PageInv, serverVars
  <2> QED BY <2>1, <2>2, <2>3, <2>4, PageKeeps DEF TypeOK
<1> QED BY <1>1, <1>2, <1>3, <1>4, <1>5

\* A message nobody has a row of gets its session.
LEMMA PostKeeps ==
    ASSUME Inv, NEW k \in Send, NEW s, s \in 1 .. created', s \in Session,
           stage[k] = "none", Post(k, s),
           k <= sent', sent' \in 0 .. MaxSends, sent <= sent',
           created' \in 0 .. MaxSessions, created <= created',
           live' \subseteq 1 .. created', live \subseteq live',
           \A t \in live' \ live : t \in Session /\ t > created,
           active' \in 0 .. created',
           UNCHANGED <<title, log, wrote, reply, loads, bounds>>
    PROVE  Inv'
<1> USE DEF Inv
<1>1. /\ home' = [home EXCEPT ![k] = s]
      /\ stage' = [stage EXCEPT ![k] = "prepare"]
      /\ page' = [page EXCEPT ![k] = "waiting"]
      /\ loading' = TRUE /\ shown' = Append(shown, <<"user", k>>)
  BY DEF Post
<1>2. created \in Nat /\ created' \in Nat /\ sent \in Nat /\ sent' \in Nat
  BY LiveSessions, ChatAssumption DEF TypeOK
<1>3. TypeOK'
  <2>1. shown' \in Seq(Shown)
    <3>1. <<"user", k>> \in Shown
      BY DEF Shown
    <3> QED BY <1>1, <3>1, AppendProperties DEF TypeOK
  <2>2. \A j \in Send : stage'[j] # "none" => home'[j] \in 1 .. created'
    BY <1>1, <1>2 DEF TypeOK
  <2>3. stage' \in [Send -> Stages] /\ home' \in [Send -> {NoSession} \cup Session]
        /\ page' \in [Send -> {"none", "creating", "waiting", "streaming", "closed"}]
    BY <1>1 DEF TypeOK, Stages, Working
  <2>4. loads' \subseteq 1 .. created' /\ loading' \in BOOLEAN
    BY <1>1, <1>2 DEF TypeOK
  <2> QED BY <2>1, <2>2, <2>3, <2>4 DEF TypeOK, bounds
<1>4. PageInv'
  BY <1>1, <1>2, SMTT(30) DEF PageInv, TypeOK, Send
<1>5. Unnamed'
  BY <1>2 DEF Unnamed, Session
<1>6. \A t \in Session : ~Has(t, Question(k)) /\ ~Has(t, Answer(k))
  BY DEF StageInv, Unstored
<1>7. \A t \in Session : \A m : Has(t, m)' <=> Has(t, m)
  BY DEF Has
<1>8. \A t \in live' \ live : log[t] = <<>> /\ title[t] = NewChat
  <2> SUFFICES ASSUME NEW t \in live' \ live PROVE log[t] = <<>> /\ title[t] = NewChat
    OBVIOUS
  <2>1. t \in Session /\ t > created /\ t \notin live
    OBVIOUS
  <2> QED BY <2>1 DEF AnswersInPlace, Unnamed
<1>9. AnswersInPlace'
  <2>1. ASSUME NEW t \in Session
        PROVE  /\ t \notin live' => log'[t] = <<>>
               /\ \A i, j \in DOMAIN log'[t] : log'[t][i] = log'[t][j] => i = j
               /\ \A i \in DOMAIN log'[t] :
                    /\ home'[log'[t][i][2]] = t
                    /\ log'[t][i][1] = "assistant" =>
                         \E j \in 1 .. i - 1 : log'[t][j] = <<"user", log'[t][i][2]>>
    <3>1. /\ t \notin live => log[t] = <<>>
          /\ \A i, j \in DOMAIN log[t] : log[t][i] = log[t][j] => i = j
          /\ \A i \in DOMAIN log[t] :
               /\ home[log[t][i][2]] = t
               /\ log[t][i][1] = "assistant" =>
                    \E j \in 1 .. i - 1 : log[t][j] = <<"user", log[t][i][2]>>
      BY DEF AnswersInPlace
    <3>2. \A i \in DOMAIN log[t] : home'[log[t][i][2]] = home[log[t][i][2]]
      <4> SUFFICES ASSUME NEW i \in DOMAIN log[t]
                   PROVE  home'[log[t][i][2]] = home[log[t][i][2]]
        OBVIOUS
      <4>1. PICK j \in Send : log[t][i] \in {Question(j), Answer(j)}
        BY LogTyped
      <4>2. j # k
        BY <1>6, <4>1 DEF Has
      <4>3. log[t][i][2] = j
        BY <4>1, TwoRows
      <4> QED BY <1>1, <4>2, <4>3 DEF TypeOK
    <3>3. log' = log /\ (t \notin live' => t \notin live)
      OBVIOUS
    <3> QED BY <3>1, <3>2, <3>3
  <2> QED BY <2>1 DEF AnswersInPlace
<1>10. TitleOfFirst'
  <2>1. \A t \in live' : title[t] # NewChat => t \in live
    BY <1>8
  <2> QED BY <2>1 DEF TitleOfFirst
<1>11. ASSUME NEW j \in Send PROVE OfMessage(j)'
  <2>1. CASE j = k
    <3>1. stage'[k] = "prepare"
      BY <1>1 DEF TypeOK
    <3> QED BY <1>6, <1>7, <2>1, <3>1
            DEF OfMessage, Unstored, Asked, Asking, Answered, Titling, Done
  <2>2. CASE j # k
    <3>1. stage'[j] = stage[j] /\ home'[j] = home[j]
      BY <1>1, <2>2 DEF TypeOK
    <3>2. Unstored(j) /\ Asked(j) /\ Answered(j) /\ Titling(j) /\ Done(j)
      BY DEF StageInv
    <3>3. CASE stage[j] \in {"none", "prepare"}
      BY <1>7, <3>1, <3>2, <3>3
         DEF OfMessage, Unstored, Asked, Asking, Answered, Titling, Done
    <3>4. CASE stage[j] \notin {"none", "prepare"}
      <4>1. home[j] \in 1 .. created /\ home[j] \in Session
        BY <3>4, LiveSessions DEF TypeOK
      <4>2. home[j] \in live' <=> home[j] \in live
        BY <1>2, <4>1
      <4>3. FirstExchange(home[j], j)' <=> FirstExchange(home[j], j)
        BY <3>1 DEF FirstExchange
      <4>4. (Unstored(j) /\ Asked(j) /\ Answered(j))'
        BY <1>7, <3>1, <3>2, <4>1, <4>2 DEF Unstored, Asked, Answered
      <4>5. (Titling(j) /\ Done(j))'
        BY <1>7, <3>1, <3>2, <4>1, <4>2, <4>3 DEF Titling, Done
      <4> QED BY <4>4, <4>5 DEF OfMessage
    <3> QED BY <3>3, <3>4
  <2> QED BY <2>1, <2>2
<1> QED BY <1>3, <1>4, <1>5, <1>9, <1>10, <1>11 DEF StageInv, OfMessage

LEMMA SendKeeps == ASSUME Inv, SendMessage PROVE Inv'
<1> USE DEF Inv
<1> DEFINE k == sent + 1
<1>1. k \in Send /\ sent \in Nat /\ k \in 0 .. MaxSends /\ k > sent
  BY ChatAssumption DEF SendMessage, TypeOK, Send
<1>2. stage[k] = "none" /\ page[k] = "none"
  BY <1>1 DEF PageInv
<1>3. sent' = k /\ UNCHANGED <<dbVars, wrote, reply, active, loads, bounds>>
  BY DEF SendMessage
<1> HIDE DEF k
<1>4. CASE active = NoSession
  <2>1. page' = [page EXCEPT ![k] = "creating"] /\ UNCHANGED <<shown, loading, home, stage>>
    BY <1>4 DEF SendMessage, k
  <2>2. TypeOK'
    BY <1>1, <1>3, <2>1 DEF TypeOK, dbVars, bounds
  <2>3. PageInv'
    BY <1>1, <1>2, <1>3, <2>1 DEF PageInv, TypeOK, Send, k
  <2>4. StageInv'
    BY <1>3, <2>1, SameStage DEF StageInv, dbVars
  <2>5. Unnamed' /\ AnswersInPlace' /\ TitleOfFirst'
    BY <1>3, <2>1, SameRows DEF dbVars
  <2> QED BY <2>2, <2>3, <2>4, <2>5
<1>5. CASE active # NoSession
  <2>1. Post(k, active)
    BY <1>5 DEF SendMessage, k
  <2>2. created' = created /\ created \in 0 .. MaxSessions /\ live' = live
        /\ active' = active /\ UNCHANGED <<title, log, wrote, reply, loads, bounds>>
    BY <1>3 DEF dbVars, TypeOK
  <2>3. active \in 1 .. created /\ active \in Session
    BY <1>5, LiveSessions DEF TypeOK, NoSession
  <2>4. k <= sent' /\ sent' \in 0 .. MaxSends /\ sent <= sent' /\ created <= created'
    BY <1>1, <1>3, <2>2, LiveSessions DEF k
  <2>5. live' \subseteq 1 .. created' /\ active' \in 0 .. created'
    BY <2>2 DEF TypeOK
  <2> QED BY <1>1, <1>2, <2>1, <2>2, <2>3, <2>4, <2>5, PostKeeps
<1> QED BY <1>4, <1>5

LEMMA CreatedKeeps == ASSUME Inv, NEW k \in Send, SessionCreated(k) PROVE Inv'
<1> USE DEF Inv
<1> DEFINE s == created + 1
<1>1. created \in Nat /\ s \in Session /\ created' = s /\ s \in 0 .. MaxSessions
  BY ChatAssumption DEF SessionCreated, TypeOK, Session
<1>2. stage[k] = "none" /\ k <= sent
  <2>1. page[k] = "creating"
    BY DEF SessionCreated
  <2>2. ~(k > sent)
    BY <2>1 DEF PageInv
  <2>3. k \in Int /\ sent \in Int
    BY ChatAssumption DEF Send, TypeOK
  <2> QED BY <2>1, <2>2, <2>3 DEF PageInv
<1>3. /\ live' = live \cup {s} /\ active' = s /\ Post(k, s) /\ sent' = sent
      /\ UNCHANGED <<title, log, wrote, reply, loads, bounds>>
  BY DEF SessionCreated
<1>4. s \in 1 .. created' /\ created <= created' /\ s > created /\ active' \in 0 .. created'
  BY <1>1, <1>3
<1>5. live \subseteq 1 .. created
  BY DEF TypeOK
<1>6. live' \subseteq 1 .. created'
  BY <1>1, <1>3, <1>4, <1>5
<1> HIDE DEF s
<1>7. sent' \in 0 .. MaxSends /\ sent <= sent' /\ k <= sent'
  BY <1>2, <1>3, ChatAssumption DEF TypeOK
<1>8. \A t \in live' \ live : t \in Session /\ t > created
  BY <1>1, <1>3, <1>4
<1>9. created' \in 0 .. MaxSessions /\ live \subseteq live'
  BY <1>1, <1>3
<1> QED BY <1>1, <1>2, <1>3, <1>4, <1>6, <1>7, <1>8, <1>9, PostKeeps

-----------------------------------------------------------------------------

LEMMA InitInv == ASSUME Init PROVE Inv
<1>1. /\ created = 0 /\ live = {} /\ sent = 0
      /\ title = [s \in Session |-> NewChat] /\ log = [s \in Session |-> <<>>]
      /\ home = [k \in Send |-> NoSession] /\ stage = [k \in Send |-> "none"]
      /\ page = [k \in Send |-> "none"]
  BY DEF Init
<1>2. TypeOK
  <2>1. 0 \in 0 .. MaxSessions /\ 0 \in 0 .. MaxSends /\ 0 \in 0 .. MaxSelects
        /\ 0 \in 0 .. MaxDeletes /\ 0 \in 0 .. MaxRestarts
    BY ChatAssumption
  <2>2. active = 0 /\ shown = <<>> /\ loading = FALSE /\ loads = {} /\ wrote = {}
        /\ reply = [k \in Send |-> "none"]
        /\ selects = 0 /\ deletes = 0 /\ restarts = 0
    BY DEF Init, NoSession
  <2>3. shown \in Seq(Shown) /\ active \in 0 .. created
    BY <1>1, <2>2
  <2>5. loading \in BOOLEAN
    BY <2>2
  <2>4. log \in [Session -> Seq(Stored)] /\ live \subseteq 1 .. created
    BY <1>1
  <2> QED BY <1>1, <2>1, <2>2, <2>3, <2>4, <2>5 DEF TypeOK, Stages
<1>3. \A s \in Session : log[s] = <<>> /\ DOMAIN log[s] = {}
  BY <1>1
<1>4. StageInv
  BY <1>1, <1>3 DEF StageInv, Unstored, Asked, Asking, Answered, Titling, Done, Has
<1>5. PageInv /\ Unnamed
  BY <1>1 DEF PageInv, Unnamed
<1>6. AnswersInPlace
  BY <1>3 DEF AnswersInPlace
<1>7. TitleOfFirst
  BY <1>1 DEF TitleOfFirst
<1> QED BY <1>2, <1>4, <1>5, <1>6, <1>7 DEF Inv

LEMMA NextInv == ASSUME Inv, [Next]_vars PROVE Inv'
<1>1. ASSUME NEW k \in Send, Handler(k) PROVE Inv'
  BY <1>1, SaveQuestionKeeps, SaveAnswerKeeps, OtherHandlersKeep, CountKeeps, TitleKeeps
     DEF Handler
<1>2. ASSUME Replies PROVE Inv'
  <2>1. 1 \in Session /\ 1 \in Send
    BY ChatAssumption DEF Session, Send
  <2> QED BY <1>2, <2>1, PageStepKeeps, CreatedKeeps DEF Replies
<1>3. ASSUME User PROVE Inv'
  <2>1. 1 \in Session /\ 1 \in Send
    BY ChatAssumption DEF Session, Send
  <2> QED BY <1>3, <2>1, PageStepKeeps, SendKeeps, ClearKeeps DEF User
<1>4. ASSUME UNCHANGED vars PROVE Inv'
  <2>1. UNCHANGED <<live, title, log, home, created, stage, page, sent>>
    BY <1>4 DEF vars, dbVars, serverVars, pageVars
  <2>2. TypeOK'
    BY <1>4 DEF vars, dbVars, serverVars, pageVars, bounds, Inv, TypeOK
  <2>3. StageInv' /\ PageInv'
    BY <2>1, SameStage DEF Inv, StageInv, PageInv
  <2> QED BY <2>1, <2>2, <2>3, SameRows DEF Inv
<1> QED BY <1>1, <1>2, <1>3, <1>4, DeleteKeeps, RestartKeeps DEF Next

\* Every reachable state is well typed; among others, a handler at work has a session that
\* was created.
THEOREM TypeCorrect == Spec => []TypeOK
<1>1. Inv => TypeOK
  BY DEF Inv
<1> QED BY <1>1, InitInv, NextInv, PTL DEF Spec

\* In every session an answer comes after its question, each is there once and none
\* outlives its session, for any number of handlers, deletions and restarts
\* (ollama_controller.ts:114-140).
THEOREM AnswersStayInPlace == Spec => []AnswersInPlace
<1>1. Inv => AnswersInPlace
  BY DEF Inv
<1> QED BY <1>1, InitInv, NextInv, PTL DEF Spec

\* A session is only ever named after its own first exchange, whatever other handlers store
\* between the count and the title (ollama_controller.ts:138-145).
THEOREM TitlesAreOfFirst == Spec => []TitleOfFirst
<1>1. Inv => TitleOfFirst
  BY DEF Inv
<1> QED BY <1>1, InitInv, NextInv, PTL DEF Spec

\* A session with one exchange whose handler has ended well is named after it
\* (chat_service.ts:235-274).
THEOREM AnsweredIsTitled == Spec => []TitledWhenAnswered
<1>1. ASSUME Inv PROVE TitledWhenAnswered
  <2> SUFFICES ASSUME NEW s \in live, NEW k \in Send, stage[k] = "done",
                      log[s] = << <<"user", k>>, <<"assistant", k>> >>
               PROVE  title[s] = k
    BY DEF TitledWhenAnswered
  <2>1. s \in Session
    BY <1>1, LiveSessions DEF Inv
  <2>2. Len(log[s]) = 2 /\ DOMAIN log[s] = 1 .. 2
        /\ log[s][1] = Question(k) /\ log[s][2] = Answer(k)
    BY DEF Question, Answer
  <2>3. Has(s, Answer(k))
    BY <2>2 DEF Has
  <2>4. home[k] = s
    BY <1>1, <2>1, <2>2, TwoRows DEF Inv, AnswersInPlace
  <2>5. title[s] # NewChat
    <3>1. \/ title[s] # NewChat
          \/ Len(log[s]) > 2
          \/ ~Has(s, Answer(k))
      BY <1>1, <2>4 DEF Inv, StageInv, Done
    <3> QED BY <2>2, <2>3, <3>1
  <2>6. log[s][1] = Question(title[s])
    BY <1>1, <2>5 DEF Inv, TitleOfFirst, Question
  <2> QED BY <2>2, <2>6, TwoRows
<1> QED BY <1>1, InitInv, NextInv, PTL DEF Spec

-----------------------------------------------------------------------------
(* The conversations *)

\* Only a handler that is through has named a session.
Namer == \A s \in Session : title[s] # NewChat => stage[title[s]] = "done"

Seen == [k \in Send |-> Progress(stage[k])]

LEMMA InitNamer == ASSUME Init PROVE Namer
BY DEF Init, Namer

\* Stages of handlers that are through do not change.
LEMMA ThroughStays ==
    ASSUME Inv, Next, NEW j \in Send, stage[j] = "done"
    PROVE  stage'[j] = "done"
<1> USE DEF Inv
<1>1. ASSUME NEW k \in Send, Handler(k) PROVE stage'[j] = "done"
  <2>1. stage[k] \in Working /\ \E x : stage' = [stage EXCEPT ![k] = x]
    BY <1>1, HandlerStepped DEF Stepped
  <2>2. j # k
    BY <2>1 DEF Working
  <2> QED BY <2>1, <2>2 DEF TypeOK
<1>2. ASSUME Restart PROVE stage'[j] = "done"
  BY <1>2 DEF Restart, Working
<1>3. ASSUME NEW k \in Send, stage[k] = "none", NEW s, Post(k, s) PROVE stage'[j] = "done"
  BY <1>3 DEF Post, TypeOK
<1>4. ASSUME SendMessage PROVE stage'[j] = "done"
  <2>1. CASE active = NoSession
    BY <1>4, <2>1 DEF SendMessage
  <2>2. CASE active # NoSession
    <3>1. Post(sent + 1, active) /\ sent + 1 \in Send /\ sent + 1 > sent
      BY <1>4, <2>2, ChatAssumption DEF SendMessage, TypeOK, Send
    <3>2. stage[sent + 1] = "none"
      BY <3>1 DEF PageInv
    <3> QED BY <1>3, <3>1, <3>2
  <2> QED BY <2>1, <2>2
<1>5. ASSUME NEW k \in Send, SessionCreated(k) PROVE stage'[j] = "done"
  <2>1. stage[k] = "none" /\ Post(k, created + 1)
    BY <1>5 DEF SessionCreated, PageInv
  <2> QED BY <1>3, <2>1
<1>6. ASSUME UNCHANGED stage PROVE stage'[j] = "done"
  BY <1>6
<1>7. Delete \/ ClearHistory \/ SelectSession \/ NewConversation => UNCHANGED stage
  BY DEF Delete, ClearHistory, SelectSession, NewConversation, serverVars
<1>8. ASSUME NEW k \in Send, ShowAnswer(k) \/ EndAnswer(k) PROVE UNCHANGED stage
  BY <1>8 DEF ShowAnswer, EndAnswer, serverVars
<1>9. ASSUME NEW s \in Session, SessionLoaded(s) PROVE UNCHANGED stage
  BY <1>9 DEF SessionLoaded, serverVars
<1> QED BY <1>1, <1>2, <1>4, <1>5, <1>6, <1>7, <1>8, <1>9 DEF Next, Replies, User

\* Only GenerateTitle names a session.
LEMMA NamerKept == ASSUME Inv, Namer, [Next]_vars PROVE Namer'
<1> USE DEF Inv
<1>1. ASSUME UNCHANGED vars PROVE Namer'
  BY <1>1 DEF vars, dbVars, serverVars, Namer
<1>2. ASSUME Next, UNCHANGED title PROVE Namer'
  <2> SUFFICES ASSUME NEW s \in Session, title'[s] # NewChat PROVE stage'[title'[s]] = "done"
    BY DEF Namer
  <2>1. title'[s] = title[s] /\ title[s] \in Send /\ stage[title[s]] = "done"
    BY <1>2 DEF Namer, TypeOK
  <2> QED BY <1>2, <2>1, ThroughStays
<1>3. ASSUME NEW k \in Send, GenerateTitle(k) PROVE Namer'
  <2> SUFFICES ASSUME NEW s \in Session, title'[s] # NewChat PROVE stage'[title'[s]] = "done"
    BY DEF Namer
  <2>1. stage' = [stage EXCEPT ![k] = "done"] /\ stage'[k] = "done"
        /\ title' = [title EXCEPT ![home[k]] = IF home[k] \in live THEN k ELSE @]
    BY <1>3 DEF GenerateTitle, TypeOK
  <2>2. title'[s] = k \/ title'[s] = title[s]
    BY <2>1 DEF TypeOK
  <2>3. ASSUME title'[s] = title[s] PROVE stage'[title'[s]] = "done"
    <3>1. title[s] \in Send /\ stage[title[s]] = "done"
      BY <2>3 DEF Namer, TypeOK
    <3> QED BY <2>1, <2>3, <3>1 DEF TypeOK
  <2> QED BY <2>1, <2>2, <2>3
<1>4. ASSUME NEW k \in Send, Handler(k), ~GenerateTitle(k) PROVE UNCHANGED title
  BY <1>4 DEF Handler, SaveQuestion, TouchQuestion, FirstChunk, EndStream, SaveAnswer,
              TouchAnswer, CountMessages, dbVars
<1>5. Delete \/ Restart \/ User => UNCHANGED title
  BY DEF Delete, Restart, User, SendMessage, SelectSession, NewConversation, ClearHistory, dbVars
<1>6. ASSUME Replies PROVE UNCHANGED title
  BY <1>6 DEF Replies, SessionCreated, ShowAnswer, EndAnswer, SessionLoaded, dbVars
<1> QED BY <1>1, <1>2, <1>3, <1>4, <1>5, <1>6 DEF Next

LEMMA ProgressOf ==
    /\ Progress("none") = "unsent" /\ Progress("prepare") = "sent"
    /\ \A x \in Asking : Progress(x) = "asked"
    /\ \A x \in {"touch answer", "count", "title"} : Progress(x) = "answered"
    /\ \A x \in {"done", "failed", "lost"} : Progress(x) = "over"
BY DEF Progress, Asking

\* One handler's stage moves.
LEMMA SeenMoves ==
    ASSUME stage \in [Send -> Stages], NEW k \in Send, NEW x, stage' = [stage EXCEPT ![k] = x]
    PROVE  Seen' = [Seen EXCEPT ![k] = Progress(x)] /\ Seen[k] = Progress(stage[k])
<1>1. Seen' = [j \in Send |-> Progress(stage'[j])]
  BY DEF Seen
<1>2. \A j \in Send : stage'[j] = IF j = k THEN x ELSE stage[j]
  OBVIOUS
<1>3. [Seen EXCEPT ![k] = Progress(x)]
         = [j \in Send |-> IF j = k THEN Progress(x) ELSE Progress(stage[j])]
  BY DEF Seen
<1>4. \A j \in Send : Progress(stage'[j]) = IF j = k THEN Progress(x) ELSE Progress(stage[j])
  BY <1>2
<1> QED BY <1>1, <1>3, <1>4 DEF Seen

\* How far it got stays the same.
LEMMA SeenStill ==
    ASSUME stage \in [Send -> Stages], NEW k \in Send, NEW x, stage' = [stage EXCEPT ![k] = x],
           Progress(x) = Progress(stage[k])
    PROVE  Seen' = Seen
<1>1. Seen' = [j \in Send |-> Progress(stage'[j])] /\ Seen = [j \in Send |-> Progress(stage[j])]
  BY DEF Seen
<1>2. \A j \in Send : stage'[j] = IF j = k THEN x ELSE stage[j]
  OBVIOUS
<1>3. \A j \in Send : Progress(stage'[j]) = Progress(stage[j])
  BY <1>2
<1> QED BY <1>1, <1>3

\* A step that changes nothing a conversation is made of.
LEMMA StillConv ==
    ASSUME UNCHANGED <<created, live, title, log, home, stage>>
    PROVE  UNCHANGED Conv!convVars
BY DEF Conv!convVars

LEMMA StillSeen ==
    ASSUME UNCHANGED <<created, live, title, log, home>>, Seen' = Seen
    PROVE  UNCHANGED Conv!convVars
BY DEF Conv!convVars, Seen

\* A handler that ends, well or not, ends its message.
LEMMA EndRefines ==
    ASSUME Inv, NEW k \in Send, NEW x \in {"done", "failed"},
           stage' = [stage EXCEPT ![k] = x], UNCHANGED <<created, live, title, log, home>>,
           \/ stage[k] = "prepare" \/ stage[k] \in Asking
           \/ /\ stage[k] \in {"touch answer", "count", "title"}
              /\ home[k] \in live => Len(log[home[k]]) > 2
    PROVE  Conv!ConvNext
<1>1. Seen' = [Seen EXCEPT ![k] = Progress(x)] /\ Seen[k] = Progress(stage[k])
  BY SeenMoves DEF Inv, TypeOK
<1>2. Progress(x) = "over"
  BY ProgressOf
<1>3. \/ Seen[k] \in {"sent", "asked"}
      \/ Seen[k] = "answered" /\ (home[k] \in live => Len(log[home[k]]) > 2)
  BY <1>1, ProgressOf
<1>4. Conv!End(k)
  BY <1>1, <1>2, <1>3 DEF Conv!End, Seen
<1> QED BY <1>4 DEF Conv!ConvNext

LEMMA FailRefines ==
    ASSUME Inv, NEW k \in Send, Fail(k), UNCHANGED <<created, live, title, log, home>>,
           \/ stage[k] = "prepare" \/ stage[k] \in Asking
           \/ stage[k] = "touch answer" /\ home[k] \notin live
    PROVE  Conv!ConvNext
BY EndRefines DEF Fail

\* A step that lets a handler go on, and shows nothing of it.
LEMMA OnRefines ==
    ASSUME Inv, NEW k \in Send, NEW x, stage' = [stage EXCEPT ![k] = x],
           UNCHANGED <<created, live, title, log, home>>,
           \/ stage[k] \in Asking /\ x \in Asking
           \/ stage[k] \in {"touch answer", "count", "title"}
              /\ x \in {"touch answer", "count", "title"}
    PROVE  UNCHANGED Conv!convVars
<1>1. Progress(x) = Progress(stage[k])
  BY ProgressOf
<1>2. Seen' = Seen
  BY <1>1, SeenStill DEF Inv, TypeOK
<1> QED BY <1>2, StillSeen

\* A row that is stored is the message's next, in a session that is there.
LEMMA QuestionRefines ==
    ASSUME Inv, NEW k \in Send, SaveQuestion(k)
    PROVE  Conv!ConvNext
<1>1. stage[k] = "prepare" /\ UNCHANGED <<created, live, title, home>>
  BY DEF SaveQuestion, pageVars
<1>2. CASE Fail(k) /\ UNCHANGED log
  BY <1>1, <1>2, FailRefines
<1>3. CASE Insert(k, "user", "touch question") /\ ~(Fail(k) /\ UNCHANGED log)
  <2>1. /\ home[k] \in live
        /\ log' = [log EXCEPT ![home[k]] = Append(@, <<"user", k>>)]
        /\ stage' = [stage EXCEPT ![k] = "touch question"]
    BY <1>3 DEF Insert
  <2>2. Seen' = [Seen EXCEPT ![k] = "asked"] /\ Seen[k] = "sent"
    <3>1. stage[k] = "prepare" /\ stage' = [stage EXCEPT ![k] = "touch question"]
      BY <1>1, <2>1
    <3>2. Progress("prepare") = "sent" /\ Progress("touch question") = "asked"
      BY ProgressOf DEF Asking
    <3>3. stage \in [Send -> Stages]
      BY DEF Inv, TypeOK
    <3>4. Seen' = [Seen EXCEPT ![k] = Progress("touch question")] /\ Seen[k] = Progress(stage[k])
      BY <3>1, <3>3, SeenMoves
    <3> QED BY <3>1, <3>2, <3>4
  <2>3. Conv!Store(k, "sent", "asked", "user")
    BY <1>1, <2>1, <2>2 DEF Conv!Store, Seen
  <2> QED BY <2>3 DEF Conv!ConvNext, Conv!StoreQuestion
<1> QED BY <1>2, <1>3 DEF SaveQuestion

LEMMA AnswerRefines ==
    ASSUME Inv, NEW k \in Send, SaveAnswer(k)
    PROVE  Conv!ConvNext
<1>1. stage[k] = "save answer" /\ stage[k] \in Asking /\ UNCHANGED <<created, live, title, home>>
      /\ Insert(k, "assistant", "touch answer")
  BY DEF SaveAnswer, pageVars, Asking
<1>2. CASE home[k] \notin live
  <2>1. Fail(k) /\ UNCHANGED log
    BY <1>1, <1>2 DEF Insert
  <2> QED BY <1>1, <2>1, FailRefines
<1>3. CASE home[k] \in live
  <2>1. /\ log' = [log EXCEPT ![home[k]] = Append(@, <<"assistant", k>>)]
        /\ stage' = [stage EXCEPT ![k] = "touch answer"]
    BY <1>1, <1>3 DEF Insert
  <2>2. Seen' = [Seen EXCEPT ![k] = "answered"] /\ Seen[k] = "asked"
    <3>1. stage[k] = "save answer" /\ stage' = [stage EXCEPT ![k] = "touch answer"]
      BY <1>1, <2>1
    <3>2. Progress("save answer") = "asked" /\ Progress("touch answer") = "answered"
      BY ProgressOf DEF Asking
    <3>3. stage \in [Send -> Stages]
      BY DEF Inv, TypeOK
    <3>4. Seen' = [Seen EXCEPT ![k] = Progress("touch answer")] /\ Seen[k] = Progress(stage[k])
      BY <3>1, <3>3, SeenMoves
    <3> QED BY <3>1, <3>2, <3>4
  <2>3. Conv!Store(k, "asked", "answered", "assistant")
    BY <1>1, <1>3, <2>1, <2>2 DEF Conv!Store, Seen
  <2> QED BY <2>3 DEF Conv!ConvNext, Conv!StoreAnswer
<1> QED BY <1>2, <1>3

\* The name comes from the first exchange, and there was none before.
LEMMA NameRefines ==
    ASSUME Inv, Namer, NEW k \in Send, GenerateTitle(k)
    PROVE  Conv!ConvNext
<1> USE DEF Inv
<1>1. /\ stage[k] = "title" /\ stage' = [stage EXCEPT ![k] = "done"]
      /\ title' = [title EXCEPT ![home[k]] = IF home[k] \in live THEN k ELSE @]
      /\ UNCHANGED <<created, live, log, home>>
  BY DEF GenerateTitle, pageVars
<1>2. CASE home[k] \notin live
  <2>1. title' = title
    BY <1>1, <1>2 DEF TypeOK
  <2> QED BY <1>1, <1>2, <2>1, EndRefines
<1>3. CASE home[k] \in live
  <2>1. FirstExchange(home[k], k) /\ home[k] \in Session
    BY <1>1, <1>3, LiveSessions DEF StageInv, Titling
  <2>2. title[home[k]] = NewChat
    <3> SUFFICES ASSUME title[home[k]] # NewChat PROVE FALSE
      OBVIOUS
    <3>1. log[home[k]][1] = Question(title[home[k]])
      BY <1>3 DEF TitleOfFirst, Question
    <3>2. title[home[k]] = k
      BY <2>1, <3>1, TwoRows DEF FirstExchange
    <3> QED BY <1>1, <2>1, <3>2 DEF Namer
  <2>3. title' = [title EXCEPT ![home[k]] = k]
    BY <1>1, <1>3
  <2>4. Seen' = [Seen EXCEPT ![k] = "over"] /\ Seen[k] = "answered"
    <3>1. stage[k] = "title" /\ stage' = [stage EXCEPT ![k] = "done"]
      BY <1>1
    <3>2. Progress("title") = "answered" /\ Progress("done") = "over"
      BY ProgressOf DEF Asking
    <3>3. stage \in [Send -> Stages]
      BY DEF Inv, TypeOK
    <3>4. Seen' = [Seen EXCEPT ![k] = Progress("done")] /\ Seen[k] = Progress(stage[k])
      BY <3>1, <3>3, SeenMoves
    <3> QED BY <3>1, <3>2, <3>4
  <2>5. Conv!Name(k)
    BY <1>1, <1>3, <2>1, <2>2, <2>3, <2>4
       DEF Conv!Name, Seen, FirstExchange, Question, Answer, NewChat
  <2> QED BY <2>5 DEF Conv!ConvNext
<1> QED BY <1>2, <1>3

LEMMA HandlerRefines ==
    ASSUME Inv, Namer, NEW k \in Send, Handler(k)
    PROVE  [Conv!ConvNext]_(Conv!convVars)
<1>1. CASE TouchQuestion(k)
  <2>1. UNCHANGED <<created, live, title, log, home>> /\ stage[k] \in Asking
    BY <1>1 DEF TouchQuestion, dbVars, pageVars, Asking
  <2>2. CASE stage' = [stage EXCEPT ![k] = "ask"]
    BY <2>1, <2>2, OnRefines DEF Asking
  <2> QED BY <1>1, <2>1, <2>2, FailRefines DEF TouchQuestion, Touch
<1>2. CASE FirstChunk(k)
  <2>1. UNCHANGED <<created, live, title, log, home>> /\ stage[k] \in Asking
    BY <1>2 DEF FirstChunk, dbVars, pageVars, Asking
  <2>2. CASE stage' = [stage EXCEPT ![k] = "stream"]
    BY <2>1, <2>2, OnRefines DEF Asking
  <2> QED BY <1>2, <2>1, <2>2, FailRefines DEF FirstChunk
<1>3. CASE EndStream(k)
  <2>1. UNCHANGED <<created, live, title, log, home>> /\ stage[k] \in Asking
    BY <1>3 DEF EndStream, dbVars, pageVars, Asking
  <2>2. CASE stage' = [stage EXCEPT ![k] = "save answer"]
    BY <2>1, <2>2, OnRefines DEF Asking
  <2>3. CASE stage' = [stage EXCEPT ![k] = "done"]
    BY <2>1, <2>3, EndRefines
  <2> QED BY <1>3, <2>1, <2>2, <2>3, FailRefines DEF EndStream
<1>4. CASE TouchAnswer(k)
  <2>1. UNCHANGED <<created, live, title, log, home>> /\ stage[k] = "touch answer"
    BY <1>4 DEF TouchAnswer, dbVars, pageVars
  <2>2. CASE stage' = [stage EXCEPT ![k] = "count"]
    BY <2>1, <2>2, OnRefines
  <2> QED BY <1>4, <2>1, <2>2, FailRefines DEF TouchAnswer, Touch
<1>5. CASE CountMessages(k)
  <2>1. UNCHANGED <<created, live, title, log, home>> /\ stage[k] = "count"
    BY <1>5 DEF CountMessages, dbVars, pageVars
  <2>2. CASE stage' = [stage EXCEPT ![k] = "title"]
    BY <2>1, <2>2, OnRefines
  <2>3. CASE stage' = [stage EXCEPT ![k] = "done"] /\ ~(Len(log[home[k]]) <= 2)
    <3>1. home[k] \in live => Len(log[home[k]]) > 2
      BY <2>3, LiveSessions, LogTyped DEF Inv
    <3> QED BY <2>1, <2>3, <3>1, EndRefines
  <2> QED BY <1>5, <2>1, <2>2, <2>3 DEF CountMessages
<1> QED BY <1>1, <1>2, <1>3, <1>4, <1>5, QuestionRefines, AnswerRefines, NameRefines DEF Handler

-----------------------------------------------------------------------------

LEMMA DeleteRefines == ASSUME Inv, Delete PROVE Conv!ConvNext
<1>1. PICK gone \in {{s} : s \in live} \cup {live} :
         live' = live \ gone /\ log' = [s \in Session |-> IF s \in gone THEN <<>> ELSE log[s]]
  BY DEF Delete
<1>2. gone \subseteq live /\ gone \in SUBSET Session
  BY LiveSessions DEF Inv
<1>3. UNCHANGED <<created, title, home, stage>>
  BY DEF Delete, serverVars, pageVars
<1>4. Conv!Remove(gone)
  BY <1>1, <1>3 DEF Conv!Remove
<1> QED BY <1>2, <1>4 DEF Conv!ConvNext

\* What was in no session was nothing: clearing the history is the deletion of what is there.
LEMMA ClearRefines == ASSUME Inv, ClearHistory PROVE Conv!ConvNext
<1>1. live' = {} /\ log' = [s \in Session |-> <<>>] /\ UNCHANGED <<created, title, home, stage>>
  BY DEF ClearHistory, serverVars
<1>2. live' = live \ live /\ live \in SUBSET Session
  BY <1>1, LiveSessions DEF Inv
<1>3. \A s \in Session : (IF s \in live THEN <<>> ELSE log[s]) = <<>>
  BY DEF Inv, AnswersInPlace
<1>4. log' = [s \in Session |-> IF s \in live THEN <<>> ELSE log[s]]
  BY <1>1, <1>3
<1>5. Conv!Remove(live)
  BY <1>1, <1>2, <1>4 DEF Conv!Remove
<1> QED BY <1>2, <1>5 DEF Conv!ConvNext

LEMMA RestartRefines == ASSUME Inv, Restart PROVE Conv!ConvNext
<1>1. stage' = [k \in Send |-> IF stage[k] \in Working THEN "lost" ELSE stage[k]]
      /\ UNCHANGED <<created, live, title, log, home>>
  BY DEF Restart, dbVars
<1>2. \A k \in Send : Progress(stage'[k])
                        = IF Seen[k] \in {"sent", "asked", "answered"} THEN "over" ELSE Seen[k]
  <2> SUFFICES ASSUME NEW k \in Send
               PROVE  Progress(stage'[k])
                        = IF Seen[k] \in {"sent", "asked", "answered"} THEN "over" ELSE Seen[k]
    OBVIOUS
  <2>1. stage[k] \in Stages /\ Seen[k] = Progress(stage[k])
    BY DEF Inv, TypeOK, Seen
  <2>2. CASE stage[k] \in Working
    <3>1. stage'[k] = "lost"
      BY <1>1, <2>2
    <3>2. Seen[k] \in {"sent", "asked", "answered"}
      BY <2>1, <2>2, ProgressOf DEF Working, Asking
    <3> QED BY <3>1, <3>2, ProgressOf
  <2>3. CASE stage[k] \notin Working
    <3>1. stage'[k] = stage[k]
      BY <1>1, <2>3
    <3>2. Seen[k] \in {"unsent", "over"}
      BY <2>1, <2>3, ProgressOf DEF Stages
    <3> QED BY <2>1, <3>1, <3>2
  <2> QED BY <2>2, <2>3
<1>3. Seen' = [k \in Send |-> IF Seen[k] \in {"sent", "asked", "answered"} THEN "over" ELSE Seen[k]]
  BY <1>2 DEF Seen
<1>4. Conv!Lose
  BY <1>1, <1>3 DEF Conv!Lose, Conv!Underway, Seen
<1> QED BY <1>4 DEF Conv!ConvNext

\* A message is sent to the session the page is in, or to the one just made for it.
LEMMA SendRefines == ASSUME Inv, SendMessage PROVE [Conv!ConvNext]_(Conv!convVars)
<1> USE DEF Inv
<1>1. UNCHANGED <<created, live, title, log>>
  BY DEF SendMessage, dbVars
<1>2. CASE active = NoSession
  BY <1>1, <1>2, StillConv DEF SendMessage
<1>3. CASE active # NoSession
  <2> DEFINE k == sent + 1
  <2>1. Post(k, active) /\ k \in Send /\ k > sent
    BY <1>3, ChatAssumption DEF SendMessage, TypeOK, Send
  <2>2. stage[k] = "none"
    BY <2>1 DEF PageInv
  <2> HIDE DEF k
  <2>3. active \in 1 .. created /\ active \in Session
    BY <1>3, LiveSessions DEF TypeOK, NoSession
  <2>4. home' = [home EXCEPT ![k] = active] /\ stage' = [stage EXCEPT ![k] = "prepare"]
    BY <2>1 DEF Post
  <2>5. Seen' = [Seen EXCEPT ![k] = "sent"] /\ Seen[k] = "unsent"
    <3>1. stage[k] = "none" /\ stage' = [stage EXCEPT ![k] = "prepare"]
      BY <2>1, <2>2, <2>4
    <3>2. Progress("none") = "unsent" /\ Progress("prepare") = "sent"
      BY ProgressOf DEF Asking
    <3>3. stage \in [Send -> Stages]
      BY DEF Inv, TypeOK
    <3>4. Seen' = [Seen EXCEPT ![k] = Progress("prepare")] /\ Seen[k] = Progress(stage[k])
      BY <2>1, <3>1, <3>3, SeenMoves
    <3> QED BY <3>1, <3>2, <3>4
  <2>6. Conv!SendTo(k, active)
    BY <1>1, <2>3, <2>4, <2>5 DEF Conv!SendTo, Seen
  <2> QED BY <2>1, <2>3, <2>6 DEF Conv!ConvNext
<1> QED BY <1>2, <1>3

LEMMA CreatedRefines == ASSUME Inv, NEW k \in Send, SessionCreated(k) PROVE Conv!ConvNext
<1> DEFINE s == created + 1
<1>1. created \in Nat /\ s \in Session /\ created' = s /\ s \notin 1 .. created
  BY ChatAssumption DEF SessionCreated, Inv, TypeOK, Session
<1>2. 1 .. created' = 1 .. created \cup {s}
  BY <1>1
<1>3. stage[k] = "none"
  BY DEF SessionCreated, Inv, PageInv
<1>4. /\ home' = [home EXCEPT ![k] = s] /\ stage' = [stage EXCEPT ![k] = "prepare"]
      /\ live' = live \cup {s} /\ UNCHANGED <<title, log>>
  BY DEF SessionCreated, Post
<1> HIDE DEF s
<1>5. Seen' = [Seen EXCEPT ![k] = "sent"] /\ Seen[k] = "unsent"
  <2>1. stage[k] = "none" /\ stage' = [stage EXCEPT ![k] = "prepare"]
    BY <1>3, <1>4
  <2>2. Progress("none") = "unsent" /\ Progress("prepare") = "sent"
    BY ProgressOf DEF Asking
  <2>3. stage \in [Send -> Stages]
    BY DEF Inv, TypeOK
  <2>4. Seen' = [Seen EXCEPT ![k] = Progress("prepare")] /\ Seen[k] = Progress(stage[k])
    BY <2>1, <2>3, SeenMoves
  <2> QED BY <2>1, <2>2, <2>4
<1>6. Conv!SendTo(k, s)
  BY <1>1, <1>2, <1>4, <1>5 DEF Conv!SendTo, Seen
<1> QED BY <1>1, <1>6 DEF Conv!ConvNext

\* The page only looks.
LEMMA PageRefines ==
    ASSUME NEW k, NEW s,
           \/ ShowAnswer(k) \/ EndAnswer(k) \/ SelectSession \/ SessionLoaded(s)
           \/ NewConversation
    PROVE  UNCHANGED Conv!convVars
<1>1. UNCHANGED <<created, live, title, log, home, stage>>
  BY DEF ShowAnswer, EndAnswer, SelectSession, SessionLoaded, NewConversation,
         dbVars, serverVars
<1> QED BY <1>1, StillConv

LEMMA InitConv == ASSUME Init PROVE Conv!ConvInit
<1>1. /\ created = 0 /\ live = {} /\ title = [s \in Session |-> 0]
      /\ log = [s \in Session |-> <<>>] /\ home = [k \in Send |-> 0]
      /\ stage = [k \in Send |-> "none"]
  BY DEF Init, NewChat, NoSession
<1>2. 1 .. created = {}
  BY <1>1
<1>3. [k \in Send |-> Progress(stage[k])] = [k \in Send |-> "unsent"]
  BY <1>1, ProgressOf
<1> QED BY <1>1, <1>2, <1>3 DEF Conv!ConvInit

\* However handlers, pages, deletions and restarts overlap, the tables keep to the order of
\* a conversation: every step of the chats is a step of Conversations or one it does not see
\* (ollama_controller.ts:108-145, chat_service.ts:179-274).
THEOREM ImplementsConversations == Spec => KeepsConversations
<1>1. Inv /\ Namer /\ [Next]_vars => [Conv!ConvNext]_(Conv!convVars)
  <2> SUFFICES ASSUME Inv, Namer, [Next]_vars
               PROVE  [Conv!ConvNext]_(Conv!convVars)
    OBVIOUS
  <2>1. ASSUME NEW k \in Send, Handler(k) PROVE [Conv!ConvNext]_(Conv!convVars)
    BY <2>1, HandlerRefines
  <2>2. ASSUME Replies PROVE [Conv!ConvNext]_(Conv!convVars)
    BY <2>2, CreatedRefines, PageRefines DEF Replies
  <2>3. ASSUME User PROVE [Conv!ConvNext]_(Conv!convVars)
    BY <2>3, SendRefines, ClearRefines, PageRefines DEF User
  <2>4. ASSUME UNCHANGED vars PROVE UNCHANGED Conv!convVars
    <3>1. UNCHANGED <<created, live, title, log, home, stage>>
      BY <2>4 DEF vars, dbVars, serverVars, pageVars
    <3> QED BY <3>1, StillConv
  <2>5. ASSUME Delete \/ Restart PROVE Conv!ConvNext
    BY <2>5, DeleteRefines, RestartRefines
  <2> QED BY <2>1, <2>2, <2>3, <2>4, <2>5 DEF Next
<1>2. Inv /\ Namer /\ [Next]_vars => Inv' /\ Namer'
  BY NextInv, NamerKept
<1>3. Init => Inv /\ Namer
  BY InitInv, InitNamer
<1> QED BY <1>1, <1>2, <1>3, InitConv, PTL DEF Spec, KeepsConversations, Conv!ConvSpec

\* Handlers that overlap never give a session a second name, nor do they, a restart or the
\* deletion of other sessions change a row of a session that stays
\* (chat_service.ts:179-206, 235-274).
THEOREM HistoryStands == Spec => Conv!HistoryKept
<1> DEFINE Kept(s) == /\ title[s] # 0 => title'[s] = title[s]
                      /\ Len(log'[s]) >= Len(log[s])
                      /\ \A i \in 1 .. Len(log[s]) : log'[s][i] = log[s][i]
<1>1. ASSUME Inv, Inv', [Conv!ConvNext]_(Conv!convVars), NEW s \in live'
      PROVE  Kept(s)
  <2>1. s \in Session /\ log[s] \in Seq(Stored) /\ Len(log[s]) \in Nat
    <3>1. live' \subseteq 1 .. created' /\ created' \in 0 .. MaxSessions
      BY <1>1 DEF Inv, TypeOK
    <3>2. s \in Session
      BY <3>1, ChatAssumption DEF Session
    <3> QED BY <1>1, <3>2, LogTyped DEF Inv
  <2>2. ASSUME title'[s] = title[s], log'[s] = log[s] PROVE Kept(s)
    BY <2>1, <2>2
  <2>3. ASSUME NEW k \in Send, NEW from, NEW to, NEW role \in {"user", "assistant"},
               Conv!Store(k, from, to, role)
        PROVE  Kept(s)
    <3>1. log' = [log EXCEPT ![home[k]] = Append(@, <<role, k>>)] /\ title' = title
      BY <2>3 DEF Conv!Store
    <3>2. log'[s] = log[s] \/ log'[s] = Append(log[s], <<role, k>>)
      BY <1>1, <2>1, <3>1 DEF Inv, TypeOK
    <3>3. <<role, k>> \in Stored
      BY DEF Stored
    <3>4. CASE log'[s] = Append(log[s], <<role, k>>)
      BY <2>1, <3>1, <3>3, <3>4, AppendProperties
    <3> QED BY <2>2, <3>1, <3>2, <3>4
  <2>4. ASSUME NEW k \in Send, Conv!Name(k) PROVE Kept(s)
    <3>1. title' = [title EXCEPT ![home[k]] = k] /\ title[home[k]] = 0 /\ log' = log
      BY <2>4 DEF Conv!Name
    <3> QED BY <1>1, <2>1, <3>1 DEF Inv, TypeOK
  <2>5. ASSUME NEW gone, Conv!Remove(gone) PROVE Kept(s)
    <3>1. s \notin gone /\ title' = title
          /\ log' = [t \in Session |-> IF t \in gone THEN <<>> ELSE log[t]]
      BY <1>1, <2>5 DEF Conv!Remove
    <3> QED BY <2>1, <2>2, <3>1
  <2>6. ASSUME NEW k \in Send, NEW t, Conv!SendTo(k, t) \/ Conv!End(k)
        PROVE  title' = title /\ log' = log
    BY <2>6 DEF Conv!SendTo, Conv!End
  <2>7. Conv!Lose \/ UNCHANGED Conv!convVars => title' = title /\ log' = log
    BY DEF Conv!Lose, Conv!convVars
  <2> HIDE DEF Kept
  <2>8. ASSUME NEW k \in Send, Conv!StoreQuestion(k) \/ Conv!StoreAnswer(k) PROVE Kept(s)
    BY <2>3, <2>8 DEF Conv!StoreQuestion, Conv!StoreAnswer
  <2> QED BY <1>1, <2>2, <2>4, <2>5, <2>6, <2>7, <2>8 DEF Conv!ConvNext
<1>2. Inv /\ Inv' /\ [Conv!ConvNext]_(Conv!convVars)
        => [\A s \in live' : Kept(s)]_(Conv!convVars)
  BY <1>1
<1>3. Spec => []Inv
  BY InitInv, NextInv, PTL DEF Spec
<1>4. Spec => [][Conv!ConvNext]_(Conv!convVars)
  BY ImplementsConversations, PTL DEF KeepsConversations, Conv!ConvSpec
<1> QED BY <1>2, <1>3, <1>4, PTL DEF Conv!HistoryKept
=============================================================================
