--------------------------- MODULE Conversations ---------------------------
(***************************************************************************)
(* What ChatSessions promises to whoever reads the stored conversations:   *)
(* a message is sent to a session, its question is stored there, then its  *)
(* answer, and the first exchange names the session, once.  Only deletion  *)
(* takes rows away, and then all of a session.  Handlers, their stages,    *)
(* the streams, the page and its copies are not part of it.                *)
(***************************************************************************)
EXTENDS Naturals, Sequences

CONSTANTS
    Session, Message,
    None        \* no session, and no name

VARIABLES
    opened,     \* the sessions there are or were
    present,    \* those there are
    name,       \* the message each is named after
    rows,       \* the questions and answers in each
    place,      \* the session each message was sent to
    progress    \* how far each message got

convVars == <<opened, present, name, rows, place, progress>>

Underway == {"sent", "asked", "answered"}

ConvInit ==
    /\ opened = {} /\ present = {}
    /\ name = [s \in Session |-> None]
    /\ rows = [s \in Session |-> <<>>]
    /\ place = [k \in Message |-> None]
    /\ progress = [k \in Message |-> "unsent"]

\* To a session that was opened, though it may be gone, or to a new one.
SendTo(k, s) ==
    /\ progress[k] = "unsent"
    /\ progress' = [progress EXCEPT ![k] = "sent"]
    /\ place' = [place EXCEPT ![k] = s]
    /\ \/ s \in opened /\ UNCHANGED <<opened, present>>
       \/ s \in Session \ opened /\ opened' = opened \cup {s} /\ present' = present \cup {s}
    /\ UNCHANGED <<name, rows>>

\* A row is added, to a session that is there.
Store(k, from, to, role) ==
    /\ progress[k] = from /\ place[k] \in present
    /\ rows' = [rows EXCEPT ![place[k]] = Append(@, <<role, k>>)]
    /\ progress' = [progress EXCEPT ![k] = to]
    /\ UNCHANGED <<opened, present, name, place>>

StoreQuestion(k) == Store(k, "sent", "asked", "user")
StoreAnswer(k) == Store(k, "asked", "answered", "assistant")

\* The session has no name yet, and the exchange is its first.
Name(k) ==
    LET s == place[k]
    IN  /\ progress[k] = "answered" /\ s \in present
        /\ name[s] = None
        /\ Len(rows[s]) >= 2 /\ rows[s][1] = <<"user", k>> /\ rows[s][2] = <<"assistant", k>>
        /\ name' = [name EXCEPT ![s] = k]
        /\ progress' = [progress EXCEPT ![k] = "over"]
        /\ UNCHANGED <<opened, present, rows, place>>

\* Nobody need answer; but what is answered ends without a name only in a session that
\* is gone or had a row before it or since.
End(k) ==
    /\ \/ progress[k] \in {"sent", "asked"}
       \/ progress[k] = "answered" /\ (place[k] \in present => Len(rows[place[k]]) > 2)
    /\ progress' = [progress EXCEPT ![k] = "over"]
    /\ UNCHANGED <<opened, present, name, rows, place>>

\* What is under way is lost with the server.
Lose ==
    /\ progress' = [k \in Message |-> IF progress[k] \in Underway THEN "over" ELSE progress[k]]
    /\ UNCHANGED <<opened, present, name, rows, place>>

Remove(gone) ==
    /\ present' = present \ gone
    /\ rows' = [s \in Session |-> IF s \in gone THEN <<>> ELSE rows[s]]
    /\ UNCHANGED <<opened, name, place, progress>>

ConvNext ==
    \/ \E gone \in SUBSET Session : Remove(gone)
    \/ Lose
    \/ \E k \in Message :
         \/ StoreQuestion(k) \/ StoreAnswer(k) \/ Name(k) \/ End(k)
         \/ \E s \in Session : SendTo(k, s)

ConvSpec == ConvInit /\ [][ConvNext]_convVars

-----------------------------------------------------------------------------
(* Properties *)

\* Who has read a session can rely on it: as long as it is there its name stays and its
\* rows do, in their order; more may follow (chat_service.ts:179-206, 235-274).
HistoryKept ==
    [][\A s \in present' :
         /\ name[s] # None => name'[s] = name[s]
         /\ Len(rows'[s]) >= Len(rows[s])
         /\ \A i \in 1 .. Len(rows[s]) : rows'[s][i] = rows[s][i]]_convVars
=============================================================================
