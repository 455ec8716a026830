---------------------------- MODULE Conversations ----------------------------
(***************************************************************************)
(* What chat turns read and leave behind: the facade Agent.run_turn,       *)
(* run_task and _resolve_confirmation (app/agent/core.py) over the session *)
(* tables (app/memory/short_term.py), the context that is built from them  *)
(* (app/agent/context.py) and the profiles' file (app/agent/profiles.py).  *)
(*                                                                         *)
(* Tables and file outlive the process; turns do not. What happens inside  *)
(* a run is module Executor's: here it pauses, answers or breaks off.  The *)
(* table of the sessions themselves is only ever listed, and left out.     *)
(***************************************************************************)
EXTENDS Naturals, FiniteSets

CONSTANTS
    Turns,        \* chat requests and tasks
    Sessions,     \* session ids
    Names,        \* profile names
    DefaultName,  \* "default"
    HistoryLimit, \* MAX_HISTORY_MESSAGES
    None

ASSUME NamesAssumption == DefaultName \in Names /\ None \notin Names

ASSUME LimitAssumption == HistoryLimit \in Nat \ {0}

VARIABLES
    profiles, \* the file: memory_enabled of the profiles that exist
    created,  \* session ids in use: handed out, or named by a client
    messages, \* table messages
    lastId,   \* sqlite_sequence: the last id given to a message
    turn      \* the turns

table == <<messages, lastId>>

vars == <<profiles, created, messages, lastId, turn>>

-----------------------------------------------------------------------------

Message == [id: Nat, session: Sessions, role: {"user", "assistant"}, turn: Turns]

Conversation(s) == {m \in messages : m.session = s}

\* ORDER BY id DESC LIMIT ?
Latest(M) == {m \in M : Cardinality({n \in M : n.id > m.id}) < HistoryLimit}

\* get_history: the latest messages of a session. Its list, oldest first, is the
\* set in the order of the ids.
History(s) == Latest(Conversation(s))

\* Faulty variant: the message goes to the profile's name.
RowMisplaced(t, s, role) ==
    [id |-> lastId + 1, session |-> turn[t].name, role |-> role, turn |-> t]

\* The message add_message inserts. AUTOINCREMENT: no id is given out twice.
Row(t, s, role) == [id |-> lastId + 1, session |-> s, role |-> role, turn |-> t]

Insert(row) ==
    /\ messages' = messages \cup {row}
    /\ lastId' = lastId + 1

\* _resolve_profile, as to memory_enabled: a profile that does not exist is the
\* built-in default, which has memory.
MemoryEnabled(name) == name = None \/ profiles[name] # "off"

\* What a turn keeps while it runs: its AgentProfile object, whose settings no
\* later edit of the file changes; and whether its session was deleted since.
NoTurn == [pc |-> "new", session |-> None, name |-> None, memory |-> FALSE,
           context |-> {}, cleared |-> FALSE]

\* ContextBuilder.build, as to the history.
Context(s, memory) == IF memory THEN History(s) ELSE {}

\* Faulty variant: the context ends with the turn's own question.
BeginRecordedFirst(t, s, name) ==
    LET memory == MemoryEnabled(name)
    IN  /\ turn' = [turn EXCEPT ![t] =
              [NoTurn EXCEPT !.pc = "running", !.session = s, !.name = name, !.memory = memory,
                !.context = IF memory THEN Latest(Conversation(s) \cup {Row(t, s, "user")})
                                      ELSE {}]]
        /\ IF memory THEN Insert(Row(t, s, "user")) ELSE UNCHANGED table

\* run_turn up to the first await of its run: the context is built from the
\* history, then the question is recorded.
Begin(t, s, name) ==
    LET memory == MemoryEnabled(name)
    IN  /\ turn' = [turn EXCEPT ![t] =
              [NoTurn EXCEPT !.pc = "running", !.session = s, !.name = name, !.memory = memory,
                             !.context = Context(s, memory)]]
        /\ IF memory THEN Insert(Row(t, s, "user")) ELSE UNCHANGED table

\* A session id comes into use: a new one, or one that the client names, whether
\* its session is there, is gone or never was.  Nothing looks for it.
Use(s) == created' = created \cup {s}

\* create_session
NewSession(s) == s \notin created /\ Use(s)

Open(t) == turn[t].pc \in {"opened", "running", "paused"}

-----------------------------------------------------------------------------
(* Actions *)

Init ==
    /\ profiles \in [Names -> {"none", "on", "off"}]
    /\ created = {}
    /\ messages = {}
    /\ lastId = 0
    /\ turn = [t \in Turns |-> NoTurn]

\* POST /api/chat, with or without a session id.
Chat(t, s, name) ==
    /\ turn[t].pc = "new"
    /\ Use(s)
    /\ Begin(t, s, name)
    /\ UNCHANGED profiles

\* POST /api/chat/stream: the session is there before the turn's task starts.
OpenStream(t, s, name) ==
    /\ turn[t].pc = "new"
    /\ Use(s)
    /\ turn' = [turn EXCEPT ![t].pc = "opened", ![t].session = s, ![t].name = name]
    /\ UNCHANGED <<profiles, table>>

BeginStream(t) ==
    /\ turn[t].pc = "opened"
    /\ Begin(t, turn[t].session, turn[t].name)
    /\ UNCHANGED <<profiles, created>>

\* run_task: the profile is resolved once for the session and again, under the
\* name of what was found, for the turn.
RunTask(t, s, name) ==
    /\ turn[t].pc = "new"
    /\ NewSession(s)
    /\ Begin(t, s, IF name = None THEN DefaultName
                   ELSE IF profiles[name] = "none" THEN DefaultName ELSE name)
    /\ UNCHANGED profiles

\* The run asks for a confirmation: nothing is recorded.
Pause(t) ==
    /\ turn[t].pc = "running"
    /\ turn' = [turn EXCEPT ![t].pc = "paused"]
    /\ UNCHANGED <<profiles, created, table>>

\* The confirmation is approved or denied.
Resume(t) ==
    /\ turn[t].pc = "paused"
    /\ turn' = [turn EXCEPT ![t].pc = "running"]
    /\ UNCHANGED <<profiles, created, table>>

\* Faulty variant: the profile is looked up again when the answer is there.
RecordAnswerAnew(t) ==
    IF MemoryEnabled(turn[t].name)
    THEN Insert(Row(t, turn[t].session, "assistant")) ELSE UNCHANGED table

\* _maybe_record_final, with an answer that is not empty.
RecordAnswer(t) ==
    IF turn[t].memory
    THEN Insert(Row(t, turn[t].session, "assistant")) ELSE UNCHANGED table

\* Faulty variant: a run that has answered can be resumed once more.
AnswerResumable(t) ==
    /\ turn[t].pc = "running"
    /\ RecordAnswer(t)
    /\ turn' = [turn EXCEPT ![t].pc = "paused"]
    /\ UNCHANGED <<profiles, created>>

Answer(t) ==
    /\ turn[t].pc = "running"
    /\ RecordAnswer(t)
    /\ turn' = [turn EXCEPT ![t].pc = "over"]
    /\ UNCHANGED <<profiles, created>>

\* The run ends without an answer to record: the model's was empty, an
\* exception ended the run, or its confirmation is never resolved.
BreakOff(t) ==
    /\ turn[t].pc \in {"running", "paused"}
    /\ turn' = [turn EXCEPT ![t].pc = "over"]
    /\ UNCHANGED <<profiles, created, table>>

\* DELETE /api/sessions/{session_id}, also of a session that is gone: a second
\* one removes what was recorded after the first.
DeleteSession(s) ==
    /\ messages' = messages \ Conversation(s)
    /\ lastId' = lastId
    /\ turn' = [t \in Turns |-> IF turn[t].session = s /\ turn[t].pc # "opened"
                                THEN [turn[t] EXCEPT !.cleared = TRUE] ELSE turn[t]]
    /\ UNCHANGED <<profiles, created>>

\* upsert_profile and delete_profile
SetProfile(name) ==
    /\ \E setting \in {"none", "on", "off"} \ {profiles[name]} :
         profiles' = [profiles EXCEPT ![name] = setting]
    /\ UNCHANGED <<created, table, turn>>

\* The process restarts: every run is lost, tables and file stay.
Restart ==
    /\ \E t \in Turns : Open(t)
    /\ turn' = [t \in Turns |-> IF Open(t) THEN [turn[t] EXCEPT !.pc = "over"] ELSE turn[t]]
    /\ UNCHANGED <<profiles, created, table>>

Next ==
    \/ \E t \in Turns, s \in Sessions, name \in Names \cup {None} :
         \/ Chat(t, s, name)
         \/ OpenStream(t, s, name)
         \/ RunTask(t, s, name)
    \/ \E t \in Turns :
         BeginStream(t) \/ Pause(t) \/ Resume(t) \/ Answer(t) \/ BreakOff(t)
    \/ \E s \in Sessions : DeleteSession(s)
    \/ \E name \in Names : SetProfile(name)
    \/ Restart

Spec == Init /\ [][Next]_vars

-----------------------------------------------------------------------------
(* Properties *)

Turn == [pc: {"new", "opened", "running", "paused", "over"}, session: Sessions \cup {None},
         name: Names \cup {None}, memory: BOOLEAN, context: SUBSET Message, cleared: BOOLEAN]

TypeOK ==
    /\ profiles \in [Names -> {"none", "on", "off"}]
    /\ created \subseteq Sessions
    /\ messages \subseteq Message /\ IsFiniteSet(messages)
    /\ lastId \in Nat
    /\ turn \in [Turns -> Turn]

\* Whatever turns overlap, pause or break off: an answer is recorded once, in
\* the session that was asked, after its question. The question is missing only
\* if the session was cleared in between (core.py:75-77, 136).
AnswerFollowsQuestion ==
    \A m \in messages : m.role = "assistant" =>
        /\ turn[m.turn].pc = "over" /\ turn[m.turn].session = m.session
        /\ \A n \in messages : n.turn = m.turn /\ n.role = "assistant" => n = m
        /\ \/ turn[m.turn].cleared
           \/ \E q \in messages : /\ q.turn = m.turn /\ q.role = "user"
                                  /\ q.session = m.session /\ q.id < m.id

\* A turn whose profile had no memory when it began sees and leaves no message,
\* though its profile may be edited or deleted while it runs or waits
\* (core.py:76, 90-91, context.py:25-34).
OffLeavesNoTrace ==
    /\ \A m \in messages : turn[m.turn].memory
    /\ \A t \in Turns : ~turn[t].memory => turn[t].context = {}

\* What the session of message m held before it.
Earlier(m) == {n \in Conversation(m.session) : n.id < m.id}

\* What a turn was told is what its session held just before its own question,
\* and the latest of it: other turns of the session, deletions and restarts do
\* not come between (context.py:33-36, short_term.py:92-103).
ContextIsWhatCameBefore ==
    \A m \in messages : m.role = "user" =>
        LET told == turn[m.turn].context
            held == Earlier(m)
        IN  /\ told \subseteq held
            /\ \A n \in told, o \in held \ told : o.id < n.id
            /\ Cardinality(told) = IF Cardinality(held) < HistoryLimit
                                   THEN Cardinality(held) ELSE HistoryLimit

-----------------------------------------------------------------------------
(* The inductive invariant *)

Begun(t) == turn[t].pc \in {"running", "paused", "over"}

\* Ids tell messages apart, and each belongs to a turn that has begun, in its
\* session.
MessagesFollow ==
    /\ \A m \in messages : /\ m.id <= lastId
                           /\ Begun(m.turn) /\ turn[m.turn].session = m.session
    /\ \A m, n \in messages : m.id = n.id => m = n

\* A turn under way has a session, and once it runs, its question there.
QuestionStands ==
    \A t \in Turns : Open(t) =>
        /\ turn[t].session \in Sessions
        /\ turn[t].pc # "opened" /\ turn[t].memory /\ ~turn[t].cleared =>
             \E q \in messages : q.turn = t /\ q.role = "user" /\ q.session = turn[t].session

\* A turn's context is what History gave when its question was recorded.
ContextsKept ==
    \A m \in messages : m.role = "user" => turn[m.turn].context = Latest(Earlier(m))

\* The other invariants do not say which messages a context left out, nor that
\* a turn which may still answer has its question there.
IInv ==
    /\ TypeOK
    /\ MessagesFollow
    /\ QuestionStands
    /\ AnswerFollowsQuestion
    /\ OffLeavesNoTrace
    /\ ContextsKept
=============================================================================
