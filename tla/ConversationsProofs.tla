------------------------ MODULE ConversationsProofs ------------------------
(***************************************************************************)
(* Proofs about Conversations, for every set of turns, sessions and        *)
(* profiles, and for every limit of the history.                           *)
(***************************************************************************)
EXTENDS Conversations, FiniteSetTheorems, TLAPS

(* The latest messages of a set *)

After(m, M) == {n \in M : n.id > m.id}

\* Messages of a finite set, told apart by their ids.
Numbered(M) ==
    /\ IsFiniteSet(M)
    /\ \A m \in M : m.id \in Nat
    /\ \A m, n \in M : m.id = n.id => m = n

\* The later a message, the fewer come after it.
LEMMA RankDrops ==
    ASSUME NEW M, Numbered(M), NEW m \in M, NEW n \in M
    PROVE  /\ Cardinality(After(m, M)) \in Nat
           /\ Cardinality(After(m, M)) < Cardinality(M)
           /\ m.id > n.id => Cardinality(After(m, M)) < Cardinality(After(n, M))
<1>1. /\ IsFiniteSet(M) /\ m.id \in Nat /\ n.id \in Nat
      /\ \A o \in M : o.id \in Nat
  BY DEF Numbered
<1>2. After(m, M) \in SUBSET (M \ {m}) BY <1>1 DEF After
<1>3. /\ IsFiniteSet(M \ {m}) /\ Cardinality(M \ {m}) = Cardinality(M) - 1
      /\ Cardinality(M) \in Nat
  BY <1>1, FS_RemoveElement, FS_CardinalityType
<1>4. IsFiniteSet(After(m, M)) /\ Cardinality(After(m, M)) <= Cardinality(M \ {m})
  BY <1>2, <1>3, FS_Subset
<1>5. Cardinality(After(m, M)) \in Nat BY <1>4, FS_CardinalityType
<1>6. ASSUME m.id > n.id PROVE Cardinality(After(m, M)) < Cardinality(After(n, M))
  <2>1. m \notin After(m, M) BY <1>1 DEF After
  <2>2. After(n, M) \in SUBSET M BY DEF After
  <2>3. IsFiniteSet(After(n, M)) BY <1>1, <2>2, FS_Subset
  <2>4. After(m, M) \cup {m} \in SUBSET After(n, M) BY <1>1, <1>6 DEF After
  <2>5. Cardinality(After(m, M) \cup {m}) <= Cardinality(After(n, M))
    BY <2>3, <2>4, FS_Subset
  <2>6. Cardinality(After(m, M) \cup {m}) = Cardinality(After(m, M)) + 1
    BY <1>4, <2>1, FS_AddElement
  <2>7. Cardinality(After(n, M)) \in Nat BY <2>3, FS_CardinalityType
  <2>. QED BY <1>5, <2>5, <2>6, <2>7
<1>. QED BY <1>3, <1>4, <1>5, <1>6

LEMMA IntervalSize ==
    ASSUME NEW k \in Nat
    PROVE  IsFiniteSet(0..(k - 1)) /\ Cardinality(0..(k - 1)) = k
<1>1. 0 \in Int /\ k - 1 \in Int OBVIOUS
<1>2. /\ IsFiniteSet(0..(k - 1))
      /\ 0 > k - 1 => Cardinality(0..(k - 1)) = 0
      /\ 0 <= k - 1 => Cardinality(0..(k - 1)) = (k - 1) - 0 + 1
  BY <1>1, FS_Interval
<1>. QED BY <1>1, <1>2

\* Every number of later messages, below the size of the set, is some message's.
LEMMA RankReached ==
    ASSUME NEW M, Numbered(M), NEW k \in Nat, k < Cardinality(M)
    PROVE  \E m \in M : Cardinality(After(m, M)) = k
<1> DEFINE T == 0..(Cardinality(M) - 1)
           f == [m \in M |-> Cardinality(After(m, M))]
<1>1. IsFiniteSet(M) /\ Cardinality(M) \in Nat BY FS_CardinalityType DEF Numbered
<1>2. IsFiniteSet(T) /\ Cardinality(T) = Cardinality(M) BY <1>1, IntervalSize
<1>3. f \in [M -> T] BY <1>1, RankDrops
<1>4. ASSUME NEW m \in M, NEW n \in M, f[m] = f[n] PROVE m = n
  <2>1. m.id \in Nat /\ n.id \in Nat /\ (m.id = n.id => m = n) BY DEF Numbered
  <2>2. Cardinality(After(m, M)) = Cardinality(After(n, M)) BY <1>4
  <2>3. ~(m.id > n.id) /\ ~(n.id > m.id) BY <2>2, RankDrops
  <2>. QED BY <2>1, <2>3
<1> HIDE DEF f, T
<1>5. f \in Injection(M, T) BY <1>3, <1>4 DEF Injection, IsInjective
<1>6. f \in Surjection(M, T) BY <1>2, <1>5, FS_Injection
<1>7. k \in T BY <1>1 DEF T
<1>8. \E m \in M : f[m] = k BY <1>6, <1>7 DEF Surjection
<1>. QED BY <1>8 DEF f

\* ORDER BY id DESC LIMIT n: nothing left out is later than what is kept, and
\* as many are kept as there are, up to the limit.
LEMMA LatestKeeps ==
    ASSUME NEW M, Numbered(M)
    PROVE  /\ Latest(M) \subseteq M
           /\ \A n \in Latest(M), o \in M \ Latest(M) : o.id < n.id
           /\ Cardinality(Latest(M)) = IF Cardinality(M) < HistoryLimit
                                       THEN Cardinality(M) ELSE HistoryLimit
<1> DEFINE L == {m \in M : Cardinality(After(m, M)) < HistoryLimit}
           K == IF Cardinality(M) < HistoryLimit THEN Cardinality(M) ELSE HistoryLimit
           T == 0..(K - 1)
           f == [m \in L |-> Cardinality(After(m, M))]
<1>0. Latest(M) = L BY DEF Latest, After
<1>1. IsFiniteSet(M) /\ Cardinality(M) \in Nat BY FS_CardinalityType DEF Numbered
<1>2. HistoryLimit \in Nat /\ K \in Nat BY <1>1, LimitAssumption
<1>3. ASSUME NEW n \in L, NEW o \in M \ L PROVE o.id < n.id
  <2>1. n.id \in Nat /\ o.id \in Nat /\ (o.id = n.id => o = n) BY DEF Numbered
  <2>2. /\ Cardinality(After(n, M)) \in Nat /\ Cardinality(After(o, M)) \in Nat
        /\ o.id > n.id => Cardinality(After(o, M)) < Cardinality(After(n, M))
    BY RankDrops
  <2>3. Cardinality(After(n, M)) < HistoryLimit /\ ~(Cardinality(After(o, M)) < HistoryLimit)
    OBVIOUS
  <2>. QED BY <1>2, <2>1, <2>2, <2>3
<1>4. IsFiniteSet(T) /\ Cardinality(T) = K BY <1>2, IntervalSize
<1>5. f \in [L -> T]
  <2>1. ASSUME NEW m \in L PROVE Cardinality(After(m, M)) \in T
    <3>1. Cardinality(After(m, M)) \in Nat /\ Cardinality(After(m, M)) < Cardinality(M)
      BY RankDrops
    <3>2. Cardinality(After(m, M)) < HistoryLimit OBVIOUS
    <3>. QED BY <1>1, <1>2, <3>1, <3>2
  <2>. QED BY <2>1
<1>6. ASSUME NEW m \in L, NEW n \in L, f[m] = f[n] PROVE m = n
  <2>1. m.id \in Nat /\ n.id \in Nat /\ (m.id = n.id => m = n) BY DEF Numbered
  <2>2. Cardinality(After(m, M)) = Cardinality(After(n, M)) BY <1>6
  <2>3. ~(m.id > n.id) /\ ~(n.id > m.id) BY <2>2, RankDrops
  <2>. QED BY <2>1, <2>3
<1>7. ASSUME NEW k \in T PROVE \E m \in L : f[m] = k
  <2>1. k \in Nat /\ k < Cardinality(M) /\ k < HistoryLimit BY <1>1, <1>2
  <2>2. PICK m \in M : Cardinality(After(m, M)) = k BY <2>1, RankReached
  <2>3. m \in L BY <2>1, <2>2
  <2>. QED BY <2>2, <2>3
<1> HIDE DEF f, T, K, L
<1>8. f \in Injection(L, T) /\ f \in Surjection(L, T)
  BY <1>5, <1>6, <1>7 DEF Injection, Surjection, IsInjective
<1>9. Cardinality(L) = K BY <1>4, <1>8, FS_Injection
<1>. QED BY <1>0, <1>3, <1>9 DEF L, K
-----------------------------------------------------------------------------
(* Steps *)

\* The part of the invariant that is about turns and messages.
ChatInv ==
    /\ messages \subseteq Message /\ IsFiniteSet(messages) /\ lastId \in Nat
    /\ turn \in [Turns -> Turn]
    /\ MessagesFollow
    /\ QuestionStands
    /\ AnswerFollowsQuestion
    /\ OffLeavesNoTrace
    /\ ContextsKept

SettingsOK ==
    /\ profiles \in [Names -> {"none", "on", "off"}]
    /\ created \subseteq Sessions

LEMMA Parts == IInv <=> ChatInv /\ SettingsOK
BY DEF IInv, TypeOK, ChatInv, SettingsOK

LEMMA AreNumbered ==
    ASSUME ChatInv
    PROVE  /\ \A s : Numbered(Conversation(s))
           /\ \A m \in messages : Numbered(Earlier(m))
<1>1. Numbered(messages) BY DEF ChatInv, MessagesFollow, Numbered, Message
<1>2. ASSUME NEW S \in SUBSET messages PROVE Numbered(S)
  <2>1. IsFiniteSet(S) BY <1>1, FS_Subset DEF Numbered
  <2>. QED BY <1>1, <2>1 DEF Numbered
<1>3. \A s : Conversation(s) \in SUBSET messages BY DEF Conversation
<1>4. \A m : Earlier(m) \in SUBSET messages BY DEF Earlier, Conversation
<1>. QED BY <1>2, <1>3, <1>4

\* Turns that move on leave the invariant, as long as the tables and what the
\* turns remember stay.
LEMMA TurnsMove ==
    ASSUME ChatInv, UNCHANGED table, turn' \in [Turns -> Turn],
           \A t \in Turns :
               /\ turn'[t].memory = turn[t].memory /\ turn'[t].context = turn[t].context
               /\ turn'[t].cleared = turn[t].cleared
               /\ Begun(t) => Begun(t)' /\ turn'[t].session = turn[t].session
               /\ turn[t].pc = "over" => turn'[t].pc = "over"
               /\ Open(t)' => turn'[t].session \in Sessions
               /\ turn'[t].pc \in {"running", "paused"} => turn[t].pc \in {"running", "paused"}
    PROVE  ChatInv'
<1>1. messages' = messages /\ lastId' = lastId BY DEF table
<1>2. \A m \in messages : m \in Message BY DEF ChatInv
<1>3. \A m \in messages : m.turn \in Turns BY <1>2 DEF Message
<1>4. MessagesFollow' BY <1>1, <1>3 DEF ChatInv, MessagesFollow
<1>5. QuestionStands'
  <2>1. ASSUME NEW t \in Turns, Open(t)', turn'[t].pc # "opened", turn'[t].memory, ~turn'[t].cleared
        PROVE  \E q \in messages : q.turn = t /\ q.role = "user" /\ q.session = turn'[t].session
    <3>1. turn'[t].pc \in {"running", "paused"} BY <2>1 DEF Open
    <3>2. turn[t].pc \in {"running", "paused"} BY <3>1
    <3>3. Open(t) /\ Begun(t) /\ turn[t].pc # "opened" BY <3>2 DEF Open, Begun
    <3>. QED BY <2>1, <3>3 DEF ChatInv, QuestionStands
  <2>. QED BY <1>1, <2>1 DEF QuestionStands
<1>6. AnswerFollowsQuestion'
  <2>1. ASSUME NEW m \in messages, m.role = "assistant"
        PROVE  /\ turn'[m.turn].pc = "over" /\ turn'[m.turn].session = m.session
               /\ \A n \in messages : n.turn = m.turn /\ n.role = "assistant" => n = m
               /\ \/ turn'[m.turn].cleared
                  \/ \E q \in messages : /\ q.turn = m.turn /\ q.role = "user"
                                         /\ q.session = m.session /\ q.id < m.id
    BY <1>3, <2>1 DEF ChatInv, AnswerFollowsQuestion, Begun
  <2>. QED BY <1>1, <2>1 DEF AnswerFollowsQuestion
<1>7. OffLeavesNoTrace' BY <1>1, <1>3 DEF ChatInv, OffLeavesNoTrace
<1>8. \A m : (Latest(Earlier(m)))' = Latest(Earlier(m))
  BY <1>1 DEF Earlier, Conversation, Latest
<1>9. ContextsKept' BY <1>1, <1>3, <1>8 DEF ChatInv, ContextsKept
<1>. QED BY <1>1, <1>4, <1>5, <1>6, <1>7, <1>9 DEF ChatInv

\* A turn that begins has no message yet.
LEMMA NoMessageYet ==
    ASSUME ChatInv, NEW t \in Turns, ~Begun(t)
    PROVE  \A m \in messages : m.turn \in Turns /\ m.turn # t
BY DEF ChatInv, MessagesFollow, Message

LEMMA BeginOff ==
    ASSUME ChatInv, NEW t \in Turns, ~Begun(t), UNCHANGED table,
           NEW v \in Turn, turn' = [turn EXCEPT ![t] = v],
           v.pc = "running", v.session \in Sessions, ~v.memory, v.context = {}
    PROVE  ChatInv'
<1>1. messages' = messages /\ lastId' = lastId BY DEF table
<1>2. /\ turn \in [Turns -> Turn] /\ turn' \in [Turns -> Turn] /\ turn'[t] = v
      /\ \A u \in Turns \ {t} : turn'[u] = turn[u]
  BY DEF ChatInv
<1>3. \A m \in messages : m.turn \in Turns /\ m.turn # t BY NoMessageYet
<1>4. \A m \in messages : turn'[m.turn] = turn[m.turn] BY <1>2, <1>3
<1>5. MessagesFollow' BY <1>1, <1>4 DEF ChatInv, MessagesFollow, Begun
<1>6. QuestionStands' BY <1>1, <1>2 DEF ChatInv, QuestionStands, Open
<1>7. AnswerFollowsQuestion' BY <1>1, <1>4 DEF ChatInv, AnswerFollowsQuestion
<1>8. OffLeavesNoTrace' BY <1>1, <1>2, <1>4 DEF ChatInv, OffLeavesNoTrace
<1>9. \A m : (Latest(Earlier(m)))' = Latest(Earlier(m))
  BY <1>1 DEF Earlier, Conversation, Latest
<1>10. ContextsKept' BY <1>1, <1>4, <1>9 DEF ChatInv, ContextsKept
<1>. QED BY <1>1, <1>2, <1>5, <1>6, <1>7, <1>8, <1>10 DEF ChatInv

\* What an inserted row does to the tables.
LEMMA Inserted ==
    ASSUME ChatInv, NEW row \in Message, row.id = lastId + 1, Insert(row)
    PROVE  /\ messages' \subseteq Message /\ IsFiniteSet(messages') /\ lastId' \in Nat
           /\ row \in messages' /\ row \notin messages
           /\ messages' = messages \cup {row} /\ lastId' = lastId + 1
           /\ \A m \in messages : m.id \in Nat /\ m.id <= lastId /\ m.id < row.id /\ m.turn \in Turns
           /\ \A m \in messages : Earlier(m)' = Earlier(m)
           /\ Earlier(row)' = Conversation(row.session)
<1>1. messages' = messages \cup {row} /\ lastId' = lastId + 1 BY DEF Insert
<1>2. /\ messages \subseteq Message /\ IsFiniteSet(messages) /\ lastId \in Nat
      /\ \A m \in messages : m.id <= lastId
  BY DEF ChatInv, MessagesFollow
<1>3. \A m \in messages : m.id \in Nat /\ m.id <= lastId /\ m.id < row.id /\ m.turn \in Turns
  BY <1>2 DEF Message
<1>4. row \notin messages BY <1>3, <1>2
<1>5. IsFiniteSet(messages') BY <1>1, <1>2, FS_AddElement
<1>6. \A m \in messages : Earlier(m)' = Earlier(m)
  BY <1>1, <1>2, <1>3 DEF Earlier, Conversation
<1>7. Earlier(row)' = Conversation(row.session)
  BY <1>1, <1>2, <1>3 DEF Earlier, Conversation
<1>. QED BY <1>1, <1>2, <1>3, <1>4, <1>5, <1>6, <1>7

LEMMA BeginOn ==
    ASSUME ChatInv, NEW t \in Turns, ~Begun(t),
           NEW v \in Turn, turn' = [turn EXCEPT ![t] = v],
           v.pc = "running", v.session \in Sessions, v.memory, v.context = History(v.session),
           Insert(Row(t, v.session, "user"))
    PROVE  ChatInv'
<1>0. lastId \in Nat BY DEF ChatInv
<1>1. PICK row \in Message :
        /\ row.id = lastId + 1 /\ row.turn = t /\ row.role = "user"
        /\ row.session = v.session /\ Insert(row)
  <2>1. Row(t, v.session, "user") \in Message BY <1>0 DEF Row, Message
  <2>. QED BY <2>1 DEF Row
<1>2. /\ messages' \subseteq Message /\ IsFiniteSet(messages') /\ lastId' \in Nat
      /\ row \in messages' /\ row \notin messages
      /\ messages' = messages \cup {row} /\ lastId' = lastId + 1
      /\ \A m \in messages : m.id \in Nat /\ m.id <= lastId /\ m.id < row.id /\ m.turn \in Turns
      /\ \A m \in messages : Earlier(m)' = Earlier(m)
      /\ Earlier(row)' = Conversation(row.session)
  BY <1>1, Inserted
<1>3. /\ turn \in [Turns -> Turn] /\ turn' \in [Turns -> Turn] /\ turn'[t] = v
      /\ \A u \in Turns \ {t} : turn'[u] = turn[u]
  BY DEF ChatInv
<1>4. \A m \in messages : m.turn \in Turns /\ m.turn # t BY NoMessageYet
<1>5. \A m \in messages : turn'[m.turn] = turn[m.turn] BY <1>3, <1>4
<1>6. MessagesFollow'
  <2>1. \A m \in messages' : /\ m.id <= lastId' /\ turn'[m.turn].session = m.session
                             /\ turn'[m.turn].pc \in {"running", "paused", "over"}
    BY <1>0, <1>1, <1>2, <1>3, <1>5 DEF ChatInv, MessagesFollow, Begun
  <2>2. \A m, n \in messages' : m.id = n.id => m = n
    BY <1>0, <1>1, <1>2 DEF ChatInv, MessagesFollow
  <2>. QED BY <2>1, <2>2 DEF MessagesFollow, Begun
<1>7. QuestionStands' BY <1>1, <1>2, <1>3 DEF ChatInv, QuestionStands, Open
<1>8. AnswerFollowsQuestion'
  <2>1. ASSUME NEW m \in messages, m.role = "assistant"
        PROVE  /\ turn'[m.turn].pc = "over" /\ turn'[m.turn].session = m.session
               /\ \A n \in messages' : n.turn = m.turn /\ n.role = "assistant" => n = m
               /\ \/ turn'[m.turn].cleared
                  \/ \E q \in messages' : /\ q.turn = m.turn /\ q.role = "user"
                                          /\ q.session = m.session /\ q.id < m.id
    BY <1>1, <1>2, <1>5, <2>1 DEF ChatInv, AnswerFollowsQuestion
  <2>. QED BY <1>1, <1>2, <2>1 DEF AnswerFollowsQuestion
<1>9. OffLeavesNoTrace' BY <1>1, <1>2, <1>3, <1>5 DEF ChatInv, OffLeavesNoTrace
<1>10. ContextsKept'
  <2>1. ASSUME NEW m \in messages, m.role = "user"
        PROVE  turn'[m.turn].context = Latest(Earlier(m)')
    BY <1>2, <1>5, <2>1 DEF ChatInv, ContextsKept
  <2>2. turn'[row.turn].context = Latest(Earlier(row)') BY <1>1, <1>2, <1>3 DEF History
  <2>3. \A m : (Latest(Earlier(m)))' = Latest(Earlier(m)') BY DEF Latest
  <2>. QED BY <1>2, <2>1, <2>2, <2>3 DEF ContextsKept
<1>. QED BY <1>2, <1>3, <1>6, <1>7, <1>8, <1>9, <1>10 DEF ChatInv

\* The answer of a running turn goes to the session of its question.
LEMMA AnswerOn ==
    ASSUME ChatInv, NEW t \in Turns, turn[t].pc = "running", turn[t].memory,
           NEW v \in Turn, turn' = [turn EXCEPT ![t] = v],
           v.pc = "over", v.session = turn[t].session, v.memory,
           v.context = turn[t].context, v.cleared = turn[t].cleared,
           Insert(Row(t, v.session, "assistant"))
    PROVE  ChatInv'
<1>0. lastId \in Nat /\ v.session \in Sessions BY DEF ChatInv, QuestionStands, Open
<1>1. PICK row \in Message :
        /\ row.id = lastId + 1 /\ row.turn = t /\ row.role = "assistant"
        /\ row.session = v.session /\ Insert(row)
  <2>1. Row(t, v.session, "assistant") \in Message BY <1>0 DEF Row, Message
  <2>. QED BY <2>1 DEF Row
<1>2. /\ messages' \subseteq Message /\ IsFiniteSet(messages') /\ lastId' \in Nat
      /\ row \in messages' /\ row \notin messages
      /\ messages' = messages \cup {row} /\ lastId' = lastId + 1
      /\ \A m \in messages : m.id \in Nat /\ m.id <= lastId /\ m.id < row.id /\ m.turn \in Turns
      /\ \A m \in messages : Earlier(m)' = Earlier(m)
      /\ Earlier(row)' = Conversation(row.session)
  BY <1>1, Inserted
<1>3. /\ turn \in [Turns -> Turn] /\ turn' \in [Turns -> Turn] /\ turn'[t] = v
      /\ \A u \in Turns \ {t} : turn'[u] = turn[u]
  BY DEF ChatInv
<1>4. \A u \in Turns : /\ turn'[u].session = turn[u].session /\ turn'[u].memory = turn[u].memory
                       /\ turn'[u].context = turn[u].context /\ turn'[u].cleared = turn[u].cleared
  <2>1. turn[t].memory = v.memory BY <1>3 DEF Turn
  <2>. QED BY <1>3, <2>1
<1>5. MessagesFollow'
  <2>1. \A m \in messages' : m.id <= lastId' /\ turn'[m.turn].session = m.session
    BY <1>0, <1>1, <1>2, <1>3, <1>4 DEF ChatInv, MessagesFollow
  <2>2. \A m \in messages' : turn'[m.turn].pc \in {"running", "paused", "over"}
    BY <1>1, <1>2, <1>3 DEF ChatInv, MessagesFollow, Begun
  <2>3. \A m, n \in messages' : m.id = n.id => m = n
    BY <1>0, <1>1, <1>2 DEF ChatInv, MessagesFollow
  <2>. QED BY <2>1, <2>2, <2>3 DEF MessagesFollow, Begun
<1>6. QuestionStands'
  <2>1. ASSUME NEW u \in Turns, Open(u)' PROVE Open(u) /\ u # t /\ turn'[u] = turn[u]
    BY <1>3, <2>1 DEF Open
  <2>. QED BY <1>2, <2>1 DEF ChatInv, QuestionStands
<1>7. AnswerFollowsQuestion'
  <2>1. ASSUME NEW m \in messages, m.role = "assistant" PROVE m.turn # t
    BY <2>1 DEF ChatInv, AnswerFollowsQuestion
  <2>2. ASSUME NEW m \in messages, m.role = "assistant"
        PROVE  /\ turn'[m.turn].pc = "over" /\ turn'[m.turn].session = m.session
               /\ \A n \in messages' : n.turn = m.turn /\ n.role = "assistant" => n = m
               /\ \/ turn'[m.turn].cleared
                  \/ \E q \in messages' : /\ q.turn = m.turn /\ q.role = "user"
                                          /\ q.session = m.session /\ q.id < m.id
    BY <1>1, <1>2, <1>3, <2>1, <2>2 DEF ChatInv, AnswerFollowsQuestion
  <2>3. turn'[t].pc = "over" /\ turn'[t].session = row.session BY <1>1, <1>3
  <2>4. \A n \in messages' : n.turn = t /\ n.role = "assistant" => n = row BY <1>2, <2>1
  <2>5. \/ turn'[t].cleared
        \/ \E q \in messages' : /\ q.turn = t /\ q.role = "user"
                                /\ q.session = row.session /\ q.id < row.id
    <3>1. Open(t) /\ turn[t].pc # "opened" BY DEF Open
    <3>2. turn[t].cleared
          \/ \E q \in messages : q.turn = t /\ q.role = "user" /\ q.session = turn[t].session
      BY <3>1 DEF ChatInv, QuestionStands
    <3>. QED BY <1>1, <1>2, <1>4, <3>2
  <2>6. ASSUME NEW m \in messages', m.role = "assistant"
        PROVE  /\ turn'[m.turn].pc = "over" /\ turn'[m.turn].session = m.session
               /\ \A n \in messages' : n.turn = m.turn /\ n.role = "assistant" => n = m
               /\ \/ turn'[m.turn].cleared
                  \/ \E q \in messages' : /\ q.turn = m.turn /\ q.role = "user"
                                          /\ q.session = m.session /\ q.id < m.id
    <3>1. CASE m = row BY <1>1, <2>3, <2>4, <2>5, <3>1
    <3>2. CASE m \in messages BY <2>2, <2>6, <3>2
    <3>. QED BY <1>2, <3>1, <3>2
  <2>. QED BY <2>6 DEF AnswerFollowsQuestion
<1>8. OffLeavesNoTrace' BY <1>1, <1>2, <1>3, <1>4 DEF ChatInv, OffLeavesNoTrace
<1>9. ContextsKept'
  <2>1. \A m \in messages' : m.role = "user" => m \in messages BY <1>1, <1>2
  <2>2. \A m : (Latest(Earlier(m)))' = Latest(Earlier(m)') BY DEF Latest
  <2>3. ASSUME NEW m \in messages, m.role = "user"
        PROVE  turn'[m.turn].context = Latest(Earlier(m)')
    BY <1>2, <1>4, <2>3 DEF ChatInv, ContextsKept
  <2>. QED BY <2>1, <2>2, <2>3 DEF ContextsKept
<1>. QED BY <1>2, <1>3, <1>5, <1>6, <1>7, <1>8, <1>9 DEF ChatInv

LEMMA DeleteSessionOK ==
    ASSUME IInv, NEW s \in Sessions, DeleteSession(s)
    PROVE  IInv'
<1>0. ChatInv /\ SettingsOK BY Parts
<1>1. /\ messages' = messages \ Conversation(s) /\ lastId' = lastId
      /\ profiles' = profiles /\ created' = created
  BY DEF DeleteSession
<1>2. /\ turn' \in [Turns -> Turn]
      /\ \A t \in Turns : /\ turn'[t].pc = turn[t].pc /\ turn'[t].session = turn[t].session
                          /\ turn'[t].memory = turn[t].memory
                          /\ turn'[t].context = turn[t].context
                          /\ turn[t].cleared => turn'[t].cleared
                          /\ turn[t].session = s /\ turn[t].pc # "opened" => turn'[t].cleared
  <2>1. turn' = [t \in Turns |-> IF turn[t].session = s /\ turn[t].pc # "opened"
                                 THEN [turn[t] EXCEPT !.cleared = TRUE] ELSE turn[t]]
    BY DEF DeleteSession
  <2>2. \A t \in Turns : turn[t] \in Turn BY <1>0 DEF ChatInv
  <2>3. \A v \in Turn : /\ [v EXCEPT !.cleared = TRUE] \in Turn
                        /\ [v EXCEPT !.cleared = TRUE].pc = v.pc
                        /\ [v EXCEPT !.cleared = TRUE].session = v.session
                        /\ [v EXCEPT !.cleared = TRUE].memory = v.memory
                        /\ [v EXCEPT !.cleared = TRUE].context = v.context
                        /\ [v EXCEPT !.cleared = TRUE].cleared
    BY DEF Turn
  <2>. QED BY <2>1, <2>2, <2>3
<1>3. /\ messages' \in SUBSET messages
      /\ \A m \in messages' : m \in messages /\ m.session # s /\ m \in Message /\ m.turn \in Turns
      /\ \A m \in messages : m.session # s => m \in messages'
  BY <1>0, <1>1 DEF Conversation, ChatInv, Message
<1>4. IsFiniteSet(messages') BY <1>0, <1>3, FS_Subset DEF ChatInv
<1>5. \A m \in messages' : Earlier(m)' = Earlier(m) BY <1>1, <1>3 DEF Earlier, Conversation
<1>6. MessagesFollow' BY <1>0, <1>1, <1>2, <1>3 DEF ChatInv, MessagesFollow, Begun
<1>7. QuestionStands'
  <2>1. ASSUME NEW t \in Turns, Open(t)' PROVE Open(t) /\ turn'[t].session \in Sessions
    BY <1>0, <1>2, <2>1 DEF Open, ChatInv, QuestionStands
  <2>2. ASSUME NEW t \in Turns, Open(t)', turn'[t].pc # "opened", turn'[t].memory, ~turn'[t].cleared
        PROVE  \E q \in messages' : q.turn = t /\ q.role = "user" /\ q.session = turn'[t].session
    <3>1. Open(t) /\ turn[t].pc # "opened" /\ turn[t].memory /\ ~turn[t].cleared /\ turn[t].session # s
      BY <1>2, <2>1, <2>2
    <3>2. PICK q \in messages : q.turn = t /\ q.role = "user" /\ q.session = turn[t].session
      BY <1>0, <3>1 DEF ChatInv, QuestionStands
    <3>. QED BY <1>2, <1>3, <3>1, <3>2
  <2>. QED BY <2>1, <2>2 DEF QuestionStands
<1>8. AnswerFollowsQuestion'
  <2>1. ASSUME NEW m \in messages', m.role = "assistant"
        PROVE  /\ turn'[m.turn].pc = "over" /\ turn'[m.turn].session = m.session
               /\ \A n \in messages' : n.turn = m.turn /\ n.role = "assistant" => n = m
               /\ \/ turn'[m.turn].cleared
                  \/ \E q \in messages' : /\ q.turn = m.turn /\ q.role = "user"
                                          /\ q.session = m.session /\ q.id < m.id
    BY <1>0, <1>2, <1>3, <2>1 DEF ChatInv, AnswerFollowsQuestion
  <2>. QED BY <2>1 DEF AnswerFollowsQuestion
<1>9. OffLeavesNoTrace' BY <1>0, <1>2, <1>3 DEF ChatInv, OffLeavesNoTrace
<1>10. ContextsKept'
  <2>1. \A m : (Latest(Earlier(m)))' = Latest(Earlier(m)') BY DEF Latest
  <2>2. ASSUME NEW m \in messages', m.role = "user"
        PROVE  turn'[m.turn].context = Latest(Earlier(m)')
    BY <1>0, <1>2, <1>3, <1>5, <2>2 DEF ChatInv, ContextsKept
  <2>. QED BY <2>1, <2>2 DEF ContextsKept
<1>11. ChatInv'
  BY <1>0, <1>1, <1>2, <1>3, <1>4, <1>6, <1>7, <1>8, <1>9, <1>10 DEF ChatInv
<1>12. SettingsOK' BY <1>0, <1>1 DEF SettingsOK
<1>. QED BY <1>11, <1>12, Parts DEF IInv, ChatInv, SettingsOK, TypeOK

LEMMA BeginOK ==
    ASSUME ChatInv, NEW t \in Turns, turn[t].pc \in {"new", "opened"},
           NEW s \in Sessions, NEW name \in Names \cup {None}, Begin(t, s, name)
    PROVE  ChatInv'
<1> DEFINE Told(on) == [NoTurn EXCEPT !.pc = "running", !.session = s, !.name = name,
                                      !.memory = on, !.context = Context(s, on)]
<1>1. ~Begun(t) BY DEF Begun
<1>2. History(s) \subseteq Message BY DEF History, Latest, Conversation, ChatInv
<1>3. CASE MemoryEnabled(name)
  <2>1. /\ turn' = [turn EXCEPT ![t] = Told(TRUE)] /\ Insert(Row(t, s, "user"))
    BY <1>3 DEF Begin
  <2>2. PICK v : v = Told(TRUE) OBVIOUS
  <2>3. /\ v \in Turn /\ v.pc = "running" /\ v.session = s /\ v.memory /\ v.context = History(s)
    BY <1>2, <2>2 DEF NoTurn, Turn, Context
  <2>4. turn' = [turn EXCEPT ![t] = v] BY <2>1, <2>2
  <2>. QED BY <1>1, <2>1, <2>3, <2>4, BeginOn
<1>4. CASE ~MemoryEnabled(name)
  <2>1. /\ turn' = [turn EXCEPT ![t] = Told(FALSE)] /\ UNCHANGED table
    <3>1. MemoryEnabled(name) = FALSE BY <1>4 DEF MemoryEnabled
    <3>. QED BY <3>1 DEF Begin
  <2>2. PICK v : v = Told(FALSE) OBVIOUS
  <2>3. /\ v \in Turn /\ v.pc = "running" /\ v.session = s /\ ~v.memory /\ v.context = {}
    BY <2>2 DEF NoTurn, Turn, Context
  <2>4. turn' = [turn EXCEPT ![t] = v] BY <2>1, <2>2
  <2>. QED BY <1>1, <2>1, <2>3, <2>4, BeginOff
<1>. QED BY <1>3, <1>4

\* A turn that goes from one state to the next.
LEMMA OneTurnMoves ==
    ASSUME ChatInv, NEW t \in Turns, UNCHANGED table,
           NEW v \in Turn, turn' = [turn EXCEPT ![t] = v],
           v.memory = turn[t].memory, v.context = turn[t].context, v.cleared = turn[t].cleared,
           \/ turn[t].pc = "new" /\ v.pc = "opened" /\ v.session \in Sessions
           \/ /\ turn[t].pc \in {"running", "paused"} /\ v.pc \in {"running", "paused", "over"}
              /\ v.session = turn[t].session
    PROVE  ChatInv'
<1>1. /\ turn' \in [Turns -> Turn] /\ turn'[t] = v
      /\ \A u \in Turns \ {t} : turn'[u] = turn[u]
  BY DEF ChatInv
<1>2. \A u \in Turns : Open(u) => turn[u].session \in Sessions BY DEF ChatInv, QuestionStands
<1>3. ASSUME NEW u \in Turns
      PROVE  /\ turn'[u].memory = turn[u].memory /\ turn'[u].context = turn[u].context
             /\ turn'[u].cleared = turn[u].cleared
             /\ Begun(u) => Begun(u)' /\ turn'[u].session = turn[u].session
             /\ turn[u].pc = "over" => turn'[u].pc = "over"
             /\ Open(u)' => turn'[u].session \in Sessions
             /\ turn'[u].pc \in {"running", "paused"} => turn[u].pc \in {"running", "paused"}
  <2>1. CASE u = t BY <1>1, <1>2, <2>1 DEF Begun, Open
  <2>2. CASE u # t
    <3>1. turn'[u] = turn[u] BY <1>1, <2>2
    <3>. QED BY <1>2, <3>1 DEF Begun, Open
  <2>. QED BY <2>1, <2>2
<1>. QED BY <1>1, <1>3, TurnsMove

LEMMA NextOK == IInv /\ [Next]_vars => IInv'
<1> SUFFICES ASSUME IInv, [Next]_vars PROVE IInv' OBVIOUS
<1>0. ChatInv /\ SettingsOK BY Parts
<1>1. \A t \in Turns : turn[t] \in Turn BY <1>0 DEF ChatInv
<1>. SUFFICES ChatInv' /\ SettingsOK'
  BY DEF IInv, ChatInv, SettingsOK, TypeOK
<1>2. ASSUME NEW t \in Turns, NEW s \in Sessions, NEW name \in Names \cup {None}, Chat(t, s, name)
      PROVE  ChatInv' /\ SettingsOK'
  <2>1. ChatInv' BY <1>0, <1>2, BeginOK DEF Chat
  <2>2. SettingsOK' BY <1>0, <1>2 DEF Chat, Use, SettingsOK
  <2>. QED BY <2>1, <2>2
<1>3. ASSUME NEW t \in Turns, NEW s \in Sessions, NEW name \in Names \cup {None}, OpenStream(t, s, name)
      PROVE  ChatInv' /\ SettingsOK'
  <2>1. PICK v : v = [turn[t] EXCEPT !.pc = "opened", !.session = s, !.name = name] OBVIOUS
  <2>2. /\ v \in Turn /\ v.pc = "opened" /\ v.session = s /\ v.memory = turn[t].memory
        /\ v.context = turn[t].context /\ v.cleared = turn[t].cleared
    BY <1>1, <2>1 DEF Turn
  <2>3. turn' = [turn EXCEPT ![t] = v] BY <1>0, <1>1, <1>3, <2>1 DEF OpenStream, Turn, ChatInv
  <2>4. ChatInv' BY <1>0, <1>3, <2>2, <2>3, OneTurnMoves DEF OpenStream
  <2>5. SettingsOK' BY <1>0, <1>3 DEF OpenStream, Use, SettingsOK
  <2>. QED BY <2>4, <2>5
<1>4. ASSUME NEW t \in Turns, NEW s \in Sessions, NEW name \in Names \cup {None}, RunTask(t, s, name)
      PROVE  ChatInv' /\ SettingsOK'
  <2>1. PICK found \in Names \cup {None} : Begin(t, s, found)
    BY <1>4, NamesAssumption DEF RunTask
  <2>2. ChatInv' BY <1>0, <1>4, <2>1, BeginOK DEF RunTask
  <2>3. SettingsOK' BY <1>0, <1>4 DEF RunTask, NewSession, Use, SettingsOK
  <2>. QED BY <2>2, <2>3
<1>5. ASSUME NEW t \in Turns, BeginStream(t) PROVE ChatInv' /\ SettingsOK'
  <2>1. turn[t].session \in Sessions /\ turn[t].name \in Names \cup {None}
    BY <1>0, <1>1, <1>5 DEF BeginStream, ChatInv, QuestionStands, Open, Turn
  <2>2. PICK s \in Sessions, name \in Names \cup {None} : Begin(t, s, name)
    BY <1>5, <2>1 DEF BeginStream
  <2>3. ChatInv' BY <1>0, <1>5, <2>2, BeginOK DEF BeginStream
  <2>4. SettingsOK' BY <1>0, <1>5 DEF BeginStream, SettingsOK
  <2>. QED BY <2>3, <2>4
<1>6. ASSUME NEW t \in Turns, Pause(t) \/ Resume(t) \/ BreakOff(t) PROVE ChatInv' /\ SettingsOK'
  <2>1. PICK pc \in {"running", "paused", "over"} : turn' = [turn EXCEPT ![t].pc = pc]
    BY <1>6 DEF Pause, Resume, BreakOff
  <2>2. PICK v : v = [turn[t] EXCEPT !.pc = pc] OBVIOUS
  <2>3. /\ v \in Turn /\ v.pc = pc /\ v.session = turn[t].session /\ v.memory = turn[t].memory
        /\ v.context = turn[t].context /\ v.cleared = turn[t].cleared
    BY <1>1, <2>2 DEF Turn
  <2>4. turn' = [turn EXCEPT ![t] = v] BY <2>1, <2>2
  <2>5. UNCHANGED table /\ turn[t].pc \in {"running", "paused"} BY <1>6 DEF Pause, Resume, BreakOff
  <2>6. ChatInv' BY <1>0, <2>3, <2>4, <2>5, OneTurnMoves
  <2>7. SettingsOK' BY <1>0, <1>6 DEF Pause, Resume, BreakOff, SettingsOK
  <2>. QED BY <2>6, <2>7
<1>7. ASSUME NEW t \in Turns, Answer(t) PROVE ChatInv' /\ SettingsOK'
  <2>1. PICK v : v = [turn[t] EXCEPT !.pc = "over"] OBVIOUS
  <2>2. /\ v \in Turn /\ v.pc = "over" /\ v.session = turn[t].session /\ v.memory = turn[t].memory
        /\ v.context = turn[t].context /\ v.cleared = turn[t].cleared
    BY <1>1, <2>1 DEF Turn
  <2>3. turn' = [turn EXCEPT ![t] = v] BY <1>7, <2>1 DEF Answer
  <2>4. SettingsOK' BY <1>0, <1>7 DEF Answer, SettingsOK
  <2>5. CASE turn[t].memory
    <3>1. Insert(Row(t, v.session, "assistant")) BY <1>7, <2>2, <2>5 DEF Answer, RecordAnswer
    <3>. QED BY <1>0, <1>7, <2>2, <2>3, <2>4, <2>5, <3>1, AnswerOn DEF Answer
  <2>6. CASE ~turn[t].memory
    <3>1. UNCHANGED table BY <1>7, <2>6 DEF Answer, RecordAnswer
    <3>. QED BY <1>0, <1>7, <2>2, <2>3, <2>4, <3>1, OneTurnMoves DEF Answer
  <2>. QED BY <2>5, <2>6
<1>8. ASSUME NEW s \in Sessions, DeleteSession(s) PROVE ChatInv' /\ SettingsOK'
  BY <1>8, DeleteSessionOK DEF IInv, ChatInv, SettingsOK, TypeOK
<1>9. ASSUME UNCHANGED table, turn' = turn PROVE ChatInv'
  BY <1>0, <1>9, TurnsMove DEF ChatInv, QuestionStands, Begun, Open
<1>10. ASSUME NEW name \in Names, SetProfile(name) PROVE ChatInv' /\ SettingsOK'
  <2>1. UNCHANGED table /\ turn' = turn BY <1>10 DEF SetProfile
  <2>2. SettingsOK' BY <1>0, <1>10 DEF SetProfile, SettingsOK
  <2>. QED BY <1>9, <2>1, <2>2
<1>11. ASSUME Restart PROVE ChatInv' /\ SettingsOK'
  <2>1. turn' = [t \in Turns |-> IF Open(t) THEN [turn[t] EXCEPT !.pc = "over"] ELSE turn[t]]
    BY <1>11 DEF Restart
  <2>2. \A v \in Turn : /\ [v EXCEPT !.pc = "over"] \in Turn
                        /\ [v EXCEPT !.pc = "over"].pc = "over"
                        /\ [v EXCEPT !.pc = "over"].session = v.session
                        /\ [v EXCEPT !.pc = "over"].memory = v.memory
                        /\ [v EXCEPT !.pc = "over"].context = v.context
                        /\ [v EXCEPT !.pc = "over"].cleared = v.cleared
    BY DEF Turn
  <2>3. turn' \in [Turns -> Turn] BY <1>1, <2>1, <2>2
  <2>4. ASSUME NEW t \in Turns
        PROVE  /\ turn'[t].memory = turn[t].memory /\ turn'[t].context = turn[t].context
               /\ turn'[t].cleared = turn[t].cleared /\ turn'[t].session = turn[t].session
               /\ turn'[t].pc = turn[t].pc \/ turn'[t].pc = "over"
               /\ turn'[t].pc \notin {"opened", "running", "paused"}
    BY <1>1, <2>1, <2>2 DEF Open
  <2>5. UNCHANGED table BY <1>11 DEF Restart
  <2>6. ChatInv' BY <1>0, <2>3, <2>4, <2>5, TurnsMove DEF Begun, Open
  <2>7. SettingsOK' BY <1>0, <1>11 DEF Restart, SettingsOK
  <2>. QED BY <2>6, <2>7
<1>12. CASE UNCHANGED vars
  <2>1. UNCHANGED table /\ turn' = turn BY <1>12 DEF vars, table
  <2>2. SettingsOK' BY <1>0, <1>12 DEF vars, SettingsOK
  <2>. QED BY <1>9, <2>1, <2>2
<1>. QED BY <1>2, <1>3, <1>4, <1>5, <1>6, <1>7, <1>8, <1>10, <1>11, <1>12 DEF Next

-----------------------------------------------------------------------------
(* Theorems *)

LEMMA InitOK == Init => IInv
<1> SUFFICES ASSUME Init PROVE IInv OBVIOUS
<1>1. IsFiniteSet({}) BY FS_EmptySet
<1>2. NoTurn \in Turn BY DEF NoTurn, Turn
<1>3. TypeOK BY <1>1, <1>2 DEF Init, TypeOK
<1>4. \A t \in Turns : turn[t] = NoTurn BY DEF Init
<1>. QED BY <1>3, <1>4 DEF Init, IInv, MessagesFollow, QuestionStands, AnswerFollowsQuestion,
            OffLeavesNoTrace, ContextsKept, Open, NoTurn

\* However turns overlap, and whatever is deleted or restarted in between, the
\* tables and the turns under way fit together.
THEOREM ConversationsFit == Spec => []IInv
BY InitOK, NextOK, PTL DEF Spec

\* Tables, sessions and turns keep their types.
THEOREM ConversationsTyped == Spec => []TypeOK
<1>1. IInv => TypeOK BY DEF IInv
<1>. QED BY <1>1, ConversationsFit, PTL

\* An answer is recorded once, in the session that was asked, after its
\* question, for any number of turns and sessions.
THEOREM AnswersFollow == Spec => []AnswerFollowsQuestion
<1>1. IInv => AnswerFollowsQuestion BY DEF IInv
<1>. QED BY <1>1, ConversationsFit, PTL

\* A turn without memory neither sees nor leaves a message.
THEOREM OffIsOff == Spec => []OffLeavesNoTrace
<1>1. IInv => OffLeavesNoTrace BY DEF IInv
<1>. QED BY <1>1, ConversationsFit, PTL

\* A turn is told the latest of what its session held before its question, up
\* to any limit of the history.
THEOREM ContextCameBefore == Spec => []ContextIsWhatCameBefore
<1>1. ASSUME IInv PROVE ContextIsWhatCameBefore
  <2>1. ChatInv /\ ContextsKept BY <1>1, Parts DEF IInv
  <2>2. ASSUME NEW m \in messages, m.role = "user"
        PROVE  /\ turn[m.turn].context \subseteq Earlier(m)
               /\ \A n \in turn[m.turn].context, o \in Earlier(m) \ turn[m.turn].context : o.id < n.id
               /\ Cardinality(turn[m.turn].context) =
                    IF Cardinality(Earlier(m)) < HistoryLimit
                    THEN Cardinality(Earlier(m)) ELSE HistoryLimit
    <3>1. Numbered(Earlier(m)) BY <2>1, AreNumbered
    <3>2. turn[m.turn].context = Latest(Earlier(m)) BY <2>1, <2>2 DEF ContextsKept
    <3>3. /\ Latest(Earlier(m)) \subseteq Earlier(m)
          /\ \A n \in Latest(Earlier(m)), o \in Earlier(m) \ Latest(Earlier(m)) : o.id < n.id
          /\ Cardinality(Latest(Earlier(m))) = IF Cardinality(Earlier(m)) < HistoryLimit
                                               THEN Cardinality(Earlier(m)) ELSE HistoryLimit
      BY <3>1, LatestKeeps
    <3>. QED BY <3>2, <3>3
  <2>. QED BY <2>2 DEF ContextIsWhatCameBefore
<1>. QED BY <1>1, ConversationsFit, PTL
=============================================================================
