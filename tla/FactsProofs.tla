----------------------------- MODULE FactsProofs -----------------------------
(***************************************************************************)
(* Machine-checked proofs about Facts, for every set of profiles, texts    *)
(* and questions, every limit and every sequence of SQLite builds.         *)
(***************************************************************************)
EXTENDS Facts, TLAPS

\* What an operation that only reads leaves alone.
Store == <<rows, index, fts, available, told, unindexed>>

LEMMA InitOK == Init => IndexFollowsRows /\ RecallIsComplete
<1>. SUFFICES ASSUME Init PROVE IndexFollowsRows /\ RecallIsComplete
  OBVIOUS
<1>1. TypeOK BY DEF Init, TypeOK, NoQuestion
<1>2. IndexFollowsRows BY <1>1 DEF Init, IndexFollowsRows
<1>3. RecallIsComplete BY DEF Init, RecallIsComplete, NoQuestion
<1>. QED BY <1>2, <1>3

\* Only a recall leaves a question, so every other operation keeps this.
LEMMA NoRecall ==
    ASSUME asked' = NoQuestion
    PROVE  RecallIsComplete'
  BY DEF RecallIsComplete, NoQuestion

LEMMA NothingOK ==
    ASSUME IndexFollowsRows, Nothing
    PROVE  IndexFollowsRows' /\ RecallIsComplete'
<1>1. TypeOK' BY DEF IndexFollowsRows, TypeOK, Nothing, NoQuestion
<1>2. IndexFollowsRows' BY <1>1 DEF IndexFollowsRows, Nothing
<1>. QED BY <1>2, NoRecall DEF Nothing

LEMMA RememberOK ==
    ASSUME IndexFollowsRows, NEW i \in Ids, NEW f \in Fact, Remember(i, f)
    PROVE  IndexFollowsRows' /\ RecallIsComplete'
<1>1. CASE Unusable /\ Nothing
  BY <1>1, NothingOK
<1>2. CASE ~Unusable /\ ~(Unusable /\ Nothing)
  <2>0. /\ rows' = [rows EXCEPT ![i] = f]
        /\ index' = IF available THEN index \cup {i} ELSE index
        /\ told' = told \cup {i}
        /\ unindexed' = IF available THEN unindexed ELSE unindexed \cup {i}
        /\ answer' = {} /\ asked' = NoQuestion
        /\ UNCHANGED <<fts, available>>
    BY <1>2 DEF Remember
  <2>1. TypeOK' BY <2>0 DEF IndexFollowsRows, TypeOK
  <2>2. f # NoRow BY FactsAssumption DEF Fact
  <2>3. IndexFollowsRows' BY <2>0, <2>1, <2>2 DEF IndexFollowsRows, TypeOK
  <2>. QED BY <2>0, <2>3, NoRecall
<1>. QED BY <1>1, <1>2 DEF Remember

LEMMA ForgetOK ==
    ASSUME IndexFollowsRows, NEW i \in Ids, Forget(i)
    PROVE  IndexFollowsRows' /\ RecallIsComplete'
<1>1. CASE Unusable /\ Nothing
  BY <1>1, NothingOK
<1>2. CASE ~Unusable /\ ~(Unusable /\ Nothing)
  <2>0. /\ rows' = [rows EXCEPT ![i] = NoRow]
        /\ index' = IF available THEN index \ {i} ELSE index
        /\ answer' = {} /\ asked' = NoQuestion
        /\ UNCHANGED <<fts, available, told, unindexed>>
    BY <1>2 DEF Forget
  <2>1. TypeOK' BY <2>0 DEF IndexFollowsRows, TypeOK
  <2>2. i \notin index' BY <2>0 DEF IndexFollowsRows
  <2>3. IndexFollowsRows' BY <2>0, <2>1, <2>2 DEF IndexFollowsRows, TypeOK
  <2>. QED BY <2>0, <2>3, NoRecall
<1>. QED BY <1>1, <1>2 DEF Forget

\* An operation that only reads keeps the store.
LEMMA ReadOK ==
    ASSUME IndexFollowsRows, UNCHANGED Store,
           answer' \subseteq Ids, asked' \in (Profiles \X Questions) \cup {NoQuestion}
    PROVE  IndexFollowsRows'
<1>1. TypeOK' BY DEF IndexFollowsRows, TypeOK, Store
<1>. QED BY <1>1 DEF IndexFollowsRows, Store

LEMMA FoundIds ==
    ASSUME NEW p \in Profiles, NEW q \in Questions
    PROVE  Found(p, q) \subseteq Live(p) /\ Live(p) \subseteq Ids
  BY DEF Found, Live

LEMMA RecallOK ==
    ASSUME IndexFollowsRows, NEW p \in Profiles, NEW q \in Questions, Recall(p, q)
    PROVE  IndexFollowsRows' /\ RecallIsComplete'
<1>1. answer' \subseteq Ids BY FoundIds DEF Recall
<1>2. IndexFollowsRows' BY <1>1, ReadOK DEF Recall, Store
<1>3. SUFFICES ASSUME NEW p1 \in Profiles, NEW q1 \in Questions, asked' = <<p1, q1>>,
                      ~(Cardinality(answer') >= Limit),
                      NEW i \in Live(p1)' \ answer',
                      <<q1, rows'[i].text>> \in
                        (IF available' /\ fts' THEN Matches ELSE Overlaps)
               PROVE  fts' /\ i \in unindexed'
  BY <1>2 DEF RecallIsComplete
<1>4. p1 = p /\ q1 = q BY <1>3 DEF Recall
<1>5. UNCHANGED Store BY DEF Recall, Store
<1>6. i \in Live(p) /\ i \in Ids /\ rows[i] # NoRow
  BY <1>4, <1>5 DEF Live, Store
<1>7. answer' = Found(p, q)
  BY <1>3, FactsAssumption DEF Recall
<1>8. i \notin Found(p, q) BY <1>7
<1>9. available /\ fts /\ i \notin index
  BY <1>3, <1>4, <1>5, <1>6, <1>8 DEF Found, Store
<1>. QED BY <1>5, <1>6, <1>9 DEF IndexFollowsRows, Store

LEMMA ListOK ==
    ASSUME IndexFollowsRows, NEW P \in SUBSET Profiles, ListAll(P)
    PROVE  IndexFollowsRows' /\ RecallIsComplete'
<1>1. answer' \subseteq Ids BY DEF ListAll, Live
<1>2. IndexFollowsRows' BY <1>1, ReadOK DEF ListAll, Store
<1>. QED BY <1>2, NoRecall DEF ListAll

LEMMA RestartOK ==
    ASSUME IndexFollowsRows, Restart
    PROVE  IndexFollowsRows' /\ RecallIsComplete'
<1>1. TypeOK' BY DEF IndexFollowsRows, TypeOK, Restart
<1>2. IndexFollowsRows' BY <1>1 DEF IndexFollowsRows, Restart
<1>. QED BY <1>2, NoRecall DEF Restart

LEMMA StutterOK ==
    ASSUME IndexFollowsRows, RecallIsComplete, UNCHANGED vars
    PROVE  IndexFollowsRows' /\ RecallIsComplete'
<1>1. TypeOK' BY DEF IndexFollowsRows, TypeOK, vars
<1>2. IndexFollowsRows' BY <1>1 DEF IndexFollowsRows, vars
<1>3. RecallIsComplete' BY DEF RecallIsComplete, Live, vars
<1>. QED BY <1>2, <1>3

LEMMA StepOK ==
    ASSUME IndexFollowsRows, RecallIsComplete, [Next]_vars
    PROVE  IndexFollowsRows' /\ RecallIsComplete'
<1>1. ASSUME NEW i \in Ids, NEW f \in Fact, RememberTool(i, f) \/ AddMemory(i, f)
      PROVE  IndexFollowsRows' /\ RecallIsComplete'
  BY <1>1, RememberOK, NothingOK DEF RememberTool, AddMemory
<1>2. ASSUME NEW i \in Ids, Forget(i)
      PROVE  IndexFollowsRows' /\ RecallIsComplete'
  BY <1>2, ForgetOK
<1>3. ASSUME NEW p \in Profiles, NEW q \in Questions, Recall(p, q)
      PROVE  IndexFollowsRows' /\ RecallIsComplete'
  BY <1>3, RecallOK
<1>4. CASE (\E p \in Profiles : ListAll({p})) \/ ListAll(Profiles)
  <2>1. ASSUME NEW p \in Profiles PROVE {p} \in SUBSET Profiles OBVIOUS
  <2>. QED BY <1>4, <2>1, ListOK
<1>5. CASE Restart BY <1>5, RestartOK
<1>6. CASE UNCHANGED vars BY <1>6, StutterOK
<1>. QED BY <1>1, <1>2, <1>3, <1>4, <1>5, <1>6 DEF Next

\* Whatever builds of SQLite the processes run on, the index holds no
\* forgotten fact and lacks only what was written without one.
THEOREM IndexFollows == Spec => []IndexFollowsRows
<1>1. IndexFollowsRows /\ RecallIsComplete /\ [Next]_vars
        => (IndexFollowsRows /\ RecallIsComplete)'
  BY StepOK
<1>. QED BY <1>1, InitOK, PTL DEF Spec

\* A recall with room left misses only facts written while there was no index.
THEOREM RecallComplete == Spec => []RecallIsComplete
<1>1. IndexFollowsRows /\ RecallIsComplete /\ [Next]_vars
        => (IndexFollowsRows /\ RecallIsComplete)'
  BY StepOK
<1>. QED BY <1>1, InitOK, PTL DEF Spec

-----------------------------------------------------------------------------
(* The store implements the notebook *)

USE DEF Book!Nobody, NoQuestion

LEMMA BookInit == Init => Book!Init
  BY DEF Init, Book!Init

LEMMA NothingIsOther ==
    ASSUME Nothing
    PROVE  Book!Other
  BY DEF Nothing, Book!Other

LEMMA RememberIsNote ==
    ASSUME NEW i \in Ids, NEW f \in Fact, Remember(i, f)
    PROVE  Book!Other \/ Book!Note(i, f)
  BY NothingIsOther DEF Remember, Book!Note

LEMMA ForgetIsErase ==
    ASSUME NEW i \in Ids, Forget(i)
    PROVE  Book!Other \/ Book!Erase(i)
  BY NothingIsOther DEF Forget, Book!Erase

LEMMA RecallIsAsk ==
    ASSUME NEW p \in Profiles, NEW q \in Questions, Recall(p, q)
    PROVE  Book!Ask(p, q)
<1>1. answer' \in SUBSET Found(p, q) /\ Cardinality(answer') <= Limit
  BY FactsAssumption DEF Recall
<1>2. Found(p, q) \subseteq {i \in Ids : /\ rows[i] # NoRow
                                        /\ rows[i].profile = p
                                        /\ <<q, rows[i].text>> \in Matches \cup Overlaps}
  BY DEF Found, Live
<1>3. answer' \in {a \in SUBSET Ids : Cardinality(a) <= Limit}
  BY <1>1, FoundIds
<1>. QED BY <1>1, <1>2, <1>3 DEF Recall, Book!Ask

LEMMA ListIsList ==
    ASSUME NEW P \in SUBSET Profiles, ListAll(P)
    PROVE  Book!List(P)
<1>1. UNION {Live(p) : p \in P} = {i \in Ids : rows[i] # NoRow /\ rows[i].profile \in P}
  BY DEF Live
<1>. QED BY <1>1 DEF ListAll, Book!List

LEMMA RestartIsOther ==
    ASSUME Restart
    PROVE  Book!Other
  BY DEF Restart, Book!Other

\* Every step of the store is a step of the notebook, or none.
LEMMA BookStep ==
    ASSUME [Next]_vars
    PROVE  [Book!Next]_(Book!vars)
<1>1. ASSUME NEW i \in Ids, NEW f \in Fact, RememberTool(i, f) \/ AddMemory(i, f)
      PROVE  Book!Next
  <2>1. Book!Other \/ Book!Note(i, f)
    BY <1>1, RememberIsNote, NothingIsOther DEF RememberTool, AddMemory
  <2>2. f \in Book!Notes BY DEF Fact, Book!Notes
  <2>. QED BY <2>1, <2>2 DEF Book!Next
<1>2. ASSUME NEW i \in Ids, Forget(i)
      PROVE  Book!Next
  BY <1>2, ForgetIsErase DEF Book!Next
<1>3. ASSUME NEW p \in Profiles, NEW q \in Questions, Recall(p, q)
      PROVE  Book!Next
  BY <1>3, RecallIsAsk DEF Book!Next
<1>4. ASSUME NEW p \in Profiles, ListAll({p})
      PROVE  Book!Next
  BY <1>4, ListIsList DEF Book!Next
<1>5. CASE ListAll(Profiles) BY <1>5, ListIsList DEF Book!Next
<1>6. CASE Restart BY <1>6, RestartIsOther DEF Book!Next
<1>7. CASE UNCHANGED vars BY <1>7 DEF vars, Book!vars
<1>. QED BY <1>1, <1>2, <1>3, <1>4, <1>5, <1>6, <1>7 DEF Next

\* For all profiles, texts, limits and builds the store is the notebook.
THEOREM StoreIsNotebook == Spec => ImplementsNotebook
<1>1. [Next]_vars => [Book!Next]_(Book!vars) BY BookStep
<1>. QED BY <1>1, BookInit, PTL DEF Spec, ImplementsNotebook, Book!Spec
=============================================================================
