------------------------------- MODULE Facts --------------------------------
(***************************************************************************)
(* Long-term memory (app/memory/long_term.py) with the tools and the REST  *)
(* endpoints that write it and the context builder that reads it.          *)
(*                                                                         *)
(* A fact is a row of the table memories and, where FTS5 is there, a row   *)
(* of the virtual table memories_fts.  A process may run on a build of     *)
(* SQLite with or without FTS5, over a database another one made.  Every   *)
(* operation is one synchronous call and one transaction: a crash in the   *)
(* middle of it is a crash before it.                                      *)
(***************************************************************************)
EXTENDS Naturals, FiniteSets

CONSTANTS
    Ids,       \* uuids of facts
    Profiles,  \* agent profiles
    Texts,     \* what facts say, tags included
    Sensitive, \* texts of which _looks_sensitive holds
    Questions, \* user messages, as queries
    Matches,   \* pairs <<q, t>>: the FTS5 expression made of q matches t
    Overlaps,  \* pairs <<q, t>>: a token of q is a substring of t
    Limit,     \* limit of recall, 5 in ContextBuilder
    NoRow

ASSUME FactsAssumption ==
    /\ IsFiniteSet(Ids)
    /\ Sensitive \subseteq Texts
    /\ Matches \subseteq Questions \X Texts
    /\ Overlaps \subseteq Questions \X Texts
    /\ Limit \in Nat
    /\ NoRow \notin [profile : Profiles, text : Texts]

VARIABLES
    rows,      \* the table memories
    index,     \* the ids in the table memories_fts
    fts,       \* whether the running process's SQLite has FTS5
    available, \* _fts_available; TRUE as well iff memories_fts exists
    told,      \* history: the ids drawn so far
    unindexed, \* history: facts written while there was no index
    answer,    \* the ids the last operation answered with
    asked      \* the profile and the question of the last operation, if a recall

vars == <<rows, index, fts, available, told, unindexed, answer, asked>>

Fact == [profile : Profiles, text : Texts]
NoQuestion == <<>>

TypeOK ==
    /\ rows \in [Ids -> Fact \cup {NoRow}]
    /\ index \subseteq Ids
    /\ fts \in BOOLEAN /\ available \in BOOLEAN
    /\ told \subseteq Ids
    /\ unindexed \subseteq Ids
    /\ answer \subseteq Ids
    /\ asked \in (Profiles \X Questions) \cup {NoQuestion}

-----------------------------------------------------------------------------
Live(p) == {i \in Ids : rows[i] # NoRow /\ rows[i].profile = p}

\* The schema: creating a virtual table that is there already succeeds without
\* the module, creating it anew does not.
Init ==
    /\ rows = [i \in Ids |-> NoRow]
    /\ index = {}
    /\ fts \in BOOLEAN /\ available = fts
    /\ told = {} /\ unindexed = {} /\ answer = {} /\ asked = NoQuestion

Restart ==
    /\ fts' \in BOOLEAN
    /\ available' = (available \/ fts')
    /\ answer' = {} /\ asked' = NoQuestion
    /\ UNCHANGED <<rows, index, told, unindexed>>

\* A table memories_fts that this build cannot open: every write to it raises
\* OperationalError, and the transaction is rolled back.
Unusable == available /\ ~fts

\* An operation that changes nothing and answers nothing.
Nothing ==
    /\ answer' = {} /\ asked' = NoQuestion
    /\ UNCHANGED <<rows, index, fts, available, told, unindexed>>

\* Faulty variant: the row is committed before the index is written.
RememberByHalf(i, f) ==
    /\ i \notin told
    /\ rows' = [rows EXCEPT ![i] = f]
    /\ index' = IF available /\ fts THEN index \cup {i} ELSE index
    /\ told' = told \cup {i}
    /\ unindexed' = IF available THEN unindexed ELSE unindexed \cup {i}
    /\ answer' = {} /\ asked' = NoQuestion
    /\ UNCHANGED <<fts, available>>

\* remember(), under an id never drawn before.
Remember(i, f) ==
    /\ i \notin told
    /\ \/ Unusable /\ Nothing
       \/ /\ ~Unusable
          /\ rows' = [rows EXCEPT ![i] = f]
          /\ index' = IF available THEN index \cup {i} ELSE index
          /\ told' = told \cup {i}
          /\ unindexed' = IF available THEN unindexed ELSE unindexed \cup {i}
          /\ answer' = {} /\ asked' = NoQuestion
          /\ UNCHANGED <<fts, available>>

\* The tool memory_remember refuses what looks like a secret.
RememberTool(i, f) == IF f.text \in Sensitive THEN Nothing ELSE Remember(i, f)

\* POST /api/memory does not look.
AddMemory(i, f) == Remember(i, f)

\* forget(), through memory_forget or DELETE /api/memory; an unknown id is none.
Forget(i) ==
    \/ Unusable /\ Nothing
    \/ /\ ~Unusable
       /\ rows' = [rows EXCEPT ![i] = NoRow]
       /\ index' = IF available THEN index \ {i} ELSE index
       /\ answer' = {} /\ asked' = NoQuestion
       /\ UNCHANGED <<fts, available, told, unindexed>>

\* Faulty variant: the index is searched without its join with the rows.
FoundByIndexAlone(p, q) ==
    IF available /\ fts
    THEN {i \in index : rows[i] = NoRow \/ <<q, rows[i].text>> \in Matches}
    ELSE {i \in Live(p) : <<q, rows[i].text>> \in Overlaps}

\* Faulty variant: an index that cannot be opened counts as an empty one.
FoundInIndexOnly(p, q) ==
    IF available
    THEN {i \in index \cap Live(p) : fts /\ <<q, rows[i].text>> \in Matches}
    ELSE {i \in Live(p) : <<q, rows[i].text>> \in Overlaps}

\* _recall_fts joins the index with the rows; where it raises, or is not there,
\* _recall_fallback goes through the rows.
Found(p, q) ==
    IF available /\ fts
    THEN {i \in index \cap Live(p) : <<q, rows[i].text>> \in Matches}
    ELSE {i \in Live(p) : <<q, rows[i].text>> \in Overlaps}

\* recall() for the context of a turn.  The ranking is left open: any Limit of
\* those found may come first.
Recall(p, q) ==
    /\ answer' \in {a \in SUBSET Found(p, q) :
         \/ a = Found(p, q) /\ Cardinality(a) <= Limit
         \/ Cardinality(a) = Limit}
    /\ asked' = <<p, q>>
    /\ UNCHANGED <<rows, index, fts, available, told, unindexed>>

\* list_all(): without a profile, or with an empty one, those of everybody.
ListAll(P) ==
    /\ answer' = UNION {Live(p) : p \in P}
    /\ asked' = NoQuestion
    /\ UNCHANGED <<rows, index, fts, available, told, unindexed>>

Next ==
    \/ \E i \in Ids, f \in Fact : RememberTool(i, f) \/ AddMemory(i, f)
    \/ \E i \in Ids : Forget(i)
    \/ \E p \in Profiles, q \in Questions : Recall(p, q)
    \/ \E p \in Profiles : ListAll({p})
    \/ ListAll(Profiles)
    \/ Restart

Spec == Init /\ [][Next]_vars

-----------------------------------------------------------------------------
(* Properties *)

\* The index holds no fact that was forgotten, and lacks only facts that were
\* written while there was none, whatever builds the processes in between ran
\* on and whatever their writes came to (remember, forget, _init_schema).
IndexFollowsRows ==
    /\ TypeOK
    /\ \A i \in index : rows[i] # NoRow
    /\ \A i \in Ids : rows[i] # NoRow => i \in told /\ (i \in index \/ i \in unindexed)
    /\ index # {} => available

\* A recall that has room left misses none of the profile's facts that bear on
\* the question, except those written while there was no index: these are lost
\* to _recall_fts for good (recall).
RecallIsComplete ==
    \A p \in Profiles, q \in Questions :
      asked = <<p, q>> =>
        LET bears == IF available /\ fts THEN Matches ELSE Overlaps
        IN \/ Cardinality(answer) >= Limit
           \/ \A i \in Live(p) \ answer :
                <<q, rows[i].text>> \in bears => fts /\ i \in unindexed

Book == INSTANCE Notebook WITH
    Related <- Matches \cup Overlaps,
    Short <- {a \in SUBSET Ids : Cardinality(a) <= Limit},
    Blank <- NoRow,
    notes <- rows

\* With or without an index, refused writes and restarts included, the store is
\* the notebook the interface promises: what was told stays until it is asked
\* to be forgotten, nothing comes back, and a recall names only facts of the
\* profile that bear on the question, no more than the limit.
ImplementsNotebook == Book!Spec
=============================================================================
