------------------------------ MODULE Notebook ------------------------------
(***************************************************************************)
(* What long-term memory promises (the interface LongTermMemory), without  *)
(* tables, indexes or builds of SQLite: a set of notes that only grows by  *)
(* being told and only shrinks by being asked to forget, and answers that  *)
(* name notes of the profile asked for which bear on the question.         *)
(***************************************************************************)
CONSTANTS
    Ids, Profiles, Texts, Questions,
    Related, \* the pairs <<question, text>> of which a search may find the text
    Short,   \* the sets of ids that are no more than an answer may name
    Blank    \* a note that is not there

Notes == [profile : Profiles, text : Texts]

VARIABLES
    notes, \* notes[i]: the note with this id
    told,  \* the ids of the notes there ever were
    asked, \* whose notes were asked for last, and the question
    answer \* the notes named in the answer

vars == <<notes, told, asked, answer>>

Nobody == <<>>

Init ==
    /\ notes = [i \in Ids |-> Blank]
    /\ told = {}
    /\ asked = Nobody /\ answer = {}

Note(i, n) ==
    /\ i \notin told
    /\ notes' = [notes EXCEPT ![i] = n]
    /\ told' = told \cup {i}
    /\ asked' = Nobody /\ answer' = {}

Erase(i) ==
    /\ notes' = [notes EXCEPT ![i] = Blank]
    /\ asked' = Nobody /\ answer' = {}
    /\ UNCHANGED told

Ask(p, q) ==
    /\ asked' = <<p, q>>
    /\ answer' \in SUBSET {i \in Ids : /\ notes[i] # Blank
                                      /\ notes[i].profile = p
                                      /\ <<q, notes[i].text>> \in Related}
    /\ answer' \in Short
    /\ UNCHANGED <<notes, told>>

\* P is one profile, or all of them.
List(P) ==
    /\ asked' = Nobody
    /\ answer' = {i \in Ids : notes[i] # Blank /\ notes[i].profile \in P}
    /\ UNCHANGED <<notes, told>>

\* Whatever else happens, a refused request or a restart, loses no note.
Other == asked' = Nobody /\ answer' = {} /\ UNCHANGED <<notes, told>>

Next ==
    \/ \E i \in Ids : (\E n \in Notes : Note(i, n)) \/ Erase(i)
    \/ \E p \in Profiles, q \in Questions : Ask(p, q)
    \/ \E p \in Profiles : List({p})
    \/ List(Profiles)
    \/ Other

Spec == Init /\ [][Next]_vars
=============================================================================
