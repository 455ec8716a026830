----------------------------- MODULE BytezModels -----------------------------
(***************************************************************************)
(* BytezProvider.chat (app/providers/bytez.py): concurrent calls that look *)
(* for a model the account's catalog serves, and the model they settle on, *)
(* which all later calls of the process share.                             *)
(*                                                                         *)
(* The service looks at the catalog when it handles a request; its reply   *)
(* is acted on later, when other calls may have settled on another model.  *)
(***************************************************************************)
EXTENDS Naturals, Sequences, SequencesExt

CONSTANTS
    Calls,     \* slots for concurrent calls, used again and again
    Models,    \* model names
    Pins,      \* the models that profiles name
    Default,   \* BYTEZ_MODEL
    Fallbacks, \* BYTEZ_MODEL_CANDIDATES, or the built-in list
    None

ASSUME ModelsAssumption ==
    /\ Default \in Models
    /\ Fallbacks \in Seq(Models)
    /\ Pins \subseteq Models
    /\ None \notin Models \cup {"unavailable"}

VARIABLES
    catalog,   \* the models the service has now
    moved,     \* history: whether the catalog ever changed
    confirmed, \* _confirmed_model
    call       \* the calls

vars == <<catalog, moved, confirmed, call>>

-----------------------------------------------------------------------------

\* The candidates besides BYTEZ_MODEL.
Others == SelectSeq(Fallbacks, LAMBDA m : m # Default)

\* A consequence of ModelsAssumption, named for the proofs: SelectSeq is
\* recursive, so that the prover cannot derive it.
ASSUME OthersAssumption == Others \in Seq(Models)

Configured == <<Default>> \o Others

\* Faulty variant: the default is tried only after the others.
CandidateOrderLate(explicit) ==
    IF explicit # None THEN <<explicit>>
    ELSE IF confirmed # None THEN <<confirmed>>
    ELSE Tail(Configured) \o <<Default>>

\* _candidate_order
CandidateOrder(explicit) ==
    IF explicit # None THEN <<explicit>>
    ELSE IF confirmed # None THEN <<confirmed>>
    ELSE Configured

Reply == {"answer", "odd", "missing", "error"}

\* What the last call of a slot asked stays until the next one.
NoCall == [pc |-> "idle", explicit |-> None, order |-> <<>>, at |-> 0, reply |-> None,
           outcome |-> None]

Asked(c) == call[c].order[call[c].at]

\* The call is over.
Return(c, outcome) ==
    call' = [call EXCEPT ![c].pc = "idle", ![c].reply = None, ![c].outcome = outcome]

-----------------------------------------------------------------------------
(* Actions *)

Init ==
    /\ catalog \in SUBSET Models
    /\ moved = FALSE
    /\ confirmed = None
    /\ call = [c \in Calls |-> NoCall]

\* chat() up to its first await, with or without a model of the caller's choice.
Chat(c, explicit) ==
    /\ call[c].pc = "idle"
    /\ call' = [call EXCEPT ![c] =
                  [NoCall EXCEPT !.pc = "posted", !.explicit = explicit,
                                 !.order = CandidateOrder(explicit), !.at = 1]]
    /\ UNCHANGED <<catalog, moved, confirmed>>

\* The service handles the request. It may fail whatever the model: no network,
\* a bad key, a rate limit. "odd" is an answer without choices. The provider takes
\* every 404, and an error that only sounds like one, for a missing model: such a
\* reply about a model of the catalog counts as a catalog that lacks it for a
\* moment (CatalogChanges).
Serve(c) ==
    /\ call[c].pc = "posted"
    /\ \E reply \in IF Asked(c) \in catalog THEN Reply \ {"missing"} ELSE {"missing", "error"} :
         call' = [call EXCEPT ![c].pc = "replied", ![c].reply = reply]
    /\ UNCHANGED <<catalog, moved, confirmed>>

\* Faulty variant: the same candidate is tried again.
TryNextStuck(c) ==
    /\ call[c].pc = "replied"
    /\ call[c].reply = "missing"
    /\ call[c].at < Len(call[c].order)
    /\ call' = [call EXCEPT ![c].pc = "posted", ![c].reply = None]
    /\ UNCHANGED <<catalog, moved, confirmed>>

\* Faulty variant: one candidate beyond the last.
TryNextPast(c) ==
    /\ call[c].pc = "replied"
    /\ call[c].reply = "missing"
    /\ call' = [call EXCEPT ![c].pc = "posted", ![c].reply = None, ![c].at = @ + 1]
    /\ UNCHANGED <<catalog, moved, confirmed>>

\* ModelNotFoundError: on to the next candidate.
TryNext(c) ==
    /\ call[c].pc = "replied"
    /\ call[c].reply = "missing"
    /\ call[c].at < Len(call[c].order)
    /\ call' = [call EXCEPT ![c].pc = "posted", ![c].reply = None, ![c].at = @ + 1]
    /\ UNCHANGED <<catalog, moved, confirmed>>

\* Faulty variant: the call gives up one candidate early.
NoneLeftEarly(c) ==
    /\ call[c].pc = "replied"
    /\ call[c].reply = "missing"
    /\ call[c].at + 1 >= Len(call[c].order)
    /\ Return(c, "unavailable")
    /\ UNCHANGED <<catalog, moved, confirmed>>

\* No candidate is left: "None of the configured Bytez models are available".
NoneLeft(c) ==
    /\ call[c].pc = "replied"
    /\ call[c].reply = "missing"
    /\ call[c].at = Len(call[c].order)
    /\ Return(c, "unavailable")
    /\ UNCHANGED <<catalog, moved, confirmed>>

\* Any other ProviderError is raised at once.
Fails(c) ==
    /\ call[c].pc = "replied"
    /\ call[c].reply = "error"
    /\ Return(c, "error")
    /\ UNCHANGED <<catalog, moved, confirmed>>

\* Faulty variant: a model of the caller's choice is settled on as well.
SettleAny(c) == Asked(c)

\* The model the process settles on when a call got an answer.
Settle(c) == IF call[c].explicit = None THEN Asked(c) ELSE confirmed

\* Status 200: the model counts as working before the answer is looked at.
Answered(c) ==
    /\ call[c].pc = "replied"
    /\ call[c].reply \in {"answer", "odd"}
    /\ confirmed' = Settle(c)
    /\ Return(c, IF call[c].reply = "answer" THEN "answer" ELSE "error")
    /\ UNCHANGED <<catalog, moved>>

\* Models are renamed, deprecated, or come back.
CatalogChanges ==
    /\ catalog' \in SUBSET Models \ {catalog}
    /\ moved' = TRUE
    /\ UNCHANGED <<confirmed, call>>

Next ==
    \/ \E c \in Calls, explicit \in Pins \cup {None} : Chat(c, explicit)
    \/ \E c \in Calls : Serve(c) \/ TryNext(c) \/ NoneLeft(c) \/ Fails(c) \/ Answered(c)
    \/ CatalogChanges

Spec == Init /\ [][Next]_vars

\* Requests have a timeout and coroutines are scheduled; nobody has to call.
FairSpec ==
    /\ Spec
    /\ \A c \in Calls : WF_vars(Serve(c) \/ TryNext(c) \/ NoneLeft(c) \/ Fails(c) \/ Answered(c))

-----------------------------------------------------------------------------
(* Properties *)

CallRec == [pc: {"idle", "posted", "replied"}, explicit: Pins \cup {None},
            order: Seq(Models), at: Nat, reply: Reply \cup {None},
            outcome: {None, "answer", "unavailable", "error"}]

TypeOK ==
    /\ catalog \subseteq Models
    /\ moved \in BOOLEAN
    /\ confirmed \in Models \cup {None}
    /\ call \in [Calls -> CallRec]
    /\ \A c \in Calls : call[c].at <= Len(call[c].order)

\* A model that some caller asked for by name is asked for that caller alone:
\* it is never settled on, and no call without a name of its own goes to it
\* unless it is configured (bytez.py:119-122, 185).
NamedModelsStayPrivate ==
    /\ confirmed \in Range(Configured) \cup {None}
    /\ \A c \in Calls : Range(call[c].order) \subseteq
         IF call[c].explicit # None THEN {call[c].explicit} ELSE Range(Configured)

\* As long as the catalog stays as it is, concurrent probes agree: whichever
\* call settles, and however late its reply comes, it is on the first available
\* model of the configured order (bytez.py:20-22, 185-187).
ProbesAgree ==
    ~moved /\ confirmed # None =>
        \E i \in 1..Len(Configured) :
            /\ Configured[i] = confirmed
            /\ confirmed \in catalog
            /\ \A j \in 1..(i - 1) : Configured[j] \notin catalog

\* As long as the catalog stays as it is, a call that reports that no model is
\* available is right (bytez.py:202-207).
UnavailableIsTrue ==
    \A c \in Calls : ~moved /\ call[c].outcome = "unavailable" =>
        catalog \cap (IF call[c].explicit # None THEN {call[c].explicit}
                      ELSE Range(Configured)) = {}

\* Every call comes to an end, found its model or not: its candidates are tried
\* one after the other, and requests have a timeout (bytez.py:176-183).
EveryCallReturns == \A c \in Calls : call[c].pc # "idle" ~> call[c].pc = "idle"
=============================================================================
