----------------------------- MODULE ModelCalls -----------------------------
(***************************************************************************)
(* Every call one run makes of a language model: the planner's, those of   *)
(* the step loop with their retries, the replanner's, and what             *)
(* ProviderRouter.chat (app/providers/router.py) makes of each of them:    *)
(* candidates tried one after the other until one answers.                 *)
(*                                                                         *)
(* Calls share no state with other runs: the registry is fixed at startup. *)
(* What the model answers matters here only by whether the run goes on, or *)
(* stops at a call that needs a confirmation until a human resumes it.     *)
(***************************************************************************)
EXTENDS Naturals, Sequences, FiniteSets

CONSTANTS
    Providers,  \* provider names a setting or a profile may hold
    Orders,     \* values of PROVIDER_FALLBACK_ORDER
    Lenient,    \* OpenRouter: tells a capability mismatch by the error's text
    Statuses,   \* statuses of failed requests: 0 for none (network error, no model
                \* left to try), 200 for an answer of an unexpected shape
    MaxSteps,   \* max_agent_steps, or profile.max_steps
    MaxRetries, \* max_retries
    None

ASSUME ProvidersAssumption ==
    /\ Lenient \subseteq Providers
    /\ Orders \subseteq Seq(Providers)
    /\ None \notin Providers \cup {"plan", "step", "replan"}

ASSUME BoundsAssumption ==
    /\ MaxSteps \in Nat
    /\ MaxRetries \in Nat
    /\ Statuses \subseteq Nat

VARIABLES
    settings, \* registry, DEFAULT_PROVIDER, PROVIDER_FALLBACK_ORDER: fixed
    profile,  \* what the run's AgentProfile pins: fixed
    stage,    \* where the run is between its calls
    call,     \* the call in progress
    steps,    \* steps_used
    replanned,
    waited,   \* the batch of tool calls under way was parked and resumed
    tries,    \* history: the requests made for the last call
    events    \* history: what the client was told of its last attempt

vars == <<settings, profile, stage, call, steps, replanned, waited, tries, events>>

-----------------------------------------------------------------------------
(* The router *)

\* is_retryable_status; 0 stands for no status at all.
IsRetryable(status) ==
    /\ status \notin {400, 401, 403, 422}
    /\ status \in {0, 404, 408, 429, 500, 502, 503, 504}

\* ProviderError.retryable as the provider sets it: OpenRouter also marks an
\* error that mentions tools, when tools were offered.
MayBeRetryable(p, status) ==
    \/ IsRetryable(status)
    \/ p \in Lenient /\ call.kind = "step"

MayBeHard(status) == ~IsRetryable(status)

\* Faulty variant: a pinned provider is the first candidate, not the only one.
CandidatesUnpinned(pinned) ==
    (IF pinned # None THEN <<pinned>> ELSE <<>>) \o <<settings.default>> \o settings.order

\* _candidate_names: the pinned provider alone, or the default and then the
\* fallback order. A name counts only where it stands first.
Candidates(pinned) ==
    IF pinned # None THEN <<pinned>> ELSE <<settings.default>> \o settings.order

\* Where the names of a set stand first.
Places(order, names) ==
    {j \in 1..Len(order) : order[j] \in names /\ \A k \in 1..(j - 1) : order[k] # order[j]}

\* The first of them from position i on.
NextIn(order, i, names) ==
    LET later == {j \in Places(order, names) : j >= i}
    IN  IF later = {} THEN Len(order) + 1 ELSE CHOOSE j \in later : \A k \in later : j <= k

\* The next candidate that is registered and configured.
NextUsable(order, i) == NextIn(order, i, settings.configured)

\* The name that follows, usable or not.
NextName(order, i) ==
    LET next == NextIn(order, i + 1, Providers)
    IN  IF next <= Len(order) THEN order[next] ELSE None

Idle == [kind |-> None, order |-> <<>>, at |-> 0, model |-> FALSE, left |-> 0]

\* ProviderRouter.chat is entered.
Enter(kind, pinned, model, left) ==
    /\ call' = [kind |-> kind, order |-> Candidates(pinned),
                at |-> NextUsable(Candidates(pinned), 1), model |-> model, left |-> left]
    /\ tries' = <<>>
    /\ events' = <<>>

\* Whom the router asks now, and whether it passes the model name on.
Asked == call.order[call.at]

\* Faulty variant: the pinned model goes to every candidate.
ModelGivenToAll == call.model

ModelGiven == call.model /\ call.at = 1

Asking == call.kind # None /\ call.at <= Len(call.order)

Try(status) ==
    tries' = Append(tries, [kind |-> call.kind, provider |-> Asked,
                            model |-> ModelGiven, status |-> status, left |-> call.left])

\* Only the step loop hands the router its on_event: what the router emits for
\* the planner and the replanner goes to _noop_event.
Emit(event) == events' = IF call.kind = "step" THEN Append(events, event) ELSE events

\* What becomes of the run when a call has an answer or is given up: the planner
\* and the replanner swallow every error, the step loop does not.  A replan
\* comes from within a batch of tool calls, which then goes on.
After(kind, ok) ==
    CASE kind = "plan" -> "ready"
      [] kind = "replan" -> "answered"
      [] OTHER -> IF ok THEN "answered" ELSE "over"

-----------------------------------------------------------------------------
(* Actions *)

Init ==
    /\ settings \in [default: Providers, order: Orders, configured: SUBSET Providers]
    /\ profile \in [provider: Providers \cup {None}, model: BOOLEAN]
    /\ stage = "new"
    /\ call = Idle
    /\ steps = 0
    /\ replanned = FALSE
    /\ waited = FALSE
    /\ tries = <<>>
    /\ events = <<>>

\* Executor.run asks for a plan with the profile's model, not its provider.
Plan ==
    /\ stage = "new"
    /\ Enter("plan", None, profile.model, 1)
    /\ stage' = "calling"
    /\ UNCHANGED <<settings, profile, steps, replanned, waited>>

\* Faulty variant: the step is not counted.
StepUncounted ==
    /\ stage = "ready"
    /\ steps < MaxSteps
    /\ Enter("step", profile.provider, profile.model, MaxRetries + 1)
    /\ stage' = "calling"
    /\ waited' = FALSE
    /\ UNCHANGED <<settings, profile, steps, replanned>>

\* Faulty variant: one step too many.
StepOverLimit ==
    /\ stage = "ready"
    /\ steps <= MaxSteps
    /\ steps' = steps + 1
    /\ Enter("step", profile.provider, profile.model, MaxRetries + 1)
    /\ stage' = "calling"
    /\ waited' = FALSE
    /\ UNCHANGED <<settings, profile, replanned>>

\* The head of the step loop, and _chat_with_retries.
Step ==
    /\ stage = "ready"
    /\ steps < MaxSteps
    /\ steps' = steps + 1
    /\ Enter("step", profile.provider, profile.model, MaxRetries + 1)
    /\ stage' = "calling"
    /\ waited' = FALSE
    /\ UNCHANGED <<settings, profile, replanned>>

\* A tool call of the answer failed: _maybe_replan, once in a run.
Replan ==
    /\ stage = "answered"
    /\ ~replanned
    /\ replanned' = TRUE
    /\ Enter("replan", None, profile.model, 1)
    /\ stage' = "calling"
    /\ UNCHANGED <<settings, profile, steps, waited>>

\* The tool calls of the answer are done.
GoOn ==
    /\ stage = "answered"
    /\ stage' = "ready"
    /\ UNCHANGED <<settings, profile, call, steps, replanned, waited, tries, events>>

\* A tool call needs a confirmation: the run is stored, its coroutine returns.
\* A batch is parked once, for the decision then goes for its later calls too.
Park ==
    /\ stage = "answered"
    /\ ~waited
    /\ stage' = "parked"
    /\ UNCHANGED <<settings, profile, call, steps, replanned, waited, tries, events>>

\* A human approves or denies, which resumes the run.
Resume ==
    /\ stage = "parked"
    /\ stage' = "answered"
    /\ waited' = TRUE
    /\ UNCHANGED <<settings, profile, call, steps, replanned, tries, events>>

\* The answer was final, or the tool budget is spent, or the step limit reached.
Finish ==
    /\ \/ stage = "answered"
       \/ stage = "ready" /\ steps >= MaxSteps
    /\ stage' = "over"
    /\ UNCHANGED <<settings, profile, call, steps, replanned, waited, tries, events>>

Answers ==
    /\ Asking
    /\ Try(200)
    /\ Emit([type |-> "provider_selected", from |-> Asked, to |-> None])
    /\ call' = Idle
    /\ stage' = After(call.kind, TRUE)
    /\ UNCHANGED <<settings, profile, steps, replanned, waited>>

\* Faulty variant: the switch is not reported.
FailsOverSilently(status) ==
    /\ Asking
    /\ MayBeRetryable(Asked, status)
    /\ Try(status)
    /\ call' = [call EXCEPT !.at = NextUsable(call.order, @ + 1)]
    /\ UNCHANGED <<settings, profile, stage, steps, replanned, waited, events>>

\* A retryable error: the switch is emitted, with the next name of the list, and
\* the next usable candidate is asked.
FailsOver(status) ==
    /\ Asking
    /\ MayBeRetryable(Asked, status)
    /\ Try(status)
    /\ Emit([type |-> "provider_fallback", from |-> Asked,
             to |-> NextName(call.order, call.at)])
    /\ call' = [call EXCEPT !.at = NextUsable(call.order, @ + 1)]
    /\ UNCHANGED <<settings, profile, stage, steps, replanned, waited>>

\* Faulty variant: the attempts are not counted.
RaisedUncounted ==
    IF call.kind = "step"
    THEN /\ call' = [call EXCEPT !.at = NextUsable(call.order, 1)]
         /\ events' = <<>>
         /\ stage' = stage
    ELSE /\ call' = Idle
         /\ events' = events
         /\ stage' = After(call.kind, FALSE)

\* The router raises: _chat_with_retries repeats a step's call while attempts
\* are left, whatever the error was.
Raised ==
    IF call.left > 1
    THEN /\ call' = [call EXCEPT !.at = NextUsable(call.order, 1), !.left = @ - 1]
         /\ events' = <<>>
         /\ stage' = stage
    ELSE /\ call' = Idle
         /\ events' = events
         /\ stage' = After(call.kind, FALSE)

\* A non-retryable error is raised at once.
FailsHard(status) ==
    /\ Asking
    /\ MayBeHard(status)
    /\ Try(status)
    /\ Raised
    /\ UNCHANGED <<settings, profile, steps, replanned, waited>>

\* NoProviderAvailableError: no candidate is left.
GiveUp ==
    /\ call.kind # None
    /\ call.at > Len(call.order)
    /\ Raised
    /\ UNCHANGED <<settings, profile, steps, replanned, waited, tries>>

\* An answer that is not even JSON raises no ProviderError: nothing retries or
\* falls over, and a step's run ends with the exception.
Breaks ==
    /\ Asking
    /\ Try(200)
    /\ call' = Idle
    /\ stage' = After(call.kind, FALSE)
    /\ UNCHANGED <<settings, profile, steps, replanned, waited, events>>

\* What the run's coroutine does.
Proceeds ==
    \/ Plan
    \/ Step
    \/ Replan
    \/ GoOn
    \/ Park
    \/ Finish
    \/ Answers
    \/ \E status \in Statuses : FailsOver(status) \/ FailsHard(status)
    \/ Breaks
    \/ GiveUp

Next == Proceeds \/ Resume

Spec == Init /\ [][Next]_vars

\* The run is one coroutine; HTTP timeouts bound each of its requests.  Nothing
\* is assumed of the human it may wait for.
FairSpec == Spec /\ WF_vars(Proceeds)

-----------------------------------------------------------------------------
(* Properties *)

Request == [kind: {"plan", "step", "replan"}, provider: Providers, model: BOOLEAN,
         status: Statuses \cup {200}, left: Nat]

Event == [type: {"provider_selected", "provider_fallback"}, from: Providers,
          to: Providers \cup {None}]

TypeOK ==
    /\ settings \in [default: Providers, order: Orders, configured: SUBSET Providers]
    /\ profile \in [provider: Providers \cup {None}, model: BOOLEAN]
    /\ stage \in {"new", "ready", "calling", "answered", "parked", "over"}
    /\ call \in [kind: {None, "plan", "step", "replan"}, order: Seq(Providers),
                 at: Nat, model: BOOLEAN, left: 0..MaxRetries + 1]
    /\ steps \in 0..MaxSteps
    /\ replanned \in BOOLEAN
    /\ waited \in BOOLEAN
    /\ tries \in Seq(Request)
    /\ events \in Seq(Event)

\* Where a provider first stands in the configured order of preference.
Rank(p) ==
    LET places == {i \in 1..Len(settings.order) : settings.order[i] = p}
    IN  CASE p = settings.default -> 0
          [] p # settings.default /\ places # {} ->
               CHOOSE i \in places : \A j \in places : i <= j
          [] OTHER -> Len(settings.order) + 1

\* Whom the attempt of request j of a history asked before it.
Before(s, j) ==
    {s[i].provider : i \in {k \in 1..Len(s) : k < j /\ s[k].left = s[j].left}}

\* Each attempt asks the usable providers in the configured order, none twice
\* and none skipped; a step of a profile that pins a provider asks that one
\* alone (router.py:58-68, 85-88).
InOrder ==
    \A j \in 1..Len(tries) :
        LET p == tries[j].provider
        IN  /\ p \in settings.configured
            /\ IF tries[j].kind = "step" /\ profile.provider # None
               THEN p = profile.provider /\ Before(tries, j) = {}
               ELSE Before(tries, j) = {q \in settings.configured : Rank(q) < Rank(p)}

\* Retries and fallback multiply, but no further than that: one model call asks
\* a provider at most max_retries + 1 times, the planner's and the replanner's
\* once (executor.py:131, README.md:47-48).
RetriesBounded ==
    \A p \in Providers :
        LET asked == {i \in 1..Len(tries) : tries[i].provider = p}
        IN  Cardinality(asked) <= IF \E i \in asked : tries[i].kind = "step"
                                  THEN MaxRetries + 1 ELSE 1

\* Who is asked after request i of the attempt under way, if anyone.
Follower(i) ==
    IF i < Len(tries) THEN tries[i + 1].provider ELSE IF Asking THEN Asked ELSE None

\* While a step's call goes on, its client was told of every request of the
\* attempt under way that failed, in order and nothing else: each event names
\* the provider that failed and the one that is asked next, or one that is not
\* configured (router.py:10-12, 104-106, executor.py:127-128).
SwitchesReported ==
    call.kind = "step" =>
        LET old == Len(tries) - Len(events)
        IN  /\ Len(events) <= Len(tries)
            /\ \A i \in 1..Len(tries) : tries[i].left = call.left <=> i > old
            /\ \A i \in 1..Len(events) :
                 /\ events[i].type = "provider_fallback"
                 /\ events[i].from = tries[old + i].provider
                 /\ events[i].to = Follower(old + i) \/ events[i].to \in Providers \ settings.configured

\* A model name goes only to the provider it is meant for: the one the step's
\* profile pins, or else the default (router.py:90).
ModelStaysHome ==
    \A i \in 1..Len(tries) : tries[i].kind = "step" /\ tries[i].model =>
        tries[i].provider = IF profile.provider # None THEN profile.provider
                            ELSE settings.default

\* Whatever the providers and the human do, the run comes to an end or waits for
\* a decision that never comes (executor.py:280, 310-325).
RunEndsOrWaits == <>[](stage \in {"parked", "over"})

-----------------------------------------------------------------------------
(* The inductive invariant *)

\* What the call in progress may be, and how far it has come: the usable
\* candidates before its position are those its attempt has asked.
CallFollows ==
    call.kind # None =>
        /\ call.order = Candidates(IF call.kind = "step" THEN profile.provider ELSE None)
        /\ call.at \in Places(call.order, settings.configured) \cup {Len(call.order) + 1}
        /\ call.left \in 1..(IF call.kind = "step" THEN MaxRetries + 1 ELSE 1)
        /\ \A p \in Providers :
             (\E i \in 1..Len(tries) : tries[i].left = call.left /\ tries[i].provider = p)
             <=> (\E j \in Places(call.order, settings.configured) : j < call.at /\ call.order[j] = p)

\* All requests are of one call, whose attempts count down.
TriesFollow ==
    \A i \in 1..Len(tries) :
        /\ tries[i].left \in 1..(IF tries[i].kind = "step" THEN MaxRetries + 1 ELSE 1)
        /\ \A j \in 1..Len(tries) : tries[i].kind = tries[j].kind
        /\ call.kind # None => tries[i].kind = call.kind /\ tries[i].left >= call.left

\* InOrder speaks of the requests made; the next one follows from where the
\* call stands.
IInv ==
    /\ TypeOK
    /\ CallFollows
    /\ TriesFollow
    /\ InOrder
    /\ SwitchesReported
    /\ ModelStaysHome

-----------------------------------------------------------------------------
(* What the documentation says and the code does not do *)

\* "An AgentProfile can pin an exact provider (and model) - if set, that's the
\* only one ever tried for that profile" (README.md:269-270).
PinHolds ==
    \A i \in 1..Len(tries) :
        profile.provider # None => tries[i].provider = profile.provider

\* "Every switch is reported via a `provider_fallback` event (`{"from": "groq",
\* "to": "gemini", ...}`), visible on the SSE stream" (README.md:279-281): while a
\* call goes on, whoever waits for it was told of each switch of the attempt under
\* way, from whom and to whom.
EverySwitchReported ==
    call.kind # None =>
        \A i \in 1..Len(tries) : tries[i].left = call.left /\ Follower(i) # None =>
            \E k \in 1..Len(events) :
                events[k].from = tries[i].provider /\ events[k].to = Follower(i)
=============================================================================
