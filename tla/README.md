# A TLA+ model of clodagent

clodagent is a self-hosted AI agent: a FastAPI process that runs a step loop
over language models and tools, pauses for a human before dangerous tools, falls
back between model providers, and drives MCP servers. This directory holds
TLA+ modules that model its core, TLC configurations that check small
instances, and TLAPS proofs that every safety property checked on them, and both
refinements, hold for all instances. Paths below are relative to `src/`.

## 1. The system

One process, one asyncio event loop. Every request is a task; tasks interleave
only at an `await` that suspends. No lock protects any shared state.

| Component | State | Operations | What makes it correct |
|---|---|---|---|
| Executor `app/agent/executor.py` | locals of each coroutine | `run`, `resume`, `_step_loop`, `_run_batch`, `_execute_one`, `_advance_plan`, `_maybe_replan`, `_chat_with_retries` | one task per run; each call answered once and in order; budgets; pause and resume at the same call; a run ends |
| RunStateStore `app/agent/run_state.py` | run states by id, in memory | create, get, save, discard | what a confirmation points at is there |
| ConfirmationStore `app/agent/confirmation.py` | confirmations by id, in memory | create (sweeps), get (expires), approve, deny, list_pending (sweeps) | decided once, never after the ttl, and only what was decided runs |
| Agent `app/agent/core.py` | none | run_turn, run_task, approve/deny | stitches the above together |
| ToolRouter, ToolRegistry, Tool | registry of tools | lookup, parse, dispatch with retries, execute with a timeout | a tool is repeated only if retry_safe |
| Planner `app/agent/planner.py` | none | create_plan, replan | never fails a run |
| ProviderRouter, ProviderRegistry, providers | registry, fixed at startup | chat with fallback; events | order, bounds and reports of the fallback |
| BytezProvider `app/providers/bytez.py` | `_confirmed_model` | chat probes its own candidates and settles on one | concurrent probes agree; a model of one caller's choice stays with that caller |
| McpClientManager `app/integrations/mcp.py` | servers in memory, `mcp_servers.json` | add, confirm, toggle, connect, discover, call, load | gates hold over replacement, toggling and restarts |
| Sessions `app/memory/short_term.py` | a SQLite file | record, history, delete | an answer once and after its question; a turn is told what came before it |
| Long-term memory `app/memory/long_term.py`, its tools | a SQLite file: a table and its full-text index | remember, recall, forget, list | the index follows the table; what was told is found until it is forgotten |
| Profiles `app/agent/profiles.py` | a JSON file | upsert, delete, read at each turn | last write wins |
| GitHub discovery `app/integrations/github_discovery.py`, its tools | cache, rate limit counter | scan, analyse, look up, search | licence gate and capabilities are right whatever is refused; the overrun of the rate limit is bounded; every request ends |
| Adapter generator `app/integrations/adapter_generator.py` | a directory of stubs | write a stub | a stub says what the project has |
| REST API `app/api/routes.py`, web UI | none | starts everything above | one answer per request |

How they interact. A chat request goes `routes.chat` → `Agent.run_turn` →
`Executor.run`, which creates a RunState, asks the planner, and loops: ask the
model (`ProviderRouter.chat`, which tries providers in order), run the batch of
tool calls it returns (`ToolRouter.dispatch` → `ToolRegistry.execute_tool` →
possibly `McpClientManager.call_tool`), repeat. A gated tool call creates a
confirmation, parks the run in the store and *returns* the request; a later
approve or deny request looks the run up by the confirmation and resumes it in
a task of its own. MCP tools enter the registry through the connect endpoint.

What is hard: requests that interleave at awaits over state nobody locks; pause
and resume in the middle of a batch while confirmations expire; budgets and
failures in the middle of a batch; two nested loops of retries; server
configurations that change while connections are open; a cache and a rate limit
that several requests use at once while GitHub refuses some of them; a restart
that keeps one file and forgets the rest, or comes back on another build. `PROJECT.json` lists each hazard with its line.

## 2. The modules

- **Executor** - Executor, RunStateStore, ConfirmationStore, and the parts of
  Agent, ToolRouter, ToolRegistry and Planner they call.
- **RunLifecycle** - the abstract specification: what a run is allowed to do to
  the world over its life (unborn, working, waiting, over).
- **ExecutorRefinement** - the mapping by which Executor implements it.
- **ExecutorProofs** - the theorems about tasks and confirmations of Executor.
- **RunProofs** - those about what its runs spend, repeat and answer, and the
  refinement of RunLifecycle.
- **ModelCalls** - every model call of one run: planner, steps, replanner, with
  the executor's retries around the router's fallback.
- **ModelCallsProofs** - the theorems about ModelCalls.
- **BytezModels** - BytezProvider.chat: concurrent calls and the model they share.
- **BytezProofs** - the theorems about BytezModels.
- **Conversations** - sessions, their messages, profiles and what chat turns read
  and leave there: Agent, ContextBuilder, SqliteShortTermMemory, ProfileStore.
- **ConversationsProofs** - the theorems about Conversations.
- **McpManager** - McpClientManager with its file, the registry's MCP tools, the
  endpoints that drive them, and restarts.
- **McpProofs** - the theorems about McpManager.
- **Discovery** - GitHubClient, GitHubDiscovery, the GitHub endpoints and tools,
  and the stubs of the adapter generator.
- **DiscoveryProofs** - the theorems about Discovery.
- **Notebook** - the abstract specification of long-term memory: notes that are
  told, erased and asked for.
- **Facts** - SqliteLongTermMemory with its tools and endpoints; it implements
  Notebook.
- **FactsProofs** - the theorems about Facts, the refinement included.
- **MCExecutor**, **MCModelCalls**, **MCBytezModels**, **MCConversations**,
  **MCMcpManager**, **MCDiscovery**, **MCFacts** - the instances for TLC.

Definitions named "Faulty variant" are plausible bugs. They take part in no
specification: each shows that some property notices it.

### Executor

`task[t]` is a coroutine: `pc` tells at which await it stands (`planning`,
`chat`, `tool`, `running`, `replan`) or that it is between two calls of a batch
(`batch`); `i`, `batch`, `decision` are `_run_batch`'s locals `i`, `tool_calls`,
`resume_decision`; `left` counts the attempts of a retry loop. `run[r]` is the
RunState object, with the fields of the dataclass; `asked` and `answers`
abstract its conversation to the last assistant message and the tool messages
after it. `stored` is the set of keys of the store, `conf` the confirmation
store, `now` the clock, `ran` the history of what tools were started for.
Indices are 1-based where the code's are 0-based.

| Code | Actions |
|---|---|
| `Agent.run_turn`, `run` up to the planner | `StartRun`, `PlanReady` |
| `_chat_with_retries`, the model's turn | `ChatFails`, `ChatAnswers`, `ChatAsks` |
| `_run_batch`, `_execute_one` before the tool | `CutBatch`, `AnswerMalformed`, `AskHuman`, `AnswerDenied`, `Dispatch` |
| `dispatch`, `execute_tool` | `RejectCall`, `StartTool`, `ToolReturns` |
| `_maybe_replan`; the end of a batch | `Replanned`, `BatchDone` |
| an exception that no handler expects, or a cancellation | `Abort` |
| approve, deny, `resume` | `Resolve`, `ResolveLate` |
| `GET /api/confirmations`; time | `ListPending`, `Tick` |

Notes on faithfulness.

- The iterations of the batch loop are separate actions although the code only
  suspends inside some of them: that adds interleavings and removes none.
- `await status_cb(...)` puts into an unbounded queue or does nothing: it never
  suspends, so it is not a step.
- Both stores live in memory: a restart of the process is `Init` again.
- Each assistant turn parks at most once at a given call; ids are never reused,
  in the model by taking an absent one each time.
- The `except` around `create_plan` in `run` is dead code: the planner catches
  everything itself.
- Whether arguments satisfy a tool's schema is the choice of `RejectCall`
  against `StartTool`; arguments that are no JSON object at all raise, which is
  `Abort`.
- When the budget is spent the model is offered no tools, but may answer with
  calls all the same: `ChatAsks` stays possible and leads to `CutBatch`.

### ModelCalls

`call` is the call in progress: who asks, the candidates, which of them is
asked, whether a model name came with it, and the attempts left. `tries` and
`events` are the requests of the last call and what the client was told of its
last attempt: only a step's call has a client to tell (`Emit`), for the planner
and the replanner call the router without `on_event`.
A provider's request is a choice of `Answers`, `FailsOver` (retryable),
`FailsHard` (not) and `Breaks` (an exception that is no ProviderError).
A name counts as a candidate where it stands first in the order (`Places`),
which is what `_candidate_names` does when it drops duplicates.
`Retry-After` sleeps are left out. Settings, registry and profile are fixed for
a run and chosen freely at the start: which providers are configured, which one
is the default, what the profile pins. What tools do between the calls is
abstracted to `GoOn`, `Replan`, `Finish` and `Park`. `Park` is the run that
stops at a gated call: its coroutine returns, and only a human's `Resume` goes
on. `waited` is there because a batch parks once: the decision it is resumed
with goes for its later calls too (`exact_approval` in section 4).

### BytezModels

Each slot of `call` is one call after the other. The service looks at `catalog`
in `Serve`; the reply is acted on in a later step (`TryNext`, `NoneLeft`,
`Fails`, `Answered`), between which other calls may settle on a model. The
catalog changes at any time; `moved` remembers whether it did. Headers,
payloads and the texts that tell a missing model are abstracted to the four
replies. One assumption is about the service: the provider takes any 404 and any
error text that sounds like one for a missing model, and where such a reply is
spurious the model lets the catalog lack the model for that moment. So what
`ProbesAgree` and `UnavailableIsTrue` say of an unchanged catalog, they say of a
service whose replies about it are right. ModelCalls sees all this as one request whose last failure has no
status.

### Conversations

`turn[t]` is a chat request or a task: `opened` when a stream has its session
but not yet its turn, `running`, `paused` at a confirmation, `over`. What runs
do in between is Executor's. That a paused run has at most one resume under way
is `OneTaskPerRun` there, and it is assumed here: `Resume` leaves `paused`.
`messages` is the table as a set of rows, each with the id that AUTOINCREMENT
gave it, and `lastId` what `sqlite_sequence` remembers, so that ids of deleted
rows do not come back; `profiles` is the file as to `memory_enabled`. Besides its
id a message is told by its session, its role and the turn it is from. A client
may name any session id, also of a session that was deleted or never was, and
any profile name, also one that is not in the file; nothing in the code looks.
`created` only keeps ids that are in use from being handed out. The table of the
sessions themselves is listed and read by nothing else, and left out. Facts from
long-term memory are left out of the context.

### Discovery

`req[s]` is a request or a tool call: `searching` and `getting` wait for GitHub,
`analysing` waits for the analyses of `top`, one `work[s][r]` each, which waits
for the semaphore (`at` = 0) or in one of the four `Stages`. What is in the cache
is passed without a stop, as no `await` suspends there: `Scan` and `Continue` go
on to the next request that GitHub must answer. `cache` tells a good entry from
one that keeps a failure, which only a README or a release does. `limited` is
`rate_limited`; every answer may change it, a request without an answer not.
`gaps` and `sent` are history. What GitHub says of a repository is fixed
(`About`): what varies is whether it says it.

| Code | Actions |
|---|---|
| `GET /api/github/search`, `discover` | `BeginScan`, `SearchAnswered`, `SearchRefused`, `SearchRaises`, `ScanEnds` |
| `github_search` | `BeginSearch` and the same answers |
| analyze, generate-adapter, `github_get_repo` | `BeginRepo`, `RepoAnswered`, `RepoRefused`, `RepoRaises`, `RepoEnds` |
| `_deep_analyze` | `Begins`, `StageAnswered`, `StageRefused`, `StageRaises` |
| `_cache_get` after the ttl | `Expire` |

Scores only rank: which candidates a scan analyses and which it shows is left
open (`Best`), as no property depends on it. A search by the tool with its
default limit has the cache key of a scan's query (`per_page` 10); other limits
have keys of their own. A tool call that
`TOOL_TIMEOUT` cancels ends like one GitHub never answered (`Raises`).

### Facts

Every operation is synchronous and one transaction, hence one action. `fts` says
whether this process's SQLite has FTS5, `available` is `_fts_available`; they
differ when the index was made by another build, because `CREATE VIRTUAL TABLE
IF NOT EXISTS` looks for the table before it looks for the module. Then every
write raises and is rolled back (`Unusable`). `Matches` and `Overlaps` are any
relations between questions and texts: the index finds whole words, the
fallback also parts of words. The order in which facts are ranked is open.

### McpManager

`servers` and `saved` are the manager's dictionary and the file; `registered`
the MCP tools in the registry; `task` the requests that wait for a server. A
connect request waits twice (`Connect`/`Listed`/`Discovered`), a tool call once.
`Size` is what Python compares when it advances an iterator over a dictionary.
`Basename` is what `_check_command_allowed` cuts out of a command: the path of a
program passes if its last part is listed (`CommandAllowed`).
`fromApi`, `addedHere`, `reviewed` and `off` are history for the properties. The
two remote transports are one. The cache of tool lists is only displayed.
Saving is one step: a crash in the middle of a write is not modelled.

## 3. What TLC checks

| Run | Instance | Shows |
|---|---|---|
| `executor` | 1 run, 2 requests at a time, 2 confirmations, 2 steps, 3 tool calls, 1 retry, ttl 1, time 0..2; a gated tool, a retry_safe one, malformed arguments and an unknown tool | the seven safety invariants and the two of the proofs, `IInv` and `RunsOK`, `DecisionsAreFinal`, the refinement of RunLifecycle, and `EveryTaskReturns` under fairness |
| `model_calls` | 3 providers with 2 orders, any configured, any pinned; 2 steps, 1 retry | order, bounds, reports, and that the run ends or waits for a human |
| `bytez` | 2 calls at a time, 3 configured models, one pinned that is configured and one that is not, a catalog that changes freely | which models calls ask and settle on and, under fairness, that every call ends |
| `conversations` | 3 turns, 2 sessions, 2 profiles, a history of at most 3 messages | what is recorded and told, over overlaps, pauses, deletions and restarts |
| `discovery` | 3 repositories, 2 queries, 2 request slots (a scan or a lookup; a generation or a search), a semaphore of 2, 1 refusal, silence or expiry, 1 change of the limit | analyses, gate, stubs, what a request misses, the overrun and, under fairness, that everything ends |
| `facts` | 3 facts, 2 profiles, 3 texts, 2 questions, limit 1, any sequence of builds | index and rows, recall, and the refinement of Notebook |
| `mcp` | 2 servers, 2 requests at a time, 3 commands (one listed, one a path that ends in a listed one, one neither), 2 environment variables | the gates over replacement, toggling, interleaving and restarts |

`IInv` in `executor`, `model_calls`, `conversations` and `discovery` is the
inductive invariant of the proofs and begins with the module's type invariant;
in `executor` `RunsOK` is the one that is proved on top of it. The properties in a
sentence each:

- `OneTaskPerRun` - approvals never put two tasks on one run.
- `ParkedAtConfirmation` - an open confirmation points at a stored run, parked
  at that very call, and a run waits on one only.
- `RefusedNeverRuns` - a call whose confirmation is open, denied or expired has
  not run.
- `GatedNeedsApproval` - a gated call runs only after an approval in its turn.
- `NothingDangling` - tool messages match the assistant's calls, one each, in
  order, over pauses and budget cuts.
- `SideEffectsOnce` - calls run in order; only retry_safe ones run again.
- `WithinBudget` - at most `max_tool_calls` calls act and `max_steps` steps.
- `DecisionsAreFinal` - a confirmation is decided once and never after its ttl.
- `InOrder`, `RetriesBounded`, `SwitchesReported`, `ModelStaysHome`, `RunEndsOrWaits` -
  the fallback's order, its bound together with the retries, what a step's client
  is told of it (each switch, away from whom, and to whom unless the event names a
  provider that is not configured), where a model name may go, and that a run ends
  or waits for a human.
- `NamedModelsStayPrivate`, `ProbesAgree`, `UnavailableIsTrue`,
  `EveryCallReturns` - a model that a caller pins is nobody else's; while the
  catalog stays as it is, probes agree on its first model and a call that gives
  up is right.
- `AnswerFollowsQuestion` - an answer is recorded once and after its question.
- `OffLeavesNoTrace` - a turn without memory reads and leaves nothing, whatever
  becomes of its profile meanwhile.
- `ContextIsWhatCameBefore` - a turn is told exactly the latest messages its
  session held before its question.
- `ApiServersStayGated`, `OffIsSilent`, `ConfirmedBeforeUse` - the allowlists
  hold over restarts, that of commands as far as the code reads it, by the last
  part; a disabled server is not contacted; an API-added one is not
  started before it is confirmed, as long as the process lives.
- `AnalysisIsRight` - what an analysis lacks was refused to somebody, and only a
  licence GitHub named opens the gate.
- `StubsSayWhatIsThere` - a stub says what the project has, unless its README was
  refused or its analysis skipped for the rate limit.
- `MissedWasRefused` - a request misses search results only if its own search was
  refused or no longer made.
- `OverrunBounded` - while the limit is low a scan sends at most three requests
  for each place of the semaphore, a single analysis three, anybody else one.
- `EveryRequestEnds` - every request is answered, and every analysis it began is
  over, those an exception left behind included.
- `IndexFollowsRows` - the index holds no forgotten fact and lacks only those
  written while there was none.
- `RecallIsComplete` - a recall with room left misses no fact that bears on the
  question, except those. What bears on a question is what the search's own
  expression matches: words beyond the 16 that `_fts_query` keeps do not count.
- `ImplementsNotebook` - nothing told is lost, nothing forgotten comes back, and
  answers keep to the profile, the question and the limit.

Why these bounds are enough. The interesting executions need a batch with two
gated calls, a confirmation resolved while another request is under way, one
expiry, a budget that ends in the middle of a batch, and a failed step with a
replan: each occurs. Runs meet only in the two stores, where each has its own
entries, and in the clock: TLC checks one run with two requests and two
confirmations, the proofs are about any number. Bytez needs two probes that started before either settled,
and a third candidate; conversations need two turns that overlap in one session
and a third that reads what they left, and a history longer than the limit.
Discovery needs a scan with more candidates than places in its semaphore beside
another request that fills the same cache, a limit that falls in between, and
one failure; a second failure adds states and no kind of state. Facts needs two
facts of one profile that compete for one place and a third of another profile,
and three builds in a row. The faulty variants, every one of which is found, are
the evidence. Symmetry is used only in runs without liveness. `Executor` can always
list its confirmations, so TLC's deadlock check says nothing about it:
`EveryTaskReturns` does. `ModelCalls` stops when its run is over, so deadlock
is not checked there and `RunEndsOrWaits` takes its place. In the other models
something outside (a catalog, a profile, a restart) can always change.

Fairness. `EveryTaskReturns` assumes weak fairness of each task's own steps:
every await is bounded by an HTTP timeout or by `TOOL_TIMEOUT` (if that is set
to 0, a tool may block for ever and the property does not apply). Nothing is
assumed about clients, humans or the clock. `RunEndsOrWaits` assumes the same of
the run's one coroutine and nothing of the human's `Resume` (`Proceeds` is all but
that), so a run may stay parked for good; `EveryCallReturns` assumes it of each
call and its request. `EveryRequestEnds` assumes that some request goes on as
long as one can: the event loop does not rest while a task is ready, and httpx
gives up after 20 s. That is weaker than fairness to each request. In `discovery` each slot is used
once, so the system may stop there and deadlock is not checked.

## 4. Where the code differs from what it says

Five are runs that TLC ends with a counterexample.

- `exact_approval` - the decision of a resume is forced on every later call of
  the batch, because the loop keeps moving the index it is compared with.
  Approving one gated call lets the next ones of the batch run unasked;
  denying one answers the next ones "User denied".
- `pin_holds` - the planner's calls ignore the provider a profile pins.
- `switch_reported` - not every switch of a provider is told: the planner's calls
  have no `on_event`. A step's event may also name the wrong provider as the next,
  one that the router then skips as unconfigured (`app/providers/router.py:104`).
- `mcp_confirm` - the missing confirmation of an API-added server does not
  survive a restart: the server then counts as trusted.
- `mcp_discovery` - adding a server during discovery makes discovery raise.

The others have no run of their own.

- `_chat_with_retries` retries every `ProviderError` (`app/agent/executor.py:142`),
  also an invalid key or a malformed request, of which `README.md:276-278` says
  that they abort immediately. `RetriesBounded` says how often.
- The allowlist of commands is compared with the last part of a path
  (`app/integrations/mcp.py:188`): a program of a listed name is accepted wherever
  it lies, although `README.md:410-411` and `mcp.py:20-22` speak of the command.
  `ApiServersStayGated` is stated for what the code compares.
- Once Bytez settled on a model, it is the only candidate for the rest of the
  process (`app/providers/bytez.py:123`). If it leaves the catalog, every call
  fails with "None of the configured Bytez models are available" without asking
  for another. The same paragraph announces the reuse (line 22) and promises not
  to fail like that (18-20).
- `_maybe_replan` replaces the plan and keeps the counters of the old one
  (`app/agent/executor.py:177`): steps of the new plan count as done that nobody
  did, and progress may read "3/2". `README.md:49-51` promises per-step tracking.
- The messages table declares a foreign key (`app/memory/short_term.py:67`) that
  SQLite does not enforce unless told to: the answer of a turn whose session was
  deleted meanwhile stays without a session. `AnswerFollowsQuestion` allows it.
- A one-off task, which `app/agent/core.py:104` says has no persistent chat
  session, creates one (`RunTask`).
- A database that a build with FTS5 made and a build without it opens: writes
  raise (`Unusable`), although `app/memory/long_term.py:5-7` promises an
  automatic fallback on such builds. Recall does fall back.
- Facts written without FTS5 are never put into the index that a later process
  creates: `RecallIsComplete` excepts them.
- A project whose analysis was skipped for the rate limit gets a stub that says
  "No REST API, SDK, or MCP server was detected" (`adapter_generator.py:127`),
  although nobody looked. `StubsSayWhatIsThere` excepts it.
- A refused search looks like one without results, also for the tool, which
  answers `ok=True` (`app/tools/github_tools.py:41`).
- A refused README or release is cached for the whole ttl, also over a good one
  that another request fetched meanwhile (lines 250 and 279 of
  `github_discovery.py`). `AnalysisIsRight` and `StubsSayWhatIsThere` excuse what
  was ever refused: they bound what such an entry can do and do not rule it out.
- An analysed candidate and one that was not are sorted together by scores of
  different scales (line 492), so the order between them means little; and
  lines 361-365 say that a famous project nobody keeps up does not outrank a
  kept one with 2k stars, which holds only if something else than being kept
  tells them apart: 30 points for stars stand against 3 for stars and 20 for
  recency.
- A server whose name holds "__" is never shown to the profiles that list it
  (`app/agent/tool_router.py:56`).

What does hold beside these: `GatedNeedsApproval` and `RefusedNeverRuns`,
`SwitchesReported` for the steps, `RetriesBounded`, `UnavailableIsTrue` while the
catalog stays, `ApiServersStayGated` and `ConfirmedBeforeUse`.

## 5. What is proved

`ExecutorProofs` proves, for any sets of tasks, runs, confirmations, calls and
plans and any limits: `TypeOK`, `OneTaskPerRun`, `ParkedAtConfirmation`,
`RefusedNeverRuns`, `GatedNeedsApproval`, each as `Spec => []...`, and
`Spec => DecisionsAreFinal`. The assumptions are those of `Executor`: the sets
of calls are related as the tool flags are, the limits are natural numbers, and
`None` is none of the ids. They are TLC's too: it evaluates them on every run.

The argument. None of the invariants is inductive: nothing in them says what a
parked batch may still do. `IInv` adds where the past lies:

- `HistoryBehind` - all that ran or was asked lies at or before the position
  (step, index) where its run stands;
- `ParkedAhead` - the call of an open confirmation has neither run nor been
  asked about before;
- `HoldsRun` - a busy task holds a stored run, and its index is the run's
  `pending_index`;
- `ChatAhead`, `BatchAhead`, `RunningApproved`, `Approved` - what is known of
  confirmations and past effects at each place of the coroutine.

Most actions change one task and its own run. `OwnStep` proves once that such a
step preserves `IInv` for everybody else, and asks the action only about its own
run; `NextCall`, `NextStep`, `NextAttempt`, `TaskEnds` and `AwaitReplan`
specialise it. `StoreStep` serves the actions that only expire confirmations.
Each action has its own lemma, and `ProgressStep` and `EnvironmentStep` collect
them.

`BytezProofs` proves `NamedModelsStayPrivate`, `ProbesAgree` and
`UnavailableIsTrue` for any number of calls, any lists of models and any history
of the catalog. Its `IInv` adds `CallOK`: a call under way has its order from a
caller, the configuration or the settled model; while the catalog stays as it
is, the candidates it has left behind are missing, and its reply is true. Two
calls settle on one model because the first available one is unique
(`FirstIsUnique`). `OthersAssumption` is there for the prover, which cannot
derive the type of a recursive operator's result; it follows from
`ModelsAssumption`.

`FactsProofs` proves `IndexFollowsRows`, `RecallIsComplete` and that `Facts`
implements `Notebook`, for any facts, profiles, texts, questions and limit and
any sequence of builds. `IndexFollowsRows` is inductive as it stands, because it
carries the types and `index # {} => available`. `RecallIsComplete` is about the
last answer: every step but a recall forgets the question, and an answer below
the limit is all that was found (`RecallOK`), so what it lacks is not in the
index. The refinement needs no invariant: each operation is one of the
notebook's or, where its write is refused, `Other` (`BookStep`).

`McpProofs` proves `ApiServersStayGated`, `OffIsSilent` and `ConfirmedBeforeUse`
for any requests, servers, commands, environments and allowlists, with finitely
many names of servers and a `None` that is no config (`NoneAssumption`). The two
action properties come down to one guard: a connection is opened only to a
server that `_require_ready` lets pass (`OpensReady`). What the guard reads has
to agree with the history: `OffIsOff`, `ConfirmedIsReviewed`. A restart
disturbs both, and `ApiServersStayGated`, for it replaces memory by the file;
`SavedMatches` says that the file holds what memory held, so it brings back
nothing older. `WaitsForSomebody` gives the requests that wait a server's name.
Every handler that writes changes one server's entry: `ServerStep` and `SaveOne`
prove once what such a step preserves, `RequestStep` and `MoveStep` serve the
steps that leave the gates alone.

`RunProofs` proves `WithinBudget`, `SideEffectsOnce`, `NothingDangling` and that
`Executor` implements `RunLifecycle`, under the same assumptions. The first three
follow from `RunsOK`, an invariant of one run at a time that rests on `IInv`:

- `Charged` - the calls left behind that acted are no more than `used`, and the
  one at hand is within the budget. It counts positions in `ran`, so a call that
  was retried is charged once (`PositionsPaid`);
- `RepeatsBounded`, `InOrder` - how often a call was started, and in which order;
- `Transcript` - the answers are a beginning of what was asked, complete once
  the run is gone, up to the pending call while it waits for a human;
- `OneOpen` - a run waits for one confirmation at most and works for none;
- `Asked`, `Tried` - for each place of the coroutine, how many answers there are
  and how many attempts are left beside those made.

`OtherRuns` carries `RunOK` over a step that leaves a run alone, `OwnRun` over the
steps of a task on its own run; each action has a lemma that gives what `OwnRun`
asks. The refinement needs no further invariant: `OneLifeMoves` turns a step of one
coroutine into a step in one run's life, `WaysOfACoroutine` lists what a step may
leave of its run, and a tool's start is the only step that needs the approval and
the budget (`StartToolLives`).

`ModelCallsProofs` proves `InOrder`, `RetriesBounded`, `SwitchesReported` and
`ModelStaysHome` for any providers, any order of fallback, also with names twice,
and any limits. `InOrder` speaks of the requests made and says nothing of the next;
`CallFollows` says that the attempt under way has asked exactly the usable
candidates before its position, and `TriesFollow` that the attempts count down.
`SwitchesReported` needs that the events are those of the attempt under way, and
`SwitchTold` and `NextNameIs` that the name an event gives is the one asked next
wherever that name is configured.
`InOrder` orders providers by their `Rank`, the code walks a list in which a name
may stand twice: `RankIsPlace` relates the two. `RetriesBounded` counts the requests to
one provider: no two are of one attempt, so their `left` maps them one to one into
`1..(MaxRetries + 1)` (`AskedOncePerAttempt`).

`ConversationsProofs` proves `AnswerFollowsQuestion`, `OffLeavesNoTrace` and
`ContextIsWhatCameBefore` for any turns, sessions and profiles and any limit of the
history. The messages of a session are told apart by their ids, and at most
`HistoryLimit` of them are latest (`LatestKeeps`, by counting what comes after each).
The last property needs every context to be what the history was when its question
was recorded (`ContextsKept`), and the first that the question of a turn which may still answer
is there unless its session was cleared (`QuestionStands`). Sessions are deleted at
any time: that cuts the table and not the contexts (`DeleteSessionOK`).

`DiscoveryProofs` proves `AnalysisIsRight`, `StubsSayWhatIsThere`,
`MissedWasRefused` and `OverrunBounded` for any requests, repositories, queries,
places in the semaphore and bounds on what GitHub refuses. The invariant has a
shared part, `CacheFollows`: a kept failure is an empty README or release that
GitHub refused to somebody; and one part for each request (`Slot` in the proofs):

- `WorkFollows` - a stage that an analysis has passed brought something, or is
  the licence the search had named, and what it brought badly was refused;
- `RequestFollows` - how the kind of a request, where it waits, what it has found
  and what it has sent go together;
- `RoomFollows` - the candidates inside and the places left are at most the
  semaphore's size, and what the request sent since the limit fell, with one more
  for each stage its candidates inside still have before them, is at most three
  for each place. A candidate that waits in stage `k` counts in `Waiting(s, j)` for
  every `j` from `k` to 3: going on spends what it gives up.

`ContinueWorks` and `EnterWorks` say what going through the cache brings: the stages
passed are those that were cached, and the next one is the first that was not.
`MovingKeepsRoom` is the semaphore's arithmetic, for a candidate that enters, goes on
or leaves by any of its exits. `StepKeeps` and `OthersStay` leave the other requests
as they were, except that a limit which recovers forgets what they sent.

What stays with TLC. The liveness properties `EveryTaskReturns`, `RunEnds`,
`EveryCallReturns` and `EveryRequestEnds`: the proof system has no rules for
`ENABLED`. And the five statements of section 4 that have a run: the code does
not keep them.

## 6. Not modelled

- Texts, prompts, payloads, parsing, streaming of tokens, logging: sequential
  code over data. The providers' `stream` is called by nothing.
- `web_fetch` and the filesystem tools: one call, no state of their own, checks
  of a URL or a path. In Executor they are tools like any other.
- `available_specs`: a filter over names that changes nothing.
- The texts of stubs and plans; the optional LangGraph, CrewAI and custom API
  wrappers, which `main.py` does not register; settings, which are constants
  here; the web UI, a client like any other.
- A crash in the middle of writing `mcp_servers.json` or the profiles: the file
  is written in place and saving is one step here.

## 7. Plan

1. **Action properties beside the invariants**: that a context is never changed
   once it was built, that a settled model of Bytez is never replaced while the
   catalog stays, and that a stored run never loses an answer.
2. **Conversations over RunLifecycle**: turns composed with the life of their
   runs, instead of the assumption on `Resume`, and the refinement proved.
3. **An abstract specification of Discovery**: one lookup that is right or was
   refused, without the cache and its interleavings, and Discovery shown to
   implement it.
