----------------------------- MODULE Discovery ------------------------------
(***************************************************************************)
(* GitHub discovery (app/integrations/github_discovery.py): one            *)
(* GitHubClient with its cache and its reading of the rate limit, shared   *)
(* by the requests of GET /api/github/search, POST /api/github/analyze and *)
(* POST /api/github/generate-adapter and by the tools github_search and    *)
(* github_get_repo.                                                        *)
(*                                                                         *)
(* A coroutine gives way only where it waits for GitHub or for the         *)
(* semaphore of its scan: what it finds in the cache it passes without a   *)
(* stop.  GitHub's answers, refusals and silences come in any order.       *)
(***************************************************************************)
EXTENDS Integers, FiniteSets, FiniteSetsExt, Sequences

CONSTANTS
    Requests,    \* slots for requests and tool calls, each used once
    Kinds,       \* Kinds[s]: what slot s may be used for
    Repos,       \* repositories
    Asked,       \* bound: those a request may name
    About,       \* About[r]: what GitHub says of a repository, see AboutType
    Queries,     \* the sequence of queries of a scan
    Hits,        \* Hits[q]: the repositories a search for q finds
    Slug,        \* Slug[r]: _slugify of the full name
    DeepTop,     \* deep_analyze_top
    Limit,       \* limit of a scan
    Concurrency, \* _DEEP_ANALYSIS_CONCURRENCY
    AllowGpl,    \* ALLOW_GPL_AUTO_INTEGRATION
    Expiring,    \* bound: the cache entries whose expiry is looked at
    MaxSwings,   \* bound: how often the rate limit is seen to get low or recover
    MaxUpsets    \* bound: requests GitHub refuses or never answers, and expiries

AllKinds == {"scan", "analyze", "generate", "get_repo", "search"}
Licences == {"permissive", "weak_copyleft", "copyleft", "unknown"}

AboutType ==
    [homepage: BOOLEAN,
     licence: Licences,                   \* the category of its SPDX identifier
     listed: BOOLEAN,                     \* ... which the search payload carries
     readme: SUBSET {"api", "sdk", "mcp"}, \* what its README mentions
     topics: SUBSET {"sdk", "mcp"}]

\* The requests _deep_analyze makes for a candidate, in this order.
Stages == <<"licence", "readme", "contributors", "release">>
Last == Len(Stages)
StageSet == {Stages[k] : k \in 1..Last}
QuerySet == {Queries[i] : i \in 1..Len(Queries)}

\* The keys of GitHubClient._cache.
Keys == (({"repo"} \cup StageSet) \X Repos) \cup ({"search"} \X QuerySet)

ASSUME DiscoveryAssumption ==
    /\ Kinds \in [Requests -> SUBSET AllKinds]
    /\ Asked \subseteq Repos /\ Expiring \subseteq Keys
    /\ About \in [Repos -> AboutType]
    /\ Queries \in Seq(QuerySet) /\ Queries # <<>>
    /\ Hits \in [QuerySet -> SUBSET Repos]
    /\ DeepTop \in Nat \ {0} /\ Limit \in Nat \ {0} /\ Concurrency \in Nat \ {0}
    /\ AllowGpl \in BOOLEAN
    /\ MaxSwings \in Nat /\ MaxUpsets \in Nat

VARIABLES
    cache,    \* GitHubClient._cache: "none", "good", or "bad" for a kept failure
    limited,  \* GitHubClient.rate_limited
    req,      \* the requests
    work,     \* work[s][r]: the _deep_analyze of r within request s
    free,     \* what is left of the semaphore of a request
    files,    \* generated_adapters/: the repository each stub was written for
    gaps,     \* history: which request GitHub refused what
    sent,     \* history: requests to GitHub since the limit was last seen low
    swings, upsets  \* bounded counters

vars == <<cache, limited, req, work, free, files, gaps, sent, swings, upsets>>

-----------------------------------------------------------------------------
(* Types *)

\* query: the one a scan is at, or stopped after.  seen: the repositories it
\* found, or was asked about.  top: those it analyses.  shown: its answer.
Request(kind, pc, query, seen, top, shown) ==
    [kind |-> kind, pc |-> pc, query |-> query, seen |-> seen, top |-> top, shown |-> shown]

Idle == Request("none", "idle", 0, {}, {}, {})

\* at: 0 until the semaphore lets it in, then the stage it waits in.
\* got: what each stage brought.
Queued == [at |-> 0, got |-> [k \in 1..Last |-> "none"], end |-> "open"]

Ends == {"open", "analysed", "skipped", "failed"}
StubKinds == {"mcp_suggestion", "adapter", "reference_only"}

TypeOK ==
    /\ cache \in [Keys -> {"none", "good", "bad"}]
    /\ limited \in BOOLEAN
    /\ req \in [Requests ->
         [kind: AllKinds \cup {"none"},
          pc: {"idle", "searching", "getting", "analysing", "done", "not_found", "error"},
          query: 0..Len(Queries), seen: SUBSET Repos, top: SUBSET Repos,
          shown: SUBSET Repos]]
    /\ work \in [Requests -> [Repos ->
         [at: 0..Last, got: [1..Last -> {"none", "good", "bad"}], end: Ends]]]
    /\ free \in [Requests -> 0..Concurrency]
    /\ files \subseteq ({Slug[r] : r \in Repos} \X StubKinds \X Repos)
    /\ gaps \subseteq (Requests \X Keys)
    /\ sent \in [Requests -> Nat]
    /\ swings \in 0..MaxSwings
    /\ upsets \in 0..MaxUpsets

-----------------------------------------------------------------------------
(* What is derived from a candidate *)

\* Faulty variant: a licence GitHub did not give passes for a permissive one.
TrustingLicence(r, w) ==
    IF w.end # "analysed" THEN "unknown"
    ELSE IF About[r].listed \/ w.got[1] = "good" THEN About[r].licence
    ELSE "permissive"

\* candidate.license_category
LicenceCategory(r, w) ==
    IF w.end = "analysed" /\ (About[r].listed \/ w.got[1] = "good")
    THEN About[r].licence ELSE "unknown"

AutoIntegrable(r, w) ==
    \/ LicenceCategory(r, w) = "permissive"
    \/ LicenceCategory(r, w) \in {"copyleft", "weak_copyleft"} /\ AllowGpl

\* _detect_capabilities: the confidence in each capability, in hundredths.
Confidence(r, readme) ==
    LET text == IF readme = "good" THEN About[r].readme ELSE {}
    IN [api |-> IF "api" \in text THEN 80 ELSE IF About[r].homepage THEN 30 ELSE 0,
        sdk |-> IF "sdk" \in text THEN 75 ELSE IF "sdk" \in About[r].topics THEN 50 ELSE 0,
        mcp |-> IF "mcp" \in About[r].topics THEN 90 ELSE IF "mcp" \in text THEN 70 ELSE 0]

\* candidate.capabilities, {} unless the analysis got to the end.
Capabilities(r, w) ==
    IF w.end # "analysed" THEN {}
    ELSE {c \in {"api", "sdk", "mcp"} : Confidence(r, w.got[2])[c] > 0}

\* _integration_hint and the branches of generate_adapter_source.
StubKind(capabilities) ==
    IF "mcp" \in capabilities THEN "mcp_suggestion"
    ELSE IF capabilities # {} THEN "adapter" ELSE "reference_only"

AtMost(n, m) == IF n < m THEN n ELSE m

\* The first n of S by score.  The scores are left open, so these are any n.
Best(S, n) == {T \in SUBSET S : Cardinality(T) = AtMost(n, Cardinality(S))}

-----------------------------------------------------------------------------
(* Going on to the next request to GitHub *)

\* Request s may send one more now, with the limit seen low or not.
Sending(s, sends, low) ==
    sent' = IF ~low THEN [t \in Requests |-> 0]
            ELSE IF sends THEN [sent EXCEPT ![s] = @ + 1] ELSE sent

\* The analysis of r from stage k on: what is cached is read at once, and it
\* waits in the first stage that has to ask GitHub.
Continue(r, w, k, c) ==
    LET asks == {j \in k..Last : /\ c[<<Stages[j], r>>] = "none"
                                 /\ ~(Stages[j] = "licence" /\ About[r].listed)}
        upTo == IF asks = {} THEN Last ELSE Min(asks) - 1
    IN [at |-> IF asks = {} THEN Last ELSE Min(asks),
        got |-> [j \in 1..Last |-> IF j \in k..upTo THEN c[<<Stages[j], r>>] ELSE w.got[j]],
        end |-> IF asks = {} THEN "analysed" ELSE "open"]

\* Faulty variant: the rate limit is looked at before the semaphore is taken.
EnterUnchecked(r, c, low) == Continue(r, Queued, 1, c)

\* _deep_analyze once the semaphore let it in.
Enter(r, c, low) ==
    IF low THEN [Queued EXCEPT !.end = "skipped"] ELSE Continue(r, Queued, 1, c)

\* discover() from query i on: a query in the cache needs no request, and a
\* low limit ends the search after the query it is seen at.
Scan(s, i, seen, c, low) ==
    LET end  == IF ~low THEN Len(Queries) ELSE IF i = 1 THEN 1 ELSE i - 1
        asks == {j \in i..end : c[<<"search", Queries[j]>>] = "none"}
        upTo == IF asks = {} THEN end ELSE Min(asks) - 1
        found == seen \cup UNION {Hits[Queries[j]] :
                   j \in {k \in i..upTo : c[<<"search", Queries[k]>>] = "good"}}
    IN /\ Sending(s, asks # {}, low)
       /\ \/ /\ asks # {}
             /\ req' = [req EXCEPT ![s] = Request("scan", "searching", Min(asks), found, {}, {})]
             /\ UNCHANGED <<work, free>>
          \/ /\ asks = {}
             /\ \E top \in Best(found, DeepTop) :
                  req' = [req EXCEPT ![s] = Request("scan", "analysing", end, found, top, {})]
             /\ work' = [work EXCEPT ![s] = [r \in Repos |-> Queued]]
             /\ free' = [free EXCEPT ![s] = Concurrency]

\* analyze() and github_get_repo once they have the repository's data.
WithRepo(s, kind, r, c, low) ==
    \/ /\ kind = "get_repo"
       /\ req' = [req EXCEPT ![s] = Request(kind, "done", 0, {r}, {}, {r})]
       /\ Sending(s, FALSE, low)
       /\ UNCHANGED <<work, free>>
    \/ /\ kind \in {"analyze", "generate"}
       /\ req' = [req EXCEPT ![s] = Request(kind, "analysing", 0, {r}, {r}, {})]
       /\ work' = [work EXCEPT ![s][r] = Enter(r, c, low)]
       /\ free' = [free EXCEPT ![s] = IF work'[s][r].end = "open" THEN 0 ELSE 1]
       /\ Sending(s, work'[s][r].end = "open", low)

-----------------------------------------------------------------------------
(* Requests and tool calls *)

Init ==
    /\ cache = [key \in Keys |-> "none"]
    /\ limited = FALSE
    /\ req = [s \in Requests |-> Idle]
    /\ work = [s \in Requests |-> [r \in Repos |-> Queued]]
    /\ free = [s \in Requests |-> 0]
    /\ files = {}
    /\ gaps = {}
    /\ sent = [s \in Requests |-> 0]
    /\ swings = 0
    /\ upsets = 0

May(s, kind) == req[s].pc = "idle" /\ kind \in Kinds[s]

\* GET /api/github/search
BeginScan(s) ==
    /\ May(s, "scan")
    /\ Scan(s, 1, {}, cache, limited)
    /\ UNCHANGED <<cache, limited, swings, files, gaps, upsets>>

\* The github_search tool: with its default limit it shares the cache entries
\* of a scan.
BeginSearch(s, i) ==
    /\ May(s, "search")
    /\ \/ /\ cache[<<"search", Queries[i]>>] = "good"
          /\ req' = [req EXCEPT ![s] = Request("search", "done", i, {}, {}, Hits[Queries[i]])]
          /\ UNCHANGED sent
       \/ /\ cache[<<"search", Queries[i]>>] = "none"
          /\ req' = [req EXCEPT ![s] = Request("search", "searching", i, {}, {}, {})]
          /\ Sending(s, TRUE, limited)
    /\ UNCHANGED <<cache, limited, swings, work, free, files, gaps, upsets>>

\* POST /api/github/analyze, POST /api/github/generate-adapter and the
\* github_get_repo tool: all begin with the repository's data.
BeginRepo(s, kind, r) ==
    /\ May(s, kind)
    /\ \/ /\ cache[<<"repo", r>>] = "good"
          /\ WithRepo(s, kind, r, cache, limited)
       \/ /\ cache[<<"repo", r>>] = "none"
          /\ req' = [req EXCEPT ![s] = Request(kind, "getting", 0, {r}, {}, {})]
          /\ Sending(s, TRUE, limited)
          /\ UNCHANGED <<work, free>>
    /\ UNCHANGED <<cache, limited, swings, files, gaps, upsets>>

-----------------------------------------------------------------------------
(* GitHub's answers.  Every answer may come with a new count of requests    *)
(* left; a request that fails (no connection, 20 s without an answer)       *)
(* brings none and raises.                                                  *)

\* _note_rate_limit: an answer without a readable count changes nothing.
Noted ==
    /\ limited' \in BOOLEAN
    /\ swings' = IF limited' = limited THEN swings ELSE swings + 1
    /\ swings' <= MaxSwings

Upset == upsets < MaxUpsets /\ upsets' = upsets + 1

\* What becomes of request s when its own request for the query, or for the
\* repository, raised.
Raises(s) ==
    /\ Upset
    /\ req' = [req EXCEPT ![s].pc = "error"]
    /\ UNCHANGED <<cache, limited, swings, work, free, files, gaps, sent>>

\* The search for the query came to found.
Searched(s, found, c) ==
    \/ /\ req[s].kind = "scan"
       /\ Scan(s, req[s].query + 1, req[s].seen \cup found, c, limited')
    \/ /\ req[s].kind = "search"
       /\ req' = [req EXCEPT ![s].pc = "done", ![s].shown = found]
       /\ Sending(s, FALSE, limited')
       /\ UNCHANGED <<work, free>>

SearchAnswered(s) ==
    LET q == Queries[req[s].query] IN
    /\ req[s].pc = "searching"
    /\ Noted
    /\ cache' = [cache EXCEPT ![<<"search", q>>] = "good"]
    /\ Searched(s, Hits[q], cache')
    /\ UNCHANGED <<files, gaps, upsets>>

\* Faulty variant: the empty list of a refused search is cached.
SearchRefusedCached(s) ==
    LET q == Queries[req[s].query] IN
    /\ req[s].pc = "searching"
    /\ Upset
    /\ Noted
    /\ cache' = [cache EXCEPT ![<<"search", q>>] = "bad"]
    /\ gaps' = gaps \cup {<<s, <<"search", q>>>>}
    /\ Searched(s, {}, cache')
    /\ UNCHANGED <<files>>

\* A refused search is an empty one, for the scan and for the tool.
SearchRefused(s) ==
    /\ req[s].pc = "searching"
    /\ Upset
    /\ Noted
    /\ gaps' = gaps \cup {<<s, <<"search", Queries[req[s].query]>>>>}
    /\ Searched(s, {}, cache)
    /\ UNCHANGED <<cache, files>>

SearchRaises(s) == req[s].pc = "searching" /\ Raises(s)

RepoAnswered(s, r) ==
    /\ req[s].pc = "getting" /\ req[s].seen = {r}
    /\ Noted
    /\ cache' = [cache EXCEPT ![<<"repo", r>>] = "good"]
    /\ WithRepo(s, req[s].kind, r, cache', limited')
    /\ UNCHANGED <<files, gaps, upsets>>

\* Not found or inaccessible: a 404, or the tool's error.
RepoRefused(s, r) ==
    /\ req[s].pc = "getting" /\ req[s].seen = {r}
    /\ Upset
    /\ Noted
    /\ req' = [req EXCEPT ![s].pc = "not_found"]
    /\ gaps' = gaps \cup {<<s, <<"repo", r>>>>}
    /\ Sending(s, FALSE, limited')
    /\ UNCHANGED <<cache, work, free, files>>

RepoRaises(s) == req[s].pc = "getting" /\ Raises(s)

-----------------------------------------------------------------------------
(* The deep analysis of one candidate *)

Inside(s, r) == r \in req[s].top /\ work[s][r].end = "open" /\ work[s][r].at > 0

\* Faulty variant: a skipped candidate keeps its place.
BeginsForGood(s, r) ==
    /\ r \in req[s].top /\ work[s][r] = Queued
    /\ free[s] > 0
    /\ work' = [work EXCEPT ![s][r] = Enter(r, cache, limited)]
    /\ free' = [free EXCEPT ![s] = IF work'[s][r].end = "analysed" THEN @ ELSE @ - 1]
    /\ Sending(s, work'[s][r].end = "open", limited)
    /\ UNCHANGED <<cache, limited, swings, req, files, gaps, upsets>>

\* A candidate of a scan that waits for the semaphore gets it.  asyncio serves
\* them in order; here any of them may be next.
Begins(s, r) ==
    /\ r \in req[s].top /\ work[s][r] = Queued
    /\ free[s] > 0
    /\ work' = [work EXCEPT ![s][r] = Enter(r, cache, limited)]
    /\ free' = [free EXCEPT ![s] = IF work'[s][r].end = "open" THEN @ - 1 ELSE @]
    /\ Sending(s, work'[s][r].end = "open", limited)
    /\ UNCHANGED <<cache, limited, swings, req, files, gaps, upsets>>

\* Candidate r has gone on to w; leaving the analysis frees the semaphore.
Moves(s, r, w) ==
    /\ work' = [work EXCEPT ![s][r] = w]
    /\ free' = [free EXCEPT ![s] = IF w.end = "open" THEN @ ELSE @ + 1]

StageAnswered(s, r) ==
    LET w == work[s][r] IN
    /\ Inside(s, r)
    /\ Noted
    /\ cache' = [cache EXCEPT ![<<Stages[w.at], r>>] = "good"]
    /\ \E next \in {Continue(r, [w EXCEPT !.got[w.at] = "good"], w.at + 1, cache')} :
         Moves(s, r, next) /\ Sending(s, next.end = "open", limited')
    /\ UNCHANGED <<req, files, gaps, upsets>>

\* A refused README or release is cached as an empty one; the others are not.
StageRefused(s, r) ==
    LET w == work[s][r]
        key == <<Stages[w.at], r>>
    IN
    /\ Inside(s, r)
    /\ Upset
    /\ Noted
    /\ cache' = IF Stages[w.at] \in {"readme", "release"}
                THEN [cache EXCEPT ![key] = "bad"] ELSE cache
    /\ gaps' = gaps \cup {<<s, key>>}
    /\ \E next \in {Continue(r, [w EXCEPT !.got[w.at] = "bad"], w.at + 1, cache')} :
         Moves(s, r, next) /\ Sending(s, next.end = "open", limited')
    /\ UNCHANGED <<req, files>>

\* Faulty variant: the semaphore is released once more on the way out.
StageRaisesTwice(s, r) ==
    /\ Inside(s, r)
    /\ Upset
    /\ work' = [work EXCEPT ![s][r].end = "failed"]
    /\ free' = [free EXCEPT ![s] = @ + 2]
    /\ req' = [req EXCEPT ![s].pc = "error"]
    /\ UNCHANGED <<cache, limited, swings, files, gaps, sent>>

\* gather() raises the first exception at once: the request ends with it and
\* the other candidates go on without it.
StageRaises(s, r) ==
    /\ Inside(s, r)
    /\ Upset
    /\ Moves(s, r, [work[s][r] EXCEPT !.end = "failed"])
    /\ req' = [req EXCEPT ![s].pc = "error"]
    /\ UNCHANGED <<cache, limited, swings, files, gaps, sent>>

-----------------------------------------------------------------------------
(* The end of a request *)

Analysed(s) == req[s].pc = "analysing" /\ \A r \in req[s].top : work[s][r].end # "open"

\* Analysed and other candidates are sorted together.
ScanEnds(s) ==
    /\ Analysed(s) /\ req[s].kind = "scan"
    /\ \E shown \in Best(req[s].seen, Limit) :
         req' = [req EXCEPT ![s].pc = "done", ![s].shown = shown]
    /\ UNCHANGED <<cache, limited, swings, work, free, files, gaps, sent, upsets>>

\* The stub of r, in place of an earlier one of the same name.
Written(s, r) ==
    LET path == <<Slug[r], StubKind(Capabilities(r, work[s][r]))>>
    IN {f \in files : <<f[1], f[2]>> # path} \cup {<<path[1], path[2], r>>}

RepoOver(s, r) ==
    /\ req' = [req EXCEPT ![s].pc = "done", ![s].shown = {r}]
    /\ files' = IF req[s].kind = "generate" THEN Written(s, r) ELSE files
    /\ UNCHANGED <<cache, limited, swings, work, free, gaps, sent, upsets>>

\* Faulty variant: the stub does not wait for the analysis.
RepoEndsEarly(s, r) ==
    /\ req[s].pc = "analysing" /\ req[s].kind \in {"analyze", "generate"}
    /\ req[s].top = {r}
    /\ RepoOver(s, r)

\* analyze() returns the plan, generate-adapter writes the stub.
RepoEnds(s, r) ==
    /\ Analysed(s) /\ req[s].kind \in {"analyze", "generate"} /\ req[s].top = {r}
    /\ RepoOver(s, r)

\* _cache_get finds an entry older than _CACHE_TTL_SECONDS and drops it.
Expire(key) ==
    /\ upsets < MaxUpsets /\ upsets' = upsets + 1
    /\ cache[key] # "none"
    /\ cache' = [cache EXCEPT ![key] = "none"]
    /\ UNCHANGED <<limited, swings, req, work, free, files, gaps, sent>>

-----------------------------------------------------------------------------
Begin(s) ==
    \/ BeginScan(s)
    \/ \E i \in 1..Len(Queries) : BeginSearch(s, i)
    \/ \E kind \in {"analyze", "generate", "get_repo"}, r \in Asked : BeginRepo(s, kind, r)

Answer(s) ==
    \/ SearchAnswered(s) \/ SearchRefused(s) \/ SearchRaises(s)
    \/ \E r \in Asked : RepoAnswered(s, r) \/ RepoRefused(s, r)
    \/ RepoRaises(s)

StageAnswer(s, r) == StageAnswered(s, r) \/ StageRefused(s, r) \/ StageRaises(s, r)

End(s) == ScanEnds(s) \/ \E r \in Asked : RepoEnds(s, r)

\* What request s does once it has begun.
Step(s) == Answer(s) \/ End(s) \/ \E r \in Repos : Begins(s, r) \/ StageAnswer(s, r)

Next ==
    \/ \E s \in Requests : Begin(s) \/ Step(s)
    \/ \E key \in Expiring : Expire(key)

Spec == Init /\ [][Next]_vars

\* httpx gives up after 20 s, so every request to GitHub comes to an end, and
\* the event loop does not rest while a task is ready.  Nobody has to begin a
\* request.
Fairness == WF_vars(\E s \in Requests : Step(s))

FairSpec == Spec /\ Fairness

-----------------------------------------------------------------------------
(* Properties *)

RefusedOnce(key) == \E s \in Requests : <<s, key>> \in gaps

\* Whatever an analysed candidate lacks, its licence, what its README shows or
\* its release, some request was refused; what nobody analysed has no licence
\* and is not auto-integrable; and one that is auto-integrable has a licence
\* GitHub named that allows it.  Cached answers of other requests, expiries and
\* a low rate limit in the middle must not change that (_deep_analyze).
AnalysisIsRight ==
    \A s \in Requests, r \in Repos :
      LET w == work[s][r] IN
      /\ w.end = "analysed" =>
           /\ LicenceCategory(r, w) # About[r].licence => RefusedOnce(<<"licence", r>>)
           /\ Confidence(r, w.got[2]) # Confidence(r, "good") => RefusedOnce(<<"readme", r>>)
           /\ w.got[4] # "good" => RefusedOnce(<<"release", r>>)
      /\ AutoIntegrable(r, w) =>
           /\ w.end = "analysed"
           /\ About[r].listed \/ w.got[1] = "good"
           /\ \/ About[r].licence = "permissive"
              \/ AllowGpl /\ About[r].licence \in {"copyleft", "weak_copyleft"}

\* A stub says of a project what its README, topics and homepage show, unless
\* the README was refused or the analysis skipped (generate_adapter_source).
StubsSayWhatIsThere ==
    \A f \in files :
      \/ f[2] = StubKind({c \in {"api", "sdk", "mcp"} : Confidence(f[3], "good")[c] > 0})
      \/ RefusedOnce(<<"readme", f[3]>>)
      \/ \E s \in Requests : req[s].kind = "generate" /\ work[s][f[3]].end = "skipped"

\* A search that came to nothing and one that was refused look alike in the
\* answer; but what a request misses was refused to that very request, or not
\* asked any more: nobody else's refusal is passed on (search_repositories).
MissedWasRefused ==
    \A s \in Requests, i \in 1..Len(Queries) :
      LET q == Queries[i]
          refused == <<s, <<"search", q>>>> \in gaps
      IN /\ req[s].kind = "scan" /\ req[s].pc \in {"analysing", "done"} /\ i <= req[s].query
              => Hits[q] \subseteq req[s].seen \/ refused
         /\ req[s].kind = "search" /\ req[s].pc = "done" /\ i = req[s].query
              => req[s].shown = Hits[q] \/ refused

\* While the limit stays low a scan sends at most what its running analyses
\* still need, all but their first request, and nobody else more than a single
\* analysis does (the check of _deep_analyze, made under the semaphore).
OverrunBounded ==
    \A s \in Requests :
      sent[s] <= CASE req[s].kind = "scan" -> (Last - 1) * Concurrency
                   [] req[s].kind \in {"analyze", "generate"} -> Last - 1
                   [] OTHER -> 1

\* In the end every request that began is answered, and every analysis it began
\* is over, the ones left behind by an exception included.
EveryRequestEnds ==
    <>[](\A s \in Requests : req[s].pc # "idle" =>
           /\ req[s].pc \in {"done", "not_found", "error"}
           /\ \A r \in req[s].top : work[s][r].end # "open")

-----------------------------------------------------------------------------
(* The inductive invariant *)

\* The candidates of a request that wait in one of the first k stages.
Waiting(s, k) == {r \in Repos : Inside(s, r) /\ work[s][r].at <= k}

\* How many candidates a request may have inside at a time.
Room(s) == IF req[s].kind = "scan" THEN Concurrency ELSE 1

\* A kept failure is an empty README or release that GitHub refused to someone.
CacheFollows ==
    \A key \in Keys : cache[key] = "bad" =>
        key[1] \in {"readme", "release"} /\ RefusedOnce(key)

\* How the kind and the progress of a request go together, and what it has
\* sent when it has no candidate inside.
RequestFollows(s) ==
    LET kind == req[s].kind
        pc == req[s].pc
    IN  /\ pc = "idle" => kind = "none" /\ sent[s] = 0
        /\ pc = "searching" => kind \in {"scan", "search"} /\ req[s].query # 0
        /\ pc = "getting" => kind \in {"analyze", "generate", "get_repo"}
        /\ pc = "analysing" => /\ kind \in {"scan", "analyze", "generate"}
                               /\ \A r \in req[s].top : work[s][r].end # "failed"
        /\ pc \in {"idle", "searching", "getting"} \/ kind \in {"none", "search", "get_repo"} =>
             req[s].top = {} /\ free[s] = 0 /\ sent[s] <= 1
        /\ kind = "scan" /\ pc = "searching" =>
             \A i \in 1..Len(Queries) : i < req[s].query =>
               Hits[Queries[i]] \subseteq req[s].seen \/ <<s, <<"search", Queries[i]>>>> \in gaps

\* A stage an analysis has passed brought something, or is the licence the
\* search already named; what it brought badly, GitHub refused to someone.
WorkFollows(s, r) ==
    LET w == work[s][r]
    IN  /\ r \notin req[s].top => w = Queued
        /\ \A j \in 1..Last :
             /\ w.got[j] = "bad" => RefusedOnce(<<Stages[j], r>>)
             /\ w.end = "analysed" \/ (w.end = "open" /\ j < w.at) =>
                  w.got[j] # "none" \/ (j = 1 /\ About[r].listed)

\* The semaphore lets in no more than it has room for; each candidate inside
\* may send one request for every stage that is left to it.
RoomFollows(s) ==
    /\ IsFiniteSet(Waiting(s, Last))
    /\ Cardinality(Waiting(s, Last)) + free[s] <= Room(s)
    /\ ~limited => sent[s] = 0
    /\ sent[s] + Cardinality(Waiting(s, 1)) + Cardinality(Waiting(s, 2))
         + Cardinality(Waiting(s, 3)) <= 3 * Room(s)

IInv ==
    /\ TypeOK
    /\ CacheFollows
    /\ \A s \in Requests :
         /\ RequestFollows(s)
         /\ \A r \in Repos : WorkFollows(s, r)
         /\ RoomFollows(s)
    /\ StubsSayWhatIsThere
    /\ MissedWasRefused
=============================================================================
