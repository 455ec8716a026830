-------------------------- MODULE DiscoveryProofs ---------------------------
(***************************************************************************)
(* Proofs about Discovery, for every set of requests and repositories,     *)
(* whatever GitHub says of them, and all limits.                           *)
(***************************************************************************)
EXTENDS Discovery, FiniteSetTheorems, WellFoundedInduction, TLAPS

WorkType == [at: 0..Last, got: [1..Last -> {"none", "good", "bad"}], end: Ends]
ReqType ==
    [kind: AllKinds \cup {"none"},
          pc: {"idle", "searching", "getting", "analysing", "done", "not_found", "error"},
          query: 0..Len(Queries), seen: SUBSET Repos, top: SUBSET Repos,
          shown: SUBSET Repos]
CacheType == [Keys -> {"none", "good", "bad"}]

(* Stages and keys *)

LEMMA FourStages ==
    /\ Last = 4
    /\ Stages[1] = "licence" /\ Stages[2] = "readme"
    /\ Stages[3] = "contributors" /\ Stages[4] = "release"
BY DEF Last, Stages

LEMMA KeysAre ==
    /\ \A j \in 1..Last, r \in Repos : <<Stages[j], r>> \in Keys
    /\ \A r \in Repos : <<"repo", r>> \in Keys
    /\ \A i \in 1..Len(Queries) : Queries[i] \in QuerySet /\ <<"search", Queries[i]>> \in Keys
<1>1. \A j \in 1..Last : Stages[j] \in StageSet BY DEF StageSet
<1>2. \A i \in 1..Len(Queries) : Queries[i] \in QuerySet BY DEF QuerySet
<1>. QED BY <1>1, <1>2 DEF Keys

LEMMA QueriesAre == Len(Queries) \in Nat \ {0}
BY DiscoveryAssumption

\* The least of some naturals.
LEMMA MinIsLeast ==
    ASSUME NEW S \in SUBSET Nat, S # {}
    PROVE  Min(S) \in S /\ \A k \in S : Min(S) <= k
<1>1. PICK j \in S : \A k \in S : ~(<<k, j>> \in OpToRel(<, Nat))
  BY WFMin, NatLessThanWellFounded
<1>2. \A k \in S : ~(k < j) BY <1>1 DEF OpToRel
<1>3. \E i \in S : \A k \in S : i <= k BY <1>2
<1>. QED BY <1>3 DEF Min

(* What the operators return *)

LEMMA PcChanges ==
    ASSUME NEW q \in ReqType,
           NEW pc \in {"analysing", "done", "not_found", "error"}
    PROVE  [q EXCEPT !.pc = pc] \in ReqType
BY DEF ReqType

LEMMA UpsetFits ==
    ASSUME TypeOK, Upset
    PROVE  upsets' \in 0..MaxUpsets
<1>1. upsets \in 0..MaxUpsets BY DEF TypeOK
<1>. QED BY <1>1, DiscoveryAssumption DEF Upset

LEMMA QueuedFits == Queued \in WorkType
BY FourStages DEF Queued, WorkType, Ends

\* Going on from stage k: the stages before it keep what they brought, those
\* it passes bring what the cache holds, and none it passes is left out.
LEMMA ContinueWorks ==
    ASSUME NEW r \in Repos, NEW w \in WorkType, NEW k \in 1..(Last + 1), NEW c \in CacheType
    PROVE  /\ Continue(r, w, k, c) \in WorkType
           /\ Continue(r, w, k, c).end \in {"open", "analysed"}
           /\ Continue(r, w, k, c).end = "open" => Continue(r, w, k, c).at \in k..Last
           /\ \A j \in 1..Last :
                /\ \/ Continue(r, w, k, c).got[j] = w.got[j]
                   \/ Continue(r, w, k, c).got[j] = c[<<Stages[j], r>>]
                /\ j < k => Continue(r, w, k, c).got[j] = w.got[j]
                /\ j >= k /\ (Continue(r, w, k, c).end = "analysed" \/ j < Continue(r, w, k, c).at) =>
                     \/ Continue(r, w, k, c).got[j] # "none"
                     \/ j = 1 /\ About[r].listed
<1> DEFINE asks == {j \in k..Last : /\ c[<<Stages[j], r>>] = "none"
                                    /\ ~(Stages[j] = "licence" /\ About[r].listed)}
           upTo == IF asks = {} THEN Last ELSE Min(asks) - 1
           next == [at |-> IF asks = {} THEN Last ELSE Min(asks),
                    got |-> [j \in 1..Last |-> IF j \in k..upTo THEN c[<<Stages[j], r>>]
                                               ELSE w.got[j]],
                    end |-> IF asks = {} THEN "analysed" ELSE "open"]
<1>1. Continue(r, w, k, c) = next BY DEF Continue
<1>2. Last \in Nat /\ Last >= 1 /\ asks \in SUBSET Nat /\ asks \subseteq k..Last BY FourStages
<1>3. asks # {} => Min(asks) \in asks /\ \A j \in asks : Min(asks) <= j BY <1>2, MinIsLeast
<1>4. upTo \in Int /\ upTo <= Last /\ upTo >= k - 1 /\ \A j \in asks : upTo < j
  <2> HIDE DEF asks
  <2>1. CASE asks = {} BY <1>2, <2>1
  <2>2. CASE asks # {}
    <3>1. PICK m : m = Min(asks) OBVIOUS
    <3>2. m \in asks /\ \A j \in asks : m <= j BY <1>3, <2>2, <3>1
    <3>3. upTo = m - 1 BY <2>2, <3>1
    <3>. QED BY <1>2, <3>2, <3>3
  <2>. QED BY <2>1, <2>2
<1>5. \A j \in 1..Last : c[<<Stages[j], r>>] \in {"none", "good", "bad"}
  BY KeysAre DEF CacheType
<1>6. \A j \in k..upTo : c[<<Stages[j], r>>] # "none" \/ (j = 1 /\ About[r].listed)
  <2>1. \A j \in 1..Last : Stages[j] = "licence" => j = 1 BY FourStages
  <2>2. ASSUME NEW j \in k..upTo PROVE j \in k..Last /\ j \in 1..Last /\ j \notin asks
    <3>1. upTo \in Int /\ upTo <= Last /\ \A i \in asks : upTo < i BY <1>4
    <3> HIDE DEF upTo, asks
    <3>. QED BY <1>2, <3>1
  <2>. QED BY <2>1, <2>2
<1>7. w.got \in [1..Last -> {"none", "good", "bad"}] BY DEF WorkType
<1>8. next.at \in 0..Last /\ (next.end = "open" => next.at \in k..Last /\ upTo = next.at - 1)
  BY <1>2, <1>3
<1>9. next.got \in [1..Last -> {"none", "good", "bad"}] BY <1>5, <1>7
<1>10. next \in WorkType BY <1>8, <1>9 DEF WorkType, Ends
<1>11. next.end = "analysed" => upTo = Last OBVIOUS
<1>12. \A j \in 1..Last :
         next.got[j] = IF j \in k..upTo THEN c[<<Stages[j], r>>] ELSE w.got[j]
  OBVIOUS
<1>13. next.end \in {"open", "analysed"} OBVIOUS
<1> HIDE DEF next, upTo, asks
<1>. QED BY <1>1, <1>2, <1>4, <1>6, <1>8, <1>10, <1>11, <1>12, <1>13

\* The semaphore lets in a candidate that is skipped, analysed or waits.
LEMMA EnterWorks ==
    ASSUME NEW r \in Repos, NEW c \in CacheType, NEW low \in BOOLEAN
    PROVE  /\ Enter(r, c, low) \in WorkType
           /\ Enter(r, c, low).end \in {"open", "analysed", "skipped"}
           /\ low => Enter(r, c, low).end = "skipped"
           /\ Enter(r, c, low).end = "open" => Enter(r, c, low).at \in 1..Last
           /\ \A j \in 1..Last :
                /\ Enter(r, c, low).got[j] \in {"none", c[<<Stages[j], r>>]}
                /\ Enter(r, c, low).end = "analysed"
                     \/ (Enter(r, c, low).end = "open" /\ j < Enter(r, c, low).at) =>
                     Enter(r, c, low).got[j] # "none" \/ (j = 1 /\ About[r].listed)
<1>1. CASE low
  <2>1. Enter(r, c, low) = [Queued EXCEPT !.end = "skipped"] BY <1>1 DEF Enter
  <2>2. /\ Queued.got \in [1..Last -> {"none", "good", "bad"}]
        /\ \A j \in 1..Last : Queued.got[j] = "none"
    BY DEF Queued
  <2>3. /\ Enter(r, c, low).end = "skipped" /\ Enter(r, c, low).got = Queued.got
        /\ Enter(r, c, low) \in WorkType
    BY <2>1, FourStages DEF Queued, WorkType, Ends
  <2>. QED BY <1>1, <2>2, <2>3
<1>2. CASE ~low
  <2>1. Enter(r, c, low) = Continue(r, Queued, 1, c) BY <1>2 DEF Enter
  <2>2. \A j \in 1..Last : Queued.got[j] = "none" BY DEF Queued
  <2>3. 1 \in 1..(Last + 1) BY FourStages
  <2>. QED BY <1>2, <2>1, <2>2, <2>3, QueuedFits, ContinueWorks
<1>. QED BY <1>1, <1>2

\* The stage w waits in brought v: what w1, which goes on from there, brings.
LEMMA PassingWorks ==
    ASSUME NEW r \in Repos, NEW w \in WorkType, w.end = "open", w.at \in 1..Last,
           NEW c \in CacheType, NEW v \in {"good", "bad"},
           NEW w1 \in WorkType, w1.got[w.at] = v,
           \A j \in 1..Last : j # w.at => w1.got[j] = w.got[j],
           \A j \in 1..Last : j < w.at => w.got[j] # "none" \/ (j = 1 /\ About[r].listed),
           NEW next, next = Continue(r, w1, w.at + 1, c)
    PROVE  /\ next \in WorkType
           /\ next.end \in {"open", "analysed"}
           /\ next.end = "open" => next.at > w.at
           /\ \A j \in 1..Last :
                /\ next.got[j] = "bad" =>
                     \/ j = w.at /\ v = "bad"
                     \/ w.got[j] = "bad"
                     \/ c[<<Stages[j], r>>] = "bad"
                /\ next.end = "analysed" \/ (next.end = "open" /\ j < next.at) =>
                     next.got[j] # "none" \/ (j = 1 /\ About[r].listed)
<1>1. Last = 4 /\ w.at \in 1..4 BY FourStages
<1> PICK k \in 1..(Last + 1) : k = w.at + 1 BY <1>1
<1>2. /\ next \in WorkType
      /\ next.end \in {"open", "analysed"}
      /\ next.end = "open" => next.at \in k..Last
      /\ \A j \in 1..Last :
           /\ next.got[j] = w1.got[j] \/ next.got[j] = c[<<Stages[j], r>>]
           /\ j < k => next.got[j] = w1.got[j]
           /\ j >= k /\ (next.end = "analysed" \/ j < next.at) =>
                next.got[j] # "none" \/ (j = 1 /\ About[r].listed)
  <2>1. next = Continue(r, w1, k, c) OBVIOUS
  <2>. QED BY <2>1, ContinueWorks
<1>3. next.end = "open" => next.at > w.at BY <1>1, <1>2
<1>4. ASSUME NEW j \in 1..Last PROVE j < k <=> (j = w.at \/ j < w.at) BY <1>1
<1>5. ASSUME NEW j \in 1..Last, next.got[j] = "bad"
      PROVE  \/ j = w.at /\ v = "bad"
             \/ w.got[j] = "bad"
             \/ c[<<Stages[j], r>>] = "bad"
  BY <1>2, <1>5
<1>6. ASSUME NEW j \in 1..Last, next.end = "analysed" \/ (next.end = "open" /\ j < next.at)
      PROVE  next.got[j] # "none" \/ (j = 1 /\ About[r].listed)
  <2>1. CASE ~(j < k) BY <1>1, <1>2, <1>6, <2>1
  <2>2. CASE j < k
    <3>1. next.got[j] = w1.got[j] BY <1>2, <2>2
    <3>. QED BY <1>4, <2>2, <3>1
  <2>. QED BY <2>1, <2>2
<1>. QED BY <1>2, <1>3, <1>5, <1>6

\* A request that sends only adds to its own count; while the limit is not low
\* nothing is counted.
LEMMA SendingWorks ==
    ASSUME NEW s \in Requests, NEW sends \in BOOLEAN, NEW low \in BOOLEAN,
           sent \in [Requests -> Nat], Sending(s, sends, low)
    PROVE  /\ sent' \in [Requests -> Nat]
           /\ \A t \in Requests : t # s => sent'[t] <= sent[t]
           /\ ~sends => sent'[s] <= sent[s]
           /\ sent'[s] <= sent[s] + 1
           /\ ~low => \A t \in Requests : sent'[t] = 0
<1>1. CASE ~low BY <1>1 DEF Sending
<1>2. CASE low /\ sends
  <2>1. sent' = [sent EXCEPT ![s] = @ + 1] BY <1>2 DEF Sending
  <2>. QED BY <1>2, <2>1
<1>3. CASE low /\ ~sends
  <2>1. sent' = sent BY <1>3 DEF Sending
  <2>. QED BY <1>3, <2>1
<1>. QED BY <1>1, <1>2, <1>3

(* The invariant, request by request *)

\* MissedWasRefused for request s.
Missed(s) ==
    \A i \in 1..Len(Queries) :
      LET q == Queries[i]
          refused == <<s, <<"search", q>>>> \in gaps
      IN /\ req[s].kind = "scan" /\ req[s].pc \in {"analysing", "done"} /\ i <= req[s].query
              => Hits[q] \subseteq req[s].seen \/ refused
         /\ req[s].kind = "search" /\ req[s].pc = "done" /\ i = req[s].query
              => req[s].shown = Hits[q] \/ refused

\* What the invariant says of request s.
Slot(s) ==
    /\ RequestFollows(s)
    /\ \A r \in Repos : WorkFollows(s, r)
    /\ RoomFollows(s)
    /\ Missed(s)

\* A step of s leaves the other requests alone, and forgets what was sent while
\* the limit was low when it no longer is.
Apart(s) ==
    /\ \A t \in Requests \ {s} :
         req'[t] = req[t] /\ work'[t] = work[t] /\ free'[t] = free[t] /\ sent'[t] <= sent[t]
    /\ ~limited' => \A t \in Requests : sent'[t] = 0
    /\ gaps \subseteq gaps'

LEMMA IInvBySlots ==
    IInv <=> /\ TypeOK /\ CacheFollows /\ StubsSayWhatIsThere
             /\ \A s \in Requests : Slot(s)
BY DEF IInv, Slot, MissedWasRefused, Missed

LEMMA RefusalsStay ==
    ASSUME gaps \subseteq gaps', NEW key, RefusedOnce(key)
    PROVE  RefusedOnce(key)'
BY DEF RefusedOnce

LEMMA WaitingStays ==
    ASSUME NEW t, req'[t].top = req[t].top, work'[t] = work[t], NEW k
    PROVE  Waiting(t, k)' = Waiting(t, k)
BY DEF Waiting, Inside

LEMMA WaitingFinite ==
    ASSUME TypeOK, NEW s \in Requests, IsFiniteSet(Waiting(s, Last)), NEW k \in 1..4
    PROVE  /\ IsFiniteSet(Waiting(s, k)) /\ Cardinality(Waiting(s, k)) \in Nat
           /\ Cardinality(Waiting(s, k)) <= Cardinality(Waiting(s, Last))
<1> PICK all : all = Waiting(s, Last) OBVIOUS
<1> PICK some : some = Waiting(s, k) OBVIOUS
<1>1. \A x \in Repos : work[s][x].at \in 0..4 BY FourStages DEF TypeOK
<1>2. some \in SUBSET all BY <1>1, FourStages DEF Waiting
<1>. QED BY <1>2, FS_Subset, FS_CardinalityType

LEMMA OthersStay ==
    ASSUME TypeOK, NEW t \in Requests, Slot(t), sent[t] \in Nat, sent'[t] \in Nat,
           req'[t] = req[t], work'[t] = work[t], free'[t] = free[t], sent'[t] <= sent[t],
           ~limited' => sent'[t] = 0, gaps \subseteq gaps'
    PROVE  Slot(t)'
<1>1. RequestFollows(t)'
  BY DEF Slot, RequestFollows
<1>2. ASSUME NEW r \in Repos PROVE WorkFollows(t, r)'
  <2>1. WorkFollows(t, r) BY DEF Slot
  <2>. QED BY <2>1, RefusalsStay DEF WorkFollows
<1>3. RoomFollows(t)'
  <2>1. \A k : Waiting(t, k)' = Waiting(t, k) BY WaitingStays
  <2>2. /\ Waiting(t, Last)' = Waiting(t, Last) /\ Waiting(t, 1)' = Waiting(t, 1)
        /\ Waiting(t, 2)' = Waiting(t, 2) /\ Waiting(t, 3)' = Waiting(t, 3)
    BY <2>1
  <2>3. Room(t)' = Room(t) /\ Room(t) \in Nat /\ free[t] \in Nat
    BY DiscoveryAssumption DEF Room, TypeOK
  <2>4. RoomFollows(t) BY DEF Slot
  <2>5. /\ Cardinality(Waiting(t, 1)) \in Nat /\ Cardinality(Waiting(t, 2)) \in Nat
        /\ Cardinality(Waiting(t, 3)) \in Nat
    BY <2>4, WaitingFinite DEF RoomFollows
  <2>. QED BY <2>2, <2>3, <2>4, <2>5 DEF RoomFollows
<1>4. Missed(t)'
  BY DEF Slot, Missed
<1>. QED BY <1>1, <1>2, <1>3, <1>4 DEF Slot

LEMMA CacheStays ==
    ASSUME CacheFollows, gaps \subseteq gaps',
           \A key \in Keys : cache'[key] = "bad" =>
             cache[key] = "bad" \/ (key[1] \in {"readme", "release"} /\ RefusedOnce(key)')
    PROVE  CacheFollows'
BY RefusalsStay DEF CacheFollows

LEMMA StubsStay ==
    ASSUME TypeOK, StubsSayWhatIsThere, NEW s \in Requests, Apart(s), files' = files,
           \A r \in Repos : req[s].kind = "generate" /\ work[s][r].end = "skipped" =>
             req'[s].kind = "generate" /\ work'[s][r].end = "skipped"
    PROVE  StubsSayWhatIsThere'
<1> SUFFICES ASSUME NEW f \in files'
             PROVE  \/ f[2] = StubKind({c \in {"api", "sdk", "mcp"} : Confidence(f[3], "good")[c] > 0})
                    \/ RefusedOnce(<<"readme", f[3]>>)'
                    \/ \E t \in Requests : req'[t].kind = "generate" /\ work'[t][f[3]].end = "skipped"
  BY DEF StubsSayWhatIsThere
<1>1. f \in files /\ f[3] \in Repos BY DEF TypeOK
<1>2. \/ f[2] = StubKind({c \in {"api", "sdk", "mcp"} : Confidence(f[3], "good")[c] > 0})
      \/ RefusedOnce(<<"readme", f[3]>>)
      \/ \E t \in Requests : req[t].kind = "generate" /\ work[t][f[3]].end = "skipped"
  BY <1>1 DEF StubsSayWhatIsThere
<1>3. RefusedOnce(<<"readme", f[3]>>) => RefusedOnce(<<"readme", f[3]>>)'
  BY RefusalsStay DEF Apart
<1>4. ASSUME NEW t \in Requests, req[t].kind = "generate", work[t][f[3]].end = "skipped"
      PROVE  req'[t].kind = "generate" /\ work'[t][f[3]].end = "skipped"
  BY <1>1, <1>4 DEF Apart
<1>. QED BY <1>2, <1>3, <1>4

LEMMA StepKeeps ==
    ASSUME IInv, NEW s \in Requests, Apart(s), TypeOK', CacheFollows', StubsSayWhatIsThere',
           Slot(s)'
    PROVE  IInv'
<1>1. ASSUME NEW t \in Requests \ {s} PROVE Slot(t)'
  <2>1. Slot(t) BY IInvBySlots
  <2>2. sent[t] \in Nat /\ sent'[t] \in Nat BY DEF IInv, TypeOK
  <2>3. TypeOK BY DEF IInv
  <2>4. /\ req'[t] = req[t] /\ work'[t] = work[t] /\ free'[t] = free[t] /\ sent'[t] <= sent[t]
        /\ ~limited' => sent'[t] = 0
        /\ gaps \subseteq gaps'
    BY DEF Apart
  <2>. QED BY <2>1, <2>2, <2>3, <2>4, OthersStay
<1>2. \A t \in Requests : Slot(t)' BY <1>1
<1>. QED BY <1>2 DEF IInv, Slot, MissedWasRefused, Missed

(* The semaphore and the requests sent *)

\* A request with nobody inside.
LEMMA NobodyInside ==
    ASSUME NEW s \in Requests, \A r \in Repos : work'[s][r].at = 0 \/ work'[s][r].end # "open",
           free'[s] \in Nat, free'[s] <= Room(s)', sent'[s] \in Nat, sent'[s] <= 3,
           ~limited' => sent'[s] = 0
    PROVE  RoomFollows(s)'
<1>1. \A k : Waiting(s, k)' = {} BY DEF Waiting, Inside
<1>2. /\ Waiting(s, Last)' = {} /\ Waiting(s, 1)' = {}
      /\ Waiting(s, 2)' = {} /\ Waiting(s, 3)' = {}
  BY <1>1
<1>3. Room(s)' \in Nat /\ Room(s)' >= 1 BY DiscoveryAssumption DEF Room
<1>4. IsFiniteSet({}) /\ Cardinality({}) = 0 BY FS_EmptySet
<1>5. /\ IsFiniteSet(Waiting(s, Last)')
      /\ Cardinality(Waiting(s, Last)') + free'[s] <= Room(s)'
  BY <1>2, <1>4
<1>6. sent'[s] + Cardinality(Waiting(s, 1)') + Cardinality(Waiting(s, 2)')
        + Cardinality(Waiting(s, 3)') <= 3 * Room(s)'
  BY <1>2, <1>3, <1>4
<1>. QED BY <1>5, <1>6 DEF RoomFollows

\* Candidate r of s goes from one place to the next or leaves.
LEMMA MovingKeepsRoom ==
    ASSUME TypeOK, NEW s \in Requests, RoomFollows(s), NEW r \in Repos,
           r \in req[s].top, work[s][r].end = "open",
           NEW w \in WorkType, w.end = "open" => w.at > work[s][r].at,
           work' = [work EXCEPT ![s][r] = w],
           req'[s].top = req[s].top, req'[s].kind = req[s].kind,
           free'[s] = free[s] + (IF work[s][r].at > 0 THEN 1 ELSE 0)
                              - (IF w.end = "open" THEN 1 ELSE 0),
           free'[s] \in Nat, sent'[s] \in Nat,
           \/ sent'[s] = 0
           \/ sent'[s] <= sent[s] /\ w.end # "open"
           \/ sent'[s] <= sent[s] + 1 /\ w.end = "open" /\ work[s][r].at > 0,
           ~limited' => sent'[s] = 0
    PROVE  RoomFollows(s)'
<1> DEFINE at == work[s][r].at
           had(k) == IF at > 0 /\ at <= k THEN 1 ELSE 0
           has(k) == IF w.end = "open" /\ w.at <= k THEN 1 ELSE 0
<1>1. /\ at \in 0..4 /\ w.at \in 0..4 /\ free[s] \in Nat /\ sent[s] \in Nat
      /\ Room(s) \in Nat /\ Room(s)' = Room(s)
  BY FourStages, DiscoveryAssumption DEF TypeOK, WorkType, Room
<1>2. /\ \A x \in Repos \ {r} : work'[s][x] = work[s][x]
      /\ work'[s][r] = w
  BY DEF TypeOK
<1>3. ASSUME NEW k \in 1..4
      PROVE  /\ IsFiniteSet(Waiting(s, k)) /\ IsFiniteSet(Waiting(s, k)')
             /\ Cardinality(Waiting(s, k)) \in Nat
             /\ Cardinality(Waiting(s, k)') = Cardinality(Waiting(s, k)) - had(k) + has(k)
  <2> PICK old : old = Waiting(s, k) OBVIOUS
  <2> PICK new : new = Waiting(s, k)' OBVIOUS
  <2>3. IsFiniteSet(old) BY WaitingFinite DEF RoomFollows
  <2>4. r \in old <=> had(k) = 1 BY <1>1 DEF Waiting, Inside
  <2>5. new = IF has(k) = 1 THEN old \cup {r} ELSE old \ {r}
    <3>1. ASSUME NEW x \in Repos \ {r} PROVE x \in old <=> x \in new
      BY <1>2 DEF Waiting, Inside
    <3>2. r \in new <=> has(k) = 1 BY <1>1, <1>2 DEF Waiting, Inside
    <3>3. old \subseteq Repos /\ new \subseteq Repos BY DEF Waiting
    <3>. QED BY <3>1, <3>2, <3>3
  <2>6. /\ IsFiniteSet(old \cup {r}) /\ IsFiniteSet(old \ {r})
        /\ Cardinality(old \cup {r}) = IF r \in old THEN Cardinality(old) ELSE Cardinality(old) + 1
        /\ Cardinality(old \ {r}) = IF r \in old THEN Cardinality(old) - 1 ELSE Cardinality(old)
    BY <2>3, FS_AddElement, FS_RemoveElement
  <2>7. Cardinality(old) \in Nat BY <2>3, FS_CardinalityType
  <2>8. had(k) \in {0, 1} /\ has(k) \in {0, 1} /\ (had(k) = 1 => r \in old)
    BY <2>4
  <2> HIDE DEF had, has
  <2>. QED BY <2>3, <2>4, <2>5, <2>6, <2>7, <2>8
<1>4. /\ Cardinality(Waiting(s, 1)') <= Cardinality(Waiting(s, 4)')
      /\ Cardinality(Waiting(s, 2)') <= Cardinality(Waiting(s, 4)')
      /\ Cardinality(Waiting(s, 3)') <= Cardinality(Waiting(s, 4)')
  <2> PICK all : all = Waiting(s, 4)' OBVIOUS
  <2>1. \A x \in Repos : work'[s][x].at \in 0..4
    BY <1>1, <1>2, FourStages DEF TypeOK
  <2>2. /\ Waiting(s, 1)' \in SUBSET all /\ Waiting(s, 2)' \in SUBSET all
        /\ Waiting(s, 3)' \in SUBSET all
    BY <2>1 DEF Waiting
  <2>3. IsFiniteSet(all) BY <1>3
  <2>. QED BY <2>2, <2>3, FS_Subset
<1>5. Cardinality(Waiting(s, 4)') + free'[s] <= Room(s)'
  BY <1>1, <1>3, FourStages DEF RoomFollows
<1>7. /\ Cardinality(Waiting(s, 1)') \in Nat /\ Cardinality(Waiting(s, 2)') \in Nat
      /\ Cardinality(Waiting(s, 3)') \in Nat /\ Cardinality(Waiting(s, 4)') \in Nat
  BY <1>3, FS_CardinalityType
<1>6. sent'[s] + Cardinality(Waiting(s, 1)') + Cardinality(Waiting(s, 2)')
        + Cardinality(Waiting(s, 3)') <= 3 * Room(s)'
  BY <1>1, <1>3, <1>4, <1>5, <1>7, FourStages DEF RoomFollows
<1>. QED BY <1>3, <1>5, <1>6, FourStages DEF RoomFollows

(* The analysis of a candidate *)

\* Candidate r of s goes on to w, whatever the answer was: the semaphore, what
\* was sent, and what w has to show for the stages behind it.
Goes(s, r, w) ==
    /\ r \in req[s].top /\ work[s][r].end = "open"
    /\ w.end = "open" => w.at > work[s][r].at
    /\ work' = [work EXCEPT ![s][r] = w]
    /\ free' \in [Requests -> Nat] /\ \A t \in Requests \ {s} : free'[t] = free[t]
    /\ free'[s] = free[s] + (IF work[s][r].at > 0 THEN 1 ELSE 0)
                          - (IF w.end = "open" THEN 1 ELSE 0)
    /\ sent' \in [Requests -> Nat]
    /\ \A t \in Requests \ {s} : sent'[t] <= sent[t]
    /\ ~limited' => \A t \in Requests : sent'[t] = 0
    /\ \/ sent'[s] = 0
       \/ sent'[s] <= sent[s] /\ w.end # "open"
       \/ sent'[s] <= sent[s] + 1 /\ w.end = "open" /\ work[s][r].at > 0
    /\ \A j \in 1..Last :
         /\ w.got[j] = "bad" => RefusedOnce(<<Stages[j], r>>)'
         /\ w.end = "analysed" \/ (w.end = "open" /\ j < w.at) =>
              w.got[j] # "none" \/ (j = 1 /\ About[r].listed)

\* The rest of such a step.
Around ==
    /\ cache' \in CacheType /\ CacheFollows'
    /\ limited' \in BOOLEAN /\ files' = files
    /\ swings' \in 0..MaxSwings /\ upsets' \in 0..MaxUpsets
    /\ gaps \subseteq gaps' /\ gaps' \subseteq (Requests \X Keys)

LEMMA CandidateMoves ==
    ASSUME IInv, NEW s \in Requests, NEW r \in Repos, NEW w \in WorkType,
           Goes(s, r, w), Around,
           \/ req' = req /\ w.end # "failed"
           \/ req' = [req EXCEPT ![s].pc = "error"]
    PROVE  IInv'
<1>1. TypeOK /\ CacheFollows /\ StubsSayWhatIsThere /\ Slot(s) BY IInvBySlots
<1>0. /\ r \in req[s].top /\ work[s][r].end = "open"
      /\ w.end = "open" => w.at > work[s][r].at
      /\ work' = [work EXCEPT ![s][r] = w]
  BY DEF Goes
<1>13. gaps \subseteq gaps' /\ files' = files BY DEF Around
<1>2. /\ req'[s].top = req[s].top /\ req'[s].kind = req[s].kind
      /\ req'[s].seen = req[s].seen /\ req'[s].query = req[s].query
      /\ req'[s].pc \in {req[s].pc, "error"}
      /\ req'[s].pc = req[s].pc => w.end # "failed" \/ req[s].pc = "error"
      /\ \A t \in Requests \ {s} : req'[t] = req[t]
  BY <1>1 DEF TypeOK
<1>3. work'[s][r] = w /\ \A x \in Repos \ {r} : work'[s][x] = work[s][x]
  BY <1>0, <1>1 DEF TypeOK
<1>4. RoomFollows(s)'
  <2>1. RoomFollows(s) BY <1>1 DEF Slot
  <2>2. free'[s] \in Nat /\ sent'[s] \in Nat BY DEF Goes
  <2>3. ~limited' => sent'[s] = 0 BY DEF Goes
  <2>4. free'[s] = free[s] + (IF work[s][r].at > 0 THEN 1 ELSE 0)
                          - (IF w.end = "open" THEN 1 ELSE 0)
    BY DEF Goes
  <2>5. \/ sent'[s] = 0
        \/ sent'[s] <= sent[s] /\ w.end # "open"
        \/ sent'[s] <= sent[s] + 1 /\ w.end = "open" /\ work[s][r].at > 0
    BY DEF Goes
  <2>. QED BY <1>0, <1>1, <1>2, <2>1, <2>2, <2>3, <2>4, <2>5, MovingKeepsRoom
<1>5. free'[s] \in 0..Concurrency
  <2>1. free'[s] \in Nat BY DEF Goes
  <2>2. IsFiniteSet(Waiting(s, Last)') /\ Cardinality(Waiting(s, Last)') + free'[s] <= Room(s)'
    BY <1>4 DEF RoomFollows
  <2>3. Cardinality(Waiting(s, Last)') \in Nat BY <2>2, FS_CardinalityType
  <2>4. Room(s)' \in 1..Concurrency BY DiscoveryAssumption DEF Room
  <2>. QED BY <2>1, <2>2, <2>3, <2>4, DiscoveryAssumption
<1>6. TypeOK'
  <2>1. work' \in [Requests -> [Repos ->
          [at: 0..Last, got: [1..Last -> {"none", "good", "bad"}], end: Ends]]]
    BY <1>0, <1>1 DEF TypeOK, WorkType
  <2>2. free' \in [Requests -> 0..Concurrency]
    <3>1. free' \in [Requests -> Nat] /\ \A t \in Requests \ {s} : free'[t] = free[t] BY DEF Goes
    <3>2. free \in [Requests -> 0..Concurrency] BY <1>1 DEF TypeOK
    <3>3. \A t \in Requests : free'[t] \in 0..Concurrency BY <1>5, <3>1, <3>2
    <3>. QED BY <3>1, <3>3
  <2>3. req' \in [Requests -> ReqType]
    <3>1. req \in [Requests -> ReqType] BY <1>1 DEF TypeOK, ReqType
    <3>2. [req[s] EXCEPT !.pc = "error"] \in ReqType BY <3>1, PcChanges
    <3>3. CASE req' = req BY <3>1, <3>3
    <3>4. CASE req' = [req EXCEPT ![s].pc = "error"] BY <3>1, <3>2, <3>4
    <3>. QED BY <3>3, <3>4
  <2>4. sent' \in [Requests -> Nat] BY DEF Goes
  <2>5. files' \subseteq ({Slug[x] : x \in Repos} \X StubKinds \X Repos)
    BY <1>1, <1>13 DEF TypeOK
  <2>. QED BY <2>1, <2>2, <2>3, <2>4, <2>5 DEF TypeOK, CacheType, ReqType, Around
<1>7. Apart(s)
  <2>1. \A t \in Requests \ {s} : work'[t] = work[t] /\ free'[t] = free[t]
    BY <1>0, <1>1 DEF TypeOK, Goes
  <2>. QED BY <1>2, <1>13, <2>1 DEF Apart, Goes
<1>8. StubsSayWhatIsThere'
  <2>1. \A x \in Repos : req[s].kind = "generate" /\ work[s][x].end = "skipped" =>
          req'[s].kind = "generate" /\ work'[s][x].end = "skipped"
    BY <1>0, <1>2, <1>3
  <2>. QED BY <1>1, <1>7, <1>13, <2>1, StubsStay
<1>9. RequestFollows(s)'
  <2>1. RequestFollows(s) BY <1>1 DEF Slot
  <2>2. req[s].pc \notin {"idle", "searching", "getting"}
        /\ req[s].kind \notin {"none", "search", "get_repo"}
    BY <1>0, <2>1 DEF RequestFollows
  <2>3. req'[s].pc = "analysing" => \A x \in req'[s].top : work'[s][x].end # "failed"
    BY <1>0, <1>1, <1>2, <1>3, <2>1 DEF RequestFollows, TypeOK
  <2>. QED BY <1>2, <2>1, <2>2, <2>3 DEF RequestFollows
<1>10. ASSUME NEW x \in Repos PROVE WorkFollows(s, x)'
  <2>1. WorkFollows(s, x) BY <1>1 DEF Slot
  <2>2. CASE x = r BY <1>0, <1>2, <1>3, <2>2 DEF WorkFollows, Goes
  <2>3. CASE x # r BY <1>2, <1>3, <1>13, <2>1, <2>3, RefusalsStay DEF WorkFollows
  <2>. QED BY <2>2, <2>3
<1>11. Missed(s)'
  <2>1. Missed(s) BY <1>1 DEF Slot
  <2>2. req[s].kind # "search"
    BY <1>0, <1>1 DEF Slot, RequestFollows
  <2>. QED BY <1>2, <1>13, <2>1, <2>2 DEF Missed
<1>12. Slot(s)' BY <1>4, <1>9, <1>10, <1>11 DEF Slot
<1>14. CacheFollows' BY DEF Around
<1>. QED BY <1>6, <1>7, <1>8, <1>12, <1>14, StepKeeps

LEMMA BeginsKeeps ==
    ASSUME IInv, NEW s \in Requests, NEW r \in Repos, Begins(s, r)
    PROVE  IInv'
<1>1. TypeOK /\ CacheFollows BY DEF IInv
<1> PICK c : c = cache OBVIOUS
<1> PICK low : low = limited OBVIOUS
<1> PICK w : w = Enter(r, c, low) OBVIOUS
<1>2. c \in CacheType /\ low \in BOOLEAN BY <1>1 DEF TypeOK, CacheType
<1>3. /\ r \in req[s].top /\ work[s][r] = Queued /\ free[s] > 0
      /\ work' = [work EXCEPT ![s][r] = w]
      /\ free' = [free EXCEPT ![s] = IF work'[s][r].end = "open" THEN @ - 1 ELSE @]
      /\ Sending(s, work'[s][r].end = "open", low)
      /\ cache' = cache /\ limited' = limited /\ swings' = swings /\ req' = req
      /\ files' = files /\ gaps' = gaps /\ upsets' = upsets
  BY DEF Begins
<1>4. work[s][r].at = 0 /\ work[s][r].end = "open" BY <1>3 DEF Queued
<1>5. /\ w \in WorkType /\ w.end \in {"open", "analysed", "skipped"}
      /\ low => w.end = "skipped"
      /\ w.end = "open" => w.at \in 1..Last
      /\ \A j \in 1..Last :
           /\ w.got[j] \in {"none", c[<<Stages[j], r>>]}
           /\ w.end = "analysed" \/ (w.end = "open" /\ j < w.at) =>
                w.got[j] # "none" \/ (j = 1 /\ About[r].listed)
  BY <1>2, EnterWorks
<1>6. work'[s][r] = w BY <1>1, <1>3 DEF TypeOK
<1>8. /\ free' \in [Requests -> Nat] /\ \A t \in Requests \ {s} : free'[t] = free[t]
      /\ free'[s] = free[s] - (IF w.end = "open" THEN 1 ELSE 0)
  <2>1. free \in [Requests -> Nat] BY <1>1, DiscoveryAssumption DEF TypeOK
  <2>2. free'[s] = free[s] - (IF w.end = "open" THEN 1 ELSE 0) BY <1>3, <1>6, <2>1
  <2>3. free' = [free EXCEPT ![s] = free'[s]] BY <1>3, <2>1
  <2>. QED BY <1>3, <2>1, <2>2, <2>3
<1>9. /\ sent' \in [Requests -> Nat]
      /\ \A t \in Requests : t # s => sent'[t] <= sent[t]
      /\ w.end # "open" => sent'[s] <= sent[s]
      /\ ~low => \A t \in Requests : sent'[t] = 0
  <2>1. Sending(s, w.end = "open", low) BY <1>3, <1>6
  <2>2. sent \in [Requests -> Nat] /\ (w.end = "open") \in BOOLEAN BY <1>1 DEF TypeOK
  <2>. QED BY <1>2, <2>1, <2>2, SendingWorks
<1>10. ASSUME NEW j \in 1..Last, w.got[j] = "bad" PROVE RefusedOnce(<<Stages[j], r>>)'
  <2>1. cache[<<Stages[j], r>>] = "bad" BY <1>5, <1>10
  <2>2. RefusedOnce(<<Stages[j], r>>) BY <1>1, <2>1, KeysAre DEF CacheFollows
  <2>. QED BY <1>3, <2>2, RefusalsStay
<1>11. CacheFollows' BY <1>1, <1>3 DEF CacheFollows, RefusedOnce
<1>12. free'[s] = free[s] + (IF work[s][r].at > 0 THEN 1 ELSE 0)
                          - (IF w.end = "open" THEN 1 ELSE 0)
  <2>1. free[s] \in Nat BY <1>1, DiscoveryAssumption DEF TypeOK
  <2>. QED BY <1>4, <1>8, <2>1
<1>13. /\ cache' \in CacheType /\ limited' \in BOOLEAN
       /\ swings' \in 0..MaxSwings /\ upsets' \in 0..MaxUpsets
       /\ gaps \subseteq gaps' /\ gaps' \subseteq (Requests \X Keys)
  BY <1>1, <1>3 DEF TypeOK, CacheType
<1>14. w.end = "open" => w.at > work[s][r].at BY <1>4, <1>5
<1>15. \/ sent'[s] = 0
       \/ sent'[s] <= sent[s] /\ w.end # "open"
       \/ sent'[s] <= sent[s] + 1 /\ w.end = "open" /\ work[s][r].at > 0
  BY <1>5, <1>9
<1>16. \A j \in 1..Last :
             /\ w.got[j] = "bad" => RefusedOnce(<<Stages[j], r>>)'
             /\ w.end = "analysed" \/ (w.end = "open" /\ j < w.at) =>
                  w.got[j] # "none" \/ (j = 1 /\ About[r].listed)
  BY <1>5, <1>10
<1>17. /\ \A t \in Requests \ {s} : sent'[t] <= sent[t]
       /\ ~limited' => \A t \in Requests : sent'[t] = 0
       /\ req' = req /\ w.end # "failed"
  BY <1>3, <1>5, <1>9
<1>18. /\ r \in req[s].top /\ w \in WorkType /\ work' = [work EXCEPT ![s][r] = w]
       /\ files' = files /\ sent' \in [Requests -> Nat]
  BY <1>3, <1>5, <1>9
<1>19. Goes(s, r, w)
  BY <1>4, <1>8, <1>12, <1>14, <1>15, <1>16, <1>17, <1>18 DEF Goes
<1>20. Around BY <1>3, <1>11, <1>13 DEF Around
<1>. QED BY <1>5, <1>17, <1>19, <1>20, CandidateMoves

\* The stage r waits in is over and brought v; with that, w1, it goes on to next.
Passes(s, r, v, w1, c, next, low) ==
    /\ Inside(s, r) /\ Noted
    /\ c = [cache EXCEPT ![<<Stages[work[s][r].at], r>>] = v] \/ c = cache
    /\ c # cache /\ v = "bad" => Stages[work[s][r].at] \in {"readme", "release"}
    /\ v = "bad" => <<s, <<Stages[work[s][r].at], r>>>> \in gaps'
    /\ next = Continue(r, w1, work[s][r].at + 1, c)
    /\ work' = [work EXCEPT ![s][r] = next]
    /\ free' = [free EXCEPT ![s] = IF next.end = "open" THEN @ ELSE @ + 1]
    /\ \E sends \in {next.end = "open"} : Sending(s, sends, low)
    /\ gaps \subseteq gaps' /\ gaps' \subseteq (Requests \X Keys)
    /\ upsets' \in 0..MaxUpsets /\ req' = req /\ files' = files

LEMMA StagePasses ==
    ASSUME IInv, NEW s \in Requests, NEW r \in Repos, NEW v \in {"good", "bad"},
           NEW w1 \in WorkType, w1.got[work[s][r].at] = v,
           \A j \in 1..Last : j # work[s][r].at => w1.got[j] = work[s][r].got[j],
           NEW c, c = cache', NEW low, low = limited', NEW next,
           Passes(s, r, v, w1, c, next, low)
    PROVE  IInv'
<1>1. TypeOK /\ CacheFollows /\ WorkFollows(s, r) BY DEF IInv
<1> PICK w : w = work[s][r] OBVIOUS
<1> PICK at : at = w.at OBVIOUS
<1>0. /\ Inside(s, r) /\ Noted /\ next = Continue(r, w1, w.at + 1, c)
      /\ gaps \subseteq gaps' /\ gaps' \subseteq (Requests \X Keys)
      /\ upsets' \in 0..MaxUpsets /\ req' = req /\ files' = files
      /\ work' = [work EXCEPT ![s][r] = next]
      /\ free' = [free EXCEPT ![s] = IF next.end = "open" THEN @ ELSE @ + 1]
  BY DEF Passes
<1>2. /\ r \in req[s].top /\ w.end = "open" /\ at > 0
      /\ w \in WorkType /\ at \in 1..Last
  BY <1>0, <1>1, FourStages DEF Inside, TypeOK, WorkType
<1>4. /\ low \in BOOLEAN /\ limited' \in BOOLEAN /\ swings' \in 0..MaxSwings
  BY <1>0, <1>1 DEF Noted, TypeOK
<1>5. <<Stages[at], r>> \in Keys BY <1>2, KeysAre
<1>6. /\ c = [cache EXCEPT ![<<Stages[at], r>>] = v] \/ c = cache
      /\ c # cache /\ v = "bad" => Stages[at] \in {"readme", "release"}
      /\ v = "bad" => <<s, <<Stages[at], r>>>> \in gaps'
  BY DEF Passes
<1>7. c \in CacheType BY <1>1, <1>6 DEF TypeOK, CacheType
<1>8. /\ next \in WorkType
      /\ next.end \in {"open", "analysed"}
      /\ next.end = "open" => next.at > w.at
      /\ \A j \in 1..Last :
           /\ next.got[j] = "bad" =>
                \/ j = w.at /\ v = "bad"
                \/ w.got[j] = "bad"
                \/ c[<<Stages[j], r>>] = "bad"
           /\ next.end = "analysed" \/ (next.end = "open" /\ j < next.at) =>
                next.got[j] # "none" \/ (j = 1 /\ About[r].listed)
  <2>1. \A j \in 1..Last : j < w.at => w.got[j] # "none" \/ (j = 1 /\ About[r].listed)
    BY <1>1, <1>2 DEF WorkFollows
  <2>2. w1.got[w.at] = v /\ \A j \in 1..Last : j # w.at => w1.got[j] = w.got[j]
    OBVIOUS
  <2>3. next = Continue(r, w1, w.at + 1, c) BY <1>0
  <2>4. w \in WorkType /\ w.end = "open" /\ w.at \in 1..Last BY <1>2
  <2>. QED BY <1>7, <2>1, <2>2, <2>3, <2>4, PassingWorks
<1>10. /\ sent' \in [Requests -> Nat]
       /\ \A t \in Requests : t # s => sent'[t] <= sent[t]
       /\ next.end # "open" => sent'[s] <= sent[s]
       /\ sent'[s] <= sent[s] + 1
       /\ ~low => \A t \in Requests : sent'[t] = 0
  <2>1. sent \in [Requests -> Nat] BY <1>1 DEF TypeOK
  <2>2. PICK sends \in {next.end = "open"} : Sending(s, sends, low) BY DEF Passes
  <2>3. sends \in BOOLEAN /\ (sends <=> next.end = "open") BY <2>2
  <2>. QED BY <1>4, <2>1, <2>2, <2>3, SendingWorks
<1>11. v = "bad" => RefusedOnce(<<Stages[at], r>>)' BY <1>6 DEF RefusedOnce
<1>12. CacheFollows'
  <2>1. ASSUME NEW key \in Keys, cache'[key] = "bad"
        PROVE  cache[key] = "bad" \/ (key[1] \in {"readme", "release"} /\ RefusedOnce(key)')
    <3>1. CASE key = <<Stages[at], r>> /\ c # cache
      <4>1. cache'[key] = v BY <1>1, <1>5, <1>6, <3>1 DEF TypeOK
      <4>2. key[1] = Stages[at] BY <3>1
      <4>. QED BY <1>6, <1>11, <2>1, <3>1, <4>1, <4>2
    <3>2. CASE key # <<Stages[at], r>> \/ c = cache BY <1>1, <1>6, <2>1, <3>2 DEF TypeOK
    <3>. QED BY <3>1, <3>2
  <2>. QED BY <1>0, <1>1, <2>1, CacheStays
<1>13. ASSUME NEW j \in 1..Last, next.got[j] = "bad" PROVE RefusedOnce(<<Stages[j], r>>)'
  <2>1. CASE j = w.at /\ v = "bad" BY <1>11, <2>1
  <2>2. CASE w.got[j] = "bad"
    <3>1. RefusedOnce(<<Stages[j], r>>) BY <1>1, <2>2 DEF WorkFollows
    <3>. QED BY <1>0, <3>1, RefusalsStay
  <2>3. CASE c[<<Stages[j], r>>] = "bad"
    <3>1. cache'[<<Stages[j], r>>] = "bad" /\ <<Stages[j], r>> \in Keys
      BY <2>3, KeysAre
    <3>. QED BY <1>12, <3>1 DEF CacheFollows
  <2>. QED BY <1>8, <1>13, <2>1, <2>2, <2>3
<1>16. /\ free' \in [Requests -> Nat] /\ \A t \in Requests \ {s} : free'[t] = free[t]
       /\ free'[s] = free[s] + (IF work[s][r].at > 0 THEN 1 ELSE 0)
                             - (IF next.end = "open" THEN 1 ELSE 0)
  <2>1. free \in [Requests -> Nat] BY <1>1, DiscoveryAssumption DEF TypeOK
  <2>2. free'[s] = IF next.end = "open" THEN free[s] ELSE free[s] + 1 BY <1>0, <2>1
  <2>3. free' = [free EXCEPT ![s] = free'[s]] BY <1>0, <2>1
  <2>. QED BY <1>2, <2>1, <2>2, <2>3
<1>17. /\ work[s][r].end = "open"
       /\ next.end = "open" => next.at > work[s][r].at
       /\ req' = req /\ next.end # "failed"
       /\ cache' \in CacheType
       /\ \/ sent'[s] = 0
          \/ sent'[s] <= sent[s] /\ next.end # "open"
          \/ sent'[s] <= sent[s] + 1 /\ next.end = "open" /\ work[s][r].at > 0
  BY <1>0, <1>2, <1>7, <1>8, <1>10
<1>18. /\ \A t \in Requests \ {s} : sent'[t] <= sent[t]
       /\ ~limited' => \A t \in Requests : sent'[t] = 0
  BY <1>10
<1>19. \A j \in 1..Last :
             /\ next.got[j] = "bad" => RefusedOnce(<<Stages[j], r>>)'
             /\ next.end = "analysed" \/ (next.end = "open" /\ j < next.at) =>
                  next.got[j] # "none" \/ (j = 1 /\ About[r].listed)
  BY <1>8, <1>13
<1>21. /\ r \in req[s].top /\ next \in WorkType /\ work' = [work EXCEPT ![s][r] = next]
       /\ sent' \in [Requests -> Nat]
  BY <1>0, <1>2, <1>8, <1>10
<1>22. Goes(s, r, next)
  BY <1>16, <1>17, <1>18, <1>19, <1>21 DEF Goes
<1>23. Around BY <1>0, <1>4, <1>12, <1>17 DEF Around
<1>. QED BY <1>8, <1>17, <1>22, <1>23, CandidateMoves

LEMMA StageAnswerKeeps ==
    ASSUME IInv, NEW s \in Requests, NEW r \in Repos, StageAnswer(s, r)
    PROVE  IInv'
<1>1. TypeOK /\ CacheFollows /\ Slot(s) BY IInvBySlots
<1> PICK w : w = work[s][r] OBVIOUS
<1>2. w \in WorkType BY <1>1 DEF TypeOK, WorkType
<1>3. Inside(s, r) BY DEF StageAnswer, StageAnswered, StageRefused, StageRaises
<1>4. r \in req[s].top /\ w.end = "open" /\ w.at > 0 /\ w.at \in 1..Last
  BY <1>2, <1>3, FourStages DEF Inside, WorkType
<1>5. <<Stages[w.at], r>> \in Keys BY <1>4, KeysAre
<1>6. ASSUME NEW v \in {"good", "bad"}
      PROVE  /\ [w EXCEPT !.got[w.at] = v] \in WorkType
             /\ [w EXCEPT !.got[w.at] = v].got[w.at] = v
             /\ \A j \in 1..Last : j # w.at => [w EXCEPT !.got[w.at] = v].got[j] = w.got[j]
  BY <1>2, <1>4 DEF WorkType
<1>7. CASE StageAnswered(s, r)
  <2>0. PICK w1 : w1 = [w EXCEPT !.got[w.at] = "good"] OBVIOUS
  <2> PICK c : c = cache' OBVIOUS
  <2> PICK low : low = limited' OBVIOUS
  <2> PICK next : next = Continue(r, w1, w.at + 1, c) OBVIOUS
  <2>1. /\ w1 \in WorkType /\ w1.got[w.at] = "good"
        /\ \A j \in 1..Last : j # w.at => w1.got[j] = w.got[j]
    BY <1>6, <2>0
  <2>2. /\ c = [cache EXCEPT ![<<Stages[w.at], r>>] = "good"]
        /\ Noted /\ req' = req /\ files' = files /\ gaps' = gaps /\ upsets' = upsets
    BY <1>7 DEF StageAnswered
  <2>3. Moves(s, r, next) /\ Sending(s, next.end = "open", low)
    BY <1>7, <2>0 DEF StageAnswered
  <2>4. /\ work' = [work EXCEPT ![s][r] = next]
        /\ free' = [free EXCEPT ![s] = IF next.end = "open" THEN @ ELSE @ + 1]
    BY <2>3 DEF Moves
  <2>5. gaps' \subseteq (Requests \X Keys) /\ upsets' \in 0..MaxUpsets
    BY <1>1, <2>2 DEF TypeOK
  <2>6. Passes(s, r, "good", w1, c, next, low)
    BY <1>3, <2>2, <2>3, <2>4, <2>5 DEF Passes
  <2>. QED BY <2>1, <2>6, StagePasses
<1>8. CASE StageRefused(s, r)
  <2>0. PICK w1 : w1 = [w EXCEPT !.got[w.at] = "bad"] OBVIOUS
  <2> PICK c : c = cache' OBVIOUS
  <2> PICK low : low = limited' OBVIOUS
  <2> PICK next : next = Continue(r, w1, w.at + 1, c) OBVIOUS
  <2>1. /\ w1 \in WorkType /\ w1.got[w.at] = "bad"
        /\ \A j \in 1..Last : j # w.at => w1.got[j] = w.got[j]
    BY <1>6, <2>0
  <2>2. /\ c = IF Stages[w.at] \in {"readme", "release"}
                THEN [cache EXCEPT ![<<Stages[w.at], r>>] = "bad"] ELSE cache
        /\ Noted /\ Upset /\ req' = req /\ files' = files
        /\ gaps' = gaps \cup {<<s, <<Stages[w.at], r>>>>}
    BY <1>8 DEF StageRefused
  <2>3. Moves(s, r, next) /\ Sending(s, next.end = "open", low)
    BY <1>8, <2>0 DEF StageRefused
  <2>4. /\ work' = [work EXCEPT ![s][r] = next]
        /\ free' = [free EXCEPT ![s] = IF next.end = "open" THEN @ ELSE @ + 1]
    BY <2>3 DEF Moves
  <2>5. gaps' \subseteq (Requests \X Keys) /\ upsets' \in 0..MaxUpsets
    <3>1. gaps \subseteq (Requests \X Keys) BY <1>1 DEF TypeOK
    <3>2. gaps' = gaps \cup {<<s, <<Stages[w.at], r>>>>} BY <2>2
    <3>3. upsets' \in 0..MaxUpsets BY <1>1, <2>2, UpsetFits
    <3>. QED BY <1>5, <3>1, <3>2, <3>3
  <2>6. /\ c = [cache EXCEPT ![<<Stages[w.at], r>>] = "bad"] \/ c = cache
        /\ c # cache => Stages[w.at] \in {"readme", "release"}
        /\ <<s, <<Stages[w.at], r>>>> \in gaps' /\ gaps \subseteq gaps'
    BY <2>2
  <2>7. Passes(s, r, "bad", w1, c, next, low)
    BY <1>3, <2>2, <2>3, <2>4, <2>5, <2>6 DEF Passes
  <2>. QED BY <2>1, <2>7, StagePasses
<1>9. CASE StageRaises(s, r)
  <2> PICK w1 : w1 = [w EXCEPT !.end = "failed"] OBVIOUS
  <2>1. w1 \in WorkType /\ w1.end = "failed" /\ w1.got = w.got
    BY <1>2 DEF WorkType, Ends
  <2>2. Moves(s, r, w1) BY <1>9 DEF StageRaises
  <2>3. /\ Upset /\ req' = [req EXCEPT ![s].pc = "error"]
        /\ cache' = cache /\ limited' = limited /\ swings' = swings /\ files' = files
        /\ gaps' = gaps /\ sent' = sent
    BY <1>9 DEF StageRaises
  <2>4. /\ work' = [work EXCEPT ![s][r] = w1]
        /\ free' = [free EXCEPT ![s] = @ + 1]
    BY <2>1, <2>2 DEF Moves
  <2>5. CacheFollows' BY <1>1, <2>3 DEF CacheFollows, RefusedOnce
  <2>6. Around
    BY <1>1, <2>3, <2>5, UpsetFits DEF Around, TypeOK, CacheType
  <2>7. ASSUME NEW j \in 1..Last, w1.got[j] = "bad" PROVE RefusedOnce(<<Stages[j], r>>)'
    <3>1. RefusedOnce(<<Stages[j], r>>) BY <1>1, <2>1, <2>7 DEF Slot, WorkFollows
    <3>. QED BY <2>3, <3>1, RefusalsStay
  <2>8. /\ free' \in [Requests -> Nat] /\ \A t \in Requests \ {s} : free'[t] = free[t]
        /\ free'[s] = free[s] + (IF work[s][r].at > 0 THEN 1 ELSE 0)
                              - (IF w1.end = "open" THEN 1 ELSE 0)
    <3>1. free \in [Requests -> Nat] BY <1>1, DiscoveryAssumption DEF TypeOK
    <3>2. free'[s] = free[s] + 1 BY <2>4, <3>1
    <3>. QED BY <1>4, <2>1, <2>4, <3>1, <3>2
  <2>9. /\ sent' \in [Requests -> Nat]
        /\ \A t \in Requests : sent'[t] <= sent[t]
        /\ ~limited' => \A t \in Requests : sent'[t] = 0
    <3>1. sent \in [Requests -> Nat] BY <1>1 DEF TypeOK
    <3>2. ~limited => \A t \in Requests : sent[t] = 0 BY DEF IInv, RoomFollows
    <3>. QED BY <2>3, <3>1, <3>2
  <2>10. Goes(s, r, w1) BY <1>4, <2>1, <2>4, <2>7, <2>8, <2>9 DEF Goes
  <2>. QED BY <2>1, <2>3, <2>6, <2>10, CandidateMoves
<1>. QED BY <1>7, <1>8, <1>9 DEF StageAnswer

(* Requests without a candidate inside *)

\* Nothing of s but its own record changes, and neither kind nor candidates.
LEMMA RecordChanges ==
    ASSUME IInv, NEW s \in Requests, NEW q \in ReqType, req' = [req EXCEPT ![s] = q],
           q.top = req[s].top, q.kind = req[s].kind,
           work' = work, free' = free, limited' = limited, swings' = swings, cache' = cache,
           gaps' = gaps, sent' = sent, upsets' \in 0..MaxUpsets,
           files' \subseteq ({Slug[r] : r \in Repos} \X StubKinds \X Repos),
           StubsSayWhatIsThere', RequestFollows(s)', Missed(s)'
    PROVE  IInv'
<1>1. TypeOK /\ CacheFollows /\ Slot(s) BY IInvBySlots
<1>2. req \in [Requests -> ReqType] BY <1>1 DEF TypeOK, ReqType
<1>3. /\ req'[s] = q /\ req' \in [Requests -> ReqType]
      /\ \A t \in Requests \ {s} : req'[t] = req[t]
  BY <1>2
<1>4. TypeOK' BY <1>1, <1>3 DEF TypeOK, ReqType
<1>5. sent \in [Requests -> Nat] /\ (~limited => \A t \in Requests : sent[t] = 0)
  BY DEF IInv, TypeOK, RoomFollows
<1>6. Apart(s) BY <1>3, <1>5 DEF Apart
<1>7. CacheFollows' BY <1>1 DEF CacheFollows, RefusedOnce
<1>8. RoomFollows(s)'
  <2>1. \A k : Waiting(s, k)' = Waiting(s, k) BY <1>3 DEF Waiting, Inside
  <2>2. /\ Waiting(s, Last)' = Waiting(s, Last) /\ Waiting(s, 1)' = Waiting(s, 1)
        /\ Waiting(s, 2)' = Waiting(s, 2) /\ Waiting(s, 3)' = Waiting(s, 3)
    BY <2>1
  <2>3. Room(s)' = Room(s) BY <1>3 DEF Room
  <2>. QED BY <1>1, <2>2, <2>3 DEF Slot, RoomFollows
<1>9. \A r \in Repos : WorkFollows(s, r)'
  BY <1>1, <1>3, RefusalsStay DEF Slot, WorkFollows
<1>. QED BY <1>4, <1>6, <1>7, <1>8, <1>9, StepKeeps DEF Slot

\* A step of a request that has no candidate yet, which leaves it with q and
\* nobody inside.
Quietly(s, q) ==
    /\ req[s].pc \in {"idle", "searching", "getting"}
    /\ req' = [req EXCEPT ![s] = q]
    /\ work' = work \/ work' = [work EXCEPT ![s] = [r \in Repos |-> Queued]]
    /\ \/ free' = free
       \/ q.kind = "scan" /\ free' = [free EXCEPT ![s] = Concurrency]
    /\ sent' \in [Requests -> Nat]
    /\ \A t \in Requests \ {s} : sent'[t] <= sent[t]
    /\ sent'[s] <= 1
    /\ ~limited' => \A t \in Requests : sent'[t] = 0

LEMMA QuietStep ==
    ASSUME IInv, NEW s \in Requests, NEW q \in ReqType, Quietly(s, q), Around,
           RequestFollows(s)', Missed(s)'
    PROVE  IInv'
<1>1. TypeOK /\ CacheFollows /\ StubsSayWhatIsThere /\ Slot(s) BY IInvBySlots
<1>2. req \in [Requests -> ReqType] BY <1>1 DEF TypeOK, ReqType
<1>3. /\ req'[s] = q /\ req' \in [Requests -> ReqType]
      /\ \A t \in Requests \ {s} : req'[t] = req[t]
  BY <1>2 DEF Quietly
<1>4. req[s].top = {} /\ free[s] = 0 /\ \A r \in Repos : work[s][r] = Queued
  BY <1>1 DEF Quietly, Slot, RequestFollows, WorkFollows
<1>5. /\ \A r \in Repos : work'[s][r] = Queued
      /\ \A t \in Requests \ {s} : work'[t] = work[t]
      /\ work' \in [Requests -> [Repos -> WorkType]]
  <2>1. work \in [Requests -> [Repos -> WorkType]] BY <1>1 DEF TypeOK, WorkType
  <2>2. CASE work' = work BY <1>4, <2>1, <2>2
  <2>3. CASE work' = [work EXCEPT ![s] = [r \in Repos |-> Queued]] BY <2>1, <2>3, QueuedFits
  <2>. QED BY <2>2, <2>3 DEF Quietly
<1>6. /\ free' \in [Requests -> 0..Concurrency]
      /\ \A t \in Requests \ {s} : free'[t] = free[t]
      /\ free'[s] \in Nat /\ free'[s] <= Room(s)'
  <2>1. free \in [Requests -> 0..Concurrency] /\ Concurrency \in 0..Concurrency
    BY <1>1, DiscoveryAssumption DEF TypeOK
  <2>2. Room(s)' \in Nat BY DiscoveryAssumption DEF Room
  <2>3. CASE free' = free BY <1>4, <2>1, <2>2, <2>3
  <2>4. CASE q.kind = "scan" /\ free' = [free EXCEPT ![s] = Concurrency]
    <3>1. Room(s)' = Concurrency BY <1>3, <2>4 DEF Room
    <3>. QED BY <2>1, <2>4, <3>1, DiscoveryAssumption
  <2>. QED BY <2>3, <2>4 DEF Quietly
<1>7. TypeOK' BY <1>1, <1>3, <1>5, <1>6 DEF TypeOK, ReqType, WorkType, CacheType, Around, Quietly
<1>8. Apart(s) BY <1>3, <1>5, <1>6 DEF Apart, Quietly, Around
<1>9. RoomFollows(s)'
  <2>1. \A r \in Repos : work'[s][r].at = 0 \/ work'[s][r].end # "open" BY <1>5 DEF Queued
  <2>2. sent'[s] \in Nat /\ sent'[s] <= 3 /\ (~limited' => sent'[s] = 0) BY DEF Quietly
  <2>. QED BY <1>6, <2>1, <2>2, NobodyInside
<1>10. ASSUME NEW r \in Repos PROVE WorkFollows(s, r)'
  <2>1. Queued.at = 0 /\ Queued.end = "open" /\ \A j \in 1..Last : Queued.got[j] = "none"
    BY DEF Queued
  <2>2. \A j \in 1..Last : ~(j < 0) BY FourStages
  <2>. QED BY <1>5, <2>1, <2>2 DEF WorkFollows
<1>11. StubsSayWhatIsThere'
  <2>1. \A r \in Repos : work[s][r].end # "skipped" BY <1>4 DEF Queued
  <2>2. files' = files BY DEF Around
  <2>. QED BY <1>1, <1>8, <2>1, <2>2, StubsStay
<1>12. CacheFollows' BY DEF Around
<1>13. Slot(s)' BY <1>9, <1>10 DEF Slot
<1>. QED BY <1>7, <1>8, <1>11, <1>12, <1>13, StepKeeps

\* The search of a scan goes on from query i.
LEMMA ScanKeeps ==
    ASSUME IInv, NEW s \in Requests, req[s].pc \in {"idle", "searching", "getting"},
           NEW i \in 1..(Len(Queries) + 1), NEW seen \in SUBSET Repos, NEW c \in CacheType,
           \A j \in 1..Len(Queries) : c[<<"search", Queries[j]>>] # "bad",
           NEW low \in BOOLEAN, low = limited', Scan(s, i, seen, c, low), Around,
           \A j \in 1..Len(Queries) : j < i =>
             Hits[Queries[j]] \subseteq seen \/ <<s, <<"search", Queries[j]>>>> \in gaps',
           sent[s] <= 1, i = 1 => sent[s] = 0
    PROVE  IInv'
<1> DEFINE end == IF ~low THEN Len(Queries) ELSE IF i = 1 THEN 1 ELSE i - 1
           asks == {j \in i..end : c[<<"search", Queries[j]>>] = "none"}
           upTo == IF asks = {} THEN end ELSE Min(asks) - 1
           found == seen \cup UNION {Hits[Queries[j]] :
                      j \in {k \in i..upTo : c[<<"search", Queries[k]>>] = "good"}}
           searching == Request("scan", "searching", Min(asks), found, {}, {})
           analysing(top) == Request("scan", "analysing", end, found, top, {})
<1>1. TypeOK /\ Slot(s) BY IInvBySlots
<1>2. Len(Queries) \in Nat \ {0} BY QueriesAre
<1>3. end \in 1..Len(Queries) /\ end >= i - 1 /\ (low /\ i # 1 => end < i) BY <1>2
<1>4. asks \in SUBSET Nat /\ asks \subseteq i..end BY <1>2, <1>3
<1>5. asks # {} => Min(asks) \in asks /\ \A j \in asks : Min(asks) <= j
  BY <1>4, MinIsLeast
<1>6. upTo \in Int /\ upTo <= end /\ \A j \in asks : upTo < j
  <2> HIDE DEF asks, end
  <2>1. CASE asks = {} BY <1>2, <1>3, <2>1
  <2>2. CASE asks # {}
    <3>1. PICK m : m = Min(asks) OBVIOUS
    <3>2. m \in asks /\ \A j \in asks : m <= j BY <1>5, <2>2, <3>1
    <3>3. upTo = m - 1 BY <2>2, <3>1
    <3>. QED BY <1>2, <1>3, <1>4, <3>2, <3>3
  <2>. QED BY <2>1, <2>2
<1>7. ASSUME NEW j \in 1..Len(Queries), j >= i, j <= upTo
      PROVE  Hits[Queries[j]] \subseteq found
  <2>1. j \in i..end /\ j \in i..upTo BY <1>2, <1>3, <1>6, <1>7
  <2>2. j \notin asks
    <3>1. \A k \in asks : upTo < k BY <1>6
    <3>2. upTo \in Int /\ j \in Int BY <1>2, <1>6
    <3> HIDE DEF upTo, asks
    <3>. QED BY <1>7, <3>1, <3>2
  <2>3. c[<<"search", Queries[j]>>] \in {"none", "good", "bad"} BY KeysAre DEF CacheType
  <2>4. c[<<"search", Queries[j]>>] = "good" BY <2>1, <2>2, <2>3
  <2>. QED BY <2>1, <2>4
<1>8. found \in SUBSET Repos /\ seen \subseteq found
  <2>1. \A j \in i..upTo : j \in 1..Len(Queries) BY <1>2, <1>3, <1>6
  <2>2. \A j \in 1..Len(Queries) : Hits[Queries[j]] \subseteq Repos
    BY KeysAre, DiscoveryAssumption
  <2>3. \A j \in {k \in i..upTo : c[<<"search", Queries[k]>>] = "good"} :
          Hits[Queries[j]] \subseteq Repos
    BY <2>1, <2>2
  <2> HIDE DEF upTo, asks, end
  <2>. QED BY <2>3
<1>9. \A j \in 1..Len(Queries) : j <= upTo =>
        Hits[Queries[j]] \subseteq found \/ <<s, <<"search", Queries[j]>>>> \in gaps'
  <2>1. ASSUME NEW j \in 1..Len(Queries), j <= upTo, j < i
        PROVE  Hits[Queries[j]] \subseteq found \/ <<s, <<"search", Queries[j]>>>> \in gaps'
    <3>1. Hits[Queries[j]] \subseteq seen \/ <<s, <<"search", Queries[j]>>>> \in gaps'
      BY <2>1
    <3>. QED BY <1>8, <3>1
  <2>2. \A j \in 1..Len(Queries) : j < i \/ j >= i BY <1>2
  <2> HIDE DEF found, upTo
  <2>. QED BY <1>7, <2>1, <2>2
<1>10. Sending(s, asks # {}, low) BY DEF Scan
<1>11. \/ /\ asks # {} /\ req' = [req EXCEPT ![s] = searching]
          /\ work' = work /\ free' = free
       \/ /\ asks = {}
          /\ \E top \in SUBSET found : req' = [req EXCEPT ![s] = analysing(top)]
          /\ work' = [work EXCEPT ![s] = [r \in Repos |-> Queued]]
          /\ free' = [free EXCEPT ![s] = Concurrency]
  <2>3. \/ /\ asks # {} /\ req' = [req EXCEPT ![s] = searching]
           /\ work' = work /\ free' = free
        \/ /\ asks = {}
           /\ \E top \in Best(found, DeepTop) :
                req' = [req EXCEPT ![s] = analysing(top)]
           /\ work' = [work EXCEPT ![s] = [r \in Repos |-> Queued]]
           /\ free' = [free EXCEPT ![s] = Concurrency]
    BY DEF Scan
  <2>4. Best(found, DeepTop) \subseteq SUBSET found BY DEF Best
  <2> HIDE DEF found, asks, end, searching, analysing
  <2>. QED BY <2>3, <2>4
<1>12. /\ sent' \in [Requests -> Nat]
       /\ \A t \in Requests : t # s => sent'[t] <= sent[t]
       /\ asks = {} => sent'[s] <= sent[s]
       /\ sent'[s] <= sent[s] + 1
       /\ ~low => \A t \in Requests : sent'[t] = 0
  <2>1. sent \in [Requests -> Nat] /\ (asks # {}) \in BOOLEAN BY <1>1 DEF TypeOK
  <2> HIDE DEF asks
  <2>. QED BY <1>10, <2>1, SendingWorks
<1>13. sent'[s] <= 1
  <2>1. CASE asks = {} BY <1>1, <1>12, <2>1 DEF TypeOK
  <2>2. CASE asks # {}
    <3> HIDE DEF asks, end
    <3>1. PICK j : j \in asks BY <2>2
    <3>2. j \in i..end /\ j \in Int /\ j >= i /\ j <= end BY <1>2, <1>3, <1>4, <3>1
    <3>3. low => i = 1 BY <1>2, <1>3, <3>2
    <3>. QED BY <1>1, <1>12, <3>3 DEF TypeOK
  <2>. QED BY <2>1, <2>2
<1>14. req \in [Requests -> ReqType] BY <1>1 DEF TypeOK, ReqType
<1>15. gaps \subseteq gaps' BY DEF Around
<1>16. req[s].top = {} /\ free[s] = 0 BY <1>1 DEF Slot, RequestFollows
<1>17. CASE asks # {}
  <2> PICK m : m = Min(asks) OBVIOUS
  <2> PICK all : all = found OBVIOUS
  <2> PICK q : q = searching OBVIOUS
  <2>1. m \in 1..Len(Queries) /\ m # 0 /\ upTo = m - 1
    <3>1. upTo = m - 1 BY <1>17
    <3>2. m \in asks BY <1>5, <1>17
    <3> HIDE DEF asks, end, upTo
    <3>3. m \in i..end BY <1>4, <3>2
    <3>. QED BY <1>2, <1>3, <3>1, <3>3
  <2>2. \A j \in 1..Len(Queries) : j < m =>
          Hits[Queries[j]] \subseteq all \/ <<s, <<"search", Queries[j]>>>> \in gaps'
    <3>1. \A j \in 1..Len(Queries) : j < m => j <= upTo BY <1>2, <2>1
    <3> HIDE DEF found, upTo
    <3>. QED BY <1>9, <3>1
  <2>3. q = [kind |-> "scan", pc |-> "searching", query |-> m,
             seen |-> all, top |-> {}, shown |-> {}]
    BY DEF Request
  <2>4. req' = [req EXCEPT ![s] = q] /\ work' = work /\ free' = free BY <1>11, <1>17
  <2>5. all \in SUBSET Repos BY <1>8
  <2> HIDE DEF found, upTo, asks, end, searching, analysing
  <2>6. q \in ReqType BY <2>1, <2>3, <2>5 DEF ReqType, AllKinds
  <2>7. Quietly(s, q) BY <1>12, <1>13, <2>4 DEF Quietly
  <2>8. req'[s] = q BY <1>14, <2>4
  <2>9. RequestFollows(s)'
    <3>1. free'[s] = 0 BY <1>16, <2>4
    <3>. QED BY <1>13, <2>1, <2>2, <2>3, <2>8, <3>1 DEF RequestFollows
  <2>10. Missed(s)' BY <2>3, <2>8 DEF Missed
  <2>. QED BY <2>6, <2>7, <2>9, <2>10, QuietStep
<1>18. CASE asks = {}
  <2> PICK all : all = found OBVIOUS
  <2> PICK m : m = end OBVIOUS
  <2>1. PICK top \in SUBSET all : req' = [req EXCEPT ![s] = analysing(top)] BY <1>11, <1>18
  <2>2. PICK q : q = analysing(top) OBVIOUS
  <2>3. q = [kind |-> "scan", pc |-> "analysing", query |-> m,
             seen |-> all, top |-> top, shown |-> {}]
    BY <2>2 DEF Request
  <2>4. upTo = m /\ m \in 1..Len(Queries) BY <1>3, <1>18
  <2>5. \A j \in 1..Len(Queries) : j <= m =>
          Hits[Queries[j]] \subseteq all \/ <<s, <<"search", Queries[j]>>>> \in gaps'
    <3> HIDE DEF found, upTo
    <3>. QED BY <1>9, <2>4
  <2>6. /\ req' = [req EXCEPT ![s] = q]
        /\ work' = [work EXCEPT ![s] = [r \in Repos |-> Queued]]
        /\ free' = [free EXCEPT ![s] = Concurrency]
    BY <1>11, <1>18, <2>1, <2>2
  <2>7. all \in SUBSET Repos BY <1>8
  <2> HIDE DEF found, upTo, asks, end, searching, analysing
  <2>8. q \in ReqType BY <2>3, <2>4, <2>7 DEF ReqType, AllKinds
  <2>9. Quietly(s, q) BY <1>12, <1>13, <2>3, <2>6 DEF Quietly
  <2>10. req'[s] = q BY <1>14, <2>6
  <2>11. RequestFollows(s)'
    <3>1. \A r \in Repos : work'[s][r].end # "failed"
      <4>1. work'[s] = [r \in Repos |-> Queued] BY <1>1, <2>6 DEF TypeOK
      <4>. QED BY <4>1 DEF Queued
    <3>. QED BY <2>3, <2>7, <2>10, <3>1 DEF RequestFollows
  <2>12. Missed(s)' BY <2>3, <2>5, <2>10 DEF Missed
  <2>. QED BY <2>8, <2>9, <2>11, <2>12, QuietStep
<1>. QED BY <1>17, <1>18

\* analyze(), generate-adapter and github_get_repo have the repository's data.
LEMMA WithRepoKeeps ==
    ASSUME IInv, NEW s \in Requests, req[s].pc \in {"idle", "getting"},
           NEW kind \in {"analyze", "generate", "get_repo"}, NEW r \in Repos,
           NEW c \in CacheType, c = cache', NEW low \in BOOLEAN, low = limited',
           WithRepo(s, kind, r, c, low), Around
    PROVE  IInv'
<1>1. TypeOK /\ CacheFollows /\ StubsSayWhatIsThere /\ Slot(s) BY IInvBySlots
<1>2. req \in [Requests -> ReqType] /\ sent \in [Requests -> Nat]
  BY <1>1 DEF TypeOK, ReqType
<1>3. gaps \subseteq gaps' /\ files' = files /\ CacheFollows' BY DEF Around
<1>4. req[s].top = {} /\ free[s] = 0 /\ sent[s] <= 1 /\ \A x \in Repos : work[s][x] = Queued
  BY <1>1 DEF Slot, RequestFollows, WorkFollows
<1>5. CASE kind = "get_repo"
  <2> PICK q : q = [kind |-> kind, pc |-> "done", query |-> 0, seen |-> {r}, top |-> {},
                    shown |-> {r}]
    OBVIOUS
  <2>1. /\ req' = [req EXCEPT ![s] = q] /\ Sending(s, FALSE, low)
        /\ work' = work /\ free' = free
    BY <1>5 DEF WithRepo, Request
  <2>2. q \in ReqType BY QueriesAre DEF ReqType, AllKinds
  <2>3. /\ sent' \in [Requests -> Nat]
        /\ \A t \in Requests : t # s => sent'[t] <= sent[t]
        /\ sent'[s] <= sent[s]
        /\ ~low => \A t \in Requests : sent'[t] = 0
    BY <1>2, <2>1, SendingWorks
  <2>4. sent'[s] <= 1 BY <1>2, <1>4, <2>3
  <2>5. Quietly(s, q) BY <2>1, <2>3, <2>4 DEF Quietly
  <2>6. req'[s] = q /\ free'[s] = 0 BY <1>2, <1>4, <2>1
  <2>7. RequestFollows(s)' BY <1>5, <2>4, <2>6 DEF RequestFollows
  <2>8. Missed(s)' BY <1>5, <2>6 DEF Missed
  <2>. QED BY <2>2, <2>5, <2>7, <2>8, QuietStep
<1>6. CASE kind \in {"analyze", "generate"}
  <2> PICK q : q = [kind |-> kind, pc |-> "analysing", query |-> 0, seen |-> {r}, top |-> {r},
                    shown |-> {}]
    OBVIOUS
  <2> PICK w : w = Enter(r, c, low) OBVIOUS
  <2>1. /\ req' = [req EXCEPT ![s] = q]
        /\ work' = [work EXCEPT ![s][r] = w]
        /\ free' = [free EXCEPT ![s] = IF work'[s][r].end = "open" THEN 0 ELSE 1]
        /\ Sending(s, work'[s][r].end = "open", low)
    BY <1>6 DEF WithRepo, Request
  <2>2. q \in ReqType BY <1>6, QueriesAre DEF ReqType, AllKinds
  <2>3. /\ w \in WorkType /\ w.end \in {"open", "analysed", "skipped"}
        /\ low => w.end = "skipped"
        /\ w.end = "open" => w.at \in 1..Last
        /\ \A j \in 1..Last :
             /\ w.got[j] \in {"none", c[<<Stages[j], r>>]}
             /\ w.end = "analysed" \/ (w.end = "open" /\ j < w.at) =>
                  w.got[j] # "none" \/ (j = 1 /\ About[r].listed)
    BY EnterWorks
  <2>4. /\ work'[s][r] = w /\ \A x \in Repos \ {r} : work'[s][x] = Queued
        /\ \A t \in Requests \ {s} : work'[t] = work[t]
        /\ work' \in [Requests -> [Repos -> WorkType]]
    <3>1. work \in [Requests -> [Repos -> WorkType]] BY <1>1 DEF TypeOK, WorkType
    <3>. QED BY <1>4, <2>1, <2>3, <3>1
  <2>5. /\ sent' \in [Requests -> Nat]
        /\ \A t \in Requests : t # s => sent'[t] <= sent[t]
        /\ w.end # "open" => sent'[s] <= sent[s]
        /\ ~low => \A t \in Requests : sent'[t] = 0
    <3>1. PICK sends \in BOOLEAN : (sends <=> w.end = "open") /\ Sending(s, sends, low)
      BY <2>1, <2>4
    <3>. QED BY <1>2, <3>1, SendingWorks
  <2>6. /\ free' \in [Requests -> 0..Concurrency]
        /\ \A t \in Requests \ {s} : free'[t] = free[t]
        /\ free'[s] = IF w.end = "open" THEN 0 ELSE 1
    <3>1. free \in [Requests -> 0..Concurrency] /\ 0 \in 0..Concurrency /\ 1 \in 0..Concurrency
      BY <1>1, DiscoveryAssumption DEF TypeOK
    <3>. QED BY <2>1, <2>4, <3>1
  <2>7. /\ req'[s] = q /\ req' \in [Requests -> ReqType]
        /\ \A t \in Requests \ {s} : req'[t] = req[t]
    BY <1>2, <2>1, <2>2
  <2>8. TypeOK' BY <1>1, <2>4, <2>5, <2>6, <2>7
    DEF TypeOK, ReqType, WorkType, CacheType, Around
  <2>9. Apart(s) BY <1>3, <2>4, <2>5, <2>6, <2>7 DEF Apart
  <2>10. Room(s)' = 1 BY <1>6, <2>7 DEF Room
  <2>11. RoomFollows(s)'
    <3>1. CASE w.end # "open"
      <4>1. \A x \in Repos : work'[s][x].at = 0 \/ work'[s][x].end # "open"
        BY <2>4, <3>1 DEF Queued
      <4>2. /\ free'[s] = 1 /\ sent'[s] \in Nat /\ sent'[s] <= 3
            /\ (~limited' => sent'[s] = 0)
        BY <1>2, <1>4, <2>5, <2>6, <3>1
      <4>. QED BY <2>10, <4>1, <4>2, NobodyInside
    <3>2. CASE w.end = "open"
      <4>1. \A k : Waiting(s, k)' \in SUBSET {r}
        BY <2>4, <3>2 DEF Waiting, Inside, Queued
      <4>2. IsFiniteSet({r}) /\ Cardinality({r}) = 1 BY FS_Singleton
      <4>3. ASSUME NEW T \in SUBSET {r}
            PROVE  IsFiniteSet(T) /\ Cardinality(T) \in Nat /\ Cardinality(T) <= 1
        BY <4>2, FS_Subset, FS_CardinalityType
      <4>4. /\ Waiting(s, Last)' \in SUBSET {r} /\ Waiting(s, 1)' \in SUBSET {r}
            /\ Waiting(s, 2)' \in SUBSET {r} /\ Waiting(s, 3)' \in SUBSET {r}
        BY <4>1
      <4>5. /\ IsFiniteSet(Waiting(s, Last)')
            /\ Cardinality(Waiting(s, Last)') \in Nat /\ Cardinality(Waiting(s, Last)') <= 1
            /\ Cardinality(Waiting(s, 1)') \in Nat /\ Cardinality(Waiting(s, 1)') <= 1
            /\ Cardinality(Waiting(s, 2)') \in Nat /\ Cardinality(Waiting(s, 2)') <= 1
            /\ Cardinality(Waiting(s, 3)') \in Nat /\ Cardinality(Waiting(s, 3)') <= 1
        BY <4>3, <4>4
      <4>6. free'[s] = 0 /\ sent'[s] = 0 BY <2>3, <2>5, <2>6, <3>2
      <4>. QED BY <2>10, <4>5, <4>6 DEF RoomFollows
    <3>. QED BY <3>1, <3>2
  <2>12. RequestFollows(s)'
    BY <1>6, <2>3, <2>4, <2>7 DEF RequestFollows
  <2>13. ASSUME NEW x \in Repos PROVE WorkFollows(s, x)'
    <3>1. CASE x = r
      <4>1. ASSUME NEW j \in 1..Last, w.got[j] = "bad" PROVE RefusedOnce(<<Stages[j], r>>)'
        <5>1. cache'[<<Stages[j], r>>] = "bad" BY <2>3, <4>1
        <5>. QED BY <1>3, <5>1, KeysAre DEF CacheFollows
      <4>. QED BY <2>3, <2>4, <2>7, <3>1, <4>1 DEF WorkFollows
    <3>2. CASE x # r
      <4>1. Queued.at = 0 /\ Queued.end = "open" /\ \A j \in 1..Last : Queued.got[j] = "none"
        BY DEF Queued
      <4>2. \A j \in 1..Last : ~(j < 0) BY FourStages
      <4>. QED BY <2>4, <3>2, <4>1, <4>2 DEF WorkFollows
    <3>. QED BY <3>1, <3>2
  <2>14. Missed(s)' BY <1>6, <2>7 DEF Missed
  <2>15. StubsSayWhatIsThere'
    <3>1. \A x \in Repos : work[s][x].end # "skipped" BY <1>4 DEF Queued
    <3>. QED BY <1>1, <1>3, <2>9, <3>1, StubsStay
  <2>. QED BY <1>3, <2>8, <2>9, <2>11, <2>12, <2>13, <2>14, <2>15, StepKeeps DEF Slot
<1>. QED BY <1>5, <1>6

(* The actions *)

LEMMA BeginScanKeeps ==
    ASSUME IInv, NEW s \in Requests, BeginScan(s)
    PROVE  IInv'
<1>1. TypeOK /\ CacheFollows /\ Slot(s) BY IInvBySlots
<1> PICK c : c = cache OBVIOUS
<1> PICK low : low = limited OBVIOUS
<1>2. /\ req[s].pc = "idle" /\ Scan(s, 1, {}, c, low)
      /\ cache' = cache /\ limited' = limited /\ swings' = swings /\ files' = files
      /\ gaps' = gaps /\ upsets' = upsets
  BY DEF BeginScan, May
<1>3. c \in CacheType /\ low \in BOOLEAN BY <1>1 DEF TypeOK, CacheType
<1>4. Around BY <1>1, <1>2 DEF Around, TypeOK, CacheType, CacheFollows, RefusedOnce
<1>5. \A j \in 1..Len(Queries) : c[<<"search", Queries[j]>>] # "bad"
  BY <1>1, KeysAre DEF CacheFollows
<1>6. sent[s] = 0 BY <1>1, <1>2 DEF Slot, RequestFollows
<1>7. 1 \in 1..(Len(Queries) + 1) /\ {} \in SUBSET Repos /\ \A j \in 1..Len(Queries) : ~(j < 1)
  BY QueriesAre
<1>. QED BY <1>2, <1>3, <1>4, <1>5, <1>6, <1>7, ScanKeeps

LEMMA BeginSearchKeeps ==
    ASSUME IInv, NEW s \in Requests, NEW i \in 1..Len(Queries), BeginSearch(s, i)
    PROVE  IInv'
<1>1. TypeOK /\ CacheFollows /\ Slot(s) BY IInvBySlots
<1>2. /\ req[s].pc = "idle"
      /\ cache' = cache /\ limited' = limited /\ swings' = swings /\ files' = files
      /\ gaps' = gaps /\ upsets' = upsets /\ work' = work /\ free' = free
  BY DEF BeginSearch, May
<1>3. Around BY <1>1, <1>2 DEF Around, TypeOK, CacheType, CacheFollows, RefusedOnce
<1>4. req \in [Requests -> ReqType] /\ sent \in [Requests -> Nat] /\ limited \in BOOLEAN
  BY <1>1 DEF TypeOK, ReqType
<1>5. sent[s] = 0 /\ free[s] = 0 BY <1>1, <1>2 DEF Slot, RequestFollows
<1>6. ~limited => \A t \in Requests : sent[t] = 0 BY DEF IInv, RoomFollows
<1>7. Hits[Queries[i]] \in SUBSET Repos BY KeysAre, DiscoveryAssumption
<1>8. CASE /\ req' = [req EXCEPT ![s] = Request("search", "done", i, {}, {}, Hits[Queries[i]])]
           /\ sent' = sent
  <2> PICK q : q = [kind |-> "search", pc |-> "done", query |-> i, seen |-> {}, top |-> {},
                    shown |-> Hits[Queries[i]]]
    OBVIOUS
  <2>1. req' = [req EXCEPT ![s] = q] BY <1>7, <1>8 DEF Request
  <2>2. q \in ReqType BY <1>7, QueriesAre DEF ReqType, AllKinds
  <2>3. req'[s] = q /\ sent'[s] = 0 BY <1>4, <1>5, <1>8, <2>1
  <2>7. /\ sent' = sent /\ sent'[s] <= 1 /\ \A t \in Requests : sent'[t] <= sent[t]
        /\ ~limited' => \A t \in Requests : sent'[t] = 0
    BY <1>2, <1>4, <1>5, <1>6, <1>8
  <2>4. Quietly(s, q) BY <1>2, <1>4, <2>1, <2>7 DEF Quietly
  <2>5. RequestFollows(s)' BY <1>2, <1>5, <2>3 DEF RequestFollows
  <2>6. Missed(s)' BY <2>3 DEF Missed
  <2>. QED BY <1>3, <2>2, <2>4, <2>5, <2>6, QuietStep
<1>9. CASE /\ req' = [req EXCEPT ![s] = Request("search", "searching", i, {}, {}, {})]
           /\ Sending(s, TRUE, limited)
  <2> PICK q : q = [kind |-> "search", pc |-> "searching", query |-> i, seen |-> {}, top |-> {},
                    shown |-> {}]
    OBVIOUS
  <2> PICK low : low = limited OBVIOUS
  <2>1. req' = [req EXCEPT ![s] = q] BY <1>9 DEF Request
  <2>2. q \in ReqType BY QueriesAre DEF ReqType, AllKinds
  <2>3. /\ sent' \in [Requests -> Nat]
        /\ \A t \in Requests : t # s => sent'[t] <= sent[t]
        /\ sent'[s] <= sent[s] + 1
        /\ ~low => \A t \in Requests : sent'[t] = 0
    BY <1>4, <1>9, SendingWorks
  <2>4. req'[s] = q /\ sent'[s] <= 1 BY <1>4, <1>5, <2>1, <2>3
  <2>5. Quietly(s, q) BY <1>2, <2>1, <2>3, <2>4 DEF Quietly
  <2>6. i # 0 BY QueriesAre
  <2>7. RequestFollows(s)' BY <1>2, <1>5, <2>4, <2>6 DEF RequestFollows
  <2>8. Missed(s)' BY <2>4 DEF Missed
  <2>. QED BY <1>3, <2>2, <2>5, <2>7, <2>8, QuietStep
<1>. QED BY <1>8, <1>9 DEF BeginSearch

LEMMA BeginRepoKeeps ==
    ASSUME IInv, NEW s \in Requests, NEW kind \in {"analyze", "generate", "get_repo"},
           NEW r \in Asked, BeginRepo(s, kind, r)
    PROVE  IInv'
<1>1. TypeOK /\ CacheFollows /\ Slot(s) BY IInvBySlots
<1>2. /\ req[s].pc = "idle" /\ r \in Repos
      /\ cache' = cache /\ limited' = limited /\ swings' = swings /\ files' = files
      /\ gaps' = gaps /\ upsets' = upsets
  BY DiscoveryAssumption DEF BeginRepo, May
<1>3. Around BY <1>1, <1>2 DEF Around, TypeOK, CacheType, CacheFollows, RefusedOnce
<1> PICK c : c = cache OBVIOUS
<1> PICK low : low = limited OBVIOUS
<1>4. c \in CacheType /\ low \in BOOLEAN /\ c = cache' /\ low = limited'
  BY <1>1, <1>2 DEF TypeOK, CacheType
<1>5. CASE WithRepo(s, kind, r, c, low) BY <1>2, <1>3, <1>4, <1>5, WithRepoKeeps
<1>6. CASE /\ req' = [req EXCEPT ![s] = Request(kind, "getting", 0, {r}, {}, {})]
           /\ Sending(s, TRUE, low)
           /\ work' = work /\ free' = free
  <2> PICK q : q = [kind |-> kind, pc |-> "getting", query |-> 0, seen |-> {r}, top |-> {},
                    shown |-> {}]
    OBVIOUS
  <2>1. req' = [req EXCEPT ![s] = q] BY <1>6 DEF Request
  <2>2. q \in ReqType BY <1>2, QueriesAre DEF ReqType, AllKinds
  <2>3. req \in [Requests -> ReqType] /\ sent \in [Requests -> Nat]
    BY <1>1 DEF TypeOK, ReqType
  <2>4. /\ sent' \in [Requests -> Nat]
        /\ \A t \in Requests : t # s => sent'[t] <= sent[t]
        /\ sent'[s] <= sent[s] + 1
        /\ ~low => \A t \in Requests : sent'[t] = 0
    BY <1>4, <1>6, <2>3, SendingWorks
  <2>5. sent[s] = 0 /\ free[s] = 0 BY <1>1, <1>2 DEF Slot, RequestFollows
  <2>6. req'[s] = q /\ sent'[s] <= 1 BY <2>1, <2>3, <2>4, <2>5
  <2>10. work' = work /\ free' = free BY <1>6
  <2>7. Quietly(s, q) BY <1>2, <1>4, <2>1, <2>4, <2>6, <2>10 DEF Quietly
  <2>8. RequestFollows(s)' BY <2>5, <2>6, <2>10 DEF RequestFollows
  <2>9. Missed(s)' BY <2>6 DEF Missed
  <2>. QED BY <1>3, <2>2, <2>7, <2>8, <2>9, QuietStep
<1>. QED BY <1>5, <1>6 DEF BeginRepo

LEMMA NotedFits ==
    ASSUME TypeOK, Noted
    PROVE  limited' \in BOOLEAN /\ swings' \in 0..MaxSwings
<1>1. swings \in 0..MaxSwings /\ MaxSwings \in Nat BY DiscoveryAssumption DEF TypeOK
<1>2. /\ limited' \in BOOLEAN /\ swings' <= MaxSwings
      /\ swings' = IF limited' = limited THEN swings ELSE swings + 1
  BY DEF Noted
<1>3. swings' = swings \/ swings' = swings + 1 BY <1>2
<1>. QED BY <1>1, <1>2, <1>3

LEMMA RaisesKeeps ==
    ASSUME IInv, NEW s \in Requests, req[s].pc \in {"searching", "getting"}, Raises(s)
    PROVE  IInv'
<1>1. TypeOK /\ CacheFollows /\ StubsSayWhatIsThere /\ Slot(s) BY IInvBySlots
<1>2. /\ Upset /\ req' = [req EXCEPT ![s].pc = "error"]
      /\ cache' = cache /\ limited' = limited /\ swings' = swings /\ work' = work
      /\ free' = free /\ files' = files /\ gaps' = gaps /\ sent' = sent
  BY DEF Raises
<1>3. req \in [Requests -> ReqType] BY <1>1 DEF TypeOK, ReqType
<1> PICK q : q = [req[s] EXCEPT !.pc = "error"] OBVIOUS
<1>4. q \in ReqType BY <1>3, PcChanges
<1>5. /\ q.pc = "error" /\ q.kind = req[s].kind /\ q.top = req[s].top
      /\ q.seen = req[s].seen /\ q.query = req[s].query
  BY <1>3 DEF ReqType
<1>6. req' = [req EXCEPT ![s] = q] /\ req'[s] = q BY <1>2, <1>3
<1>7. upsets' \in 0..MaxUpsets BY <1>1, <1>2, UpsetFits
<1>8. files' \subseteq ({Slug[r] : r \in Repos} \X StubKinds \X Repos)
  BY <1>1, <1>2 DEF TypeOK
<1>9. StubsSayWhatIsThere'
  <2>1. sent \in [Requests -> Nat] /\ (~limited => \A t \in Requests : sent[t] = 0)
    BY DEF IInv, TypeOK, RoomFollows
  <2>2. Apart(s) BY <1>2, <1>3, <2>1 DEF Apart
  <2>. QED BY <1>1, <1>2, <1>5, <1>6, <2>2, StubsStay
<1>10. RequestFollows(s)'
  <2>1. RequestFollows(s) BY <1>1 DEF Slot
  <2>. QED BY <1>2, <1>5, <1>6, <2>1 DEF RequestFollows
<1>11. Missed(s)' BY <1>5, <1>6 DEF Missed
<1>. QED BY <1>2, <1>4, <1>5, <1>6, <1>7, <1>8, <1>9, <1>10, <1>11, RecordChanges

\* The search for a query is over, answered with what it finds or refused.
LEMMA SearchedKeeps ==
    ASSUME IInv, NEW s \in Requests, req[s].pc = "searching", Around,
           NEW found \in SUBSET Repos, NEW c \in CacheType, c = cache',
           Searched(s, found, c),
           \/ found = Hits[Queries[req[s].query]]
           \/ <<s, <<"search", Queries[req[s].query]>>>> \in gaps'
    PROVE  IInv'
<1>1. TypeOK /\ CacheFollows /\ Slot(s) BY IInvBySlots
<1>2. req \in [Requests -> ReqType] /\ sent \in [Requests -> Nat]
  BY <1>1 DEF TypeOK, ReqType
<1>3. /\ req[s].query \in 1..Len(Queries) /\ req[s].seen \in SUBSET Repos
      /\ req[s].top = {} /\ free[s] = 0 /\ sent[s] <= 1
  BY <1>1, <1>2, QueriesAre DEF Slot, RequestFollows, ReqType
<1> PICK low : low = limited' OBVIOUS
<1>4. low \in BOOLEAN /\ gaps \subseteq gaps' /\ CacheFollows' BY DEF Around
<1>5. CASE req[s].kind = "scan" /\ Scan(s, req[s].query + 1, req[s].seen \cup found, c, low)
  <2> PICK i \in 1..(Len(Queries) + 1) : i = req[s].query + 1 BY <1>3, QueriesAre
  <2> PICK seen \in SUBSET Repos : seen = req[s].seen \cup found BY <1>3
  <2>1. Scan(s, i, seen, c, low) BY <1>5
  <2>2. \A j \in 1..Len(Queries) : c[<<"search", Queries[j]>>] # "bad"
    BY <1>4, KeysAre DEF CacheFollows
  <2>3. \A j \in 1..Len(Queries) : j < i =>
          Hits[Queries[j]] \subseteq seen \/ <<s, <<"search", Queries[j]>>>> \in gaps'
    <3>1. \A j \in 1..Len(Queries) : j < req[s].query =>
            Hits[Queries[j]] \subseteq req[s].seen \/ <<s, <<"search", Queries[j]>>>> \in gaps
      BY <1>1, <1>5 DEF Slot, RequestFollows
    <3>2. \A j \in 1..Len(Queries) : j < i => j < req[s].query \/ j = req[s].query
      BY <1>3, QueriesAre
    <3>. QED BY <1>4, <3>1, <3>2
  <2>4. i # 1 BY <1>3
  <2>5. req[s].pc \in {"idle", "searching", "getting"} /\ sent[s] <= 1 BY <1>3
  <2>6. i = 1 => sent[s] = 0 BY <2>4
  <2> HIDE <1>5
  <2>. QED BY <1>4, <2>1, <2>2, <2>3, <2>5, <2>6, ScanKeeps
<1>6. CASE /\ req[s].kind = "search"
           /\ req' = [req EXCEPT ![s].pc = "done", ![s].shown = found]
           /\ Sending(s, FALSE, low)
           /\ work' = work /\ free' = free
  <2> PICK q : q = [[req[s] EXCEPT !.pc = "done"] EXCEPT !.shown = found] OBVIOUS
  <2>1. /\ q \in ReqType /\ q.pc = "done" /\ q.kind = "search" /\ q.top = {}
        /\ q.query = req[s].query /\ q.shown = found
    BY <1>2, <1>3, <1>6 DEF ReqType
  <2>2. req' = [req EXCEPT ![s] = q] /\ req'[s] = q BY <1>2, <1>6
  <2>3. /\ sent' \in [Requests -> Nat]
        /\ \A t \in Requests : t # s => sent'[t] <= sent[t]
        /\ sent'[s] <= sent[s]
        /\ ~low => \A t \in Requests : sent'[t] = 0
    BY <1>2, <1>4, <1>6, SendingWorks
  <2>8. sent'[s] <= 1 BY <1>2, <1>3, <2>3
  <2>4. work' = work /\ free' = free /\ sent'[s] <= 1 BY <1>6, <2>8
  <2>5. Quietly(s, q) BY <2>2, <2>3, <2>4 DEF Quietly
  <2>6. RequestFollows(s)' BY <1>3, <2>1, <2>2, <2>4 DEF RequestFollows
  <2>7. Missed(s)' BY <2>1, <2>2 DEF Missed
  <2>. QED BY <2>1, <2>5, <2>6, <2>7, QuietStep
<1>. QED BY <1>5, <1>6 DEF Searched

LEMMA SearchAnsweredKeeps ==
    ASSUME IInv, NEW s \in Requests, SearchAnswered(s)
    PROVE  IInv'
<1>1. TypeOK /\ CacheFollows /\ Slot(s) BY IInvBySlots
<1> PICK i : i = req[s].query OBVIOUS
<1> PICK q : q = Queries[i] OBVIOUS
<1>2. /\ req[s].pc = "searching" /\ Noted
      /\ cache' = [cache EXCEPT ![<<"search", q>>] = "good"]
      /\ Searched(s, Hits[q], cache')
      /\ files' = files /\ gaps' = gaps /\ upsets' = upsets
  BY DEF SearchAnswered
<1>3. i \in 1..Len(Queries)
  <2>1. i \in 0..Len(Queries) /\ i # 0
    BY <1>1, <1>2 DEF Slot, RequestFollows, TypeOK
  <2>. QED BY <2>1, QueriesAre
<1>4. <<"search", q>> \in Keys /\ Hits[q] \in SUBSET Repos
  BY <1>3, KeysAre, DiscoveryAssumption
<1> PICK c : c = cache' OBVIOUS
<1> PICK found : found = Hits[q] OBVIOUS
<1>5. cache \in CacheType BY <1>1 DEF TypeOK, CacheType
<1>6. c \in CacheType BY <1>2, <1>5 DEF CacheType
<1>7. \A key \in Keys : cache'[key] = "bad" => cache[key] = "bad"
  BY <1>2, <1>5 DEF CacheType
<1>8. CacheFollows' BY <1>1, <1>2, <1>7, CacheStays
<1>9. Around BY <1>1, <1>2, <1>6, <1>8, NotedFits DEF Around, TypeOK
<1>10. Searched(s, found, c) BY <1>2
<1>. QED BY <1>2, <1>4, <1>6, <1>9, <1>10, SearchedKeeps

LEMMA SearchRefusedKeeps ==
    ASSUME IInv, NEW s \in Requests, SearchRefused(s)
    PROVE  IInv'
<1>1. TypeOK /\ CacheFollows /\ Slot(s) BY IInvBySlots
<1> PICK i : i = req[s].query OBVIOUS
<1> PICK key : key = <<"search", Queries[i]>> OBVIOUS
<1>2. /\ req[s].pc = "searching" /\ Noted /\ Upset
      /\ gaps' = gaps \cup {<<s, key>>}
      /\ Searched(s, {}, cache)
      /\ cache' = cache /\ files' = files
  BY DEF SearchRefused
<1>3. i \in 1..Len(Queries)
  <2>1. i \in 0..Len(Queries) /\ i # 0
    BY <1>1, <1>2 DEF Slot, RequestFollows, TypeOK
  <2>. QED BY <2>1, QueriesAre
<1>4. key \in Keys BY <1>3, KeysAre
<1> PICK c : c = cache' OBVIOUS
<1>5. c \in CacheType BY <1>1, <1>2 DEF TypeOK, CacheType
<1>6. CacheFollows' BY <1>1, <1>2, CacheStays
<1>7. gaps' \subseteq (Requests \X Keys)
  <2>1. gaps \subseteq (Requests \X Keys) BY <1>1 DEF TypeOK
  <2>. QED BY <1>2, <1>4, <2>1
<1>8. Around BY <1>1, <1>2, <1>5, <1>6, <1>7, NotedFits, UpsetFits DEF Around
<1>9. Searched(s, {}, c) BY <1>2
<1>10. <<s, <<"search", Queries[req[s].query]>>>> \in gaps' BY <1>2
<1>. QED BY <1>2, <1>5, <1>8, <1>9, <1>10, SearchedKeeps

LEMMA RepoAnsweredKeeps ==
    ASSUME IInv, NEW s \in Requests, NEW r \in Asked, RepoAnswered(s, r)
    PROVE  IInv'
<1>1. TypeOK /\ CacheFollows /\ Slot(s) BY IInvBySlots
<1>2. /\ req[s].pc = "getting" /\ Noted /\ r \in Repos
      /\ cache' = [cache EXCEPT ![<<"repo", r>>] = "good"]
      /\ WithRepo(s, req[s].kind, r, cache', limited')
      /\ files' = files /\ gaps' = gaps /\ upsets' = upsets
  BY DiscoveryAssumption DEF RepoAnswered
<1> PICK c : c = cache' OBVIOUS
<1> PICK low : low = limited' OBVIOUS
<1>3. PICK kind \in {"analyze", "generate", "get_repo"} : kind = req[s].kind
  BY <1>1, <1>2 DEF Slot, RequestFollows
<1>4. cache \in CacheType BY <1>1 DEF TypeOK, CacheType
<1>5. c \in CacheType BY <1>2, <1>4 DEF CacheType
<1>6. \A key \in Keys : cache'[key] = "bad" => cache[key] = "bad"
  BY <1>2, <1>4 DEF CacheType
<1>7. CacheFollows' BY <1>1, <1>2, <1>6, CacheStays
<1>8. Around BY <1>1, <1>2, <1>5, <1>7, NotedFits DEF Around, TypeOK
<1>9. WithRepo(s, kind, r, c, low) BY <1>2, <1>3
<1>10. low \in BOOLEAN BY <1>8 DEF Around
<1>. QED BY <1>2, <1>5, <1>8, <1>9, <1>10, WithRepoKeeps

LEMMA RepoRefusedKeeps ==
    ASSUME IInv, NEW s \in Requests, NEW r \in Asked, RepoRefused(s, r)
    PROVE  IInv'
<1>1. TypeOK /\ CacheFollows /\ Slot(s) BY IInvBySlots
<1> PICK key : key = <<"repo", r>> OBVIOUS
<1> PICK low : low = limited' OBVIOUS
<1>2. /\ req[s].pc = "getting" /\ Noted /\ Upset
      /\ req' = [req EXCEPT ![s].pc = "not_found"]
      /\ gaps' = gaps \cup {<<s, key>>}
      /\ cache' = cache /\ work' = work /\ free' = free /\ files' = files
  BY DEF RepoRefused
<1>3. Sending(s, FALSE, low) BY DEF RepoRefused
<1>4. key \in Keys /\ gaps' \subseteq (Requests \X Keys)
  <2>1. key \in Keys BY KeysAre, DiscoveryAssumption
  <2>2. gaps \subseteq (Requests \X Keys) BY <1>1 DEF TypeOK
  <2>. QED BY <1>2, <2>1, <2>2
<1>5. CacheFollows' BY <1>1, <1>2, CacheStays
<1>6. cache' \in CacheType BY <1>1, <1>2 DEF TypeOK, CacheType
<1>7. Around BY <1>1, <1>2, <1>4, <1>5, <1>6, NotedFits, UpsetFits DEF Around
<1>8. req \in [Requests -> ReqType] /\ sent \in [Requests -> Nat]
  BY <1>1 DEF TypeOK, ReqType
<1> PICK q : q = [req[s] EXCEPT !.pc = "not_found"] OBVIOUS
<1>9. q \in ReqType BY <1>8, PcChanges
<1>10. q.pc = "not_found" /\ q.kind = req[s].kind /\ q.top = req[s].top
  BY <1>8 DEF ReqType
<1>11. req' = [req EXCEPT ![s] = q] /\ req'[s] = q BY <1>2, <1>8
<1>12. low \in BOOLEAN BY <1>7 DEF Around
<1>13. /\ sent' \in [Requests -> Nat]
       /\ \A t \in Requests : t # s => sent'[t] <= sent[t]
       /\ sent'[s] <= sent[s]
       /\ ~low => \A t \in Requests : sent'[t] = 0
  BY <1>3, <1>8, <1>12, SendingWorks
<1>14. /\ sent[s] <= 1 /\ req[s].top = {} /\ free[s] = 0
       /\ req[s].kind \in {"analyze", "generate", "get_repo"}
  BY <1>1, <1>2 DEF Slot, RequestFollows
<1>15. sent'[s] <= 1 BY <1>8, <1>13, <1>14
<1>16. Quietly(s, q) BY <1>2, <1>11, <1>13, <1>15 DEF Quietly
<1>17. RequestFollows(s)' BY <1>2, <1>10, <1>11, <1>14, <1>15 DEF RequestFollows
<1>18. Missed(s)' BY <1>10, <1>11 DEF Missed
<1>. QED BY <1>7, <1>9, <1>16, <1>17, <1>18, QuietStep

LEMMA ScanEndsKeeps ==
    ASSUME IInv, NEW s \in Requests, ScanEnds(s)
    PROVE  IInv'
<1>1. TypeOK /\ CacheFollows /\ StubsSayWhatIsThere /\ Slot(s) BY IInvBySlots
<1>2. /\ req[s].pc = "analysing" /\ req[s].kind = "scan"
      /\ cache' = cache /\ limited' = limited /\ swings' = swings /\ work' = work
      /\ free' = free /\ files' = files /\ gaps' = gaps /\ sent' = sent /\ upsets' = upsets
  BY DEF ScanEnds, Analysed
<1>3. PICK shown \in SUBSET req[s].seen :
        req' = [req EXCEPT ![s].pc = "done", ![s].shown = shown]
  BY DEF ScanEnds, Best
<1>4. req \in [Requests -> ReqType] BY <1>1 DEF TypeOK, ReqType
<1> PICK q : q = [[req[s] EXCEPT !.pc = "done"] EXCEPT !.shown = shown] OBVIOUS
<1>5. shown \in SUBSET Repos BY <1>4 DEF ReqType
<1>6. /\ q \in ReqType /\ q.pc = "done" /\ q.kind = "scan" /\ q.top = req[s].top
      /\ q.query = req[s].query /\ q.seen = req[s].seen
  BY <1>2, <1>4, <1>5 DEF ReqType
<1>7. req' = [req EXCEPT ![s] = q] /\ req'[s] = q BY <1>3, <1>4
<1>8. upsets' \in 0..MaxUpsets
      /\ files' \subseteq ({Slug[r] : r \in Repos} \X StubKinds \X Repos)
  BY <1>1, <1>2 DEF TypeOK
<1>9. StubsSayWhatIsThere'
  <2>1. sent \in [Requests -> Nat] /\ (~limited => \A t \in Requests : sent[t] = 0)
    BY DEF IInv, TypeOK, RoomFollows
  <2>3. \A t \in Requests \ {s} : req'[t] = req[t] BY <1>4, <1>7
  <2>4. \A t \in Requests : sent'[t] <= sent[t] BY <1>2, <2>1
  <2>2. Apart(s) BY <1>2, <2>1, <2>3, <2>4 DEF Apart
  <2>. QED BY <1>1, <1>2, <1>6, <1>7, <2>2, StubsStay
<1>10. RequestFollows(s)' BY <1>6, <1>7 DEF RequestFollows
<1>11. Missed(s)'
  <2>1. Missed(s) BY <1>1 DEF Slot
  <2>. QED BY <1>2, <1>6, <1>7, <2>1 DEF Missed
<1>. QED BY <1>2, <1>6, <1>7, <1>8, <1>9, <1>10, <1>11, RecordChanges

LEMMA ExpireKeeps ==
    ASSUME IInv, NEW key \in Expiring, Expire(key)
    PROVE  IInv'
<1>1. TypeOK /\ CacheFollows /\ StubsSayWhatIsThere BY IInvBySlots
<1>2. /\ cache' = [cache EXCEPT ![key] = "none"]
      /\ limited' = limited /\ swings' = swings /\ req' = req /\ work' = work
      /\ free' = free /\ files' = files /\ gaps' = gaps /\ sent' = sent
  BY DEF Expire
<1>3. cache \in CacheType BY <1>1 DEF TypeOK, CacheType
<1>4. cache' \in CacheType /\ \A k \in Keys : cache'[k] = "bad" => cache[k] = "bad"
  BY <1>2, <1>3 DEF CacheType
<1>5. CacheFollows' BY <1>1, <1>2, <1>4, CacheStays
<1>6. upsets' \in 0..MaxUpsets
  <2>1. Upset BY DEF Expire, Upset
  <2>. QED BY <1>1, <2>1, UpsetFits
<1>7. TypeOK' BY <1>1, <1>2, <1>4, <1>6 DEF TypeOK, CacheType
<1>8. StubsSayWhatIsThere' BY <1>1, <1>2 DEF StubsSayWhatIsThere, RefusedOnce
<1>9. \A s \in Requests : Slot(s)'
  <2>1. sent \in [Requests -> Nat] /\ (~limited => \A t \in Requests : sent[t] = 0)
    BY DEF IInv, TypeOK, RoomFollows
  <2>2. \A s \in Requests : Slot(s) BY IInvBySlots
  <2>. QED BY <1>1, <1>2, <2>1, <2>2, OthersStay
<1>. QED BY <1>5, <1>7, <1>8, <1>9 DEF IInv, Slot, MissedWasRefused, Missed

\* A stub is written of what the analysis saw: all of it, unless the README
\* was refused or the analysis skipped.
LEMMA WrittenStub ==
    ASSUME IInv, NEW s \in Requests, NEW r \in Repos, r \in req[s].top,
           req[s].pc = "analysing", work[s][r].end # "open"
    PROVE  \/ StubKind(Capabilities(r, work[s][r])) =
               StubKind({c \in {"api", "sdk", "mcp"} : Confidence(r, "good")[c] > 0})
           \/ RefusedOnce(<<"readme", r>>)
           \/ work[s][r].end = "skipped"
<1>1. TypeOK /\ RequestFollows(s) /\ WorkFollows(s, r) BY DEF IInv
<1> PICK w : w = work[s][r] OBVIOUS
<1>2. w \in WorkType BY <1>1 DEF TypeOK, WorkType
<1>3. w.end \in {"analysed", "skipped"} BY <1>1, <1>2 DEF RequestFollows, WorkType, Ends
<1>4. 2 \in 1..Last /\ Stages[2] = "readme" BY FourStages
<1>5. CASE w.end = "analysed"
  <2>1. w.got[2] # "none"
    <3>1. \A j \in 1..Last : work[s][r].end = "analysed" =>
            work[s][r].got[j] # "none" \/ (j = 1 /\ About[r].listed)
      BY <1>1 DEF WorkFollows
    <3>2. 2 # 1 OBVIOUS
    <3>. QED BY <1>4, <1>5, <3>1, <3>2
  <2>2. w.got[2] \in {"none", "good", "bad"} BY <1>2, <1>4 DEF WorkType
  <2>3. w.got[2] = "bad" => RefusedOnce(<<"readme", r>>) BY <1>1, <1>4 DEF WorkFollows
  <2>4. w.got[2] = "good" =>
          Capabilities(r, w) = {c \in {"api", "sdk", "mcp"} : Confidence(r, "good")[c] > 0}
    BY <1>5 DEF Capabilities
  <2>. QED BY <2>1, <2>2, <2>3, <2>4
<1>. QED BY <1>3, <1>5

LEMMA RepoEndsKeeps ==
    ASSUME IInv, NEW s \in Requests, NEW r \in Asked, RepoEnds(s, r)
    PROVE  IInv'
<1>1. TypeOK /\ CacheFollows /\ StubsSayWhatIsThere /\ Slot(s) BY IInvBySlots
<1>2. /\ req[s].pc = "analysing" /\ req[s].kind \in {"analyze", "generate"}
      /\ req[s].top = {r} /\ work[s][r].end # "open" /\ r \in Repos
      /\ req' = [req EXCEPT ![s].pc = "done", ![s].shown = {r}]
      /\ files' = IF req[s].kind = "generate" THEN Written(s, r) ELSE files
      /\ cache' = cache /\ limited' = limited /\ swings' = swings /\ work' = work
      /\ free' = free /\ gaps' = gaps /\ sent' = sent /\ upsets' = upsets
  BY DiscoveryAssumption DEF RepoEnds, RepoOver, Analysed
<1>3. req \in [Requests -> ReqType] BY <1>1 DEF TypeOK, ReqType
<1> PICK q : q = [[req[s] EXCEPT !.pc = "done"] EXCEPT !.shown = {r}] OBVIOUS
<1>4. /\ q \in ReqType /\ q.pc = "done" /\ q.kind = req[s].kind /\ q.top = req[s].top
  BY <1>2, <1>3 DEF ReqType
<1>5. req' = [req EXCEPT ![s] = q] /\ req'[s] = q BY <1>2, <1>3
<1>6. upsets' \in 0..MaxUpsets BY <1>1, <1>2 DEF TypeOK
<1> PICK kind : kind = StubKind(Capabilities(r, work[s][r])) OBVIOUS
<1>7. kind \in StubKinds BY DEF StubKind, StubKinds
<1>8. ASSUME NEW f \in files', f \notin files
      PROVE  f = <<Slug[r], kind, r>> /\ req[s].kind = "generate"
  BY <1>2, <1>8 DEF Written
<1>9. files' \subseteq ({Slug[x] : x \in Repos} \X StubKinds \X Repos)
  <2>1. files \subseteq ({Slug[x] : x \in Repos} \X StubKinds \X Repos) BY <1>1 DEF TypeOK
  <2>2. <<Slug[r], kind, r>> \in ({Slug[x] : x \in Repos} \X StubKinds \X Repos)
    BY <1>2, <1>7
  <2>. QED BY <1>8, <2>1, <2>2
<1>10. StubsSayWhatIsThere'
  <2> SUFFICES ASSUME NEW f \in files'
               PROVE  \/ f[2] = StubKind({c \in {"api", "sdk", "mcp"} : Confidence(f[3], "good")[c] > 0})
                      \/ RefusedOnce(<<"readme", f[3]>>)'
                      \/ \E t \in Requests : req'[t].kind = "generate" /\ work'[t][f[3]].end = "skipped"
    BY DEF StubsSayWhatIsThere
  <2>1. \A t \in Requests : req'[t].kind = req[t].kind BY <1>3, <1>4, <1>5
  <2>2. CASE f \in files
    <3>1. \/ f[2] = StubKind({c \in {"api", "sdk", "mcp"} : Confidence(f[3], "good")[c] > 0})
          \/ RefusedOnce(<<"readme", f[3]>>)
          \/ \E t \in Requests : req[t].kind = "generate" /\ work[t][f[3]].end = "skipped"
      BY <1>1, <2>2 DEF StubsSayWhatIsThere
    <3>2. RefusedOnce(<<"readme", f[3]>>) => RefusedOnce(<<"readme", f[3]>>)'
      BY <1>2, RefusalsStay
    <3>. QED BY <1>2, <2>1, <3>1, <3>2
  <2>3. CASE f \notin files
    <3>1. f[2] = kind /\ f[3] = r /\ req[s].kind = "generate" BY <1>8, <2>3
    <3>2. r \in req[s].top BY <1>2
    <3>3. \/ kind = StubKind({c \in {"api", "sdk", "mcp"} : Confidence(r, "good")[c] > 0})
          \/ RefusedOnce(<<"readme", r>>)
          \/ work[s][r].end = "skipped"
      BY <1>2, <3>2, WrittenStub
    <3>4. RefusedOnce(<<"readme", r>>) => RefusedOnce(<<"readme", r>>)'
      BY <1>2, RefusalsStay
    <3>. QED BY <1>2, <2>1, <3>1, <3>3, <3>4
  <2>. QED BY <2>2, <2>3
<1>11. RequestFollows(s)' BY <1>2, <1>4, <1>5 DEF RequestFollows
<1>12. Missed(s)' BY <1>2, <1>4, <1>5 DEF Missed
<1>. QED BY <1>2, <1>4, <1>5, <1>6, <1>9, <1>10, <1>11, <1>12, RecordChanges

(* The invariant *)

LEMMA InitFits ==
    ASSUME Init
    PROVE  IInv
<1>1. Queued.at = 0 /\ Queued.end = "open" /\ \A j \in 1..Last : Queued.got[j] = "none"
  BY DEF Queued
<1>2. Idle \in ReqType /\ Idle.kind = "none" /\ Idle.pc = "idle" /\ Idle.top = {}
  BY QueriesAre DEF Idle, Request, ReqType
<1>3. /\ cache = [key \in Keys |-> "none"] /\ limited = FALSE
      /\ req = [s \in Requests |-> Idle]
      /\ work = [s \in Requests |-> [r \in Repos |-> Queued]]
      /\ free = [s \in Requests |-> 0] /\ files = {} /\ gaps = {}
      /\ sent = [s \in Requests |-> 0] /\ swings = 0 /\ upsets = 0
  BY DEF Init
<1>4. TypeOK
  <2>1. req \in [Requests -> ReqType] BY <1>2, <1>3
  <2>2. work \in [Requests -> [Repos -> WorkType]] BY <1>3, QueuedFits
  <2>3. cache \in CacheType BY <1>3 DEF CacheType
  <2>4. /\ free \in [Requests -> 0..Concurrency] /\ sent \in [Requests -> Nat]
        /\ swings \in 0..MaxSwings /\ upsets \in 0..MaxUpsets
    BY <1>3, DiscoveryAssumption
  <2>. QED BY <1>3, <2>1, <2>2, <2>3, <2>4 DEF TypeOK, ReqType, WorkType, CacheType
<1>5. CacheFollows BY <1>3 DEF CacheFollows
<1>6. StubsSayWhatIsThere BY <1>3 DEF StubsSayWhatIsThere
<1>7. ASSUME NEW s \in Requests PROVE Slot(s)
  <2>1. req[s] = Idle /\ free[s] = 0 /\ sent[s] = 0 /\ \A r \in Repos : work[s][r] = Queued
    BY <1>3
  <2>2. RequestFollows(s) BY <1>2, <2>1 DEF RequestFollows
  <2>3. \A r \in Repos : WorkFollows(s, r)
    <3>1. \A j \in 1..Last : ~(j < 0) BY FourStages
    <3>. QED BY <1>1, <2>1, <3>1 DEF WorkFollows
  <2>4. Missed(s) BY <1>2, <2>1 DEF Missed
  <2>5. RoomFollows(s)
    <3>1. \A k : Waiting(s, k) = {} BY <1>2, <2>1 DEF Waiting, Inside
    <3>2. /\ Waiting(s, Last) = {} /\ Waiting(s, 1) = {}
          /\ Waiting(s, 2) = {} /\ Waiting(s, 3) = {}
      BY <3>1
    <3>3. IsFiniteSet({}) /\ Cardinality({}) = 0 BY FS_EmptySet
    <3>4. Room(s) \in Nat BY DiscoveryAssumption DEF Room
    <3>5. IsFiniteSet(Waiting(s, Last)) BY <3>2, <3>3
    <3>6. Cardinality(Waiting(s, Last)) + free[s] <= Room(s) BY <2>1, <3>2, <3>3, <3>4
    <3>7. sent[s] + Cardinality(Waiting(s, 1)) + Cardinality(Waiting(s, 2))
            + Cardinality(Waiting(s, 3)) <= 3 * Room(s)
      <4>1. /\ Cardinality(Waiting(s, 1)) = 0 /\ Cardinality(Waiting(s, 2)) = 0
            /\ Cardinality(Waiting(s, 3)) = 0
        BY <3>2, <3>3
      <4>2. 0 <= 3 * Room(s) BY <3>4
      <4>. QED BY <2>1, <4>1, <4>2
    <3>. QED BY <2>1, <3>5, <3>6, <3>7 DEF RoomFollows
  <2>. QED BY <2>2, <2>3, <2>4, <2>5 DEF Slot
<1>. QED BY <1>4, <1>5, <1>6, <1>7, IInvBySlots

LEMMA StutterKeeps ==
    ASSUME IInv, UNCHANGED vars
    PROVE  IInv'
<1>1. /\ cache' = cache /\ limited' = limited /\ req' = req /\ work' = work /\ free' = free
      /\ files' = files /\ gaps' = gaps /\ sent' = sent /\ swings' = swings
      /\ upsets' = upsets
  BY DEF vars
<1>2. TypeOK' BY <1>1 DEF IInv, TypeOK
<1>3. CacheFollows' BY <1>1 DEF IInv, CacheFollows, RefusedOnce
<1>4. StubsSayWhatIsThere' BY <1>1 DEF IInv, StubsSayWhatIsThere, RefusedOnce
<1>5. \A s \in Requests : Slot(s)'
  <2>1. TypeOK /\ \A s \in Requests : Slot(s) BY IInvBySlots
  <2>2. sent \in [Requests -> Nat] /\ (~limited => \A t \in Requests : sent[t] = 0)
    BY DEF IInv, TypeOK, RoomFollows
  <2>. QED BY <1>1, <2>1, <2>2, OthersStay
<1>. QED BY <1>2, <1>3, <1>4, <1>5 DEF IInv, Slot, MissedWasRefused, Missed

LEMMA NextKeeps ==
    ASSUME IInv, [Next]_vars
    PROVE  IInv'
<1>1. ASSUME NEW s \in Requests, Begin(s) PROVE IInv'
  BY <1>1, BeginScanKeeps, BeginSearchKeeps, BeginRepoKeeps DEF Begin
<1>2. ASSUME NEW s \in Requests, Answer(s) PROVE IInv'
  <2>1. SearchRaises(s) => req[s].pc \in {"searching", "getting"} /\ Raises(s)
    BY DEF SearchRaises
  <2>2. RepoRaises(s) => req[s].pc \in {"searching", "getting"} /\ Raises(s)
    BY DEF RepoRaises
  <2>. QED BY <1>2, <2>1, <2>2, SearchAnsweredKeeps, SearchRefusedKeeps, RaisesKeeps,
              RepoAnsweredKeeps, RepoRefusedKeeps DEF Answer
<1>3. ASSUME NEW s \in Requests, End(s) PROVE IInv'
  BY <1>3, ScanEndsKeeps, RepoEndsKeeps DEF End
<1>4. ASSUME NEW s \in Requests, Step(s) PROVE IInv'
  BY <1>2, <1>3, <1>4, BeginsKeeps, StageAnswerKeeps DEF Step
<1>5. ASSUME NEW key \in Expiring, Expire(key) PROVE IInv'
  BY <1>5, ExpireKeeps
<1>. QED BY <1>1, <1>4, <1>5, StutterKeeps DEF Next

-----------------------------------------------------------------------------
(* The theorems *)

\* Whatever GitHub answers, refuses or leaves unanswered, and in whatever order
\* it does, requests, analyses, cache and semaphores fit together as IInv says.
THEOREM DiscoveryFits == Spec => []IInv
BY InitFits, NextKeeps, PTL DEF Spec

\* In particular a semaphore never counts below nothing or above its initial
\* value, whichever of its analyses raises, is skipped or runs to its end.
THEOREM DiscoveryTyped == Spec => []TypeOK
<1>1. IInv => TypeOK BY DEF IInv
<1>. QED BY <1>1, DiscoveryFits, PTL

\* Whatever an analysed candidate lacks was refused by GitHub to some request,
\* and nothing is offered for automatic integration without a licence GitHub
\* named that allows it (_deep_analyze, auto_integrable).
THEOREM AnalysesAreRight == Spec => []AnalysisIsRight
<1>1. ASSUME IInv, NEW s \in Requests, NEW r \in Repos, NEW w, w = work[s][r]
      PROVE  /\ w.end = "analysed" =>
                  /\ LicenceCategory(r, w) # About[r].licence => RefusedOnce(<<"licence", r>>)
                  /\ Confidence(r, w.got[2]) # Confidence(r, "good") =>
                       RefusedOnce(<<"readme", r>>)
                  /\ w.got[4] # "good" => RefusedOnce(<<"release", r>>)
             /\ AutoIntegrable(r, w) =>
                  /\ w.end = "analysed"
                  /\ About[r].listed \/ w.got[1] = "good"
                  /\ \/ About[r].licence = "permissive"
                     \/ AllowGpl /\ About[r].licence \in {"copyleft", "weak_copyleft"}
  <2>1. TypeOK /\ WorkFollows(s, r) BY <1>1 DEF IInv
  <2>2. w \in WorkType BY <1>1, <2>1 DEF TypeOK, WorkType
  <2>3. /\ 1 \in 1..Last /\ 2 \in 1..Last /\ 4 \in 1..Last
        /\ Stages[1] = "licence" /\ Stages[2] = "readme" /\ Stages[4] = "release"
    BY FourStages
  <2>4. \A j \in 1..Last :
          /\ w.got[j] \in {"none", "good", "bad"}
          /\ w.got[j] = "bad" => RefusedOnce(<<Stages[j], r>>)
          /\ w.end = "analysed" => w.got[j] # "none" \/ (j = 1 /\ About[r].listed)
    BY <1>1, <2>1, <2>2 DEF WorkFollows, WorkType
  <2>5. /\ w.end = "analysed" => w.got[2] # "none" /\ w.got[4] # "none"
        /\ w.end = "analysed" => w.got[1] # "none" \/ About[r].listed
    BY <2>3, <2>4
  <2>6. /\ w.got[1] = "bad" => RefusedOnce(<<"licence", r>>)
        /\ w.got[2] = "bad" => RefusedOnce(<<"readme", r>>)
        /\ w.got[4] = "bad" => RefusedOnce(<<"release", r>>)
    BY <2>3, <2>4
  <2>7. w.got[1] \in {"none", "good", "bad"} /\ w.got[2] \in {"none", "good", "bad"}
        /\ w.got[4] \in {"none", "good", "bad"}
    BY <2>3, <2>4
  <2>8. w.end = "analysed" =>
          (LicenceCategory(r, w) # About[r].licence => RefusedOnce(<<"licence", r>>))
    BY <2>5, <2>6, <2>7 DEF LicenceCategory
  <2>9. w.end = "analysed" =>
          (Confidence(r, w.got[2]) # Confidence(r, "good") => RefusedOnce(<<"readme", r>>))
    <3>1. w.got[2] = "good" => Confidence(r, w.got[2]) = Confidence(r, "good") OBVIOUS
    <3>. QED BY <2>5, <2>6, <2>7, <3>1
  <2>10. w.end = "analysed" => (w.got[4] # "good" => RefusedOnce(<<"release", r>>))
    BY <2>5, <2>6, <2>7
  <2>11. AutoIntegrable(r, w) =>
           /\ w.end = "analysed"
           /\ About[r].listed \/ w.got[1] = "good"
           /\ \/ About[r].licence = "permissive"
              \/ AllowGpl /\ About[r].licence \in {"copyleft", "weak_copyleft"}
    BY DEF AutoIntegrable, LicenceCategory
  <2>. QED BY <2>8, <2>9, <2>10, <2>11
<1>2. IInv => AnalysisIsRight BY <1>1 DEF AnalysisIsRight
<1>. QED BY <1>2, DiscoveryFits, PTL

\* A stub written by generate-adapter says what the project shows, unless
\* GitHub refused its README or the analysis was skipped
\* (generate_adapter_source).
THEOREM StubsTellWhatIsThere == Spec => []StubsSayWhatIsThere
<1>1. IInv => StubsSayWhatIsThere BY DEF IInv
<1>. QED BY <1>1, DiscoveryFits, PTL

\* What a search misses was refused to that very request: a refusal another
\* request met is never passed on through the cache (search_repositories).
THEOREM MissesWereRefused == Spec => []MissedWasRefused
<1>1. IInv => MissedWasRefused BY DEF IInv
<1>. QED BY <1>1, DiscoveryFits, PTL

\* Once the limit is seen low, a request sends no more than its running
\* analyses still need, however many candidates wait for the semaphore
\* (_deep_analyze).
THEOREM OverrunIsBounded == Spec => []OverrunBounded
<1>1. ASSUME IInv, NEW s \in Requests
      PROVE  sent[s] <= CASE req[s].kind = "scan" -> (Last - 1) * Concurrency
                          [] req[s].kind \in {"analyze", "generate"} -> Last - 1
                          [] OTHER -> 1
  <2>1. TypeOK /\ RequestFollows(s) /\ RoomFollows(s) BY <1>1 DEF IInv
  <2>2. Last = 4 /\ Concurrency \in Nat BY FourStages, DiscoveryAssumption
  <2>3. sent[s] \in Nat /\ req[s] \in ReqType BY <2>1 DEF TypeOK, ReqType
  <2>4. /\ Cardinality(Waiting(s, 1)) \in Nat /\ Cardinality(Waiting(s, 2)) \in Nat
        /\ Cardinality(Waiting(s, 3)) \in Nat
    BY <2>1, WaitingFinite DEF RoomFollows
  <2>5. Room(s) \in Nat BY <2>2 DEF Room
  <2>6. sent[s] <= 3 * Room(s) BY <2>1, <2>3, <2>4, <2>5 DEF RoomFollows
  <2>7. CASE req[s].kind = "scan"
    <3>1. Room(s) = Concurrency BY <2>7 DEF Room
    <3>2. Last - 1 = 3 BY <2>2
    <3>. QED BY <2>2, <2>6, <2>7, <3>1, <3>2
  <2>8. CASE req[s].kind \in {"analyze", "generate"}
    <3>1. Room(s) = 1 BY <2>8 DEF Room
    <3>. QED BY <2>2, <2>3, <2>6, <2>8, <3>1
  <2>9. CASE req[s].kind \in {"none", "search", "get_repo"}
    BY <2>1, <2>9 DEF RequestFollows
  <2>. QED BY <2>3, <2>7, <2>8, <2>9 DEF ReqType, AllKinds
<1>2. IInv => OverrunBounded BY <1>1 DEF OverrunBounded
<1>. QED BY <1>2, DiscoveryFits, PTL
=============================================================================
