-------------------------- MODULE ModelCallsProofs --------------------------
(***************************************************************************)
(* Proofs about ModelCalls, for every set of providers, every order of     *)
(* fallback and all limits.                                                *)
(***************************************************************************)
EXTENDS ModelCalls, SequenceTheorems, FiniteSetTheorems, WellFoundedInduction, TLAPS

(* Positions in a list of candidates *)

\* A nonempty set of naturals has a least element.
LEMMA LeastExists ==
    ASSUME NEW S \in SUBSET Nat, S # {}
    PROVE  \E j \in S : \A k \in S : j <= k
<1>1. PICK j \in S : \A k \in S : ~(<<k, j>> \in OpToRel(<, Nat))
  BY WFMin, NatLessThanWellFounded
<1>2. \A k \in S : ~(k < j) BY <1>1 DEF OpToRel
<1>. QED BY <1>2

LEMMA NextInIs ==
    ASSUME NEW order \in Seq(Providers), NEW i \in Nat, NEW names
    PROVE  /\ NextIn(order, i, names) \in Places(order, names) \cup {Len(order) + 1}
           /\ NextIn(order, i, names) <= Len(order) => NextIn(order, i, names) >= i
           /\ \A j \in Places(order, names) : j >= i => j >= NextIn(order, i, names)
<1> DEFINE later == {j \in Places(order, names) : j >= i}
<1>1. Len(order) \in Nat /\ Places(order, names) \subseteq 1..Len(order) BY DEF Places
<1>2. CASE later = {}
  <2>1. NextIn(order, i, names) = Len(order) + 1 BY <1>2 DEF NextIn
  <2>. QED BY <1>1, <1>2, <2>1
<1>3. CASE later # {}
  <2>1. later \in SUBSET Nat BY <1>1
  <2>2. \E j \in later : \A k \in later : j <= k BY <1>3, <2>1, LeastExists
  <2>3. NextIn(order, i, names) = CHOOSE j \in later : \A k \in later : j <= k
    BY <1>3 DEF NextIn
  <2>4. /\ NextIn(order, i, names) \in later
        /\ \A k \in later : NextIn(order, i, names) <= k
    BY <2>2, <2>3
  <2>. QED BY <1>1, <2>4
<1>. QED BY <1>2, <1>3

\* Different places hold different names.
LEMMA PlacesDiffer ==
    ASSUME NEW order \in Seq(Providers), NEW names,
           NEW j \in Places(order, names), NEW k \in Places(order, names), order[j] = order[k]
    PROVE  j = k
<1>1. j \in 1..Len(order) /\ k \in 1..Len(order) /\ Len(order) \in Nat BY DEF Places
<1>2. ~(j < k) /\ ~(k < j) BY <1>1 DEF Places
<1>. QED BY <1>1, <1>2

\* Rank orders providers as the candidates of an unpinned call do.
LEMMA RankIsPlace ==
    ASSUME TypeOK
    PROVE  LET order == Candidates(None)
           IN  /\ \A p \in Providers : Rank(p) \in Nat
               /\ \A j \in Places(order, Providers) : Rank(order[j]) = j - 1
               /\ \A p \in Providers : Rank(p) < Len(order) =>
                    Rank(p) + 1 \in Places(order, Providers) /\ order[Rank(p) + 1] = p
<1> DEFINE places(p) == {i \in 1..Len(settings.order) : settings.order[i] = p}
           least(p) == CHOOSE i \in places(p) : \A j \in places(p) : i <= j
<1> PICK order : order = Candidates(None) OBVIOUS
<1>0. order = <<settings.default>> \o settings.order BY DEF Candidates
<1>1. /\ settings.default \in Providers /\ settings.order \in Seq(Providers)
      /\ Len(settings.order) \in Nat
  BY ProvidersAssumption DEF TypeOK
<1>2. /\ order \in Seq(Providers) /\ Len(order) = Len(settings.order) + 1
      /\ order[1] = settings.default
      /\ \A i \in 1..Len(settings.order) : order[i + 1] = settings.order[i]
  BY <1>0, <1>1
<1>3. ASSUME NEW p \in Providers, p # settings.default, places(p) # {}
      PROVE  Rank(p) \in places(p) /\ \A j \in places(p) : Rank(p) <= j
  <2>1. places(p) \in SUBSET Nat BY <1>1
  <2>2. \E i \in places(p) : \A j \in places(p) : i <= j BY <1>3, <2>1, LeastExists
  <2>3. Rank(p) = least(p) BY <1>3 DEF Rank
  <2>. QED BY <2>2, <2>3
<1>4. Rank(settings.default) = 0 BY DEF Rank
<1>5. ASSUME NEW p \in Providers, p # settings.default, places(p) = {}
      PROVE  Rank(p) = Len(order)
  BY <1>2, <1>5 DEF Rank
<1>6. \A p \in Providers : Rank(p) \in Nat BY <1>1, <1>2, <1>3, <1>4, <1>5
<1>7. ASSUME NEW j \in Places(order, Providers) PROVE Rank(order[j]) = j - 1
  <2>1. /\ j \in 1..Len(order) /\ order[j] \in Providers
        /\ \A k \in 1..(j - 1) : order[k] # order[j]
    BY <1>7 DEF Places
  <2>2. CASE j = 1 BY <1>2, <1>4, <2>2
  <2>3. CASE j # 1
    <3>1. order[j] # settings.default BY <1>1, <1>2, <2>1, <2>3
    <3>2. j - 1 \in places(order[j]) BY <1>1, <1>2, <2>1, <2>3
    <3>3. /\ Rank(order[j]) \in places(order[j]) /\ Rank(order[j]) <= j - 1
      BY <1>3, <2>1, <3>1, <3>2
    <3>4. PICK i \in 1..Len(settings.order) : i = Rank(order[j]) BY <3>3
    <3>5. settings.order[i] = order[j] BY <3>3, <3>4
    <3>6. order[i + 1] = order[j] BY <1>2, <3>5
    <3>. QED BY <1>1, <1>2, <2>1, <3>3, <3>4, <3>6
  <2>. QED BY <2>2, <2>3
<1>8. ASSUME NEW p \in Providers, Rank(p) < Len(order)
      PROVE  Rank(p) + 1 \in Places(order, Providers) /\ order[Rank(p) + 1] = p
  <2>1. CASE p = settings.default BY <1>1, <1>2, <1>4, <2>1 DEF Places
  <2>2. CASE p # settings.default
    <3>1. places(p) # {} BY <1>1, <1>2, <1>5, <1>8, <2>2
    <3>2. Rank(p) \in places(p) /\ \A j \in places(p) : Rank(p) <= j BY <1>3, <2>2, <3>1
    <3>3. Rank(p) + 1 \in 1..Len(order) /\ order[Rank(p) + 1] = p BY <1>1, <1>2, <3>2
    <3>4. ASSUME NEW k \in 1..Rank(p) PROVE order[k] # p
      <4>1. CASE k = 1 BY <1>2, <2>2, <4>1
      <4>2. CASE k # 1
        <5>1. k - 1 \in 1..Len(settings.order) /\ k - 1 < Rank(p) BY <1>1, <3>2, <4>2
        <5>2. k - 1 \notin places(p) BY <3>2, <5>1
        <5>3. settings.order[k - 1] # p BY <5>1, <5>2
        <5>. QED BY <1>2, <5>1, <5>3
      <4>. QED BY <4>1, <4>2
    <3>. QED BY <1>1, <3>2, <3>3, <3>4 DEF Places
  <2>. QED BY <2>1, <2>2
<1>. QED BY <1>2, <1>6, <1>7, <1>8

\* What _candidate_names returns; its first name is the one a model is meant for.
LEMMA CandidatesAre ==
    ASSUME TypeOK, NEW pinned \in Providers \cup {None}
    PROVE  /\ Candidates(pinned) \in Seq(Providers) /\ Len(Candidates(pinned)) \in Nat \ {0}
           /\ Candidates(pinned)[1] = IF pinned # None THEN pinned ELSE settings.default
<1>1. settings.default \in Providers /\ settings.order \in Seq(Providers)
  BY ProvidersAssumption DEF TypeOK
<1>2. CASE pinned # None BY <1>2 DEF Candidates
<1>3. CASE pinned = None BY <1>1, <1>3 DEF Candidates
<1>. QED BY <1>2, <1>3

-----------------------------------------------------------------------------
(* The history of requests *)

OrderAt(s, j) ==
    /\ s[j].provider \in settings.configured
    /\ IF s[j].kind = "step" /\ profile.provider # None
       THEN s[j].provider = profile.provider /\ Before(s, j) = {}
       ELSE Before(s, j) = {q \in settings.configured : Rank(q) < Rank(s[j].provider)}

HomeAt(s, i) ==
    s[i].kind = "step" /\ s[i].model =>
        s[i].provider = IF profile.provider # None THEN profile.provider ELSE settings.default

\* A later request does not change what came before an earlier one.
LEMMA BeforeStays ==
    ASSUME NEW s \in Seq(Request), NEW e \in Request, NEW j \in 1..Len(s)
    PROVE  Append(s, e)[j] = s[j] /\ Before(Append(s, e), j) = Before(s, j)
<1>1. /\ Len(s) \in Nat /\ Len(Append(s, e)) = Len(s) + 1
      /\ \A i \in 1..Len(s) : Append(s, e)[i] = s[i]
  BY AppendProperties
<1>2. ASSUME NEW q PROVE q \in Before(Append(s, e), j) <=> q \in Before(s, j)
  <2>1. \A k : k \in 1..Len(s) + 1 /\ k < j <=> k \in 1..Len(s) /\ k < j BY <1>1
  <2>. QED BY <1>1, <2>1 DEF Before
<1>. QED BY <1>1, <1>2

\* All requests are of one call, with this many attempts left or more.
TriesOf(kind, left) ==
    \A i \in 1..Len(tries) :
        /\ tries[i].kind = kind /\ tries[i].left >= left
        /\ tries[i].left \in 1..(IF kind = "step" THEN MaxRetries + 1 ELSE 1)

HistoryOK == tries \in Seq(Request) /\ InOrder /\ ModelStaysHome

\* The request that is out next fits the history.
LEMMA NextRequestFits ==
    ASSUME IInv, Asking, NEW status \in Statuses \cup {200}, NEW e,
           e = [kind |-> call.kind, provider |-> Asked, model |-> ModelGiven,
                status |-> status, left |-> call.left]
    PROVE  /\ e \in Request /\ e.kind = call.kind /\ e.left = call.left /\ e.provider = Asked
           /\ e.left \in 1..(IF e.kind = "step" THEN MaxRetries + 1 ELSE 1)
           /\ e.kind = "step" /\ e.model =>
                e.provider = IF profile.provider # None THEN profile.provider ELSE settings.default
           /\ e.provider \in settings.configured
           /\ LET before == {q \in Providers : \E i \in 1..Len(tries) :
                               tries[i].left = e.left /\ tries[i].provider = q}
              IN  IF e.kind = "step" /\ profile.provider # None
                  THEN e.provider = profile.provider /\ before = {}
                  ELSE before = {q \in settings.configured : Rank(q) < Rank(e.provider)}
<1> DEFINE pin == IF call.kind = "step" THEN profile.provider ELSE None
           order == call.order
           usable == Places(order, settings.configured)
           before == {q \in Providers : \E i \in 1..Len(tries) :
                        tries[i].left = e.left /\ tries[i].provider = q}
<1>1. TypeOK /\ CallFollows BY DEF IInv
<1>2. /\ call.kind \in {"plan", "step", "replan"} /\ call.model \in BOOLEAN
      /\ profile.provider \in Providers \cup {None} /\ settings.configured \subseteq Providers
      /\ order \in Seq(Providers) /\ call.at \in Nat
  BY <1>1 DEF TypeOK, Asking
<1>3. /\ order = Candidates(pin) /\ call.at <= Len(order)
      /\ call.at \in usable \cup {Len(order) + 1}
      /\ call.left \in 1..(IF call.kind = "step" THEN MaxRetries + 1 ELSE 1)
      /\ \A p \in Providers :
           (\E i \in 1..Len(tries) : tries[i].left = call.left /\ tries[i].provider = p)
           <=> (\E j \in usable : j < call.at /\ order[j] = p)
  BY <1>1 DEF CallFollows, Asking
<1>4. call.at \in usable /\ usable \subseteq 1..Len(order) /\ Len(order) \in Nat
  BY <1>2, <1>3 DEF Places
<1>5. Asked \in settings.configured BY <1>4 DEF Places, Asked
<1>6. /\ e.kind = call.kind /\ e.left = call.left /\ e.provider = Asked
      /\ e.model = ModelGiven /\ e.status = status
  OBVIOUS
<1>7. e \in Request
  <2>1. call.left \in Nat BY <1>3, BoundsAssumption
  <2>2. ModelGiven \in BOOLEAN BY <1>2 DEF ModelGiven
  <2>. QED BY <1>2, <1>5, <2>1, <2>2 DEF Request
<1>8. pin \in Providers \cup {None} BY <1>2
<1>9. order[1] = IF pin # None THEN pin ELSE settings.default
  BY <1>1, <1>3, <1>8, CandidatesAre
<1>10. ASSUME e.kind = "step", e.model
       PROVE  e.provider = IF profile.provider # None THEN profile.provider ELSE settings.default
  <2>1. ModelGiven BY <1>6, <1>10
  <2>2. call.at = 1 BY <2>1 DEF ModelGiven
  <2>3. call.kind = "step" BY <1>6, <1>10
  <2>. QED BY <1>6, <1>9, <2>2, <2>3 DEF Asked
<1>11. \A q : q \in before <=> \E j \in usable : j < call.at /\ order[j] = q
  <2>1. \A j \in usable : order[j] \in Providers BY <1>2 DEF Places
  <2>. QED BY <1>3, <1>6, <2>1
<1>12. CASE pin # None
  <2>1. Len(order) = 1 /\ order[1] = pin BY <1>3, <1>12 DEF Candidates
  <2>2. call.at = 1 /\ \A j \in usable : j = 1 BY <1>4, <2>1
  <2>3. e.provider = pin BY <1>6, <2>1, <2>2 DEF Asked
  <2>4. before = {} BY <1>11, <2>2
  <2>5. e.kind = "step" /\ profile.provider # None /\ profile.provider = pin BY <1>6, <1>12
  <2>. QED BY <1>3, <1>5, <1>6, <1>7, <1>10, <2>3, <2>4, <2>5
<1>13. CASE pin = None
  <2>1. PICK names : names = Candidates(None) OBVIOUS
  <2>2. /\ \A p \in Providers : Rank(p) \in Nat
        /\ \A j \in Places(names, Providers) : Rank(names[j]) = j - 1
        /\ \A p \in Providers : Rank(p) < Len(names) =>
             Rank(p) + 1 \in Places(names, Providers) /\ names[Rank(p) + 1] = p
    BY <1>1, <2>1, RankIsPlace
  <2>0. names = order BY <1>3, <1>13, <2>1
  <2>3. usable = {j \in Places(names, Providers) : names[j] \in settings.configured}
    BY <1>2, <2>0 DEF Places
  <2>4. Rank(e.provider) = call.at - 1
    BY <1>4, <1>6, <2>0, <2>2, <2>3 DEF Asked
  <2>5. ASSUME NEW q PROVE q \in before <=> q \in settings.configured /\ Rank(q) < Rank(e.provider)
    <3>1. ASSUME q \in before PROVE q \in settings.configured /\ Rank(q) < Rank(e.provider)
      <4>1. PICK j \in usable : j < call.at /\ order[j] = q BY <1>11, <3>1
      <4>2. Rank(q) = j - 1 /\ q \in settings.configured BY <2>0, <2>2, <2>3, <4>1
      <4>. QED BY <1>4, <2>4, <4>1, <4>2
    <3>2. ASSUME q \in settings.configured, Rank(q) < Rank(e.provider) PROVE q \in before
      <4>1. q \in Providers /\ Rank(q) \in Nat BY <1>2, <2>2, <3>2
      <4>2. Rank(q) < Len(names) BY <1>4, <2>0, <2>4, <3>2, <4>1
      <4>3. Rank(q) + 1 \in usable /\ order[Rank(q) + 1] = q BY <2>0, <2>2, <2>3, <3>2, <4>1, <4>2
      <4>4. Rank(q) + 1 < call.at BY <1>4, <2>4, <3>2, <4>1
      <4>. QED BY <1>11, <4>3, <4>4
    <3>. QED BY <3>1, <3>2
  <2>6. before = {q \in settings.configured : Rank(q) < Rank(e.provider)} BY <2>5
  <2>7. ~(e.kind = "step" /\ profile.provider # None) BY <1>6, <1>13
  <2>. QED BY <1>3, <1>5, <1>6, <1>7, <1>10, <2>6, <2>7
<1>. QED BY <1>12, <1>13

\* A request that is made.
LEMMA TryKeeps ==
    ASSUME IInv, Asking, NEW status \in Statuses \cup {200}, Try(status),
           UNCHANGED <<settings, profile>>,
           NEW kind, kind = call.kind, NEW left, left = call.left, NEW asked, asked = Asked
    PROVE  /\ HistoryOK' /\ TriesOf(kind, left)'
           /\ Len(tries) \in Nat /\ Len(tries') = Len(tries) + 1
           /\ \A i \in 1..Len(tries) : tries'[i] = tries[i]
           /\ tries'[Len(tries) + 1].left = left
           /\ tries'[Len(tries) + 1].provider = asked
<1> DEFINE e == [kind |-> call.kind, provider |-> Asked, model |-> ModelGiven,
                 status |-> status, left |-> call.left]
<1>2. /\ e \in Request /\ e.kind = call.kind /\ e.left = call.left /\ e.provider = Asked
      /\ e.left \in 1..(IF e.kind = "step" THEN MaxRetries + 1 ELSE 1)
      /\ e.kind = "step" /\ e.model =>
           e.provider = IF profile.provider # None THEN profile.provider ELSE settings.default
      /\ e.provider \in settings.configured
      /\ LET before == {q \in Providers : \E i \in 1..Len(tries) :
                          tries[i].left = e.left /\ tries[i].provider = q}
         IN  IF e.kind = "step" /\ profile.provider # None
             THEN e.provider = profile.provider /\ before = {}
             ELSE before = {q \in settings.configured : Rank(q) < Rank(e.provider)}
  BY NextRequestFits
<1>3. tries \in Seq(Request) /\ call.kind # None BY DEF IInv, TypeOK, Asking
<1>4. tries' = Append(tries, e) BY DEF Try
<1> HIDE DEF e
<1>5. /\ Len(tries) \in Nat /\ Len(tries') = Len(tries) + 1 /\ tries' \in Seq(Request)
      /\ \A i \in 1..Len(tries) : tries'[i] = tries[i]
      /\ tries'[Len(tries) + 1] = e
  BY <1>2, <1>3, <1>4, AppendProperties
<1>6. TriesOf(kind, left)'
  <2>1. \A i \in 1..Len(tries) :
          /\ tries[i].kind = kind /\ tries[i].left >= left
          /\ tries[i].left \in 1..(IF kind = "step" THEN MaxRetries + 1 ELSE 1)
    BY <1>3 DEF IInv, TriesFollow
  <2>2. e.kind = kind /\ e.left >= left
    BY <1>2 DEF Request
  <2>. QED BY <1>2, <1>5, <2>1, <2>2 DEF TriesOf
<1>7. /\ \A p : Rank(p)' = Rank(p)
      /\ settings' = settings /\ profile' = profile
  BY DEF Rank
<1>8. InOrder'
  <2>1. ASSUME NEW j \in 1..Len(tries) PROVE OrderAt(tries, j)'
    <3>1. OrderAt(tries, j) BY DEF IInv, InOrder, OrderAt
    <3>2. tries'[j] = tries[j] /\ Before(tries', j) = Before(tries, j)
      BY <1>2, <1>3, <1>4, BeforeStays
    <3>. QED BY <1>7, <3>1, <3>2 DEF OrderAt
  <2>2. ASSUME NEW n, n = Len(tries) + 1 PROVE OrderAt(tries, n)'
    <3>1. ASSUME NEW q
          PROVE  q \in Before(tries', n) <=>
                 q \in {p \in Providers : \E i \in 1..Len(tries) :
                          tries[i].left = e.left /\ tries[i].provider = p}
      <4>1. \A k : k \in 1..Len(tries') /\ k < n <=> k \in 1..Len(tries)
        BY <1>5, <2>2
      <4>2. \A k \in 1..Len(tries) : tries[k] \in Request BY <1>3, ElementOfSeq
      <4>3. \A k \in 1..Len(tries) : tries[k].provider \in Providers BY <4>2 DEF Request
      <4>. QED BY <1>5, <2>2, <4>1, <4>3 DEF Before
    <3>2. Before(tries', n) = {p \in Providers : \E i \in 1..Len(tries) :
                          tries[i].left = e.left /\ tries[i].provider = p}
      BY <3>1
    <3>. QED BY <1>2, <1>5, <1>7, <2>2, <3>2 DEF OrderAt
  <2>3. \A j \in 1..Len(tries') : OrderAt(tries, j)' BY <1>5, <2>1, <2>2
  <2>. QED BY <2>3 DEF InOrder, OrderAt
<1>9. ModelStaysHome'
  <2>1. \A j \in 1..Len(tries) : HomeAt(tries, j) BY DEF IInv, ModelStaysHome, HomeAt
  <2>2. \A j \in 1..Len(tries') : HomeAt(tries, j)' BY <1>2, <1>5, <1>7, <2>1 DEF HomeAt
  <2>. QED BY <2>2 DEF ModelStaysHome, HomeAt
<1>10. tries'[Len(tries) + 1].left = left /\ tries'[Len(tries) + 1].provider = asked
  BY <1>2, <1>5
<1>. QED BY <1>5, <1>6, <1>8, <1>9, <1>10 DEF HistoryOK

\* What the actions leave to say once history and call are settled.
RestOK ==
    /\ settings \in [default: Providers, order: Orders, configured: SUBSET Providers]
    /\ profile \in [provider: Providers \cup {None}, model: BOOLEAN]
    /\ stage \in {"new", "ready", "calling", "answered", "parked", "over"}
    /\ steps \in 0..MaxSteps
    /\ replanned \in BOOLEAN
    /\ waited \in BOOLEAN
    /\ events \in Seq(Event)

CallOK ==
    call \in [kind: {None, "plan", "step", "replan"}, order: Seq(Providers),
              at: Nat, model: BOOLEAN, left: 0..MaxRetries + 1]

LEMMA Parts == IInv <=> /\ HistoryOK /\ RestOK /\ CallOK
                        /\ CallFollows /\ TriesFollow /\ SwitchesReported
BY DEF IInv, TypeOK, HistoryOK, RestOK, CallOK

\* No call is in progress any more.
LEMMA CallEnds ==
    ASSUME HistoryOK', RestOK', call' = Idle, NEW kind, NEW left, TriesOf(kind, left)'
    PROVE  IInv'
<1>1. call'.kind = None /\ call'.kind # "step" BY ProvidersAssumption DEF Idle
<1>2. CallOK' BY BoundsAssumption DEF CallOK, Idle
<1>3. CallFollows' /\ SwitchesReported' BY <1>1 DEF CallFollows, SwitchesReported
<1>4. TriesFollow' BY <1>1 DEF TriesFollow, TriesOf
<1>. QED BY <1>2, <1>3, <1>4 DEF HistoryOK, RestOK, CallOK, IInv, TypeOK


\* An attempt starts: nothing was asked yet with so few attempts left.
LEMMA AttemptStarts ==
    ASSUME TypeOK, HistoryOK', RestOK', UNCHANGED <<settings, profile>>,
           NEW kind \in {"plan", "step", "replan"}, NEW model \in BOOLEAN,
           NEW left \in 1..(IF kind = "step" THEN MaxRetries + 1 ELSE 1),
           NEW order, order = Candidates(IF kind = "step" THEN profile.provider ELSE None),
           NEW at, at = NextIn(order, 1, settings.configured),
           TriesOf(kind, left + 1)', events' = <<>>,
           call' = [kind |-> kind, order |-> order, at |-> at, model |-> model, left |-> left]
    PROVE  IInv'
<1> PICK names : names = settings.configured OBVIOUS
<1> DEFINE usable == Places(order, names)
<1>1. /\ order \in Seq(Providers) /\ Len(order) \in Nat /\ settings' = settings
      /\ profile' = profile
  BY CandidatesAre DEF TypeOK
<1>2. /\ at \in usable \cup {Len(order) + 1} /\ usable \subseteq 1..Len(order)
      /\ \A j \in usable : j >= at
  BY <1>1, NextInIs DEF Places
<1>3. kind # None /\ left \in 0..MaxRetries + 1 /\ left \in Nat
  BY ProvidersAssumption, BoundsAssumption
<1>4. CallOK' BY <1>1, <1>2, <1>3 DEF CallOK
<1>5. /\ call'.kind = kind /\ call'.order = order /\ call'.at = at /\ call'.left = left
  OBVIOUS
<1>6. /\ tries' \in Seq(Request) /\ Len(tries') \in Nat
      /\ \A i \in 1..Len(tries') :
           /\ tries'[i].kind = kind /\ tries'[i].left \in Nat /\ tries'[i].left > left
           /\ tries'[i].left \in 1..(IF kind = "step" THEN MaxRetries + 1 ELSE 1)
  <2>1. tries' \in Seq(Request) /\ Len(tries') \in Nat BY DEF HistoryOK
  <2>2. ASSUME NEW i \in 1..Len(tries') PROVE tries'[i].left \in Nat
    <3>1. tries'[i] \in Request BY <2>1, ElementOfSeq
    <3>. QED BY <3>1 DEF Request
  <2>. QED BY <1>3, <2>1, <2>2 DEF TriesOf
<1>7. CallFollows'
  <2>1. Candidates(IF kind = "step" THEN profile.provider ELSE None)' = order
    BY <1>1 DEF Candidates
  <2>2. \A i \in 1..Len(tries') : tries'[i].left # left BY <1>3, <1>6
  <2>3. \A j \in usable : ~(j < at) BY <1>1, <1>2
  <2>. QED BY <1>1, <1>2, <1>5, <2>1, <2>2, <2>3 DEF CallFollows
<1>8. TriesFollow' BY <1>3, <1>5, <1>6 DEF TriesFollow
<1>9. SwitchesReported'
  <2>1. Len(events') = 0 OBVIOUS
  <2>. QED BY <1>3, <1>5, <1>6, <2>1 DEF SwitchesReported
<1>. QED BY <1>4, <1>7, <1>8, <1>9 DEF HistoryOK, RestOK, CallOK, IInv, TypeOK

\* The router raised: the attempt is repeated, or the call is over.
LEMMA RaisedOK ==
    ASSUME IInv, call.kind # None, Raised,
           UNCHANGED <<settings, profile, steps, replanned, waited>>,
           NEW kind, kind = call.kind, NEW left, left = call.left,
           HistoryOK', TriesOf(kind, left)'
    PROVE  IInv'
<1>1. TypeOK /\ CallFollows BY DEF IInv
<1>2. /\ kind \in {"plan", "step", "replan"} /\ call.model \in BOOLEAN
      /\ call.order \in Seq(Providers)
  BY <1>1 DEF TypeOK
<1>3. /\ left \in 1..(IF kind = "step" THEN MaxRetries + 1 ELSE 1)
      /\ call.order = Candidates(IF kind = "step" THEN profile.provider ELSE None)
  BY <1>1 DEF CallFollows
<1>4. left \in Nat BY <1>3, BoundsAssumption
<1>5. CASE left > 1
  <2>1. /\ call' = [call EXCEPT !.at = NextUsable(call.order, 1), !.left = left - 1]
        /\ events' = <<>> /\ stage' = stage
    BY <1>5 DEF Raised
  <2>2. RestOK' BY <1>1, <2>1, EmptySeq DEF RestOK, TypeOK
  <2>3. PICK order, at, model : order = call.order /\ at = NextIn(call.order, 1, settings.configured)
                                /\ model = call.model
    OBVIOUS
  <2>4. call' = [kind |-> kind, order |-> order, at |-> at, model |-> model, left |-> left - 1]
    BY <1>1, <2>1, <2>3 DEF TypeOK, NextUsable
  <2>5. TriesOf(kind, (left - 1) + 1)' BY <1>4
  <2>6. left - 1 \in 1..(IF kind = "step" THEN MaxRetries + 1 ELSE 1)
    BY <1>3, <1>4, <1>5, BoundsAssumption
  <2>7. PICK less : less = left - 1 OBVIOUS
  <2>8. /\ order = Candidates(IF kind = "step" THEN profile.provider ELSE None)
        /\ at = NextIn(order, 1, settings.configured) /\ model \in BOOLEAN
        /\ less \in 1..(IF kind = "step" THEN MaxRetries + 1 ELSE 1)
        /\ TriesOf(kind, less + 1)'
        /\ call' = [kind |-> kind, order |-> order, at |-> at, model |-> model, left |-> less]
    BY <1>2, <1>3, <2>3, <2>4, <2>5, <2>6, <2>7
  <2>9. TypeOK /\ UNCHANGED <<settings, profile>> /\ events' = <<>> BY <1>1, <2>1
  <2>. QED BY <1>2, <2>2, <2>8, <2>9, AttemptStarts
<1>6. CASE ~(left > 1)
  <2>1. call' = Idle /\ events' = events /\ stage' = After(call.kind, FALSE)
    BY <1>6 DEF Raised
  <2>2. RestOK' BY <1>1, <2>1 DEF RestOK, TypeOK, After
  <2>. QED BY <2>1, <2>2, CallEnds
<1>. QED BY <1>5, <1>6

\* The name an event gives: the next in the list, who is the next to be asked if
\* that one is configured.
LEMMA NextNameIs ==
    ASSUME NEW order \in Seq(Providers), NEW at \in Nat, settings.configured \in SUBSET Providers
    PROVE  LET next == NextIn(order, at + 1, settings.configured)
           IN  /\ NextName(order, at) \in Providers \cup {None}
               /\ \/ NextName(order, at) = IF next <= Len(order) THEN order[next] ELSE None
                  \/ NextName(order, at) \in Providers \ settings.configured
<1>1. PICK n, next, start : /\ n = NextIn(order, at + 1, Providers) /\ start = at + 1
                           /\ next = NextIn(order, at + 1, settings.configured)
  OBVIOUS
<1>2. start \in Nat /\ Len(order) \in Nat BY <1>1
<1>3. /\ n \in Places(order, Providers) \cup {Len(order) + 1}
      /\ n <= Len(order) => n >= start
      /\ \A j \in Places(order, Providers) : j >= start => j >= n
  BY <1>1, <1>2, NextInIs
<1>4. /\ next \in Places(order, settings.configured) \cup {Len(order) + 1}
      /\ next <= Len(order) => next >= start
      /\ \A j \in Places(order, settings.configured) : j >= start => j >= next
  BY <1>1, <1>2, NextInIs
<1>5. \A j : j \in Places(order, settings.configured)
             <=> j \in Places(order, Providers) /\ order[j] \in settings.configured
  BY DEF Places
<1>6. NextName(order, at) = IF n <= Len(order) THEN order[n] ELSE None BY <1>1 DEF NextName
<1>7. Places(order, Providers) \subseteq 1..Len(order) BY DEF Places
<1>8. \A j \in Places(order, Providers) : order[j] \in Providers BY DEF Places
<1>9. CASE n > Len(order)
  <2>1. ~(next <= Len(order)) BY <1>2, <1>3, <1>4, <1>5, <1>7, <1>9
  <2>. QED BY <1>1, <1>2, <1>3, <1>6, <1>7, <1>9, <2>1
<1>10. CASE n <= Len(order) /\ order[n] \in settings.configured
  <2>1. n \in Places(order, Providers) BY <1>2, <1>3, <1>10
  <2>2. next <= n BY <1>3, <1>4, <1>5, <1>10, <2>1
  <2>3. next \in Places(order, Providers) /\ next >= start
    BY <1>2, <1>4, <1>5, <1>7, <1>10, <2>1, <2>2
  <2>4. next = n BY <1>2, <1>3, <1>7, <2>1, <2>2, <2>3
  <2>. QED BY <1>1, <1>6, <1>8, <1>10, <2>1, <2>4
<1>11. CASE n <= Len(order) /\ order[n] \notin settings.configured
  <2>1. n \in Places(order, Providers) BY <1>2, <1>3, <1>11
  <2>. QED BY <1>6, <1>8, <1>11, <2>1
<1>. QED BY <1>2, <1>3, <1>7, <1>9, <1>10, <1>11

\* A sequence of events has one more.
Appended(s, event) ==
    /\ Len(s') = Len(s) + 1
    /\ \A i \in 1..Len(s) : s'[i] = s[i]
    /\ s'[Len(s) + 1] = event

\* The client of a step is told of one more failed request.
LEMMA SwitchTold ==
    ASSUME SwitchesReported, Asking, call.kind = "step", call'.kind = "step", call'.kind # None,
           NEW left, left = call.left, call'.left = left,
           NEW asked, asked = Asked, NEW order, NEW next \in Nat,
           call'.order = order, call'.at = next, settings' = settings,
           Len(tries) \in Nat, Len(tries') = Len(tries) + 1,
           \A i \in 1..Len(tries) : tries'[i] = tries[i],
           tries'[Len(tries) + 1].left = left, tries'[Len(tries) + 1].provider = asked,
           NEW event, Appended(events, event), Len(events) \in Nat,
           event.type = "provider_fallback", event.from = asked,
           event.to = (IF next <= Len(order) THEN order[next] ELSE None)
           \/ event.to \in Providers \ settings.configured
    PROVE  SwitchesReported'
<1>1. PICK old : old = Len(tries) - Len(events) OBVIOUS
<1>2. /\ Len(events) <= Len(tries)
      /\ \A i \in 1..Len(tries) : tries[i].left = left <=> i > old
      /\ \A i \in 1..Len(events) :
           /\ events[i].type = "provider_fallback"
           /\ events[i].from = tries[old + i].provider
           /\ events[i].to = Follower(old + i) \/ events[i].to \in Providers \ settings.configured
  BY <1>1 DEF SwitchesReported
<1>3. /\ Len(events') = Len(events) + 1 /\ events'[Len(events) + 1] = event
      /\ \A i \in 1..Len(events) : events'[i] = events[i]
  BY DEF Appended
<1>4. Len(tries') - Len(events') = old /\ old \in Nat BY <1>1, <1>2, <1>3
<1>5. ASSUME NEW i \in 1..Len(tries') PROVE tries'[i].left = left <=> i > old
  <2>1. CASE i \in 1..Len(tries) BY <1>2, <2>1
  <2>2. CASE i = Len(tries) + 1 BY <1>1, <2>2
  <2>. QED BY <2>1, <2>2
<1>6. ASSUME NEW i \in 1..Len(tries) PROVE Follower(i)' = Follower(i)
  <2>1. i < Len(tries') BY <1>6
  <2>2. Follower(i)' = tries'[i + 1].provider BY <2>1 DEF Follower
  <2>3. CASE i < Len(tries)
    <3>1. i + 1 \in 1..Len(tries) BY <2>3
    <3>. QED BY <2>2, <2>3, <3>1 DEF Follower
  <2>4. CASE i = Len(tries) BY <2>2, <2>4 DEF Follower
  <2>. QED BY <2>3, <2>4
<1>7. ASSUME NEW n, n = Len(tries')
      PROVE  Follower(n)' = IF next <= Len(order) THEN order[next] ELSE None
  BY <1>7 DEF Follower, Asking, Asked
<1>8. ASSUME NEW i \in 1..Len(events')
      PROVE  /\ events'[i].type = "provider_fallback"
             /\ events'[i].from = tries'[old + i].provider
             /\ \/ events'[i].to = Follower(old + i)'
                \/ events'[i].to \in Providers \ settings'.configured
  <2>1. PICK j : j = old + i OBVIOUS
  <2>2. CASE i \in 1..Len(events)
    <3>1. j \in 1..Len(tries) BY <1>1, <1>4, <2>1, <2>2
    <3>2. Follower(j)' = Follower(j) BY <1>6, <3>1
    <3>3. events'[i] = events[i] /\ tries'[j] = tries[j] BY <1>3, <2>2, <3>1
    <3>4. /\ events[i].type = "provider_fallback"
          /\ events[i].from = tries[j].provider
          /\ events[i].to = Follower(j) \/ events[i].to \in Providers \ settings.configured
      BY <1>2, <2>1, <2>2
    <3>5. events'[i].to = Follower(j)' \/ events'[i].to \in Providers \ settings'.configured
      BY <3>2, <3>3, <3>4
    <3>. QED BY <2>1, <3>3, <3>4, <3>5 DEF Follower
  <2>3. CASE i = Len(events) + 1
    <3>1. j = Len(tries') BY <1>1, <1>4, <2>1, <2>3
    <3>2. events'[i] = event BY <1>3, <2>3
    <3>3. Follower(j)' = IF next <= Len(order) THEN order[next] ELSE None BY <1>7, <3>1
    <3>4. events'[i].to = Follower(j)' \/ events'[i].to \in Providers \ settings'.configured
      BY <3>2, <3>3
    <3>5. tries'[j].provider = asked BY <3>1
    <3>. QED BY <2>1, <3>2, <3>4, <3>5 DEF Follower
  <2>. QED BY <1>3, <2>2, <2>3
<1>9. Len(events') <= Len(tries') BY <1>2, <1>3
<1>. QED BY <1>4, <1>5, <1>8, <1>9 DEF SwitchesReported

\* The parts of CallFollows, for a call that is known by its values.
LEMMA FollowsFrom ==
    ASSUME NEW kind, NEW left, NEW order, NEW next, NEW usable,
           call'.kind = kind, call'.left = left, call'.order = order, call'.at = next,
           Places(order, settings'.configured) = usable,
           Candidates(IF kind = "step" THEN profile.provider ELSE None)' = order,
           left \in 1..(IF kind = "step" THEN MaxRetries + 1 ELSE 1),
           next \in usable \cup {Len(order) + 1},
           \A p \in Providers :
             (\E i \in 1..Len(tries') : tries'[i].left = left /\ tries'[i].provider = p)
             <=> (\E j \in usable : j < next /\ order[j] = p)
    PROVE  CallFollows'
BY DEF CallFollows

\* A retryable error: the next usable candidate is asked.
LEMMA FailsOverOK ==
    ASSUME IInv, NEW status \in Statuses, FailsOver(status)
    PROVE  IInv'
<1>1. PICK kind, left, order, at, asked : kind = call.kind /\ left = call.left
        /\ order = call.order /\ at = call.at /\ asked = Asked
  OBVIOUS
<1>2. /\ TypeOK /\ CallFollows /\ SwitchesReported /\ Asking
      /\ UNCHANGED <<settings, profile, stage, steps, replanned, waited>>
  BY DEF IInv, FailsOver
<1>3. /\ kind \in {"plan", "step", "replan"} /\ kind # None
      /\ order \in Seq(Providers) /\ Len(order) \in Nat
      /\ at \in Nat /\ at <= Len(order) /\ events \in Seq(Event)
      /\ settings.configured \in SUBSET Providers
  BY <1>1, <1>2 DEF TypeOK, Asking
<1> PICK names : names = settings.configured OBVIOUS
<1> DEFINE usable == Places(order, names)
<1>4. /\ left \in 1..(IF kind = "step" THEN MaxRetries + 1 ELSE 1)
      /\ order = Candidates(IF kind = "step" THEN profile.provider ELSE None)
      /\ at \in usable /\ usable \subseteq 1..Len(order)
      /\ \A p \in Providers :
           (\E i \in 1..Len(tries) : tries[i].left = left /\ tries[i].provider = p)
           <=> (\E j \in usable : j < at /\ order[j] = p)
  <2>1. usable \subseteq 1..Len(order) BY DEF Places
  <2> HIDE DEF usable
  <2>2. /\ left \in 1..(IF kind = "step" THEN MaxRetries + 1 ELSE 1)
        /\ order = Candidates(IF kind = "step" THEN profile.provider ELSE None)
        /\ at \in usable \cup {Len(order) + 1}
        /\ \A p \in Providers :
             (\E i \in 1..Len(tries) : tries[i].left = left /\ tries[i].provider = p)
             <=> (\E j \in usable : j < at /\ order[j] = p)
    <3>1. /\ call.left \in 1..(IF call.kind = "step" THEN MaxRetries + 1 ELSE 1)
          /\ call.order = Candidates(IF call.kind = "step" THEN profile.provider ELSE None)
          /\ call.at \in Places(call.order, settings.configured) \cup {Len(call.order) + 1}
          /\ \A p \in Providers :
               (\E i \in 1..Len(tries) : tries[i].left = call.left /\ tries[i].provider = p)
               <=> (\E j \in Places(call.order, settings.configured) :
                      j < call.at /\ call.order[j] = p)
      BY <1>2 DEF CallFollows, Asking
    <3>2. usable = Places(call.order, settings.configured) BY <1>1 DEF usable
    <3>. QED BY <1>1, <3>1, <3>2
  <2>3. at \in usable BY <1>3, <2>2
  <2>. QED BY <2>1, <2>2, <2>3
<1>5. asked = order[at] /\ asked \in Providers BY <1>1, <1>3, <1>4 DEF Asked
<1>6. /\ HistoryOK' /\ TriesOf(kind, left)'
      /\ Len(tries) \in Nat /\ Len(tries') = Len(tries) + 1
      /\ \A i \in 1..Len(tries) : tries'[i] = tries[i]
      /\ tries'[Len(tries) + 1].left = left
      /\ tries'[Len(tries) + 1].provider = asked
  <2>1. Try(status) /\ status \in Statuses \cup {200} /\ UNCHANGED <<settings, profile>>
    BY DEF FailsOver
  <2>. QED BY <1>1, <1>2, <2>1, TryKeeps
<1>7. PICK event : /\ event = [type |-> "provider_fallback", from |-> Asked,
                               to |-> NextName(call.order, call.at)]
                   /\ events' = IF kind = "step" THEN Append(events, event) ELSE events
  BY <1>1 DEF FailsOver, Emit
<1>8. event \in Event
  <2>1. NextName(order, at) \in Providers \cup {None} BY <1>3, NextNameIs
  <2>. QED BY <1>1, <1>5, <1>7, <2>1 DEF Event
<1>9. /\ events' \in Seq(Event) /\ Len(events) \in Nat
      /\ kind = "step" => Appended(events, event)
  <2>1. CASE kind = "step"
    <3>1. events' = Append(events, event) BY <1>7, <2>1
    <3>. QED BY <1>3, <1>8, <3>1, AppendProperties DEF Appended
  <2>2. CASE kind # "step" BY <1>3, <1>7, <2>2
  <2>. QED BY <2>1, <2>2
<1>10. PICK next : next = NextIn(order, at + 1, names) OBVIOUS
<1>11. /\ next \in usable \cup {Len(order) + 1}
       /\ next <= Len(order) => next >= at + 1
       /\ \A j \in usable : j >= at + 1 => j >= next
  <2>1. PICK start \in Nat : start = at + 1 BY <1>3
  <2>. QED BY <1>3, <1>10, <2>1, NextInIs
<1>12. /\ call' = [call EXCEPT !.at = next]
       /\ call'.kind = kind /\ call'.order = order /\ call'.at = next /\ call'.left = left
  <2>1. call' = [call EXCEPT !.at = next] BY <1>1, <1>10 DEF FailsOver, NextUsable
  <2>. QED BY <1>1, <1>2, <2>1 DEF TypeOK
<1>13. CallOK'
  <2>1. next \in Nat BY <1>3, <1>4, <1>11
  <2>. QED BY <1>2, <1>12, <2>1 DEF TypeOK, CallOK
<1>14. CallFollows'
  <2>1. Candidates(IF kind = "step" THEN profile.provider ELSE None)' = order
    BY <1>2, <1>4 DEF Candidates
  <2>2. ASSUME NEW p \in Providers
        PROVE  (\E i \in 1..Len(tries') : tries'[i].left = left /\ tries'[i].provider = p)
               <=> (\E j \in usable : j < next /\ order[j] = p)
    <3>1. (\E i \in 1..Len(tries') : tries'[i].left = left /\ tries'[i].provider = p)
          <=> \/ \E i \in 1..Len(tries) : tries[i].left = left /\ tries[i].provider = p
              \/ asked = p
      BY <1>6
    <3>2. \A j \in usable : j < next <=> j < at \/ j = at
      BY <1>3, <1>4, <1>11
    <3>. QED BY <1>4, <1>5, <3>1, <3>2
  <2>3. settings' = settings /\ Places(order, settings'.configured) = usable BY <1>2
  <2> HIDE DEF usable
  <2>4. next \in usable \cup {Len(order) + 1} BY <1>11
  <2>5. left \in 1..(IF kind = "step" THEN MaxRetries + 1 ELSE 1) BY <1>4
  <2>. QED BY <1>12, <2>1, <2>2, <2>3, <2>4, <2>5, FollowsFrom
<1>15. TriesFollow' BY <1>3, <1>6, <1>12 DEF TriesFollow, TriesOf
<1>16. SwitchesReported'
  <2>1. CASE kind # "step" BY <1>12, <2>1 DEF SwitchesReported
  <2>2. CASE kind = "step"
    <3>1. event.to = (IF next <= Len(order) THEN order[next] ELSE None)
          \/ event.to \in Providers \ settings.configured
      <4>1. event.to = NextName(order, at) BY <1>1, <1>7
      <4>. QED BY <1>1, <1>3, <1>10, <4>1, NextNameIs
    <3>2. event.type = "provider_fallback" /\ event.from = asked BY <1>1, <1>7
    <3>3. /\ tries' \in Seq(Request) /\ settings' = settings /\ call.kind = "step"
          /\ call'.kind # None /\ next \in Nat
      BY <1>1, <1>2, <1>3, <1>4, <1>6, <1>11, <1>12, <2>2 DEF HistoryOK
    <3>. QED BY <1>1, <1>2, <1>6, <1>9, <1>12, <2>2, <3>1, <3>2, <3>3, SwitchTold
  <2>. QED BY <2>1, <2>2
<1>17. RestOK' BY <1>2, <1>9 DEF TypeOK, RestOK
<1>. QED BY <1>6, <1>13, <1>14, <1>15, <1>16, <1>17 DEF HistoryOK, RestOK, CallOK, IInv, TypeOK

\* The request has an answer, or something no candidate list can read.
LEMMA AnswersOK ==
    ASSUME IInv, Answers \/ Breaks
    PROVE  IInv'
<1>1. TypeOK /\ Asking /\ Try(200) /\ UNCHANGED <<settings, profile, steps, replanned, waited>>
  BY DEF IInv, Answers, Breaks
<1>2. PICK kind, left, asked : kind = call.kind /\ left = call.left /\ asked = Asked OBVIOUS
<1>3. 200 \in Statuses \cup {200} /\ UNCHANGED <<settings, profile>> BY <1>1
<1>4. HistoryOK' /\ TriesOf(kind, left)' BY <1>1, <1>2, <1>3, TryKeeps
<1>5. call' = Idle BY DEF Answers, Breaks
<1>6. events' \in Seq(Event)
  <2>1. CASE Answers
    <3>1. PICK event : /\ event = [type |-> "provider_selected", from |-> Asked, to |-> None]
                       /\ events' = Append(events, event) \/ events' = events
      BY <2>1 DEF Answers, Emit
    <3>2. Asked \in Providers
      <4>1. call.order \in Seq(Providers) /\ call.at \in 1..Len(call.order)
        BY <1>1 DEF TypeOK, Asking, IInv, CallFollows, Places
      <4>. QED BY <4>1, ElementOfSeq DEF Asked
    <3>3. event \in Event BY <3>1, <3>2 DEF Event
    <3>4. events \in Seq(Event) BY <1>1 DEF TypeOK
    <3>. QED BY <3>1, <3>3, <3>4, AppendProperties
  <2>2. CASE Breaks BY <1>1, <2>2 DEF Breaks, TypeOK
  <2>. QED BY <2>1, <2>2
<1>7. stage' \in {"new", "ready", "calling", "answered", "parked", "over"}
  BY DEF Answers, Breaks, After
<1>8. RestOK' BY <1>1, <1>6, <1>7 DEF TypeOK, RestOK
<1>. QED BY <1>4, <1>5, <1>8, CallEnds

LEMMA FailsHardOK ==
    ASSUME IInv, NEW status \in Statuses, FailsHard(status)
    PROVE  IInv'
<1>1. PICK kind, left, asked : kind = call.kind /\ left = call.left /\ asked = Asked OBVIOUS
<1>2. /\ Asking /\ Try(status) /\ status \in Statuses \cup {200} /\ Raised
      /\ UNCHANGED <<settings, profile, steps, replanned, waited>> /\ UNCHANGED <<settings, profile>>
  BY DEF FailsHard
<1>3. HistoryOK' /\ TriesOf(kind, left)' BY <1>1, <1>2, TryKeeps
<1>4. call.kind # None BY <1>2 DEF Asking
<1>. QED BY <1>1, <1>2, <1>3, <1>4, RaisedOK

LEMMA GiveUpOK ==
    ASSUME IInv, GiveUp
    PROVE  IInv'
<1>1. PICK kind, left : kind = call.kind /\ left = call.left OBVIOUS
<1>2. /\ call.kind # None /\ Raised /\ tries' = tries /\ settings' = settings /\ profile' = profile
      /\ UNCHANGED <<settings, profile, steps, replanned, waited>>
  BY DEF GiveUp
<1>3. HistoryOK'
  <2>1. \A p : Rank(p)' = Rank(p) BY <1>2 DEF Rank
  <2>2. InOrder' BY <1>2, <2>1 DEF IInv, InOrder
  <2>3. ModelStaysHome' BY <1>2 DEF IInv, ModelStaysHome
  <2>. QED BY <1>2, <2>2, <2>3 DEF IInv, TypeOK, HistoryOK
<1>4. TriesOf(kind, left)' BY <1>1, <1>2 DEF IInv, TriesFollow, TriesOf
<1>. QED BY <1>1, <1>2, <1>3, <1>4, RaisedOK

\* A call of the planner, of the step loop or of the replanner begins.
LEMMA EnterOK ==
    ASSUME IInv, NEW kind \in {"plan", "step", "replan"}, NEW left \in Nat, NEW pinned,
           pinned = IF kind = "step" THEN profile.provider ELSE None,
           left = IF kind = "step" THEN MaxRetries + 1 ELSE 1,
           Enter(kind, pinned, profile.model, left), stage' = "calling",
           UNCHANGED <<settings, profile>>, steps' \in 0..MaxSteps, replanned' \in BOOLEAN,
           waited' \in BOOLEAN
    PROVE  IInv'
<1>1. TypeOK BY DEF IInv
<1>2. PICK order, at, model : order = Candidates(pinned)
        /\ at = NextIn(order, 1, settings.configured) /\ model = profile.model
  OBVIOUS
<1>3. /\ call' = [kind |-> kind, order |-> order, at |-> at, model |-> model, left |-> left]
      /\ tries' = <<>> /\ events' = <<>>
  BY <1>2 DEF Enter, NextUsable
<1>4. tries' \in Seq(Request) /\ events' \in Seq(Event) /\ Len(tries') = 0
  BY <1>3, EmptySeq
<1>5. HistoryOK' BY <1>4 DEF HistoryOK, InOrder, ModelStaysHome
<1>6. TriesOf(kind, left + 1)' BY <1>4 DEF TriesOf
<1>7. RestOK' BY <1>1, <1>4 DEF RestOK, TypeOK
<1>8. model \in BOOLEAN BY <1>1, <1>2 DEF TypeOK
<1>9. left \in 1..(IF kind = "step" THEN MaxRetries + 1 ELSE 1) BY BoundsAssumption
<1>10. order = Candidates(IF kind = "step" THEN profile.provider ELSE None) BY <1>2
<1>. QED BY <1>1, <1>2, <1>3, <1>5, <1>6, <1>7, <1>8, <1>9, <1>10, AttemptStarts

LEMMA NextOK == IInv /\ [Next]_vars => IInv'
<1> SUFFICES ASSUME IInv, [Next]_vars PROVE IInv' OBVIOUS
<1>0. TypeOK /\ MaxRetries + 1 \in Nat BY BoundsAssumption DEF IInv
<1>1. CASE Plan
  <2>1. /\ Enter("plan", None, profile.model, 1) /\ stage' = "calling"
        /\ UNCHANGED <<settings, profile>> /\ steps' \in 0..MaxSteps /\ replanned' \in BOOLEAN
        /\ waited' \in BOOLEAN
    BY <1>0, <1>1 DEF Plan, TypeOK
  <2>. QED BY <2>1, EnterOK
<1>2. CASE Step
  <2>0. steps' \in 0..MaxSteps BY <1>0, <1>2, BoundsAssumption DEF Step, TypeOK
  <2>1. /\ Enter("step", profile.provider, profile.model, MaxRetries + 1) /\ stage' = "calling"
        /\ UNCHANGED <<settings, profile>> /\ steps' \in 0..MaxSteps /\ replanned' \in BOOLEAN
        /\ waited' \in BOOLEAN
    BY <1>0, <1>2, <2>0 DEF Step, TypeOK
  <2>2. PICK pinned : pinned = profile.provider OBVIOUS
  <2>. QED BY <1>0, <2>1, <2>2, EnterOK
<1>3. CASE Replan
  <2>1. /\ Enter("replan", None, profile.model, 1) /\ stage' = "calling"
        /\ UNCHANGED <<settings, profile>> /\ steps' \in 0..MaxSteps /\ replanned' \in BOOLEAN
        /\ waited' \in BOOLEAN
    BY <1>0, <1>3 DEF Replan, TypeOK
  <2>. QED BY <2>1, EnterOK
<1>4. ASSUME UNCHANGED <<settings, profile, call, steps, replanned, tries, events>>,
             stage' \in {"new", "ready", "calling", "answered", "parked", "over"},
             waited' \in BOOLEAN
      PROVE  IInv'
  <2>1. /\ settings' = settings /\ profile' = profile /\ call' = call /\ tries' = tries
        /\ events' = events /\ steps' = steps /\ replanned' = replanned
    BY <1>4
  <2>2. TypeOK' BY <1>0, <1>4, <2>1 DEF TypeOK
  <2>3. \A p : Rank(p)' = Rank(p) /\ Candidates(p)' = Candidates(p)
    BY <2>1 DEF Rank, Candidates
  <2>4. CallFollows' BY <2>1, <2>3 DEF IInv, CallFollows
  <2>5. InOrder' BY <2>1, <2>3 DEF IInv, InOrder
  <2>6. SwitchesReported'
    <3>1. \A i : Follower(i)' = Follower(i) BY <2>1 DEF Follower, Asking, Asked
    <3>. QED BY <2>1, <3>1 DEF IInv, SwitchesReported
  <2>. QED BY <2>1, <2>2, <2>4, <2>5, <2>6 DEF IInv, TriesFollow, ModelStaysHome
<1>5. CASE GoOn \/ Park \/ Resume \/ Finish
  BY <1>0, <1>4, <1>5 DEF GoOn, Park, Resume, Finish, TypeOK
<1>6. CASE Answers \/ Breaks BY <1>6, AnswersOK
<1>7. ASSUME NEW status \in Statuses, FailsOver(status) PROVE IInv' BY <1>7, FailsOverOK
<1>8. ASSUME NEW status \in Statuses, FailsHard(status) PROVE IInv' BY <1>8, FailsHardOK
<1>9. CASE GiveUp BY <1>9, GiveUpOK
<1>10. CASE UNCHANGED vars BY <1>0, <1>4, <1>10 DEF vars, TypeOK
<1>. QED BY <1>1, <1>2, <1>3, <1>5, <1>6, <1>7, <1>8, <1>9, <1>10 DEF Next, Proceeds

LEMMA InitOK == Init => IInv
<1> SUFFICES ASSUME Init PROVE IInv OBVIOUS
<1>1. tries = <<>> /\ events = <<>> /\ call = Idle BY DEF Init
<1>2. tries \in Seq(Request) /\ events \in Seq(Event) /\ Len(tries) = 0 BY <1>1, EmptySeq
<1>3. call.kind = None /\ call.kind # "step" BY <1>1, ProvidersAssumption DEF Idle
<1>4. CallOK
  <2>1. <<>> \in Seq(Providers) BY EmptySeq
  <2>. QED BY <1>1, <2>1, BoundsAssumption DEF CallOK, Idle
<1>5. TypeOK
  <2>1. steps \in 0..MaxSteps BY BoundsAssumption DEF Init
  <2>2. stage = "new" /\ replanned = FALSE /\ waited = FALSE BY DEF Init
  <2>3. /\ settings \in [default: Providers, order: Orders, configured: SUBSET Providers]
        /\ profile \in [provider: Providers \cup {None}, model: BOOLEAN]
    BY DEF Init
  <2>. QED BY <1>2, <1>4, <2>1, <2>2, <2>3 DEF TypeOK, CallOK
<1>. QED BY <1>2, <1>3, <1>5 DEF IInv, CallFollows, TriesFollow, InOrder, SwitchesReported,
            ModelStaysHome

-----------------------------------------------------------------------------
(* Theorems *)

\* Whatever the providers answer, the call in progress and the history of its
\* requests fit together.
THEOREM CallsFit == Spec => []IInv
BY InitOK, NextOK, PTL DEF Spec

\* Calls, counters and histories keep their types; no run has more steps than
\* its limit.
THEOREM CallsTyped == Spec => []TypeOK
<1>1. IInv => TypeOK BY DEF IInv
<1>. QED BY <1>1, CallsFit, PTL

\* Every attempt goes through the usable candidates in the configured order,
\* for any providers and any order.
THEOREM CandidatesInOrder == Spec => []InOrder
<1>1. IInv => InOrder BY DEF IInv
<1>. QED BY <1>1, CallsFit, PTL

\* The events of a step's attempt tell its failed requests one by one, and never
\* name a configured provider but the one that is asked next.
THEOREM SwitchesAreReported == Spec => []SwitchesReported
<1>1. IInv => SwitchesReported BY DEF IInv
<1>. QED BY <1>1, CallsFit, PTL

\* A pinned model name never reaches another provider than its own.
THEOREM ModelNamesStay == Spec => []ModelStaysHome
<1>1. IInv => ModelStaysHome BY DEF IInv
<1>. QED BY <1>1, CallsFit, PTL

\* In one attempt no provider is asked twice; so the requests to a provider
\* have different numbers of attempts left.
LEMMA AskedOncePerAttempt ==
    ASSUME IInv, NEW i \in 1..Len(tries), NEW j \in 1..Len(tries),
           tries[i].provider = tries[j].provider, tries[i].left = tries[j].left
    PROVE  ~(i < j)
<1>1. /\ TypeOK /\ tries \in Seq(Request) BY DEF IInv, TypeOK
<1>2. SUFFICES ASSUME i < j PROVE FALSE OBVIOUS
<1>3. tries[j] \in Request BY <1>1, ElementOfSeq
<1>4. tries[j].provider \in Before(tries, j) BY <1>2 DEF Before
<1>5. Before(tries, j) = {}
      \/ Before(tries, j) = {q \in settings.configured : Rank(q) < Rank(tries[j].provider)}
  BY DEF IInv, InOrder
<1>6. Rank(tries[j].provider) \in Nat BY <1>1, <1>3, RankIsPlace DEF Request
<1>. QED BY <1>4, <1>5, <1>6

\* One model call asks a provider at most MaxRetries + 1 times, for any number
\* of providers and retries.
THEOREM RetriesAreBounded == Spec => []RetriesBounded
<1>1. ASSUME IInv, NEW p \in Providers, NEW asked, asked = {i \in 1..Len(tries) : tries[i].provider = p}
      PROVE  Cardinality(asked) <= IF \E i \in asked : tries[i].kind = "step"
                                   THEN MaxRetries + 1 ELSE 1
  <2>1. tries \in Seq(Request) /\ Len(tries) \in Nat BY <1>1 DEF IInv, TypeOK
  <2>2. PICK m \in Nat : m = IF \E i \in asked : tries[i].kind = "step" THEN MaxRetries + 1 ELSE 1
    BY BoundsAssumption
  <2>3. \A i \in asked : tries[i].left \in 1..m
    <3>1. \A i \in asked, j \in asked : tries[i].kind = tries[j].kind
      BY <1>1 DEF IInv, TriesFollow
    <3>. QED BY <1>1, <2>2, <3>1 DEF IInv, TriesFollow
  <2> DEFINE f == [i \in asked |-> tries[i].left]
             T == 1..m
  <2>4. IsFiniteSet(T) /\ Cardinality(T) = m
    <3>1. 1 \in Int /\ m \in Int OBVIOUS
    <3>2. /\ IsFiniteSet(T)
          /\ 1 > m => Cardinality(T) = 0
          /\ 1 <= m => Cardinality(T) = m - 1 + 1
      BY <3>1, FS_Interval
    <3> HIDE DEF T
    <3>. QED BY <3>2
  <2>5. f \in [asked -> T] BY <2>3
  <2>6. ASSUME NEW i \in asked, NEW j \in asked, f[i] = f[j] PROVE i = j
    <3>1. i \in 1..Len(tries) /\ j \in 1..Len(tries) /\ tries[i].left = tries[j].left
          /\ tries[i].provider = tries[j].provider
      BY <1>1, <2>6
    <3>2. ~(i < j) /\ ~(j < i) BY <1>1, <3>1, AskedOncePerAttempt
    <3>. QED BY <2>1, <3>1, <3>2
  <2> HIDE DEF f, T
  <2>7. f \in Injection(asked, T) BY <2>5, <2>6 DEF Injection, IsInjective
  <2>8. Cardinality(asked) <= Cardinality(T) BY <2>4, <2>7, FS_Injection
  <2>. QED BY <2>2, <2>4, <2>8
<1>2. IInv => RetriesBounded BY <1>1 DEF RetriesBounded
<1>. QED BY <1>2, CallsFit, PTL
=============================================================================
