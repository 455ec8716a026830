----------------------------- MODULE BytezProofs -----------------------------
(***************************************************************************)
(* Machine-checked proofs about BytezModels, for every set of concurrent   *)
(* calls, every list of models and every history of the catalog.           *)
(***************************************************************************)
EXTENDS BytezModels, TLAPS

\* m is the first configured model that the catalog has.
First(m) ==
    \E i \in 1..Len(Configured) :
        /\ Configured[i] = m
        /\ m \in catalog
        /\ \A j \in 1..(i - 1) : Configured[j] \notin catalog

\* A call under way asks its candidates one by one. While the catalog stays as
\* it is, it lacks those the call has left behind, and a reply tells the truth
\* about the one that is asked.
CallOK(c) ==
    call[c].pc # "idle" =>
        /\ call[c].at \in 1..Len(call[c].order)
        /\ IF call[c].explicit # None THEN call[c].order = <<call[c].explicit>>
           ELSE \/ call[c].order = Configured
                \/ call[c].order = <<confirmed>> /\ confirmed # None
                \/ moved
        /\ ~moved =>
             /\ \A j \in 1..(call[c].at - 1) : call[c].order[j] \notin catalog
             /\ call[c].pc = "replied" /\ call[c].reply = "missing" => Asked(c) \notin catalog
             /\ call[c].pc = "replied" /\ call[c].reply \in {"answer", "odd"} => Asked(c) \in catalog

\* The inductive invariant.
IInv ==
    /\ TypeOK
    /\ NamedModelsStayPrivate
    /\ ProbesAgree
    /\ UnavailableIsTrue
    /\ \A c \in Calls : CallOK(c)

-----------------------------------------------------------------------------

LEMMA ConfiguredModels ==
    /\ Configured \in Seq(Models)
    /\ Len(Configured) >= 1
  BY ModelsAssumption, OthersAssumption DEF Configured

LEMMA FirstIsUnique ==
    ASSUME NEW m, NEW n, First(m), First(n)
    PROVE  m = n
<1>1. PICK i \in 1..Len(Configured) :
        Configured[i] = m /\ m \in catalog /\ \A j \in 1..(i - 1) : Configured[j] \notin catalog
  BY DEF First
<1>2. PICK k \in 1..Len(Configured) :
        Configured[k] = n /\ n \in catalog /\ \A j \in 1..(k - 1) : Configured[j] \notin catalog
  BY DEF First
<1>3. Len(Configured) \in Nat BY ConfiguredModels
<1>4. ~(i < k) /\ ~(k < i) BY <1>1, <1>2, <1>3
<1>. QED BY <1>1, <1>2, <1>3, <1>4

\* What a call that starts may ask.
LEMMA Candidates ==
    ASSUME IInv, NEW e \in Pins \cup {None}
    PROVE  /\ CandidateOrder(e) \in Seq(Models)
           /\ Len(CandidateOrder(e)) >= 1
           /\ Range(CandidateOrder(e)) \subseteq IF e # None THEN {e} ELSE Range(Configured)
           /\ IF e # None THEN CandidateOrder(e) = <<e>>
              ELSE \/ CandidateOrder(e) = Configured
                   \/ CandidateOrder(e) = <<confirmed>> /\ confirmed # None
<1>1. confirmed \in Models \cup {None} /\ confirmed \in Range(Configured) \cup {None}
  BY DEF IInv, TypeOK, NamedModelsStayPrivate
<1>2. CASE e # None
  <2>1. CandidateOrder(e) = <<e>> /\ e \in Models BY <1>2, ModelsAssumption DEF CandidateOrder
  <2>2. Range(<<e>>) = {e} BY DEF Range
  <2>. QED BY <1>2, <2>1, <2>2
<1>3. CASE e = None /\ confirmed # None
  <2>1. CandidateOrder(e) = <<confirmed>> BY <1>3 DEF CandidateOrder
  <2>2. Range(<<confirmed>>) = {confirmed} BY DEF Range
  <2>. QED BY <1>1, <1>3, <2>1, <2>2
<1>4. CASE e = None /\ confirmed = None
  <2>1. CandidateOrder(e) = Configured BY <1>4 DEF CandidateOrder
  <2>. QED BY <1>4, <2>1, ConfiguredModels
<1>. QED BY <1>2, <1>3, <1>4

-----------------------------------------------------------------------------
(* Steps of one call *)

\* A step of a call that leaves the catalog and the settled model alone.
LEMMA CallStep ==
    ASSUME IInv, NEW c \in Calls, NEW v,
           call' = [call EXCEPT ![c] = v],
           UNCHANGED <<catalog, moved, confirmed>>,
           TypeOK', CallOK(c)',
           Range(v.order) \subseteq IF v.explicit # None THEN {v.explicit} ELSE Range(Configured),
           ~moved /\ v.outcome = "unavailable" =>
             catalog \cap (IF v.explicit # None THEN {v.explicit} ELSE Range(Configured)) = {}
    PROVE  IInv'
<1>1. /\ call'[c] = v
      /\ \A d \in Calls : d # c => call'[d] = call[d]
  BY DEF IInv, TypeOK
<1>2. NamedModelsStayPrivate' BY <1>1 DEF IInv, NamedModelsStayPrivate
<1>3. ProbesAgree' BY DEF IInv, ProbesAgree
<1>4. UnavailableIsTrue' BY <1>1 DEF IInv, UnavailableIsTrue
<1>5. ASSUME NEW d \in Calls PROVE CallOK(d)'
  <2>1. CASE d = c BY <2>1
  <2>2. CASE d # c
    <3>1. CallOK(d) /\ call'[d] = call[d] BY <1>1, <2>2 DEF IInv
    <3>. QED BY <3>1 DEF CallOK, Asked
  <2>. QED BY <2>1, <2>2
<1>. QED BY <1>2, <1>3, <1>4, <1>5 DEF IInv

\* What IInv says of a call that is under way.
LEMMA UnderWay ==
    ASSUME IInv, NEW c \in Calls, call[c].pc # "idle"
    PROVE  /\ call[c].order \in Seq(Models)
           /\ call[c].at \in 1..Len(call[c].order)
           /\ Asked(c) \in Models
           /\ Asked(c) \in Range(call[c].order)
           /\ Range(call[c].order) \subseteq
                IF call[c].explicit # None THEN {call[c].explicit} ELSE Range(Configured)
           /\ CallOK(c)
<1>1. CallOK(c) /\ call[c].order \in Seq(Models)
  BY DEF IInv, TypeOK, CallRec
<1>2. call[c].at \in 1..Len(call[c].order) BY <1>1 DEF CallOK
<1>3. Asked(c) \in Models /\ Asked(c) \in Range(call[c].order)
  BY <1>1, <1>2 DEF Asked, Range
<1>4. Range(call[c].order) \subseteq
        IF call[c].explicit # None THEN {call[c].explicit} ELSE Range(Configured)
  BY DEF IInv, NamedModelsStayPrivate
<1>. QED BY <1>1, <1>2, <1>3, <1>4

LEMMA ChatStep ==
    ASSUME IInv, NEW c \in Calls, NEW e \in Pins \cup {None}, Chat(c, e)
    PROVE  IInv'
<1> DEFINE v == [NoCall EXCEPT !.pc = "posted", !.explicit = e,
                               !.order = CandidateOrder(e), !.at = 1]
<1>1. /\ v.pc = "posted" /\ v.explicit = e /\ v.order = CandidateOrder(e) /\ v.at = 1
      /\ v.outcome = None
  BY DEF NoCall
<1>2. call' = [call EXCEPT ![c] = v] BY DEF Chat
<1>3. UNCHANGED <<catalog, moved, confirmed>> BY DEF Chat
<1>4. call'[c] = v BY <1>2 DEF IInv, TypeOK
<1>5. v \in CallRec
  <2>1. CandidateOrder(e) \in Seq(Models) BY Candidates
  <2>2. NoCall \in CallRec BY DEF NoCall, CallRec
  <2>. QED BY <2>1, <2>2 DEF CallRec
<1> HIDE DEF v
<1>6. TypeOK' BY <1>1, <1>2, <1>3, <1>5, Candidates DEF IInv, TypeOK
<1>7. CallOK(c)' BY <1>1, <1>3, <1>4, Candidates DEF CallOK
<1>8. Range(v.order) \subseteq IF v.explicit # None THEN {v.explicit} ELSE Range(Configured)
  BY <1>1, Candidates
<1>9. v.outcome # "unavailable" BY <1>1, ModelsAssumption
<1>. QED BY <1>2, <1>3, <1>6, <1>7, <1>8, <1>9, CallStep

LEMMA ServeStep ==
    ASSUME IInv, NEW c \in Calls, Serve(c)
    PROVE  IInv'
<1>1. PICK reply \in IF Asked(c) \in catalog THEN Reply \ {"missing"} ELSE {"missing", "error"} :
        call' = [call EXCEPT ![c].pc = "replied", ![c].reply = reply]
  BY DEF Serve
<1> DEFINE v == [call[c] EXCEPT !.pc = "replied", !.reply = reply]
<1>2. call[c].pc = "posted" /\ UNCHANGED <<catalog, moved, confirmed>> BY DEF Serve
<1>3. call' = [call EXCEPT ![c] = v] BY <1>1
<1>4. /\ call'[c] = v /\ v.pc = "replied" /\ v.reply = reply
      /\ v.explicit = call[c].explicit /\ v.order = call[c].order /\ v.at = call[c].at
      /\ v.outcome = call[c].outcome
  <2>1. call[c] \in CallRec BY DEF IInv, TypeOK
  <2>. QED BY <1>3, <2>1 DEF IInv, TypeOK, CallRec
<1>5. TypeOK'
  <2>1. call[c] \in CallRec BY DEF IInv, TypeOK
  <2>2. v \in CallRec BY <2>1 DEF CallRec, Reply
  <2>. QED BY <1>2, <1>3, <1>4, <2>2 DEF IInv, TypeOK
<1>6. Asked(c)' = Asked(c) BY <1>4 DEF Asked
<1> HIDE DEF v
<1>7. CallOK(c)'
  <2>1. CallOK(c) /\ call[c].pc # "idle" BY <1>2, UnderWay
  <2>2. Asked(c) \in catalog => reply # "missing" BY <1>1
  <2>3. Asked(c) \notin catalog => reply \notin {"answer", "odd"} BY <1>1
  <2>. QED BY <1>2, <1>4, <1>6, <2>1, <2>2, <2>3 DEF CallOK
<1>8. ~moved /\ v.outcome = "unavailable" =>
        catalog \cap (IF v.explicit # None THEN {v.explicit} ELSE Range(Configured)) = {}
  BY <1>4 DEF IInv, UnavailableIsTrue
<1>. QED BY <1>2, <1>3, <1>4, <1>5, <1>7, <1>8, UnderWay, CallStep

LEMMA TryNextStep ==
    ASSUME IInv, NEW c \in Calls, TryNext(c)
    PROVE  IInv'
<1> DEFINE v == [call[c] EXCEPT !.pc = "posted", !.reply = None, !.at = @ + 1]
<1>1. /\ call[c].pc = "replied" /\ call[c].reply = "missing"
      /\ call[c].at < Len(call[c].order)
      /\ UNCHANGED <<catalog, moved, confirmed>>
  BY DEF TryNext
<1>2. call' = [call EXCEPT ![c] = v] BY DEF TryNext
<1>3. /\ call'[c] = v /\ v.pc = "posted"
      /\ v.explicit = call[c].explicit /\ v.order = call[c].order /\ v.at = call[c].at + 1
      /\ v.outcome = call[c].outcome
  <2>1. call[c] \in CallRec BY DEF IInv, TypeOK
  <2>. QED BY <1>2, <2>1 DEF IInv, TypeOK, CallRec
<1>4. TypeOK'
  <2>1. call[c] \in CallRec BY DEF IInv, TypeOK
  <2>2. call[c].at + 1 \in Nat BY <2>1 DEF CallRec
  <2>4. v \in CallRec BY <2>1, <2>2 DEF CallRec
  <2>3. v.at <= Len(v.order) BY <1>1, <1>3, UnderWay
  <2>. QED BY <1>1, <1>2, <1>3, <2>3, <2>4 DEF IInv, TypeOK
<1> HIDE DEF v
<1>5. CallOK(c)'
  <2>1. v.at \in 1..Len(v.order) BY <1>1, <1>3, UnderWay
  <2>2. ~moved => \A j \in 1..(v.at - 1) : v.order[j] \notin catalog
    BY <1>1, <1>3, UnderWay DEF CallOK, Asked
  <2>. QED BY <1>1, <1>3, <2>1, <2>2, UnderWay DEF CallOK
<1>6. ~moved /\ v.outcome = "unavailable" =>
        catalog \cap (IF v.explicit # None THEN {v.explicit} ELSE Range(Configured)) = {}
  BY <1>3 DEF IInv, UnavailableIsTrue
<1>. QED BY <1>1, <1>2, <1>3, <1>4, <1>5, <1>6, UnderWay, CallStep

\* The end of a call that settles on nothing.
LEMMA ReturnStep ==
    ASSUME IInv, NEW c \in Calls, NEW outcome \in {"unavailable", "error"},
           call[c].pc = "replied", call[c].reply \in Reply,
           Return(c, outcome), UNCHANGED <<catalog, moved, confirmed>>,
           outcome = "unavailable" =>
             call[c].reply = "missing" /\ call[c].at = Len(call[c].order)
    PROVE  IInv'
<1> DEFINE v == [call[c] EXCEPT !.pc = "idle", !.reply = None, !.outcome = outcome]
<1>1. call' = [call EXCEPT ![c] = v] BY DEF Return
<1>2. /\ call'[c] = v /\ v.pc = "idle" /\ v.outcome = outcome
      /\ v.explicit = call[c].explicit /\ v.order = call[c].order /\ v.at = call[c].at
  <2>1. call[c] \in CallRec BY DEF IInv, TypeOK
  <2>. QED BY <1>1, <2>1 DEF IInv, TypeOK, CallRec
<1>3. TypeOK'
  <2>1. call[c] \in CallRec BY DEF IInv, TypeOK
  <2>3. v \in CallRec BY <2>1 DEF CallRec
  <2>. QED BY <1>1, <1>2, <2>3 DEF IInv, TypeOK
<1> HIDE DEF v
<1>4. CallOK(c)' BY <1>2 DEF CallOK
<1>5. ASSUME ~moved, v.outcome = "unavailable"
      PROVE  catalog \cap (IF v.explicit # None THEN {v.explicit} ELSE Range(Configured)) = {}
  <2>1. call[c].at = Len(call[c].order) /\ Asked(c) \notin catalog
    BY <1>2, <1>5, UnderWay DEF CallOK
  <2>2. \A j \in 1..Len(call[c].order) : call[c].order[j] \notin catalog
    BY <1>2, <1>5, <2>1, UnderWay DEF CallOK, Asked
  <2>3. CASE call[c].explicit # None
    <3>1. call[c].order = <<call[c].explicit>> BY <2>3, UnderWay DEF CallOK
    <3>. QED BY <1>2, <2>2, <2>3, <3>1
  <2>4. CASE call[c].explicit = None /\ call[c].order = Configured
    BY <1>2, <2>2, <2>4, ConfiguredModels DEF Range
  <2>5. CASE call[c].explicit = None /\ call[c].order = <<confirmed>> /\ confirmed # None
    <3>1. confirmed \in catalog BY <1>5, <2>5 DEF IInv, ProbesAgree
    <3>. QED BY <2>2, <2>5, <3>1
  <2>. QED BY <1>5, <2>3, <2>4, <2>5, UnderWay DEF CallOK
<1>. QED BY <1>1, <1>2, <1>3, <1>4, <1>5, UnderWay, CallStep

\* What a call settles on is the first available model, and what the others
\* settled on before.
LEMMA AnsweredStep ==
    ASSUME IInv, NEW c \in Calls, Answered(c)
    PROVE  IInv'
<1> DEFINE outcome == IF call[c].reply = "answer" THEN "answer" ELSE "error"
           v == [call[c] EXCEPT !.pc = "idle", !.reply = None, !.outcome = outcome]
<1>1. /\ call[c].pc = "replied" /\ call[c].reply \in {"answer", "odd"}
      /\ confirmed' = Settle(c) /\ UNCHANGED <<catalog, moved>>
      /\ call' = [call EXCEPT ![c] = v]
  BY DEF Answered, Return
<1>2. /\ call'[c] = v /\ v.pc = "idle" /\ v.outcome \in {"answer", "error"}
      /\ v.explicit = call[c].explicit /\ v.order = call[c].order /\ v.at = call[c].at
      /\ \A d \in Calls : d # c => call'[d] = call[d]
  <2>1. call[c] \in CallRec BY DEF IInv, TypeOK
  <2>. QED BY <1>1, <2>1 DEF IInv, TypeOK, CallRec
<1>3. /\ confirmed' \in Models \cup {None}
      /\ confirmed' \in Range(Configured) \cup {None}
  BY <1>1, UnderWay DEF Settle, IInv, TypeOK, NamedModelsStayPrivate
<1>4. TypeOK'
  <2>1. call[c] \in CallRec BY DEF IInv, TypeOK
  <2>3. v \in CallRec BY <2>1 DEF CallRec
  <2>. QED BY <1>1, <1>2, <1>3, <2>3 DEF IInv, TypeOK
<1> HIDE DEF v
<1>5. NamedModelsStayPrivate' BY <1>2, <1>3 DEF IInv, NamedModelsStayPrivate
<1>6. UnavailableIsTrue' BY <1>1, <1>2 DEF IInv, UnavailableIsTrue
<1>7. ~moved /\ confirmed # None => First(confirmed) BY DEF IInv, ProbesAgree, First
<1>8. ASSUME ~moved, confirmed' # None PROVE First(confirmed')
  <2>1. CASE call[c].explicit # None BY <1>1, <1>7, <1>8, <2>1 DEF Settle
  <2>2. CASE call[c].explicit = None
    <3>1. confirmed' = Asked(c) /\ Asked(c) \in catalog
      BY <1>1, <1>8, <2>2, UnderWay DEF Settle, CallOK
    <3>2. CASE call[c].order = Configured
      BY <1>1, <1>8, <3>1, <3>2, UnderWay, ConfiguredModels DEF CallOK, First, Asked
    <3>3. CASE call[c].order = <<confirmed>> /\ confirmed # None
      <4>1. Asked(c) = confirmed BY <1>1, <3>3, UnderWay DEF Asked
      <4>. QED BY <1>7, <1>8, <3>1, <3>3, <4>1
    <3>. QED BY <1>8, <2>2, <3>2, <3>3, UnderWay, <1>1 DEF CallOK
  <2>. QED BY <2>1, <2>2
<1>9. ProbesAgree' BY <1>1, <1>8 DEF ProbesAgree, First
<1>10. ~moved /\ confirmed # None => confirmed' = confirmed
  <2>1. ASSUME ~moved, confirmed # None PROVE confirmed' # None
    BY <1>1, <2>1, UnderWay, ModelsAssumption DEF Settle
  <2>. QED BY <1>7, <1>8, <2>1, FirstIsUnique
<1>11. ASSUME NEW d \in Calls PROVE CallOK(d)'
  <2>1. CASE d = c BY <1>2, <2>1 DEF CallOK
  <2>2. CASE d # c
    <3>1. CallOK(d) /\ call'[d] = call[d] BY <1>2, <2>2 DEF IInv
    <3>. QED BY <1>1, <1>10, <3>1 DEF CallOK, Asked
  <2>. QED BY <2>1, <2>2
<1>. QED BY <1>4, <1>5, <1>6, <1>9, <1>11 DEF IInv

LEMMA CatalogStep ==
    ASSUME IInv, CatalogChanges
    PROVE  IInv'
<1>1. moved' = TRUE /\ catalog' \subseteq Models /\ UNCHANGED <<confirmed, call>>
  BY DEF CatalogChanges
<1>2. TypeOK' BY <1>1 DEF IInv, TypeOK
<1>3. NamedModelsStayPrivate' BY <1>1 DEF IInv, NamedModelsStayPrivate
<1>4. ProbesAgree' /\ UnavailableIsTrue' BY <1>1 DEF ProbesAgree, UnavailableIsTrue
<1>5. \A c \in Calls : CallOK(c)' BY <1>1 DEF IInv, CallOK
<1>. QED BY <1>2, <1>3, <1>4, <1>5 DEF IInv

-----------------------------------------------------------------------------

LEMMA InitIInv == Init => IInv
<1> SUFFICES ASSUME Init PROVE IInv
  OBVIOUS
<1>1. \A c \in Calls : call[c] = NoCall BY DEF Init
<1>2. TypeOK
  <2>1. NoCall \in CallRec BY DEF NoCall, CallRec
  <2>2. NoCall.at = 0 /\ NoCall.order = <<>> BY DEF NoCall
  <2>3. call \in [Calls -> CallRec] BY <2>1 DEF Init
  <2>4. \A c \in Calls : call[c].at <= Len(call[c].order) BY <1>1, <2>2
  <2>. QED BY <2>3, <2>4 DEF Init, TypeOK
<1>3. NoCall.order = <<>> /\ NoCall.pc = "idle" /\ NoCall.outcome = None BY DEF NoCall
<1>4. NamedModelsStayPrivate BY <1>1, <1>3 DEF Init, NamedModelsStayPrivate, Range
<1>5. ProbesAgree BY DEF Init, ProbesAgree
<1>6. UnavailableIsTrue BY <1>1, <1>3, ModelsAssumption DEF UnavailableIsTrue
<1>7. \A c \in Calls : CallOK(c) BY <1>1, <1>3 DEF CallOK
<1>. QED BY <1>2, <1>4, <1>5, <1>6, <1>7 DEF IInv

LEMMA NextIInv == IInv /\ [Next]_vars => IInv'
<1> SUFFICES ASSUME IInv, [Next]_vars PROVE IInv'
  OBVIOUS
<1>1. ASSUME NEW c \in Calls, NEW e \in Pins \cup {None}, Chat(c, e) PROVE IInv'
  BY <1>1, ChatStep
<1>2. ASSUME NEW c \in Calls, Serve(c) PROVE IInv' BY <1>2, ServeStep
<1>3. ASSUME NEW c \in Calls, TryNext(c) PROVE IInv' BY <1>3, TryNextStep
<1>4. ASSUME NEW c \in Calls, NoneLeft(c) PROVE IInv'
  BY <1>4, ReturnStep DEF NoneLeft, Reply
<1>5. ASSUME NEW c \in Calls, Fails(c) PROVE IInv'
  BY <1>5, ReturnStep DEF Fails, Reply
<1>6. ASSUME NEW c \in Calls, Answered(c) PROVE IInv' BY <1>6, AnsweredStep
<1>7. CASE CatalogChanges BY <1>7, CatalogStep
<1>8. CASE UNCHANGED vars
  <2>1. UNCHANGED <<catalog, moved, confirmed, call>> BY <1>8 DEF vars
  <2>2. TypeOK' BY <2>1 DEF IInv, TypeOK
  <2>3. NamedModelsStayPrivate' /\ ProbesAgree' /\ UnavailableIsTrue'
    BY <2>1 DEF IInv, NamedModelsStayPrivate, ProbesAgree, UnavailableIsTrue
  <2>4. \A c \in Calls : CallOK(c)' BY <2>1 DEF IInv, CallOK, Asked
  <2>. QED BY <2>2, <2>3, <2>4 DEF IInv
<1>. QED BY <1>1, <1>2, <1>3, <1>4, <1>5, <1>6, <1>7, <1>8 DEF Next

\* The inductive invariant holds of every execution of bytez.py's chat.
THEOREM Invariant == Spec => []IInv
  BY InitIInv, NextIInv, PTL DEF Spec

\* No call ever asks beyond its last candidate, and the model the process
\* settled on is one there is (bytez.py:182-187).
THEOREM TypeCorrect == Spec => []TypeOK
<1>1. IInv => TypeOK BY DEF IInv
<1>. QED BY <1>1, Invariant, PTL

\* A model that one caller names is asked for that caller alone, for any number
\* of calls at a time and any history of the catalog (bytez.py:119-122, 185).
THEOREM NamedModelsArePrivate == Spec => []NamedModelsStayPrivate
<1>1. IInv => NamedModelsStayPrivate BY DEF IInv
<1>. QED BY <1>1, Invariant, PTL

\* While the catalog does not change, all calls settle on its first configured
\* model, whatever the order of their replies (bytez.py:20-22, 185-187).
THEOREM AllProbesAgree == Spec => []ProbesAgree
<1>1. IInv => ProbesAgree BY DEF IInv
<1>. QED BY <1>1, Invariant, PTL

\* While the catalog does not change, "None of the configured Bytez models are
\* available" is true when it is raised (bytez.py:202-207).
THEOREM UnavailableIsCorrect == Spec => []UnavailableIsTrue
<1>1. IInv => UnavailableIsTrue BY DEF IInv
<1>. QED BY <1>1, Invariant, PTL
=============================================================================
