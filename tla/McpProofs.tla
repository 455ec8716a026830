----------------------------- MODULE McpProofs ------------------------------
(***************************************************************************)
(* Proofs about McpManager: the gates of MCP servers, for any number of    *)
(* requests, servers, commands and tools and any allowlists.               *)
(***************************************************************************)
EXTENDS McpManager, FiniteSetTheorems, TLAPS

USE McpAssumption, NoneAssumption

-----------------------------------------------------------------------------
(* The inductive invariant *)

\* The file holds what is in memory: a restart brings back nothing older.
SavedMatches ==
    \A n \in Names : saved[n] = IF servers[n] = None THEN None ELSE servers[n].persisted

\* Who was switched off is marked so.
OffIsOff == \A n \in off : ~servers[n].persisted.enabled

\* A confirmation of a server that was added since the start is a reviewed one.
ConfirmedIsReviewed ==
    \A n \in addedHere :
        servers[n].persisted.transport = "stdio" /\ servers[n].confirmed => n \in reviewed

\* Who waits, waits for a server that has a name.
WaitsForSomebody == \A t \in Tasks : task[t].pc \in AtServer => task[t].name \in Names

IInv ==
    /\ TypeOK
    /\ WaitsForSomebody
    /\ SavedMatches
    /\ OffIsOff
    /\ ConfirmedIsReviewed
    /\ ApiServersStayGated

\* The list has the command or its last part, or needs to have neither.
Gated(command) ==
    {command, Basename[command]} \cap AllowedCommands # {} \/ AllowDynamic

\* What the gates are about; requests and the registry do not touch it.
Gates == <<servers, saved, fromApi, addedHere, reviewed, off>>

-----------------------------------------------------------------------------
(* Lemmas about the helpers *)

LEMMA SizeType ==
    /\ Size \in 0..Cardinality(Names)
    /\ 0 \in 0..Cardinality(Names)
<1>. DEFINE S == {n \in Names : Known(n)}
<1>1. S \subseteq Names OBVIOUS
<1>2. IsFiniteSet(S) /\ Cardinality(S) <= Cardinality(Names) BY <1>1, FS_Subset
<1>3. Cardinality(S) \in Nat /\ Cardinality(Names) \in Nat BY <1>2, FS_CardinalityType
<1>. QED BY <1>2, <1>3 DEF Size

LEMMA ConfigFields ==
    ASSUME NEW c \in Config
    PROVE  /\ c # None
           /\ c.persisted \in Persisted /\ c.persisted # None
           /\ c.confirmed \in BOOLEAN
           /\ c.confirmed \/ c.persisted.transport = "stdio"
  BY DEF Config

LEMMA ConfigMade ==
    ASSUME NEW p \in Persisted, NEW b \in BOOLEAN, b \/ p.transport = "stdio"
    PROVE  [persisted |-> p, confirmed |-> b] \in Config
  BY DEF Config

\* What a request comes to be is a config within the allowlist of variables.
LEMMA AddedType ==
    ASSUME NEW n \in Names, NEW p \in Persisted
    PROVE  /\ Added(n, p) \in Config
           /\ Added(n, p).confirmed = (p.transport # "stdio")
           /\ Added(n, p).persisted.transport = p.transport
           /\ Added(n, p).persisted.enabled = p.enabled
           /\ p.transport = "stdio" =>
                /\ Added(n, p).persisted.command = p.command
                /\ Added(n, p).persisted.env \subseteq AllowedEnv
<1>. DEFINE q == [p EXCEPT !.env = IF p.transport = "stdio" THEN @ \cap AllowedEnv ELSE @]
<1>1. /\ q \in Persisted
      /\ q.transport = p.transport /\ q.enabled = p.enabled /\ q.command = p.command
      /\ p.transport = "stdio" => q.env \subseteq AllowedEnv
  <2>1. CASE p \in [transport: {"stdio"}, command: Commands, env: SUBSET EnvVars, enabled: BOOLEAN]
    BY <2>1 DEF Persisted
  <2>2. CASE p \in [transport: {"http"}, command: {None}, env: {{}}, enabled: BOOLEAN]
    <3>1. p.transport = "http" BY <2>2
    <3>. QED BY <2>2, <3>1 DEF Persisted
  <2>. QED BY <2>1, <2>2 DEF Persisted
<1>2. Added(n, p) = [persisted |-> q, confirmed |-> p.transport # "stdio"] BY DEF Added
<1>. HIDE DEF q
<1>3. (p.transport # "stdio") \in BOOLEAN /\ (p.transport # "stdio" \/ q.transport = "stdio")
  BY <1>1
<1>4. Added(n, p) \in Config BY <1>1, <1>2, <1>3, ConfigMade
<1>5. Added(n, p).persisted = q /\ Added(n, p).confirmed = (p.transport # "stdio") BY <1>2
<1>. QED BY <1>1, <1>4, <1>5

\* A switch leaves everything but itself as it was.
LEMMA SwitchedType ==
    ASSUME NEW c \in Config, NEW enabled \in BOOLEAN
    PROVE  /\ [c EXCEPT !.persisted.enabled = enabled] \in Config
           /\ [c EXCEPT !.persisted.enabled = enabled].confirmed = c.confirmed
           /\ [c EXCEPT !.persisted.enabled = enabled].persisted
                = [c.persisted EXCEPT !.enabled = enabled]
           /\ [c.persisted EXCEPT !.enabled = enabled].enabled = enabled
           /\ [c.persisted EXCEPT !.enabled = enabled].transport = c.persisted.transport
           /\ [c.persisted EXCEPT !.enabled = enabled].command = c.persisted.command
           /\ [c.persisted EXCEPT !.enabled = enabled].env = c.persisted.env
<1>. DEFINE p == c.persisted
            q == [p EXCEPT !.enabled = enabled]
<1>1. p \in Persisted BY ConfigFields
<1>2. /\ q \in Persisted /\ q.enabled = enabled
      /\ q.transport = p.transport /\ q.command = p.command /\ q.env = p.env
  BY <1>1 DEF Persisted
<1>3. c = [persisted |-> p, confirmed |-> c.confirmed] BY DEF Config
<1>4. [c EXCEPT !.persisted.enabled = enabled] = [persisted |-> q, confirmed |-> c.confirmed]
  BY <1>3
<1>5. c.confirmed \in BOOLEAN /\ (c.confirmed \/ q.transport = "stdio")
  BY <1>2, ConfigFields
<1>. HIDE DEF q
<1>6. [persisted |-> q, confirmed |-> c.confirmed] \in Config
  BY <1>2, <1>5, ConfigMade
<1>. QED BY <1>2, <1>4, <1>6 DEF q

\* From here on a config is what the lemmas say of it.
LEMMA LoadedType ==
    ASSUME NEW file \in [Names -> Persisted \cup {None}], NEW n \in Names
    PROVE  /\ file[n] = None => Load(file)[n] = None
           /\ file[n] # None =>
                /\ Load(file)[n] \in Config
                /\ Load(file)[n].persisted = file[n]
  BY ConfigMade DEF Load

LEMMA LoadIsFunction ==
    ASSUME NEW file \in [Names -> Persisted \cup {None}]
    PROVE  Load(file) \in [Names -> Config \cup {None}]
<1>1. \A n \in Names : Load(file)[n] \in Config \cup {None} BY LoadedType
<1>. QED BY <1>1 DEF Load

-----------------------------------------------------------------------------
(* The initial states *)

LEMMA InitOK == Init => IInv
<1>. SUFFICES ASSUME Init PROVE IInv OBVIOUS
<1>1. saved \in [Names -> Persisted \cup {None}] /\ servers = Load(saved) BY DEF Init
<1>2. servers \in [Names -> Config \cup {None}] BY <1>1, LoadIsFunction
<1>3. \A n \in Names : /\ saved[n] = None => servers[n] = None
                       /\ saved[n] # None =>
                            servers[n] \in Config /\ servers[n].persisted = saved[n]
  BY <1>1, LoadedType
<1>4. \A n \in Names : servers[n] \in Config => servers[n] # None BY ConfigFields
<1>5. TypeOK
  <2>1. task \in [Tasks -> [pc: {"idle", "crashed"} \cup AtServer, name: Names \cup {None},
                           size: 0..Cardinality(Names)]]
    <3>1. 0 \in 0..Cardinality(Names) BY SizeType
    <3>. QED BY <3>1 DEF Init, Idle
  <2>2. off \subseteq {n \in Names : servers[n] # None} BY <1>3, <1>4 DEF Init
  <2>. QED BY <1>1, <1>2, <2>1, <2>2 DEF TypeOK, Init
<1>6. SavedMatches BY <1>3, <1>4 DEF SavedMatches
<1>7. OffIsOff BY <1>3 DEF OffIsOff, Init
<1>8. ConfirmedIsReviewed /\ ApiServersStayGated
  BY DEF ConfirmedIsReviewed, ApiServersStayGated, Init
<1>9. WaitsForSomebody BY DEF WaitsForSomebody, Init, Idle, AtServer
<1>. QED BY <1>5, <1>6, <1>7, <1>8, <1>9 DEF IInv

-----------------------------------------------------------------------------
(* The steps *)

\* What the type invariant says of a request.
TaskType ==
    [pc: {"idle", "crashed"} \cup AtServer, name: Names \cup {None},
     size: 0..Cardinality(Names)]

\* A step of a request leaves the servers, the file and the gates alone.
LEMMA RequestStep ==
    ASSUME IInv, UNCHANGED Gates,
           task' \in [Tasks -> TaskType], WaitsForSomebody',
           registered' \subseteq Names \X Tools
    PROVE  IInv'
<1>1. TypeOK' BY DEF IInv, TypeOK, Gates, TaskType
<1>2. SavedMatches' /\ OffIsOff' /\ ConfirmedIsReviewed' /\ ApiServersStayGated'
  BY DEF IInv, SavedMatches, OffIsOff, ConfirmedIsReviewed, ApiServersStayGated, Gates
<1>. QED BY <1>1, <1>2 DEF IInv

\* One that only moves on, to wait or to end, is such a step.
LEMMA MoveStep ==
    ASSUME IInv, UNCHANGED <<Gates, registered>>, NEW t \in Tasks, NEW x \in TaskType,
           x.pc \in AtServer => x.name \in Names,
           task' = [task EXCEPT ![t] = x]
    PROVE  IInv'
<1>1. task' \in [Tasks -> TaskType] BY DEF IInv, TypeOK, TaskType
<1>2. registered' \subseteq Names \X Tools /\ UNCHANGED Gates BY DEF IInv, TypeOK
<1>3. WaitsForSomebody' BY DEF IInv, TypeOK, WaitsForSomebody
<1>. QED BY <1>1, <1>2, <1>3, RequestStep

LEMMA TaskTypes ==
    /\ Idle \in TaskType /\ Idle.pc \notin AtServer
    /\ \A pc \in AtServer, n \in Names, k \in 0..Cardinality(Names) :
         [pc |-> pc, name |-> n, size |-> k] \in TaskType
  BY SizeType DEF Idle, TaskType, AtServer

LEMMA ConnectOK ==
    ASSUME IInv, NEW t \in Tasks, NEW n \in Names, Connect(t, n) \/ CallTool(t, n)
    PROVE  IInv'
<1>1. PICK pc \in AtServer : task' = [task EXCEPT ![t] = [pc |-> pc, name |-> n, size |-> 0]]
  BY DEF Connect, CallTool, Wait, AtServer
<1>2. [pc |-> pc, name |-> n, size |-> 0] \in TaskType BY TaskTypes, SizeType
<1>3. UNCHANGED <<Gates, registered>> BY DEF Connect, CallTool, Gates
<1>. QED BY <1>1, <1>2, <1>3, MoveStep

LEMMA ListedOK ==
    ASSUME IInv, NEW t \in Tasks, Listed(t)
    PROVE  IInv'
<1>1. UNCHANGED <<Gates, registered>> BY DEF Listed, Gates
<1>2. CASE task' = [task EXCEPT ![t] = Idle] BY <1>1, <1>2, TaskTypes, MoveStep
<1>3. CASE Ready(task[t].name) /\ Wait(t, "discovering", task[t].name, Size)
  <2>. DEFINE n == task[t].name
  <2>1. n \in Names BY DEF IInv, WaitsForSomebody, Listed, AtServer
  <2>2. [pc |-> "discovering", name |-> n, size |-> Size] \in TaskType
    BY <2>1, TaskTypes, SizeType DEF AtServer
  <2>. QED BY <1>1, <1>3, <2>1, <2>2, MoveStep DEF Wait
<1>. QED BY <1>2, <1>3 DEF Listed

LEMMA EndsOK ==
    ASSUME IInv, NEW t \in Tasks, ListingFails(t) \/ Answer500(t) \/ CallReturns(t)
    PROVE  IInv'
<1>1. task' = [task EXCEPT ![t] = Idle] BY DEF ListingFails, Answer500, CallReturns
<1>2. UNCHANGED <<Gates, registered>> BY DEF ListingFails, Answer500, CallReturns, Gates
<1>. QED BY <1>1, <1>2, TaskTypes, MoveStep

LEMMA DiscoveredOK ==
    ASSUME IInv, NEW t \in Tasks, NEW tools \in SUBSET Tools, Discovered(t, tools)
    PROVE  IInv'
<1>1. UNCHANGED Gates BY DEF Discovered, Gates
<1>2. task[t] \in TaskType /\ task[t].name \in Names
  BY DEF IInv, TypeOK, TaskType, WaitsForSomebody, Discovered, AtServer
<1>3. task' \in [Tasks -> TaskType] /\ WaitsForSomebody'
  <2>1. PICK x \in TaskType : x.pc \notin AtServer /\ task' = [task EXCEPT ![t] = x]
    <3>1. CASE task' = [task EXCEPT ![t].pc = "crashed"]
      <4>1. [task[t] EXCEPT !.pc = "crashed"] \in TaskType BY <1>2 DEF TaskType
      <4>2. [task[t] EXCEPT !.pc = "crashed"].pc = "crashed" BY <1>2 DEF TaskType
      <4>. QED BY <3>1, <4>1, <4>2 DEF AtServer
    <3>2. CASE task' = [task EXCEPT ![t] = Idle] BY <3>2, TaskTypes
    <3>. QED BY <3>1, <3>2 DEF Discovered
  <2>. QED BY <2>1 DEF IInv, TypeOK, TaskType, WaitsForSomebody
<1>4. registered' \subseteq Names \X Tools
  BY <1>2 DEF Discovered, IInv, TypeOK
<1>. QED BY <1>1, <1>3, <1>4, RequestStep

\* What a step does to one server: it has a new entry that is saved, and the
\* histories of all others stay.
LEMMA ServerStep ==
    ASSUME IInv, NEW n \in Names, NEW c \in Config,
           servers' = [servers EXCEPT ![n] = c],
           \A m \in Names \ {n} : saved'[m] = saved[m],
           saved' \in [Names -> Persisted \cup {None}], saved'[n] = c.persisted,
           UNCHANGED <<registered, task>>,
           fromApi' \subseteq fromApi \cup {n}, addedHere' \subseteq fromApi',
           fromApi \subseteq fromApi', reviewed' \subseteq fromApi',
           addedHere' \subseteq addedHere \cup {n}, reviewed \ {n} \subseteq reviewed',
           off' \subseteq off \cup {n}, n \in off' => ~c.persisted.enabled,
           n \in addedHere' /\ c.persisted.transport = "stdio" /\ c.confirmed
             => n \in reviewed',
           n \in fromApi' /\ c.persisted.transport = "stdio" =>
             /\ Gated(c.persisted.command)
             /\ c.persisted.env \subseteq AllowedEnv
    PROVE  IInv'
<1>1. servers \in [Names -> Config \cup {None}] BY DEF IInv, TypeOK
<1>2. /\ servers'[n] = c
      /\ \A m \in Names \ {n} : servers'[m] = servers[m]
      /\ servers' \in [Names -> Config \cup {None}]
  BY <1>1
<1>3. servers'[n] # None BY <1>2, ConfigFields
<1>4. fromApi \subseteq Names /\ addedHere \subseteq Names /\ off \subseteq Names
  BY DEF IInv, TypeOK
<1>5. TypeOK'
  <2>1. fromApi' \subseteq {m \in Names : servers'[m] # None}
    BY <1>2, <1>3 DEF IInv, TypeOK
  <2>2. off' \subseteq {m \in Names : servers'[m] # None}
    BY <1>2, <1>3 DEF IInv, TypeOK
  <2>. QED BY <1>2, <2>1, <2>2 DEF IInv, TypeOK
<1>6. WaitsForSomebody' BY DEF IInv, WaitsForSomebody
<1>7. SavedMatches' BY <1>2, <1>3 DEF IInv, SavedMatches
<1>8. OffIsOff' BY <1>2, <1>4 DEF IInv, OffIsOff
<1>9. ConfirmedIsReviewed' BY <1>2, <1>4 DEF IInv, ConfirmedIsReviewed
<1>10. ApiServersStayGated' BY <1>2, <1>4 DEF IInv, ApiServersStayGated, Gated
<1>. QED BY <1>5, <1>6, <1>7, <1>8, <1>9, <1>10 DEF IInv

\* Saving one new entry writes it and leaves the others as they were.
LEMMA SaveOne ==
    ASSUME IInv, NEW n \in Names, NEW c \in Config,
           servers' = [servers EXCEPT ![n] = c], Save(servers')
    PROVE  /\ saved' \in [Names -> Persisted \cup {None}]
           /\ saved'[n] = c.persisted
           /\ \A m \in Names \ {n} : saved'[m] = saved[m]
<1>1. servers \in [Names -> Config \cup {None}] BY DEF IInv, TypeOK
<1>2. servers'[n] = c /\ \A m \in Names \ {n} : servers'[m] = servers[m] BY <1>1
<1>3. saved'[n] = c.persisted BY <1>2, ConfigFields DEF Save
<1>4. \A m \in Names \ {n} : saved'[m] = saved[m] BY <1>2 DEF Save, IInv, SavedMatches
<1>5. \A m \in Names : saved'[m] \in Persisted \cup {None}
  BY <1>3, <1>4, ConfigFields DEF IInv, TypeOK
<1>. QED BY <1>3, <1>4, <1>5 DEF Save

LEMMA AddServerOK ==
    ASSUME IInv, NEW n \in Names, NEW p \in Persisted, AddServer(n, p)
    PROVE  IInv'
<1>. DEFINE c == Added(n, p)
<1>1. /\ c \in Config /\ c.confirmed = (p.transport # "stdio")
      /\ c.persisted.transport = p.transport /\ c.persisted.enabled = p.enabled
      /\ p.transport = "stdio" => c.persisted.command = p.command
                                 /\ c.persisted.env \subseteq AllowedEnv
  BY AddedType
<1>2. servers' = [servers EXCEPT ![n] = c] /\ Save(servers') BY DEF AddServer
<1>3. p.transport = "stdio" => Gated(p.command)
  BY DEF AddServer, CommandAllowed, Gated
<1>4. n \in off' => ~p.enabled BY DEF AddServer
<1>5. /\ UNCHANGED <<registered, task>>
      /\ fromApi' = fromApi \cup {n} /\ addedHere' = addedHere \cup {n}
      /\ reviewed' = reviewed \ {n} /\ off' \subseteq off \cup {n}
  BY DEF AddServer
<1>6. addedHere \subseteq fromApi /\ reviewed \subseteq fromApi BY DEF IInv, TypeOK
<1>. HIDE DEF c
<1>7. /\ saved' \in [Names -> Persisted \cup {None}] /\ saved'[n] = c.persisted
      /\ \A m \in Names \ {n} : saved'[m] = saved[m]
  BY <1>1, <1>2, SaveOne
<1>. QED BY <1>1, <1>2, <1>3, <1>4, <1>5, <1>6, <1>7, ServerStep

LEMMA SetEnabledOK ==
    ASSUME IInv, NEW n \in Names, NEW enabled \in BOOLEAN, SetEnabled(n, enabled)
    PROVE  IInv'
<1>. DEFINE old == servers[n]
            c == [old EXCEPT !.persisted.enabled = enabled]
<1>1. old \in Config /\ old # None BY DEF IInv, TypeOK, SetEnabled, Known
<1>2. servers' = [servers EXCEPT ![n] = c] /\ Save(servers') BY DEF SetEnabled
<1>3. /\ c \in Config /\ c.confirmed = old.confirmed /\ c.persisted.enabled = enabled
      /\ c.persisted.transport = old.persisted.transport
      /\ c.persisted.command = old.persisted.command
      /\ c.persisted.env = old.persisted.env
  <2>. HIDE DEF old
  <2>1. /\ c \in Config /\ c.confirmed = old.confirmed
        /\ c.persisted = [old.persisted EXCEPT !.enabled = enabled]
    BY <1>1, SwitchedType
  <2>2. LET q == [old.persisted EXCEPT !.enabled = enabled] IN
        /\ q.enabled = enabled /\ q.transport = old.persisted.transport
        /\ q.command = old.persisted.command /\ q.env = old.persisted.env
    BY <1>1, SwitchedType
  <2>. HIDE DEF c
  <2>. QED BY <2>1, <2>2
<1>4. /\ UNCHANGED <<registered, task, fromApi, addedHere, reviewed>>
      /\ off' \subseteq off \cup {n} /\ (n \in off' => ~enabled)
  BY DEF SetEnabled
<1>5. addedHere \subseteq fromApi /\ reviewed \subseteq fromApi BY DEF IInv, TypeOK
<1>6. n \in addedHere /\ old.persisted.transport = "stdio" /\ old.confirmed => n \in reviewed
  BY DEF IInv, ConfirmedIsReviewed
<1>7. n \in fromApi /\ old.persisted.transport = "stdio" =>
        /\ Gated(old.persisted.command)
        /\ old.persisted.env \subseteq AllowedEnv
  BY DEF IInv, ApiServersStayGated, Gated
<1>. HIDE DEF c, old
<1>8. /\ saved' \in [Names -> Persisted \cup {None}] /\ saved'[n] = c.persisted
      /\ \A m \in Names \ {n} : saved'[m] = saved[m]
  BY <1>2, <1>3, SaveOne
<1>. QED BY <1>2, <1>3, <1>4, <1>5, <1>6, <1>7, <1>8, ServerStep

LEMMA ConfirmServerOK ==
    ASSUME IInv, NEW n \in Names, ConfirmServer(n)
    PROVE  IInv'
<1>. DEFINE old == servers[n]
            c == [old EXCEPT !.confirmed = TRUE]
<1>1. old \in Config /\ old # None BY DEF IInv, TypeOK, ConfirmServer, Known
<1>2. servers' = [servers EXCEPT ![n] = c] BY DEF ConfirmServer
<1>3. c \in Config /\ c.persisted = old.persisted BY <1>1 DEF Config
<1>4. /\ UNCHANGED <<saved, registered, task, fromApi, addedHere, off>>
      /\ reviewed' = reviewed \cup ({n} \cap fromApi)
  BY DEF ConfirmServer
<1>5. /\ addedHere \subseteq fromApi /\ reviewed \subseteq fromApi
      /\ saved \in [Names -> Persisted \cup {None}] /\ saved[n] = old.persisted
  BY <1>1 DEF IInv, TypeOK, SavedMatches
<1>6. n \in off => ~old.persisted.enabled BY DEF IInv, OffIsOff
<1>7. n \in fromApi /\ old.persisted.transport = "stdio" =>
        /\ Gated(old.persisted.command)
        /\ old.persisted.env \subseteq AllowedEnv
  BY DEF IInv, ApiServersStayGated, Gated
<1>. HIDE DEF c, old
<1>. QED BY <1>2, <1>3, <1>4, <1>5, <1>6, <1>7, ServerStep

LEMMA RestartOK ==
    ASSUME IInv, Restart
    PROVE  IInv'
<1>1. saved \in [Names -> Persisted \cup {None}] BY DEF IInv, TypeOK
<1>2. servers' = Load(saved) /\ servers' \in [Names -> Config \cup {None}]
  BY <1>1, LoadIsFunction DEF Restart
<1>3. \A n \in Names : /\ servers[n] = None => servers'[n] = None
                       /\ servers[n] # None =>
                            /\ servers'[n] \in Config /\ servers'[n] # None
                            /\ servers'[n].persisted = servers[n].persisted
  <2>. SUFFICES ASSUME NEW n \in Names
                PROVE  /\ servers[n] = None => servers'[n] = None
                       /\ servers[n] # None =>
                            /\ servers'[n] \in Config /\ servers'[n] # None
                            /\ servers'[n].persisted = servers[n].persisted
    OBVIOUS
  <2>1. CASE servers[n] = None BY <1>1, <1>2, <2>1, LoadedType DEF IInv, SavedMatches
  <2>2. CASE servers[n] # None
    <3>1. saved[n] = servers[n].persisted /\ servers[n] \in Config
      BY <2>2 DEF IInv, SavedMatches, TypeOK
    <3>2. saved[n] # None BY <3>1, ConfigFields
    <3>3. servers'[n] \in Config /\ servers'[n].persisted = saved[n]
      BY <1>1, <1>2, <3>2, LoadedType
    <3>. QED BY <2>2, <3>1, <3>3, ConfigFields
  <2>. QED BY <2>1, <2>2
<1>4. /\ registered' = {} /\ task' = [t \in Tasks |-> Idle] /\ addedHere' = {}
      /\ UNCHANGED <<saved, fromApi, reviewed, off>>
  BY DEF Restart
<1>5. TypeOK'
  <2>1. task' \in [Tasks -> TaskType] BY <1>4, TaskTypes
  <2>. QED BY <1>2, <1>3, <1>4, <2>1 DEF IInv, TypeOK, TaskType
<1>6. SavedMatches' BY <1>3, <1>4 DEF IInv, SavedMatches
<1>7. OffIsOff' BY <1>3, <1>4 DEF IInv, OffIsOff, TypeOK
<1>8. ApiServersStayGated' BY <1>3, <1>4 DEF IInv, ApiServersStayGated, TypeOK
<1>9. ConfirmedIsReviewed' /\ WaitsForSomebody'
  BY <1>4 DEF ConfirmedIsReviewed, WaitsForSomebody, Idle, AtServer
<1>. QED BY <1>5, <1>6, <1>7, <1>8, <1>9 DEF IInv

LEMMA StutterOK ==
    ASSUME IInv, UNCHANGED vars
    PROVE  IInv'
<1>1. UNCHANGED Gates /\ UNCHANGED <<task, registered>> BY DEF vars, Gates
<1>2. WaitsForSomebody' BY <1>1 DEF IInv, WaitsForSomebody
<1>. QED BY <1>1, <1>2, RequestStep DEF IInv, TypeOK, TaskType

LEMMA StepOK == IInv /\ [Next]_vars => IInv'
<1>. SUFFICES ASSUME IInv, [Next]_vars PROVE IInv' OBVIOUS
<1>1. CASE \E n \in Names, p \in Persisted : AddServer(n, p) BY <1>1, AddServerOK
<1>2. CASE \E n \in Names : ConfirmServer(n) BY <1>2, ConfirmServerOK
<1>3. CASE \E n \in Names, enabled \in BOOLEAN : SetEnabled(n, enabled)
  BY <1>3, SetEnabledOK
<1>4. CASE \E t \in Tasks, n \in Names : Connect(t, n) \/ CallTool(t, n)
  BY <1>4, ConnectOK
<1>5. CASE \E t \in Tasks : Listed(t) \/ ListingFails(t) \/ Answer500(t) \/ CallReturns(t)
  BY <1>5, ListedOK, EndsOK
<1>6. CASE \E t \in Tasks, tools \in SUBSET Tools : Discovered(t, tools)
  BY <1>6, DiscoveredOK
<1>7. CASE Restart BY <1>7, RestartOK
<1>8. CASE UNCHANGED vars BY <1>8, StutterOK
<1>. QED BY <1>1, <1>2, <1>3, <1>4, <1>5, <1>6, <1>7, <1>8 DEF Next

-----------------------------------------------------------------------------
(* Who opens a connection *)

\* A connection is opened only to a server that _require_ready lets pass now.
LEMMA OpensReady ==
    ASSUME IInv, Next, NEW t \in Tasks, Opens(t)
    PROVE  task'[t].name \in Names /\ Ready(task'[t].name)
<1>. USE DEF Opens, AtServer
<1>0. task \in [Tasks -> TaskType] BY DEF IInv, TypeOK, TaskType
<1>1. ASSUME NEW u \in Tasks, NEW n \in Names, Connect(u, n) \/ CallTool(u, n)
      PROVE  task'[t].name \in Names /\ Ready(task'[t].name)
  BY <1>0, <1>1 DEF Connect, CallTool, Wait
<1>2. ASSUME NEW u \in Tasks, Listed(u)
      PROVE  task'[t].name \in Names /\ Ready(task'[t].name)
  <2>1. task[u].name \in Names BY <1>2 DEF Listed, IInv, WaitsForSomebody
  <2>2. CASE t = u BY <1>0, <1>2, <2>1, <2>2 DEF Listed, Wait, Idle
  <2>3. CASE t # u BY <1>0, <1>2, <2>3 DEF Listed, Wait
  <2>. QED BY <2>2, <2>3
<1>3. ASSUME NEW u \in Tasks, ListingFails(u) \/ Answer500(u) \/ CallReturns(u)
      PROVE  FALSE
  BY <1>0, <1>3 DEF ListingFails, Answer500, CallReturns, Idle
<1>4. ASSUME NEW u \in Tasks, NEW tools \in SUBSET Tools, Discovered(u, tools)
      PROVE  FALSE
  <2>1. CASE task' = [task EXCEPT ![u] = Idle] BY <1>0, <2>1 DEF Idle
  <2>2. CASE task' = [task EXCEPT ![u].pc = "crashed"]
    <3>1. CASE t = u
      <4>1. task'[t].pc = "crashed" BY <1>0, <2>2, <3>1 DEF TaskType
      <4>. QED BY <4>1
    <3>2. CASE t # u BY <1>0, <2>2, <3>2
    <3>. QED BY <3>1, <3>2
  <2>. QED BY <1>4, <2>1, <2>2 DEF Discovered
<1>5. CASE Restart BY <1>5 DEF Restart, Idle
<1>6. ASSUME \/ \E n \in Names, p \in Persisted : AddServer(n, p)
             \/ \E n \in Names : ConfirmServer(n)
             \/ \E n \in Names, enabled \in BOOLEAN : SetEnabled(n, enabled)
      PROVE  FALSE
  BY <1>6 DEF AddServer, ConfirmServer, SetEnabled
<1>. QED BY <1>1, <1>2, <1>3, <1>4, <1>5, <1>6 DEF Next

-----------------------------------------------------------------------------
(* The theorems *)

\* Files, memory and histories stay consistent over additions, confirmations,
\* switches, interleaved requests and restarts.
THEOREM Invariant == Spec => []IInv
  BY InitOK, StepOK, PTL DEF Spec

\* Every reachable state is well typed.
THEOREM TypeCorrect == Spec => []TypeOK
<1>1. IInv => TypeOK BY DEF IInv
<1>. QED BY <1>1, Invariant, PTL

\* What came through the API stays within the allowlists, also over restarts.
THEOREM AllowlistsHold == Spec => []ApiServersStayGated
<1>1. IInv => ApiServersStayGated BY DEF IInv
<1>. QED BY <1>1, Invariant, PTL

\* A server that was switched off is contacted by nobody until it is on again.
THEOREM SwitchHolds == Spec => OffIsSilent
<1>1. IInv /\ [Next]_vars => [\A t \in Tasks : Opens(t) => task'[t].name \notin off]_vars
  <2>. SUFFICES ASSUME IInv, Next, NEW t \in Tasks, Opens(t)
                PROVE  task'[t].name \notin off
    OBVIOUS
  <2>1. task'[t].name \in Names /\ Ready(task'[t].name) BY OpensReady
  <2>. QED BY <2>1 DEF Ready, IInv, OffIsOff
<1>. QED BY <1>1, Invariant, PTL DEF Spec, OffIsSilent

\* A stdio server added since the start is not started before it is confirmed.
THEOREM ConfirmationHolds == Spec => ConfirmedBeforeUse
<1>1. IInv /\ [Next]_vars =>
        [\A t \in Tasks : Opens(t) =>
           LET n == task'[t].name IN
           n \in addedHere /\ servers[n].persisted.transport = "stdio" => n \in reviewed]_vars
  <2>. SUFFICES ASSUME IInv, Next, NEW t \in Tasks, Opens(t),
                       task'[t].name \in addedHere,
                       servers[task'[t].name].persisted.transport = "stdio"
                PROVE  task'[t].name \in reviewed
    OBVIOUS
  <2>1. Ready(task'[t].name) BY OpensReady
  <2>. QED BY <2>1 DEF Ready, IInv, ConfirmedIsReviewed
<1>. QED BY <1>1, Invariant, PTL DEF Spec, ConfirmedBeforeUse

=============================================================================
