----------------------------- MODULE McpManager -----------------------------
(***************************************************************************)
(* McpClientManager (app/integrations/mcp.py) with its config file, the    *)
(* REST endpoints that drive it, and the ToolRegistry it fills.            *)
(*                                                                         *)
(* Requests interleave where they await an MCP server: a connect endpoint  *)
(* does so twice (connect_and_list_tools, then discover_all_tools), a tool *)
(* call once.  Adding, confirming and toggling a server are synchronous.   *)
(* A restart keeps mcp_servers.json and nothing else.                      *)
(***************************************************************************)
EXTENDS Naturals, FiniteSets

CONSTANTS
    Tasks,           \* slots for concurrently running requests
    Names,           \* server names
    Commands,        \* commands a stdio server may have
    Basename,        \* what follows the last slash of a command
    AllowedCommands, \* MCP_ALLOWED_COMMANDS
    EnvVars,         \* environment variables a config may name
    AllowedEnv,      \* MCP_ALLOWED_ENV_VARS
    AllowDynamic,    \* ALLOW_DYNAMIC_STDIO_MCP
    Tools,           \* tools a server may list
    None

ASSUME McpAssumption ==
    /\ Basename \in [Commands -> Commands]
    /\ AllowedCommands \subseteq Commands
    /\ AllowedEnv \subseteq EnvVars
    /\ AllowDynamic \in BOOLEAN
    /\ IsFiniteSet(Names)
    /\ None \notin Names \cup Commands

VARIABLES
    servers,    \* McpClientManager._servers
    saved,      \* mcp_servers.json
    registered, \* the MCP tools of the ToolRegistry
    task,       \* the coroutine of each request
    fromApi,    \* history: servers whose entry came through the REST API
    addedHere,  \* history: ... since the process started
    reviewed,   \* history: ... and was confirmed after that
    off         \* history: servers last told to be disabled

vars == <<servers, saved, registered, task, fromApi, addedHere, reviewed, off>>

-----------------------------------------------------------------------------
(* Types *)

\* A config that is in the file, and one that is in memory.  Of a remote
\* server neither the command nor the environment is ever used.
Persisted ==
    [transport: {"stdio"}, command: Commands, env: SUBSET EnvVars, enabled: BOOLEAN]
      \cup [transport: {"http"}, command: {None}, env: {{}}, enabled: BOOLEAN]

\* Only a stdio server can be unconfirmed.
Config == {c \in [persisted: Persisted, confirmed: BOOLEAN] :
             c.confirmed \/ c.persisted.transport = "stdio"}

ASSUME NoneAssumption == None \notin Persisted \cup Config

Idle == [pc |-> "idle", name |-> None, size |-> 0]

\* Where a request waits for a server.
AtServer == {"listing", "discovering", "calling"}

TypeOK ==
    /\ servers \in [Names -> Config \cup {None}]
    /\ saved \in [Names -> Persisted \cup {None}]
    /\ registered \subseteq Names \X Tools
    /\ task \in [Tasks -> [pc: {"idle", "crashed"} \cup AtServer, name: Names \cup {None},
                           size: 0..Cardinality(Names)]]
    /\ addedHere \subseteq fromApi
    /\ reviewed \subseteq fromApi
    /\ fromApi \subseteq {n \in Names : servers[n] # None}
    /\ off \subseteq {n \in Names : servers[n] # None}

-----------------------------------------------------------------------------
(* Helpers *)

Known(n) == servers[n] # None

\* len(self._servers): what a dict iterator compares.
Size == Cardinality({n \in Names : Known(n)})

\* Faulty variant: the confirmation is not looked at.
ReadyUnconfirmed(n) ==
    /\ Known(n)
    /\ servers[n].persisted.enabled

\* Faulty variant: a disabled server is ready.
ReadyDisabled(n) ==
    /\ Known(n)
    /\ servers[n].persisted.transport = "stdio" => servers[n].confirmed

\* The server exists and _require_ready lets it pass.
Ready(n) ==
    /\ Known(n)
    /\ servers[n].persisted.enabled
    /\ servers[n].persisted.transport = "stdio" => servers[n].confirmed

\* McpServerConfig.from_dict: whatever the file holds is trusted and confirmed.
Load(file) ==
    [n \in Names |-> IF file[n] = None THEN None
                     ELSE [persisted |-> file[n], confirmed |-> TRUE]]

Save(s) == saved' = [n \in Names |-> IF s[n] = None THEN None ELSE s[n].persisted]

-----------------------------------------------------------------------------
(* Actions *)

Init ==
    /\ saved \in [Names -> Persisted \cup {None}]
    /\ servers = Load(saved)
    /\ registered = {}
    /\ task = [t \in Tasks |-> Idle]
    /\ fromApi = {}
    /\ addedHere = {}
    /\ reviewed = {}
    /\ off = {n \in Names : saved[n] # None /\ ~saved[n].enabled}

\* _check_command_allowed: a path passes if its last part is in the list.
CommandAllowed(command) ==
    \/ Basename[command] \in AllowedCommands
    \/ command \in AllowedCommands
    \/ AllowDynamic

\* Faulty variant: a server that is replaced keeps its confirmation.
AddedKeepingConfirmed(n, p) ==
    [persisted |-> [p EXCEPT !.env = IF p.transport = "stdio" THEN @ \cap AllowedEnv ELSE @],
     confirmed |-> p.transport # "stdio" \/ (Known(n) /\ servers[n].confirmed)]

\* Faulty variant: the environment is not filtered.
AddedUnfiltered(n, p) ==
    [persisted |-> p, confirmed |-> p.transport # "stdio"]

\* Faulty variant: a remote server has to be confirmed too.
AddedUnconfirmed(n, p) ==
    [persisted |-> [p EXCEPT !.env = IF p.transport = "stdio" THEN @ \cap AllowedEnv ELSE @],
     confirmed |-> FALSE]

\* What add_server makes of a request.
Added(n, p) ==
    [persisted |-> [p EXCEPT !.env = IF p.transport = "stdio" THEN @ \cap AllowedEnv ELSE @],
     confirmed |-> p.transport # "stdio"]

\* POST /api/mcp/servers: add_server replaces an entry of the same name.
AddServer(n, p) ==
    /\ p.transport = "stdio" => CommandAllowed(p.command)
    /\ servers' = [servers EXCEPT ![n] = Added(n, p)]
    /\ Save(servers')
    /\ fromApi' = fromApi \cup {n}
    /\ addedHere' = addedHere \cup {n}
    /\ reviewed' = reviewed \ {n}
    /\ off' = IF p.enabled THEN off \ {n} ELSE off \cup {n}
    /\ UNCHANGED <<registered, task>>

\* POST /api/mcp/{name}/confirm: nothing is saved.
ConfirmServer(n) ==
    /\ Known(n)
    /\ servers' = [servers EXCEPT ![n].confirmed = TRUE]
    /\ reviewed' = reviewed \cup ({n} \cap fromApi)
    /\ UNCHANGED <<saved, registered, task, fromApi, addedHere, off>>

\* POST /api/mcp/{name}/toggle.
SetEnabled(n, enabled) ==
    /\ Known(n)
    /\ servers' = [servers EXCEPT ![n].persisted.enabled = enabled]
    /\ Save(servers')
    /\ off' = IF enabled THEN off \ {n} ELSE off \cup {n}
    /\ UNCHANGED <<registered, task, fromApi, addedHere, reviewed>>

\* A request comes to wait for server n, with what it remembers of the dict.
Wait(t, pc, n, size) ==
    task' = [task EXCEPT ![t] = [pc |-> pc, name |-> n, size |-> size]]

\* POST /api/mcp/connect: connect_and_list_tools opens a connection.
Connect(t, n) ==
    /\ task[t].pc = "idle"
    /\ Ready(n)
    /\ Wait(t, "listing", n, 0)
    /\ UNCHANGED <<servers, saved, registered, fromApi, addedHere, reviewed, off>>

\* The server lists its tools.  register_mcp_tools then walks over the servers
\* up to the one of this name and connects to it again if it still may.
Listed(t) ==
    /\ task[t].pc = "listing"
    /\ IF Ready(task[t].name)
       THEN Wait(t, "discovering", task[t].name, Size)
       ELSE task' = [task EXCEPT ![t] = Idle]
    /\ UNCHANGED <<servers, saved, registered, fromApi, addedHere, reviewed, off>>

\* The connection fails: the request answers an error.
ListingFails(t) ==
    /\ task[t].pc = "listing"
    /\ task' = [task EXCEPT ![t] = Idle]
    /\ UNCHANGED <<servers, saved, registered, fromApi, addedHere, reviewed, off>>

\* The server answers again, or fails and is skipped (tools = {}).  The
\* iterator is asked for the next server first: it raises RuntimeError, which
\* nobody catches, if the dict has grown.
Discovered(t, tools) ==
    /\ task[t].pc = "discovering"
    /\ IF Size # task[t].size
       THEN /\ task' = [task EXCEPT ![t].pc = "crashed"]
            /\ registered' = registered
       ELSE /\ task' = [task EXCEPT ![t] = Idle]
            /\ registered' = registered \cup ({task[t].name} \X tools)
    /\ UNCHANGED <<servers, saved, fromApi, addedHere, reviewed, off>>

\* The framework answers 500 for the exception.
Answer500(t) ==
    /\ task[t].pc = "crashed"
    /\ task' = [task EXCEPT ![t] = Idle]
    /\ UNCHANGED <<servers, saved, registered, fromApi, addedHere, reviewed, off>>

\* The agent runs a registered tool: McpToolAdapter.execute, call_tool.  An
\* adapter holds a name: the call goes to whatever server has it now.
CallTool(t, n) ==
    /\ task[t].pc = "idle"
    /\ \E tool \in Tools : <<n, tool>> \in registered
    /\ Ready(n)
    /\ Wait(t, "calling", n, 0)
    /\ UNCHANGED <<servers, saved, registered, fromApi, addedHere, reviewed, off>>

CallReturns(t) ==
    /\ task[t].pc = "calling"
    /\ task' = [task EXCEPT ![t] = Idle]
    /\ UNCHANGED <<servers, saved, registered, fromApi, addedHere, reviewed, off>>

\* The process ends and starts: load_config, and an empty registry.
Restart ==
    /\ servers' = Load(saved)
    /\ registered' = {}
    /\ task' = [t \in Tasks |-> Idle]
    /\ addedHere' = {}
    /\ UNCHANGED <<saved, fromApi, reviewed, off>>

Next ==
    \/ \E n \in Names, p \in Persisted : AddServer(n, p)
    \/ \E n \in Names : ConfirmServer(n)
    \/ \E n \in Names, enabled \in BOOLEAN : SetEnabled(n, enabled)
    \/ \E t \in Tasks, n \in Names : Connect(t, n) \/ CallTool(t, n)
    \/ \E t \in Tasks : Listed(t) \/ ListingFails(t) \/ Answer500(t) \/ CallReturns(t)
    \/ \E t \in Tasks, tools \in SUBSET Tools : Discovered(t, tools)
    \/ Restart

Spec == Init /\ [][Next]_vars

-----------------------------------------------------------------------------
(* Properties *)

\* A task opens a connection to its server in this step.
Opens(t) == task'[t].pc \in AtServer /\ task'[t] # task[t]

\* A server that was switched off is contacted by nobody, not by the second
\* connection of a connect, a tool call, or a process started later, until it
\* is switched on (mcp.py:239-241).
OffIsSilent ==
    [][\A t \in Tasks : Opens(t) => task'[t].name \notin off]_vars

\* A stdio server that came through the API is never started before a confirm
\* that follows its last registration, as long as the process lives
\* (mcp.py:216, 242-246, tests/test_mcp.py:66-83).
ConfirmedBeforeUse ==
    [][\A t \in Tasks : Opens(t) =>
         LET n == task'[t].name IN
         n \in addedHere /\ servers[n].persisted.transport = "stdio" => n \in reviewed]_vars

\* What came through the API stays within the allowlists for good, also after a
\* restart made it trusted: its environment, and its command as far as the code
\* looks at it, which is by its last part (mcp.py:187-215).  README.md:410-411 and
\* mcp.py:20-22 speak of the command itself.
ApiServersStayGated ==
    \A n \in fromApi :
        servers[n].persisted.transport = "stdio" =>
            /\ LET command == servers[n].persisted.command
               IN  {command, Basename[command]} \cap AllowedCommands # {} \/ AllowDynamic
            /\ servers[n].persisted.env \subseteq AllowedEnv

-----------------------------------------------------------------------------
(* What the documentation says and the code does not do *)

\* "even then it must be explicitly confirmed (POST /api/mcp/{name}/confirm)
\* before its first connection" (mcp.py:22-24, README.md:410-413).
ConfirmedBeforeFirstConnection ==
    [][\A t \in Tasks : Opens(t) =>
         LET n == task'[t].name IN
         n \in fromApi /\ servers[n].persisted.transport = "stdio" => n \in reviewed]_vars

\* discover_all_tools "connects to enabled servers and returns adapters for all
\* their tools" (mcp.py:285): it does return.
DiscoveryReturns == \A t \in Tasks : task[t].pc # "crashed"
=============================================================================
