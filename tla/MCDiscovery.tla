---------------------------- MODULE MCDiscovery -----------------------------
(* A small instance of Discovery for TLC. *)
EXTENDS Discovery, TLC

CONSTANTS s1, s2, agents, servers, kept, famous, tiny

MCKinds == (s1 :> {"scan", "get_repo"}) @@ (s2 :> {"generate", "search"})

MCQueries == <<agents, servers>>
MCHits == (agents :> {kept, famous}) @@ (servers :> {famous, tiny})

\* A young project whose licence only the licence endpoint knows, a famous one
\* under copyleft, and a small one the search already says everything about.
MCAbout ==
    (kept   :> [homepage |-> FALSE, licence |-> "permissive", listed |-> FALSE,
                readme |-> {"api"}, topics |-> {}]) @@
    (famous :> [homepage |-> FALSE, licence |-> "copyleft", listed |-> TRUE,
                readme |-> {"sdk"}, topics |-> {"sdk"}]) @@
    (tiny   :> [homepage |-> TRUE, licence |-> "permissive", listed |-> TRUE,
                readme |-> {"mcp"}, topics |-> {}])

MCExpiring == {<<"search", agents>>} \cup
  {<<what, kept>> : what \in {"repo", "licence", "readme", "release"}}

MCSlug == [r \in {kept, famous, tiny} |-> IF r = tiny THEN famous ELSE r]
=============================================================================
