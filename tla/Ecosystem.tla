----------------------------- MODULE Ecosystem -----------------------------
(***************************************************************************)
(* The ecosystem snapshot (crates/jmcp-adapter-jeryu/src/ecosystem.rs,     *)
(* repos.rs): what JMCP makes of the tools and repositories Jeryu reports, *)
(* and of a Jeryu that does not answer.  There is no state here.           *)
(*                                                                         *)
(* A reason is a set: empty, or what is wrong.  Nodes of repositories are  *)
(* a set, their order is layout.                                           *)
(***************************************************************************)
EXTENDS Naturals, FiniteSets, Sequences

CONSTANT None  \* a field that is not there

Unless(value, default) == IF value = None THEN default ELSE value

(* What Jeryu says of a tool and of a repository, every field optional;    *)
(* `whole' tells whether a tool has its name and its class.                *)
RawTools ==
    [whole : BOOLEAN, repo : STRING \cup { None }, health : STRING \cup { None }]
RawRepos ==
    [name : STRING \cup { None }, health : STRING \cup { None }]

RawTool(whole, repo, health) == [whole |-> whole, repo |-> repo, health |-> health]
RawRepo(name, health)        == [name |-> name, health |-> health]

-----------------------------------------------------------------------------
(* A tool that lacks a required field is kept and marked.                  *)
NormalTool(raw) ==
    [repo |-> raw.repo,
     health |-> IF raw.whole THEN Unless(raw.health, "nominal") ELSE "degraded"]

Rank(health) ==
    CASE health \in { "degraded", "blocked" } -> 2
      [] health = "watch"                     -> 1
      [] OTHER                                -> 0

ToolsOf(tools, repo) == { i \in DOMAIN tools : tools[i].repo = repo }

(* A slip: the health of the last tool.                                    *)
DeriveHealthOfLast(tools, repo) ==
    LET mine == ToolsOf(tools, repo)
        last == CHOOSE i \in mine : \A j \in mine : j =< i
    IN  IF mine = {} THEN None ELSE << "nominal", "watch", "degraded" >>[1 + Rank(tools[last].health)]

(* derive_repo_health: the worst of the tools.                             *)
DeriveHealth(tools, repo) ==
    LET ranks == { Rank(tools[i].health) : i \in ToolsOf(tools, repo) }
        worst == CHOOSE r \in ranks : \A s \in ranks : s =< r
    IN  IF ranks = {} THEN None ELSE << "nominal", "watch", "degraded" >>[1 + worst]

(* count_tools is the cardinality.                                         *)
Node(name, health, tools) ==
    [name |-> name, health |-> health, count |-> Cardinality(ToolsOf(tools, name))]

(* repos_from_records: records without a name are dropped.                 *)
NodesFromRecords(records, tools) ==
    { Node(r.name, Unless(r.health, DeriveHealth(tools, r.name)), tools) :
        r \in { records[i] : i \in { j \in DOMAIN records : records[j].name # None } } }

(* repos_from_tools.                                                       *)
NodesFromTools(tools) ==
    { Node(repo, DeriveHealth(tools, repo), tools) :
        repo \in { tools[i].repo : i \in DOMAIN tools } \ { None } }

(* build_repos.                                                            *)
Nodes(records, tools) ==
    IF records = << >> THEN NodesFromTools(tools) ELSE NodesFromRecords(records, tools)

-----------------------------------------------------------------------------
(* normalize.                                                              *)
Normalize(raw) ==
    LET tools == [i \in DOMAIN raw.tools |-> NormalTool(raw.tools[i])]
        live  == tools # << >>
    IN  [tools  |-> tools,
         nodes  |-> Nodes(raw.records, tools),
         live   |-> live,
         reason |-> IF ~ live THEN { "no tools" }
                    ELSE IF \E i \in DOMAIN raw.tools : ~ raw.tools[i].whole
                         THEN { "missing fields" } ELSE {}]

(* EcosystemSnapshot::degraded.                                            *)
Degraded(reason) == [tools |-> << >>, nodes |-> {}, live |-> FALSE, reason |-> { reason }]

(* HttpJeryuClient::ecosystem: an answer that did not come, came with an   *)
(* error status or is no JSON is a failure.                                *)
Snapshot(answer) ==
    IF answer.failure = None THEN Normalize(answer) ELSE Degraded(answer.failure)
=============================================================================
