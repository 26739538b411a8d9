----------------------------- MODULE MCUniverse -----------------------------
(***************************************************************************)
(* Two work orders, one about a single repository and without a branch,    *)
(* one that names all four; Jeryu's answers: none, no tools, tools of mixed    *)
(* health without records of repositories, ill-formed tools and records,   *)
(* and a record that says better of its repository than its tools do.      *)
(***************************************************************************)
EXTENDS Universe, TLC

CONSTANTS o1, o2

MCOrders   == { o1, o2 }
MCMentions == (o1 :> { "Jekko" }) @@ (o2 :> Repos)
MCBranchOf == (o1 :> None) @@ (o2 :> "main")

Fine     == RawTool(TRUE, "Jekko", None)
Watched  == RawTool(TRUE, "Jekko", "watch")
Nameless == RawTool(FALSE, "Jekko", "nominal")
Blocked  == RawTool(TRUE, "Jeryu", "blocked")
Stray    == RawTool(TRUE, None, "blocked")

Body(tools, records) == [failure |-> None, tools |-> tools, records |-> records]

MCAnswers ==
    { [failure |-> "unreachable", tools |-> << >>, records |-> << >>],
      Body(<< >>, << >>),
      Body(<< Watched, Fine, Blocked >>, << >>),
      Body(<< Nameless, Stray >>, << RawRepo("Jekko", None), RawRepo(None, "nominal") >>),
      Body(<< Blocked, Stray, Fine >>, << RawRepo("Jeryu", "nominal") >>) }
=============================================================================
