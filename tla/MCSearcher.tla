------------------------------- MODULE MCSearcher -------------------------------
(* Compositions of searchers for TLC. *)
EXTENDS Searcher

Plain == {<<c>> : c \in CoreSearchType} \union {<<"path", "nurs">>, <<"dfs", "bfs", "random">>}

\* What the asserts of constructUserSearcher let through.
Constructed ==
  {c \in [cores : Plain, batching : BOOLEAN, merging : {"none", "merge", "bump"},
          deepening : BOOLEAN, kills : BOOLEAN] :
     c.merging = "merge" => "path" \notin Range(c.cores)}

\* Deepening without random path and the memory cap, bump merging without either as well.
Working == {c \in Constructed : Supported(c)}
===============================================================================
