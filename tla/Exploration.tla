------------------------------ MODULE Exploration ------------------------------
(***************************************************************************)
(* What the executor promises of the paths it explores: a path is open or  *)
(* ended, paths are added by splitting an open one, and each path that was *)
(* ever opened is accounted for.  An ended path does not reopen.           *)
(***************************************************************************)
CONSTANTS Path, Root

VARIABLES open, ended
paths == <<open, ended>>

Init == open = {Root} /\ ended = {}

\* While some path is open, new ones split off it and some paths end.
Advance ==
  \E new \in SUBSET (Path \ (open \union ended)) :
    \E over \in SUBSET (open \union new) :
      /\ open # {}
      /\ open' = (open \union new) \ over
      /\ ended' = ended \union over

Spec == Init /\ [][Advance]_paths
================================================================================
