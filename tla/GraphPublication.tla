-------------------------- MODULE GraphPublication --------------------------
(***************************************************************************)
(* What indexer.Run promises about graph.db ("executes the pipeline and    *)
(* atomically swaps the graph DB on success"): the published graph is      *)
(* absent or a complete build, and it changes only by being replaced, in   *)
(* one step, by another complete build.  A failed, cancelled or killed run *)
(* is a stuttering step.                                                   *)
(***************************************************************************)
CONSTANTS Build,         \* the graphs a run may publish
          Complete(_),   \* a graph all of whose phases were written
          None           \* no graph was ever published

VARIABLE published

Init == published = None

Publish ==
  /\ published' \in Build
  /\ Complete(published')

Next == Publish

Spec == Init /\ [][Next]_published
=============================================================================
