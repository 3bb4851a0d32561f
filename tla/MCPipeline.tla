----------------------------- MODULE MCPipeline -----------------------------
(***************************************************************************)
(* The pipeline in the deployments of Single.cfg (one process with both    *)
(* roles and every verb of the operator), Split.cfg (compose.yaml's web    *)
(* process with two workers) and Shutdown.cfg (a worker that drains or     *)
(* dies).                                                                  *)
(***************************************************************************)
EXTENDS Pipeline, TLC

\* Cards and run slots are interchangeable, and so are workers that start
\* alike: no action orders them.
Symmetry == Permutations(Cards) \cup Permutations(Runs)
            \cup (IF UiWorkers = {} /\ Later = {} THEN Permutations(Workers) ELSE {})
=============================================================================
