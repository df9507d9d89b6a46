--------------------------- MODULE MCPostPipeline ---------------------------
(***************************************************************************)
(* Small instances of PostPipeline: p has a safe photo and an explicit one, *)
(* q has two safe ones.                                                     *)
(***************************************************************************)
EXTENDS PostPipeline, TLC

CONSTANTS p, q, safe, lewd, other

WorkerSymmetry == Permutations(Workers)

PhotosPQ == [n \in Posts |->
                (p :> {safe, lewd} @@ q :> {safe, other})[n]]

=============================================================================
