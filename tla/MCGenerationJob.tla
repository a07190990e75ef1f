--------------------------- MODULE MCGenerationJob ---------------------------
(***************************************************************************)
(* Instances of GenerationJob for TLC.  Two reported stages are enough to  *)
(* tell forward from backward progress.                                    *)
(***************************************************************************)
EXTENDS GenerationJob, TLC

TwoStages == <<"understanding", "retrieving">>

\* Requests are told apart by nothing but their name.
RequestSymmetry == Permutations(Creators) \cup Permutations(Retriers)
=============================================================================
