-------------------------- MODULE MCRequestPipeline --------------------------
(* RequestPipeline on small instances. *)
EXTENDS RequestPipeline, TLC

BothSpellings == {"canonical", "other"}
OneSpelling == {"canonical"}

RequestSymmetry == Permutations(Request)
=============================================================================
