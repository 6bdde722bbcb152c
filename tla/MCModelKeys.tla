----------------------------- MODULE MCModelKeys -----------------------------
(* The instances of ModelKeys: two keys are a key and its successor.       *)
EXTENDS ModelKeys
=============================================================================
