---------------------------- MODULE MCAssessment ----------------------------
(* Instances of Assessment for TLC; the cfg files give the constants.       *)
EXTENDS Assessment, TLC

\* The requests are interchangeable.
Interchangeable == Permutations(Requests)
=============================================================================
