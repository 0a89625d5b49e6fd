----------------------------- MODULE MCJobBoard -----------------------------
(* Instances of JobBoard for TLC; the cfg files give the constants. *)
EXTENDS JobBoard, TLC

CONSTANTS t1, t2 \* two texts

\* An open question with superfluous options, a choice, a choice of too few.
SomeForms ==
    {[type |-> "open", text |-> t1, options |-> 2, reference |-> TRUE, snippet |-> TRUE],
     [type |-> "radio", text |-> t2, options |-> 2, reference |-> TRUE, snippet |-> FALSE],
     [type |-> "radio", text |-> t1, options |-> 1, reference |-> FALSE, snippet |-> FALSE]}

Interchangeable == Permutations(Requests) \cup Permutations(Questions)
=============================================================================
