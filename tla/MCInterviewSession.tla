------------------------- MODULE MCInterviewSession -------------------------
(* Instances of InterviewSession for TLC; the cfg files give the constants. *)
EXTENDS InterviewSession, TLC

\* Requests, users and documents are interchangeable.
Interchangeable ==
    Permutations(Requests) \cup Permutations(Users) \cup Permutations(Documents)
=============================================================================
