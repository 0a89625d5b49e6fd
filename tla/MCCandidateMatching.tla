------------------------ MODULE MCCandidateMatching ------------------------
(* Instances of CandidateMatching for TLC; the cfg files give the constants. *)
EXTENDS CandidateMatching, TLC

CONSTANTS a, b, wordA, wordB \* two traits and their terms

TermOfName == (a :> wordA) @@ (b :> wordB)

\* Jobs that name the traits in opposite order.
OppositeOrders == {<<a, b>>, <<b, a>>}

\* CVs with one of the terms each, neither of which contains the other, and one
\* with both.
OneOrBothTerms == {{wordA}, {wordB}, {wordA, wordB}}

\* Namesakes: either may be listed first.
AllAlike == [p \in Participants |-> 1]

\* The traits with their terms, the jobs, the participants and the requests are
\* interchangeable.
Interchangeable ==
    Permutations(Requests) \cup Permutations(Participants) \cup Permutations(Jobs)
        \cup {(a :> b) @@ (b :> a) @@ (wordA :> wordB) @@ (wordB :> wordA)}

\* math.Round rounds half a tenth up.
RoundedPerMille(m, n) == (2000 * m + n) \div (2 * n)

\* Qualifies is the comparison of the rounded score.
ASSUME ScoreIsRounded ==
    \A n \in 1..450 : \A m \in 0..n : Qualifies(m, n) <=> RoundedPerMille(m, n) >= 600
=============================================================================
