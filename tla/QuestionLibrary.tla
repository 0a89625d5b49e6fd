--------------------------- MODULE QuestionLibrary ---------------------------
(***************************************************************************)
(* What the question library promises: a question, once created, stays and *)
(* always has one whole, valid content.  An edit replaces all of it at     *)
(* once, however many interviewers edit the same question, and deprecation *)
(* is a mark that no edit touches.                                         *)
(***************************************************************************)
CONSTANTS Questions, Contents, Missing

VARIABLES content,   \* the content of each question, or Missing
          deprecated

library == <<content, deprecated>>

Init ==
    /\ content = [q \in Questions |-> Missing]
    /\ deprecated = [q \in Questions |-> FALSE]

Create(q, c) ==
    /\ content[q] = Missing
    /\ content' = [content EXCEPT ![q] = c]
    /\ UNCHANGED deprecated

Edit(q, c) ==
    /\ content[q] # Missing
    /\ content' = [content EXCEPT ![q] = c]
    /\ UNCHANGED deprecated

Mark(q, mark) ==
    /\ content[q] # Missing
    /\ deprecated' = [deprecated EXCEPT ![q] = mark]
    /\ UNCHANGED content

Next ==
    \E q \in Questions :
        \/ \E c \in Contents : Create(q, c) \/ Edit(q, c)
        \/ \E mark \in BOOLEAN : Mark(q, mark)

Spec == Init /\ [][Next]_library
=============================================================================
