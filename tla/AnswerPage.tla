----------------------------- MODULE AnswerPage -----------------------------
(***************************************************************************)
(* The participant's page during an accepted assessment                    *)
(* (ParticipantInterviewPage.tsx): every change of an answer is saved, the *)
(* saves of one question one after the other, and the buttons wait for the *)
(* saves of the question on display before they move on or submit.         *)
(* Seen from the page the server handles a save in two steps, a check of   *)
(* the invitation and an upsert (see Assessment for its own hazards).      *)
(***************************************************************************)
EXTENDS Naturals, Sequences

CONSTANTS Last,    \* number of the last question
          Words,   \* what can be typed, blanks around it aside
          MaxTyped \* bound: changes of an answer

ASSUME PageConstants == Last \in Nat \ {0} /\ MaxTyped \in Nat

VARIABLES answers, \* React state: what the inputs hold
          index,   \* React state: the question on display
          queue,   \* saveQueues: texts that are not saved yet, by question
          request, \* the request of the first of them
          button,  \* move and finish: the button that works, if any
          shown,   \* the page shows that the interview is complete
          stored,  \* server: invitation_answers
          status,  \* server: status of the invitation
          expired, \* server: the deadline has passed
          typed,   \* how many changes were made
          failed,  \* history: questions whose last save failed
          hurried  \* history: something was typed while a button worked, or too late

server == <<stored, status, expired>>
history == <<typed, failed, hurried>>
page == <<answers, index, queue, request, button, shown, server, history>>

-----------------------------------------------------------------------------
(* State *)

Questions == 1 .. Last

\* A text with or without blanks around it.
Texts == [word : Words, padded : BOOLEAN]

Empty == [word |-> "", padded |-> FALSE]

\* strings.TrimSpace
Trim(t) == [t EXCEPT !.padded = FALSE]

NoButton == [step |-> "none"]

\* left: how many saves of the question were awaited when it was pressed and
\* have not ended.
Buttons ==
    [step : {"move"}, target : Questions, left : Nat]
    \cup [step : {"finish"}, left : Nat]
    \cup [step : {"submitted", "completed", "refused"}]

Working == button # NoButton

-----------------------------------------------------------------------------
(* Typing and saving *)

\* Mutant: a change is not saved while an earlier save is under way.
EnqueuedOnce(q, t) == IF queue[q] = <<>> THEN <<t>> ELSE queue[q]

\* A save starts when the one before it has ended, well or not.
Enqueued(q, t) == Append(queue[q], t)

\* updateAnswer.  The inputs are enabled even while a button works.
Type(t) ==
    /\ ~shown
    /\ typed < MaxTyped
    /\ answers' = [answers EXCEPT ![index] = t]
    /\ queue' = [queue EXCEPT ![index] = Enqueued(index, t)]
    /\ request' = [request EXCEPT ![index] = IF @ = "none" THEN "sent" ELSE @]
    /\ typed' = typed + 1
    /\ hurried' = (hurried \/ Working \/ status = "completed")
    /\ UNCHANGED <<index, button, shown, server, failed>>

\* The server reads the invitation, and refuses when it is submitted or late.
CheckSave(q) ==
    /\ request[q] = "sent"
    /\ request' = [request EXCEPT ![q] =
           IF status = "accepted" /\ ~expired THEN "checked" ELSE "refused"]
    /\ UNCHANGED <<answers, index, queue, button, shown, server, history>>

StoreSave(q) ==
    /\ request[q] = "checked"
    /\ stored' = [stored EXCEPT ![q] = Trim(Head(queue[q]))]
    /\ request' = [request EXCEPT ![q] = "stored"]
    /\ UNCHANGED <<answers, index, queue, button, shown, status, expired, history>>

\* Mutant: a request goes on although nothing is left to save.
AfterReturnAlways(q) == "sent"

\* The request of the next save in the queue.
AfterReturn(q) == IF Len(queue[q]) > 1 THEN "sent" ELSE "none"

\* A save ends; it is over for the buttons too, even if it failed, for its
\* error is caught where the save was queued.
SaveEnds(q) ==
    /\ queue' = [queue EXCEPT ![q] = Tail(@)]
    /\ request' = [request EXCEPT ![q] = AfterReturn(q)]
    /\ button' =
           IF /\ button.step \in {"move", "finish"}
              /\ q = index /\ button.left > 0
           THEN [button EXCEPT !.left = @ - 1] ELSE button
    /\ UNCHANGED <<answers, index, shown, server, typed, hurried>>

SaveReturns(q) ==
    /\ request[q] = "stored"
    /\ SaveEnds(q)
    /\ failed' = failed \ {q}

\* Refused, or the network fails before or after the server has stored it.
SaveFails(q) ==
    /\ request[q] # "none"
    /\ SaveEnds(q)
    /\ failed' = failed \cup {q}

-----------------------------------------------------------------------------
(* The buttons; all of them are disabled while one works *)

\* Mutant: the saves are not waited for.
AwaitedNone == 0

\* persistCurrent: the saves queued when the button is pressed.
Awaited == Len(queue[index])

\* move: First, Previous, Next and Last.
Move(target) ==
    /\ ~shown /\ ~Working
    /\ target \in {1, index - 1, index + 1, Last} \ {index}
    /\ button' = [step |-> "move", target |-> target, left |-> Awaited]
    /\ UNCHANGED <<answers, index, queue, request, shown, server, history>>

Moved ==
    /\ button.step = "move" /\ button.left = 0
    /\ index' = button.target
    /\ button' = NoButton
    /\ UNCHANGED <<answers, queue, request, shown, server, history>>

\* finish
Submit ==
    /\ ~shown /\ ~Working
    /\ button' = [step |-> "finish", left |-> Awaited]
    /\ UNCHANGED <<answers, index, queue, request, shown, server, history>>

SendFinish ==
    /\ button.step = "finish" /\ button.left = 0
    /\ button' = [step |-> "submitted"]
    /\ UNCHANGED <<answers, index, queue, request, shown, server, history>>

\* The server completes an accepted invitation, late or not.
Complete ==
    /\ button.step = "submitted"
    /\ button' = [step |-> IF status = "accepted" THEN "completed" ELSE "refused"]
    /\ status' = "completed"
    /\ UNCHANGED <<answers, index, queue, request, shown, stored, expired, history>>

\* The event the response causes in the page brings the completed interview;
\* the inputs are gone, so answers remains what was typed in them.
FinishReturns ==
    /\ button.step = "completed"
    /\ shown' = TRUE
    /\ button' = NoButton
    /\ UNCHANGED <<answers, index, queue, request, server, history>>

\* Refused, or the request or its response is lost; the button can be pressed
\* again.
FinishFails ==
    /\ button.step \in {"submitted", "completed", "refused"}
    /\ button' = NoButton
    /\ UNCHANGED <<answers, index, queue, request, shown, server, history>>

\* The deadline passes.
Expire ==
    /\ ~expired
    /\ expired' = TRUE
    /\ UNCHANGED <<answers, index, queue, request, button, shown, stored, status, history>>

-----------------------------------------------------------------------------
(* Specification *)

Init ==
    /\ answers = [q \in Questions |-> Empty] /\ stored = answers
    /\ index = 1
    /\ queue = [q \in Questions |-> <<>>]
    /\ request = [q \in Questions |-> "none"]
    /\ button = NoButton
    /\ shown = FALSE /\ expired = FALSE /\ hurried = FALSE
    /\ status = "accepted"
    /\ typed = 0 /\ failed = {}

Save(q) == CheckSave(q) \/ StoreSave(q) \/ SaveReturns(q) \/ SaveFails(q)

Next ==
    \/ \E t \in Texts : Type(t)
    \/ \E q \in Questions : Save(q) \/ Move(q)
    \/ Moved \/ Submit \/ SendFinish \/ Complete \/ FinishReturns \/ FinishFails
    \/ Expire

Spec == Init /\ [][Next]_page

-----------------------------------------------------------------------------
(* Properties *)

\* The page's state and refs hold what the code puts there: a request is
\* under way exactly for the questions that have something to save, and a
\* button waits for no more saves than are queued.
TypeOK ==
    /\ answers \in [Questions -> Texts \cup {Empty}]
    /\ index \in Questions
    /\ queue \in [Questions -> Seq(Texts)]
    /\ request \in [Questions -> {"none", "sent", "checked", "stored", "refused"}]
    /\ \A q \in Questions : request[q] = "none" <=> queue[q] = <<>>
    /\ button \in Buttons \cup {NoButton}
    /\ button.step \in {"move", "finish"} => button.left <= Len(queue[index])
    /\ stored \in [Questions -> Texts \cup {Empty}]
    /\ status \in {"accepted", "completed"}
    /\ shown \in BOOLEAN /\ expired \in BOOLEAN /\ hurried \in BOOLEAN
    /\ typed \in 0 .. MaxTyped /\ failed \subseteq Questions

\* However fast the participant types, the text a question has in the end is
\* the one that stays stored: no earlier save overtakes it (updateAnswer).
LastSaveWins ==
    \A q \in Questions :
        queue[q] = <<>> /\ q \notin failed => stored[q] = Trim(answers[q])

\* A participant who waits for the buttons and whose saves all succeed submits
\* every answer, those of questions left long before included (move, finish).
CalmSubmissionIsComplete ==
    status = "completed" /\ ~hurried /\ failed = {} =>
        \A q \in Questions : stored[q] = Trim(answers[q])

\* "Your answers have been submitted": what the page says when it is complete.
SubmittedIsStored == shown => \A q \in Questions : stored[q] = Trim(answers[q])
=============================================================================
