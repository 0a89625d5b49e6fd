------------------------ MODULE InvitationLifecycle ------------------------
(***************************************************************************)
(* What the assessment part of Go Guess promises about one invitation,     *)
(* whatever requests run against it and however the database transactions  *)
(* of those requests interleave: it is handed out once, accepted once,     *)
(* submitted once, and graded only after it has been submitted.  Accepting *)
(* fixes the deadline for good.  Assessment.tla implements this module.    *)
(***************************************************************************)
EXTENDS Integers

CONSTANTS Invitations, \* the (job, participant) pairs
          Deadlines    \* the instants a deadline may fall on

VARIABLES stage,    \* the state of each invitation
          deadline, \* the instant after which answers are refused
          verdict   \* what the interview team decided

vars == <<stage, deadline, verdict>>

Stages == {"absent", "pending", "accepted", "completed"}
Verdicts == {"pending", "passed", "failed"}
Open == -1 \* no deadline: nobody has accepted yet

Init ==
    /\ stage = [i \in Invitations |-> "absent"]
    /\ deadline = [i \in Invitations |-> Open]
    /\ verdict = [i \in Invitations |-> "pending"]

\* The participant is invited; UNIQUE (job_id, participant_id) makes it once.
Invite(i) ==
    /\ stage[i] = "absent"
    /\ stage' = [stage EXCEPT ![i] = "pending"]
    /\ UNCHANGED <<deadline, verdict>>

\* The participant accepts and the countdown starts.
Accept(i) ==
    /\ stage[i] = "pending"
    /\ stage' = [stage EXCEPT ![i] = "accepted"]
    /\ \E d \in Deadlines : deadline' = [deadline EXCEPT ![i] = d]
    /\ UNCHANGED verdict

\* The participant submits.
Submit(i) ==
    /\ stage[i] = "accepted"
    /\ stage' = [stage EXCEPT ![i] = "completed"]
    /\ UNCHANGED <<deadline, verdict>>

\* The interview team decides, and may decide again.
Grade(i) ==
    /\ stage[i] = "completed"
    /\ \E v \in Verdicts : verdict' = [verdict EXCEPT ![i] = v]
    /\ UNCHANGED <<stage, deadline>>

Next == \E i \in Invitations : Invite(i) \/ Accept(i) \/ Submit(i) \/ Grade(i)

Spec == Init /\ [][Next]_vars
=============================================================================
