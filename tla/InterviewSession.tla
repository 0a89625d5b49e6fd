-------------------------- MODULE InterviewSession --------------------------
(***************************************************************************)
(* The interview that follows a passed assessment: scheduled for an        *)
(* invitation, attended by interviewers who start, complete or cancel it,  *)
(* edit the shared document, write private notes and answer their own      *)
(* invitation.  As in Assessment.tla the requests run concurrently, meet   *)
(* in PostgreSQL, and run with one transaction each (TenantTx) or none.    *)
(* An event is published after the row is written and, with TenantTx,      *)
(* before the transaction commits; LiveMeeting.tla says who receives it.   *)
(***************************************************************************)
EXTENDS Naturals

CONSTANTS Invitations, \* the assessments an interview may be scheduled for
          Users,       \* the interviewers
          Documents,   \* the texts of the shared document
          Requests,    \* requests that may be in flight at once
          TenantTx

ASSUME SessionConstants == TenantTx \in BOOLEAN

VARIABLES passed,     \* invitations completed with the outcome "passed"
          interviews, \* table scheduled_interviews, by invitation
          attendees,  \* table interview_attendees: the status of each user
          notes,      \* table interview_notes: who has written, on what
          pc, call, event \* the requests in flight

tables == <<interviews, attendees, notes>>
session == <<passed, tables, pc, call, event>>

-----------------------------------------------------------------------------
(* Rows and requests *)

Statuses == {"scheduled", "started", "completed", "cancelled"}

Rows == [status : Statuses, document : Documents, creator : Users]
NoInterview == [status |-> "absent"]

AttendeeStatuses == {"none", "invited", "accepted", "declined"}

Calls ==
    [op : {"schedule"}, inv : Invitations, user : Users, others : SUBSET Users, document : Documents]
    \cup [op : {"status"}, inv : Invitations, user : Users, status : Statuses]
    \cup [op : {"document"}, inv : Invitations, user : Users, document : Documents]
    \cup [op : {"note"}, inv : Invitations, user : Users]
    \cup [op : {"respond"}, inv : Invitations, user : Users, answer : {"accepted", "declined"}]

NoCall == [op |-> "none"]

Events ==
    [type : {"document.updated"}, inv : Invitations, document : Documents]
    \cup [type : {"status.updated", "note.created", "attendee.updated"}, inv : Invitations]

NoEvent == [type |-> "none"]

Steps == {"idle", "read", "write", "reread", "publish", "commit"}

Exists(i) == interviews[i].status # "absent"

IsAttendee(i, u) == attendees[<<i, u>>] # "none"

Goto(r, step) == pc' = [pc EXCEPT ![r] = step]

\* The request is over, answered or not; an open transaction is rolled back.
Forget(r) ==
    /\ Goto(r, "idle")
    /\ call' = [call EXCEPT ![r] = NoCall]
    /\ event' = [event EXCEPT ![r] = NoEvent]

-----------------------------------------------------------------------------
(* What the services read and check before they write *)

Receive(r, c) ==
    /\ pc[r] = "idle"
    /\ Goto(r, IF c.op = "respond" THEN "write" ELSE "read")
    /\ call' = [call EXCEPT ![r] = c]
    /\ UNCHANGED <<passed, tables, event>>

\* Mutant: Create takes any assessment.
ReadInvitationAny(r) ==
    /\ pc[r] = "read" /\ call[r].op = "schedule"
    /\ Goto(r, "write")
    /\ UNCHANGED <<passed, tables, call, event>>

\* Create: the invitation must be completed and passed.
ReadInvitation(r) ==
    /\ pc[r] = "read" /\ call[r].op = "schedule"
    /\ IF passed[call[r].inv] THEN Goto(r, "write") /\ UNCHANGED <<call, event>>
                              ELSE Forget(r)
    /\ UNCHANGED <<passed, tables>>

\* Mutant: whatever has begun can be completed or cancelled.
ValidTransitionAgain(from, to) ==
    \/ from = "scheduled" /\ to \in {"started", "cancelled"}
    \/ from # "scheduled" /\ to \in {"completed", "cancelled"}

ValidTransition(from, to) ==
    \/ from = "scheduled" /\ to \in {"started", "cancelled"}
    \/ from = "started" /\ to \in {"completed", "cancelled"}

\* Mutant: Get without isAttendee.
PermittedToAll(c) ==
    /\ Exists(c.inv)
    /\ c.op = "status" => ValidTransition(interviews[c.inv].status, c.status)
    /\ c.op = "note" => interviews[c.inv].status = "started"

\* Get, and the check of the operation on the row it returned.
Permitted(c) ==
    /\ Exists(c.inv) /\ IsAttendee(c.inv, c.user)
    /\ c.op = "status" => ValidTransition(interviews[c.inv].status, c.status)
    /\ c.op = "note" => interviews[c.inv].status = "started"

ReadInterview(r) ==
    /\ pc[r] = "read" /\ call[r].op \in {"status", "document", "note"}
    /\ IF Permitted(call[r]) THEN Goto(r, "write") /\ UNCHANGED <<call, event>>
                             ELSE Forget(r)
    /\ UNCHANGED <<passed, tables>>

-----------------------------------------------------------------------------
(* The statements of the store *)

\* Mutant: CreateInterviewNote inserts without looking again.
MatchesStaleNote(c) ==
    /\ c.op = "schedule" => ~Exists(c.inv)
    /\ c.op = "respond" => IsAttendee(c.inv, c.user)

\* What the statement finds once it has the row: the unique invitation_id,
\* the status CreateInterviewNote selects FOR UPDATE, the attendee's row.
Matches(c) ==
    /\ c.op = "schedule" => ~Exists(c.inv)
    /\ c.op = "note" => interviews[c.inv].status = "started"
    /\ c.op = "respond" => IsAttendee(c.inv, c.user)

\* The creator has accepted, the others are invited.
NewAttendees(c) ==
    [a \in Invitations \X Users |->
        IF a[1] = c.inv /\ a[2] \in c.others \cup {c.user}
        THEN IF a[2] = c.user THEN "accepted" ELSE "invited"
        ELSE attendees[a]]

\* The effect of the request's statements, once committed.
Store(r) ==
    LET c == call[r]
    IN  \/ /\ c.op = "schedule"
           /\ interviews' = [interviews EXCEPT ![c.inv] =
                  [status |-> "scheduled", document |-> c.document, creator |-> c.user]]
           /\ attendees' = NewAttendees(c)
           /\ UNCHANGED notes
        \/ /\ c.op = "status"
           /\ interviews' = [interviews EXCEPT ![c.inv].status = c.status]
           /\ UNCHANGED <<attendees, notes>>
        \/ /\ c.op = "document"
           /\ interviews' = [interviews EXCEPT ![c.inv].document = c.document]
           /\ UNCHANGED <<attendees, notes>>
        \/ /\ c.op = "note"
           /\ notes' = notes \cup {<<c.inv, c.user>>}
           /\ UNCHANGED <<interviews, attendees>>
        \/ /\ c.op = "respond"
           /\ attendees' = [attendees EXCEPT ![<<c.inv, c.user>>] = c.answer]
           /\ UNCHANGED <<interviews, notes>>

\* Two statements that need the same row: the interview, which a note locks
\* FOR UPDATE, the unique key of a new interview, or the attendee's own row.
SameRow(c, d) ==
    /\ c.inv = d.inv
    /\ c.op = "schedule" <=> d.op = "schedule"
    /\ c.op = "respond" <=> d.op = "respond"
    /\ c.op = "respond" => c.user = d.user

\* The steps in which a transaction that has reached the row is still open:
\* the tenant's, to the end of the request; else only the note's own.
Open == IF TenantTx THEN {"reread", "publish", "commit"} ELSE {"commit"}

Locked(r) == \E s \in Requests \ {r} : pc[s] \in Open /\ SameRow(call[s], call[r])

Write(r) ==
    /\ pc[r] = "write"
    /\ ~Locked(r)
    /\ \/ /\ ~Matches(call[r])
          /\ Forget(r)
          /\ UNCHANGED tables
       \/ /\ Matches(call[r])
          /\ IF TenantTx THEN Goto(r, "reread") /\ UNCHANGED tables
             ELSE IF call[r].op = "note" THEN Goto(r, "commit") /\ UNCHANGED tables
             ELSE Goto(r, "reread") /\ Store(r)
          /\ UNCHANGED <<call, event>>
    /\ UNCHANGED passed

-----------------------------------------------------------------------------
(* After the write: read back, publish, commit *)

\* Mutant: a note is published as if it were the document.
EventOfDocument(c) ==
    [type |-> "document.updated", inv |-> c.inv,
     document |-> IF c.op = "document" THEN c.document ELSE "note"]

\* The event is built from the row read back: the request's own write while
\* its transaction is open, else whatever is in the table by then.
EventOf(c) ==
    CASE c.op = "document" ->
            [type |-> "document.updated", inv |-> c.inv,
             document |-> IF TenantTx THEN c.document ELSE interviews[c.inv].document]
      [] c.op = "status" -> [type |-> "status.updated", inv |-> c.inv]
      [] c.op = "note" -> [type |-> "note.created", inv |-> c.inv]
      [] c.op = "respond" -> [type |-> "attendee.updated", inv |-> c.inv]

Reread(r) ==
    /\ pc[r] = "reread"
    /\ \/ /\ call[r].op = "schedule"
          /\ IF TenantTx THEN Goto(r, "commit") /\ UNCHANGED <<call, event>>
                         ELSE Forget(r)
       \/ /\ call[r].op # "schedule"
          /\ event' = [event EXCEPT ![r] = EventOf(call[r])]
          /\ Goto(r, "publish")
          /\ UNCHANGED call
    /\ UNCHANGED <<passed, tables>>

\* PublishInterviewEvent has returned; after an error the handler answers 500
\* and the transaction commits all the same.
AfterPublish(r) ==
    /\ pc[r] = "publish"
    /\ IF TenantTx THEN Goto(r, "commit") /\ UNCHANGED <<call, event>> ELSE Forget(r)
    /\ UNCHANGED <<passed, tables>>

Publish(r) == AfterPublish(r)
PublishFails(r) == AfterPublish(r)

\* tx.Commit(), of the request or of CreateInterviewNote.
Commit(r) ==
    /\ pc[r] = "commit"
    /\ Store(r)
    /\ IF TenantTx THEN Forget(r) ELSE Goto(r, "reread") /\ UNCHANGED <<call, event>>
    /\ UNCHANGED passed

\* A statement or the commit fails, the context times out or the process
\* dies: what is not committed is rolled back.
Abandon(r) ==
    /\ pc[r] # "idle"
    /\ Forget(r)
    /\ UNCHANGED <<passed, tables>>

\* The outcome of the assessment is set, or set back (Assessment.tla).
Regrade(i) ==
    /\ passed' = [passed EXCEPT ![i] = ~@]
    /\ UNCHANGED <<tables, pc, call, event>>

-----------------------------------------------------------------------------
(* Specification *)

Init ==
    /\ passed = [i \in Invitations |-> FALSE]
    /\ interviews = [i \in Invitations |-> NoInterview]
    /\ attendees = [a \in Invitations \X Users |-> "none"]
    /\ notes = {}
    /\ pc = [r \in Requests |-> "idle"]
    /\ call = [r \in Requests |-> NoCall]
    /\ event = [r \in Requests |-> NoEvent]

\* Every step of the service but the publication, which LiveMeeting extends.
Quiet(r) ==
    \/ \E c \in Calls : Receive(r, c)
    \/ ReadInvitation(r) \/ ReadInterview(r)
    \/ Write(r) \/ Reread(r) \/ PublishFails(r) \/ Commit(r)
    \/ Abandon(r)

Next ==
    \/ \E r \in Requests : Quiet(r) \/ Publish(r)
    \/ \E i \in Invitations : Regrade(i)

Spec == Init /\ [][Next]_session

-----------------------------------------------------------------------------
(* Properties *)

\* Tables and requests hold what the schema and the services allow.
TypeOK ==
    /\ passed \in [Invitations -> BOOLEAN]
    /\ interviews \in [Invitations -> Rows \cup {NoInterview}]
    /\ attendees \in [Invitations \X Users -> AttendeeStatuses]
    /\ notes \subseteq Invitations \X Users
    /\ pc \in [Requests -> Steps]
    /\ call \in [Requests -> Calls \cup {NoCall}]
    /\ event \in [Requests -> Events \cup {NoEvent}]

\* Attendees write notes only while the interview is started: not after a
\* completion that ran between the check and the insert (store.go:589-596).
NotesWhileStarted ==
    [][\A n \in notes' \ notes : interviews[n[1]].status = "started"]_session

\* Nobody but an attendee changes an interview or writes a note, and every
\* interview is attended by its creator, though rows and attendees are
\* written by different statements (interviews.go:103-119).
ChangedByAttendees ==
    [][\A i \in Invitations :
           /\ Exists(i)' /\ interviews'[i] # interviews[i] =>
                  \E r \in Requests :
                      /\ pc[r] \in {"write", "commit"} /\ pc'[r] # pc[r]
                      /\ call[r].inv = i /\ attendees'[<<i, call[r].user>>] # "none"
           /\ Exists(i)' => IsAttendee(i, interviews[i].creator)'
           /\ \A u \in Users : <<i, u>> \in notes' => IsAttendee(i, u)']_session

\* The requests that are past the check and have not shown their effect yet.
Pending(i, op) ==
    {r \in Requests : /\ pc[r] \in {"write"} \cup Open
                      /\ call[r].op = op /\ call[r].inv = i}

\* Completed and cancelled are final (interviews.go:164): the store updates
\* whatever status it finds, so a change that was checked earlier may still
\* land, but once those are over there are no others.
StatusSettles ==
    [][\A i \in Invitations :
           interviews[i].status \in {"completed", "cancelled"} /\ Pending(i, "status") = {} =>
               /\ Pending(i, "status")' = {}
               /\ interviews'[i].status = interviews[i].status]_session

\* Interviews follow passed assessments (interviews.go:83): after the outcome
\* has been set back, only a request that has read it before schedules one.
SchedulesSettle ==
    [][\A i \in Invitations :
           ~passed[i] /\ ~passed'[i] /\ Pending(i, "schedule") = {} =>
               Pending(i, "schedule")' = {} /\ Exists(i)' = Exists(i)]_session
=============================================================================
