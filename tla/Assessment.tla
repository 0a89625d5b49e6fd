----------------------------- MODULE Assessment -----------------------------
(***************************************************************************)
(* The assessment of a candidate: an interviewer publishes a job, invites  *)
(* a participant, the participant accepts, saves answers against the       *)
(* clock and submits, the interviewer grades.  Every one of these is an    *)
(* HTTP request handled by a goroutine of its own, and the requests meet   *)
(* only in PostgreSQL.  A request is modelled statement by statement:      *)
(* what it read is kept in its locals while other requests go on.          *)
(*                                                                         *)
(* TenantTx chooses between the two ways the API runs (store.go:74):       *)
(* TRUE, one READ COMMITTED transaction per request, begun and committed   *)
(* by TenantSchemaMiddleware around the handler; FALSE, no tenant, every   *)
(* statement commits on its own.                                           *)
(***************************************************************************)
EXTENDS Integers

CONSTANTS Jobs, Participants,
          Questions, Attached,  \* all questions, and those linked to the jobs
          Answers, NoAnswer,
          Durations,            \* the minutes an interviewer may give a job
          MaxTime,              \* bound on the clock
          Requests,             \* requests that may be in flight at once
          TenantTx

ASSUME AssessmentConstants ==
    /\ Attached \subseteq Questions
    /\ Durations \subseteq 1..480
    /\ MaxTime \in Nat
    /\ TenantTx \in BOOLEAN

VARIABLES jobs,        \* table job_postings: status and duration
          invitations, \* table invitations
          answers,     \* table invitation_answers
          now,         \* the clock of the API process
          pc, call, saw, sawJob, stamp, result \* the requests in flight

tables == <<jobs, invitations, answers>>
locals == <<call, saw, sawJob, stamp, result>>
vars == <<tables, now, pc, locals>>

-----------------------------------------------------------------------------
(* Rows *)

Invitations == Jobs \X Participants
JobOf(i) == i[1]

Time == 0..MaxTime
Never == -1 \* a NULL timestamp

JobStatuses == {"draft", "published", "deprecated"}
Outcomes == {"pending", "passed", "failed"}

JobRows == [status : JobStatuses, duration : Durations]

Absent == [status |-> "absent", acceptedAt |-> Never, completedAt |-> Never,
           outcome |-> "pending", duration |-> 0]

InvitationRows ==
    {Absent} \cup
    [status : {"pending", "accepted", "completed"},
     acceptedAt : Time \cup {Never}, completedAt : Time \cup {Never},
     outcome : Outcomes, duration : Durations]

-----------------------------------------------------------------------------
(* Requests *)

Calls ==
    [op : {"accept", "finish", "create"}, inv : Invitations]
    \cup [op : {"save"}, inv : Invitations, question : Questions, answer : Answers]
    \cup [op : {"grade"}, inv : Invitations, outcome : Outcomes]
    \cup [op : {"updateJob"}, job : Jobs, status : JobStatuses, duration : Durations]

\* The operations a participant reaches with the invitation token.
TokenOps == {"accept", "save", "finish"}

NoCall == [op |-> "none"]
NoJob == [status |-> "draft", duration |-> 0]

Steps == {"idle", "read", "preload", "check", "write", "commit", "reply"}
Results == {"none", "ok", "refused", "error"}

JobIn(c) == IF c.op = "updateJob" THEN c.job ELSE JobOf(c.inv)

\* What the handler does first: the operations on a token read the whole
\* interview, a grade reads the invitation, Create reads the job, a job
\* update checks its arguments, and an outcome put back to "pending" is
\* written without looking.
FirstStep(c) ==
    IF c.op \in TokenOps \/ (c.op = "grade" /\ c.outcome # "pending") THEN "read"
    ELSE IF c.op = "create" THEN "preload"
    ELSE IF c.op = "updateJob" THEN "check"
    ELSE "write"

Goto(r, step) == pc' = [pc EXCEPT ![r] = step]

\* The service answers the request without writing.  What it has read is not
\* used any more; here and below such locals are reset.
Refuse(r) ==
    /\ Goto(r, "reply")
    /\ result' = [result EXCEPT ![r] = "refused"]
    /\ saw' = [saw EXCEPT ![r] = Absent]
    /\ sawJob' = [sawJob EXCEPT ![r] = NoJob]
    /\ UNCHANGED <<tables, now, call, stamp>>

\* The service goes on to the store.  The token operations have taken s.now(),
\* Create keeps the duration of the job it has read.
Proceed(r) ==
    /\ Goto(r, "write")
    /\ stamp' = [stamp EXCEPT ![r] = IF call[r].op \in TokenOps THEN now ELSE 0]
    /\ saw' = [saw EXCEPT ![r] = Absent]
    /\ sawJob' = [sawJob EXCEPT ![r] = IF call[r].op = "create" THEN @ ELSE NoJob]
    /\ UNCHANGED <<tables, now, call, result>>

Receive(r, c) ==
    /\ pc[r] = "idle"
    /\ Goto(r, FirstStep(c))
    /\ call' = [call EXCEPT ![r] = c]
    /\ UNCHANGED <<tables, now, saw, sawJob, stamp, result>>

\* SELECT ... FROM invitations, the first query of GetInterview/GetInvitation.
ReadInvitation(r) ==
    /\ pc[r] = "read"
    /\ \/ /\ invitations[call[r].inv].status = "absent"
          /\ Refuse(r)
       \/ /\ invitations[call[r].inv].status # "absent"
          /\ saw' = [saw EXCEPT ![r] = invitations[call[r].inv]]
          /\ Goto(r, IF call[r].op \in TokenOps THEN "preload" ELSE "check")
          /\ UNCHANGED <<tables, now, call, sawJob, stamp, result>>

\* SELECT ... FROM job_postings: a Preload of GetInterview, or GetJob.
ReadJob(r) ==
    /\ pc[r] = "preload"
    /\ sawJob' = [sawJob EXCEPT ![r] = jobs[JobIn(call[r])]]
    /\ Goto(r, "check")
    /\ UNCHANGED <<tables, now, call, saw, stamp, result>>

-----------------------------------------------------------------------------
(* The checks of the services, on what the request has read *)

\* InvitationService.GetInterview: a pending invitation needs a published job.
Available(r) == saw[r].status = "pending" => sawJob[r].status = "published"

Expired(row, t) == row.acceptedAt # Never /\ t >= row.acceptedAt + row.duration

Checking(r, op) == pc[r] = "check" /\ call[r].op = op

\* The check of an operation: go on when it holds, refuse otherwise.
Guarded(r, ok) == (ok /\ Proceed(r)) \/ (~ok /\ Refuse(r))

CheckAccept(r) ==
    /\ Checking(r, "accept")
    /\ Guarded(r, Available(r) /\ saw[r].status = "pending")

\* Mutants: the service forgets the status, or the clock.
CheckSaveAnswerAnyStatus(r) ==
    /\ Checking(r, "save")
    /\ Guarded(r, Available(r) /\ ~Expired(saw[r], now) /\ call[r].question \in Attached)

CheckSaveAnswerAnyTime(r) ==
    /\ Checking(r, "save")
    /\ Guarded(r, /\ Available(r)
                  /\ saw[r].status = "accepted"
                  /\ call[r].question \in Attached)

CheckSaveAnswer(r) ==
    /\ Checking(r, "save")
    /\ Guarded(r, /\ Available(r)
                  /\ saw[r].status = "accepted"
                  /\ ~Expired(saw[r], now)
                  /\ call[r].question \in Attached)

CheckFinish(r) ==
    /\ Checking(r, "finish")
    /\ Guarded(r, Available(r) /\ saw[r].status = "accepted")

\* Mutant: an outcome is taken whatever the status.
CheckSetOutcomeUnchecked(r) == Checking(r, "grade") /\ Guarded(r, TRUE)

CheckSetOutcome(r) ==
    /\ Checking(r, "grade")
    /\ Guarded(r, saw[r].status = "completed")

\* The 60% threshold is CandidateMatching's subject: either answer is possible.
CheckCreate(r) ==
    /\ Checking(r, "create")
    /\ \E eligible \in BOOLEAN :
           Guarded(r, sawJob[r].status = "published" /\ eligible)

CheckUpdateJob(r) ==
    /\ Checking(r, "updateJob")
    /\ Guarded(r, call[r].status = "published" => Attached # {})

-----------------------------------------------------------------------------
(* The statements of the store *)

Table(c) == IF c.op = "save" THEN "invitation_answers"
            ELSE IF c.op = "updateJob" THEN "job_postings"
            ELSE "invitations"

\* Two calls whose statements lock the same row, or insert the same unique key.
SameRow(c, d) ==
    /\ Table(c) = Table(d)
    /\ c.op = "create" <=> d.op = "create"
    /\ Table(c) = "job_postings" => c.job = d.job
    /\ Table(c) # "job_postings" => c.inv = d.inv
    /\ Table(c) = "invitation_answers" => c.question = d.question

\* Mutant: AcceptInvitation without "AND status = ?".
MatchesAnyAccept(c) ==
    /\ c.op = "finish" => invitations[c.inv].status = "accepted"
    /\ c.op = "create" => invitations[c.inv].status = "absent"

\* The statement's WHERE clause: RowsAffected is 0 when it fails.
Matches(c) ==
    /\ c.op = "accept" => invitations[c.inv].status = "pending"
    /\ c.op = "finish" => invitations[c.inv].status = "accepted"
    /\ c.op = "grade" => invitations[c.inv].status # "absent"
    /\ c.op = "create" => invitations[c.inv].status = "absent"

AcceptInvitation(row, t) == [row EXCEPT !.status = "accepted", !.acceptedAt = t]

CompleteInvitation(row, t) == [row EXCEPT !.status = "completed", !.completedAt = t]

UpdateInvitationOutcome(row, outcome) == [row EXCEPT !.outcome = outcome]

\* Mutant: the job's duration is not copied.
CreateInvitationBare(duration) == [Absent EXCEPT !.status = "pending"]

CreateInvitation(duration) ==
    [Absent EXCEPT !.status = "pending", !.duration = duration]

RowAfter(r) ==
    LET c == call[r]
        row == invitations[c.inv]
    IN  CASE c.op = "accept" -> AcceptInvitation(row, stamp[r])
          [] c.op = "finish" -> CompleteInvitation(row, stamp[r])
          [] c.op = "grade" -> UpdateInvitationOutcome(row, c.outcome)
          [] c.op = "create" -> CreateInvitation(sawJob[r].duration)

\* The effect of the request's one writing statement on the tables.
Store(r) ==
    LET c == call[r]
    IN  \/ /\ Table(c) = "invitations"
           /\ invitations' = [invitations EXCEPT ![c.inv] = RowAfter(r)]
           /\ UNCHANGED <<jobs, answers>>
        \/ /\ Table(c) = "invitation_answers"
           /\ answers' = [answers EXCEPT ![<<c.inv, c.question>>] = c.answer]
           /\ UNCHANGED <<jobs, invitations>>
        \/ /\ Table(c) = "job_postings"
           /\ jobs' = [jobs EXCEPT ![c.job] = [status |-> c.status, duration |-> c.duration]]
           /\ UNCHANGED <<invitations, answers>>

\* Mutant: no row locks.
LockedNever(r) == FALSE

\* A transaction that has written the row and not ended yet holds its lock.
Locked(r) == \E s \in Requests \ {r} : pc[s] = "commit" /\ SameRow(call[s], call[r])

\* The writing statement.  It waits for the row lock, then evaluates its
\* WHERE clause on the committed row.  The handler re-reads its result, and
\* reports an error if that fails, but the transaction still commits.
Write(r) ==
    /\ pc[r] = "write"
    /\ ~Locked(r)
    /\ \/ /\ ~Matches(call[r])
          /\ Refuse(r)
       \/ /\ Matches(call[r])
          /\ \E res \in {"ok", "error"} : result' = [result EXCEPT ![r] = res]
          /\ IF TenantTx THEN Goto(r, "commit") /\ UNCHANGED tables
                         ELSE Goto(r, "reply") /\ Store(r)
          /\ UNCHANGED <<now, call, saw, sawJob, stamp>>

\* tx.Commit() after the handler has written its response.
Commit(r) ==
    /\ pc[r] = "commit"
    /\ Store(r)
    /\ Goto(r, "reply")
    /\ UNCHANGED <<now, locals>>

\* tx.Commit() fails; its error is dropped and the response stands.
CommitLost(r) ==
    /\ pc[r] = "commit"
    /\ Goto(r, "reply")
    /\ UNCHANGED <<tables, now, locals>>

\* The request's locals are gone; for the state space they are reset.
Forget(r) ==
    /\ Goto(r, "idle")
    /\ call' = [call EXCEPT ![r] = NoCall]
    /\ saw' = [saw EXCEPT ![r] = Absent]
    /\ sawJob' = [sawJob EXCEPT ![r] = NoJob]
    /\ stamp' = [stamp EXCEPT ![r] = 0]
    /\ result' = [result EXCEPT ![r] = "none"]
    /\ UNCHANGED <<tables, now>>

\* The response reaches the client.
Respond(r) == pc[r] = "reply" /\ Forget(r)

\* A statement fails, the context times out, or the process dies: the open
\* transaction is rolled back and nothing of the request remains.
Abandon(r) == pc[r] \notin {"idle", "reply"} /\ Forget(r)

Tick ==
    /\ now < MaxTime
    /\ now' = now + 1
    /\ UNCHANGED <<tables, pc, locals>>

-----------------------------------------------------------------------------
(* Specification *)

Init ==
    /\ jobs \in [Jobs -> {row \in JobRows : row.status = "draft"}]
    /\ invitations = [i \in Invitations |-> Absent]
    /\ answers = [a \in Invitations \X Questions |-> NoAnswer]
    /\ now = 0
    /\ pc = [r \in Requests |-> "idle"]
    /\ call = [r \in Requests |-> NoCall]
    /\ saw = [r \in Requests |-> Absent]
    /\ sawJob = [r \in Requests |-> NoJob]
    /\ stamp = [r \in Requests |-> 0]
    /\ result = [r \in Requests |-> "none"]

\* What a request does on its own once it has been received.
Check(r) ==
    \/ CheckAccept(r) \/ CheckSaveAnswer(r) \/ CheckFinish(r)
    \/ CheckSetOutcome(r) \/ CheckCreate(r) \/ CheckUpdateJob(r)

\* Mutant: the transaction is ended only after a success.
EndTxOnSuccess(r) == result[r] = "ok" /\ (Commit(r) \/ CommitLost(r))

EndTx(r) == Commit(r) \/ CommitLost(r)

\* Every step but the one that may wait for another request.
Run(r) == ReadInvitation(r) \/ ReadJob(r) \/ Check(r) \/ EndTx(r) \/ Respond(r)

Next ==
    \/ \E r \in Requests :
           \/ \E c \in Calls : Receive(r, c)
           \/ Run(r)
           \/ Write(r)
           \/ Abandon(r)
    \/ Tick

Spec == Init /\ [][Next]_vars

(* A handler runs to its end: its goroutine is scheduled, and PostgreSQL    *)
(* grants a row lock in the order of the waiters, so a statement whose row  *)
(* is free again and again is executed (strong fairness of Write).          *)
FairSpec ==
    /\ Spec
    /\ \A r \in Requests : WF_vars(Run(r)) /\ SF_vars(Write(r))

-----------------------------------------------------------------------------
(* Properties *)

\* The tables and the requests hold what the schema and the services allow.
TypeOK ==
    /\ jobs \in [Jobs -> JobRows]
    /\ invitations \in [Invitations -> InvitationRows]
    /\ answers \in [Invitations \X Questions -> Answers \cup {NoAnswer}]
    /\ now \in Time
    /\ pc \in [Requests -> Steps]
    /\ call \in [Requests -> Calls \cup {NoCall}]
    /\ saw \in [Requests -> InvitationRows]
    /\ sawJob \in [Requests -> JobRows \cup {NoJob}]
    /\ stamp \in [Requests -> Time]
    /\ result \in [Requests -> Results]

\* Only a completed assessment has an outcome.  SetOutcome checks the status
\* in a read that is over when it writes (services.go:568, store.go:473).
GradedWhenCompleted ==
    \A i \in Invitations :
        invitations[i].outcome # "pending" => invitations[i].status = "completed"

\* The timestamps tell the status, and submission follows acceptance, though
\* both come from the API's clock and are taken before the row is locked.
TimestampsFollowStatus ==
    \A i \in Invitations :
        LET row == invitations[i]
        IN  /\ row.acceptedAt # Never <=> row.status \in {"accepted", "completed"}
            /\ row.completedAt # Never <=> row.status = "completed"
            /\ row.completedAt # Never => row.acceptedAt <= row.completedAt

\* Questions are acceptance-gated: a stored answer belongs to an invitation
\* that was accepted, and to a question of its job.
AnswersAreGated ==
    \A i \in Invitations, q \in Questions :
        answers[<<i, q>>] # NoAnswer =>
            /\ q \in Attached
            /\ invitations[i].status \in {"accepted", "completed"}

\* An answer that is about to be written was sent before the deadline the
\* invitation has now, although expiry was computed from an earlier read.
SavesAreInTime ==
    \A r \in Requests :
        (pc[r] \in {"write", "commit"} /\ call[r].op = "save") =>
            ~Expired(invitations[call[r].inv], stamp[r])

\* Refreshing cannot reset the countdown: once accepted, the instant of
\* acceptance and the duration stay, whatever other accepts are in flight.
DeadlineIsFixed ==
    [][\A i \in Invitations :
           invitations[i].acceptedAt # Never =>
               /\ invitations'[i].acceptedAt = invitations[i].acceptedAt
               /\ invitations'[i].duration = invitations[i].duration]_vars

\* A participant who is told that the acceptance or the submission succeeded
\* finds it in the database, with the timestamp of that very request; so does
\* an interviewer who is told of a new invitation.
AcknowledgedIsStored ==
    \A r \in Requests :
        (pc[r] = "reply" /\ result[r] = "ok") =>
            /\ call[r].op = "accept" => invitations[call[r].inv].acceptedAt = stamp[r]
            /\ call[r].op = "finish" => invitations[call[r].inv].completedAt = stamp[r]
            /\ call[r].op = "create" => invitations[call[r].inv].status # "absent"

\* The saves of an assessment that are past the check of its status, or will
\* pass it with the row they have read.
Saving(i) ==
    {r \in Requests :
        /\ call[r].op = "save" /\ call[r].inv = i
        /\ \/ pc[r] \in {"write", "commit"}
           \/ pc[r] \in {"preload", "check"} /\ saw[r].status = "accepted"}

\* Answers are saved before final submission (services.go:509): a save that
\* has read the row before may still land after it, but once those are over
\* there are no others, and the answers stay for good.
AnswersSettle ==
    [][\A i \in Invitations :
           invitations[i].status = "completed" /\ Saving(i) = {} =>
               /\ Saving(i)' = {}
               /\ \A q \in Questions : answers'[<<i, q>>] = answers[<<i, q>>]]_vars

\* Every request is answered or given up.
RequestsEnd == \A r \in Requests : pc[r] # "idle" ~> pc[r] = "idle"

-----------------------------------------------------------------------------
(* The inductive invariant: what keeps the properties true step by step *)

RowOK(row) ==
    /\ row.acceptedAt # Never <=> row.status \in {"accepted", "completed"}
    /\ row.completedAt # Never <=> row.status = "completed"
    /\ row.completedAt # Never => row.acceptedAt <= row.completedAt
    /\ row.outcome # "pending" => row.status = "completed"
    /\ row.acceptedAt <= now /\ row.completedAt <= now

\* A row a request has read is an earlier version of the row in the table.
Evolves(old, new) ==
    /\ old.status # "absent" => new.status # "absent" /\ new.duration = old.duration
    /\ old.status \in {"accepted", "completed"} =>
           new.status \in {"accepted", "completed"} /\ new.acceptedAt = old.acceptedAt
    /\ old.status = "completed" => new.status = "completed"

\* A request runs the operation it was sent.
CallOK(r) ==
    /\ stamp[r] <= now
    /\ pc[r] # "idle" => call[r] \in Calls
    /\ pc[r] = "read" => call[r].op \in TokenOps \cup {"grade"}
    /\ pc[r] = "preload" => call[r].op \in TokenOps \cup {"create"}

\* Between its first read and its check.
ReadOK(r) ==
    LET c == call[r]
    IN  pc[r] \in {"preload", "check"} =>
           /\ c.op \in TokenOps \cup {"grade"} =>
                  RowOK(saw[r]) /\ Evolves(saw[r], invitations[c.inv])
           /\ pc[r] = "check" /\ c.op = "create" => sawJob[r] \in JobRows

\* Between its check and the end of its transaction.
WriteOK(r) ==
    LET c == call[r]
    IN  pc[r] \in {"write", "commit"} =>
           /\ c.op = "save" =>
                  /\ c.question \in Attached
                  /\ invitations[c.inv].status \in {"accepted", "completed"}
                  /\ ~Expired(invitations[c.inv], stamp[r])
           /\ c.op = "finish" =>
                  /\ invitations[c.inv].status \in {"accepted", "completed"}
                  /\ invitations[c.inv].acceptedAt <= stamp[r]
           /\ c.op = "grade" /\ c.outcome # "pending" =>
                  invitations[c.inv].status = "completed"
           /\ c.op = "create" => sawJob[r] \in JobRows

\* An open transaction still matches the row it has locked, and is alone.
LockOK(r) ==
    pc[r] = "commit" =>
        /\ TenantTx /\ Matches(call[r])
        /\ \A s \in Requests \ {r} : pc[s] = "commit" => ~SameRow(call[s], call[r])

\* The whole of it.  It is what is left true by every step of two requests
\* that read, check and write the same invitation (services.go:455-579).
IInv ==
    /\ TypeOK
    /\ \A i \in Invitations : RowOK(invitations[i])
    /\ AnswersAreGated
    /\ \A r \in Requests : CallOK(r) /\ ReadOK(r) /\ WriteOK(r) /\ LockOK(r)

-----------------------------------------------------------------------------
(* The abstract specification *)

\* The tables implement the life of an invitation.
Lifecycle == INSTANCE InvitationLifecycle WITH
    Deadlines <- 0..(MaxTime + 480),
    stage <- [i \in Invitations |-> invitations[i].status],
    deadline <- [i \in Invitations |->
                    IF invitations[i].acceptedAt = Never THEN -1
                    ELSE invitations[i].acceptedAt + invitations[i].duration],
    verdict <- [i \in Invitations |-> invitations[i].outcome]

\* Whatever the interleaving, an invitation lives as InvitationLifecycle says.
ImplementsLifecycle == Lifecycle!Spec
=============================================================================
