-------------------------- MODULE AssessmentProofs --------------------------
(* What Assessment.tla promises, for any number of jobs, participants and   *)
(* requests in flight and for both kinds of transaction.                    *)
EXTENDS Assessment, TLAPS

\* A step that leaves the request s alone.
Apart(s) ==
    /\ pc'[s] = pc[s] /\ call'[s] = call[s] /\ saw'[s] = saw[s]
    /\ sawJob'[s] = sawJob[s] /\ stamp'[s] = stamp[s]

LEMMA SameRowSymmetric ==
    ASSUME NEW c, NEW d, SameRow(c, d)
    PROVE  SameRow(d, c)
BY DEF SameRow

\* A step of r that writes no table preserves the invariant of every other
\* request; what is left to show is the invariant of r itself.
LEMMA LocalStep ==
    ASSUME IInv, TypeOK', NEW r \in Requests,
           UNCHANGED <<tables, now>>,
           \A s \in Requests \ {r} : Apart(s),
           CallOK(r)', ReadOK(r)', WriteOK(r)',
           pc'[r] = "commit" =>
               /\ TenantTx /\ Matches(call'[r])
               /\ \A s \in Requests \ {r} :
                      pc[s] = "commit" => ~SameRow(call[s], call'[r])
    PROVE  IInv'
<1>1. \A i \in Invitations : RowOK(invitations[i])'
  BY DEF IInv, RowOK, tables
<1>2. AnswersAreGated'
  BY DEF IInv, AnswersAreGated, tables
<1>3. ASSUME NEW s \in Requests
      PROVE  CallOK(s)' /\ ReadOK(s)' /\ WriteOK(s)'
  <2>1. CASE s = r
    BY <2>1
  <2>2. CASE s # r
    <3>1. Apart(s)
      BY <2>2
    <3>2. CallOK(s) /\ ReadOK(s) /\ WriteOK(s)
      BY DEF IInv
    <3>3. CallOK(s)'
      BY <3>1, <3>2 DEF Apart, CallOK, tables
    <3>4. ReadOK(s)'
      BY <3>1, <3>2 DEF Apart, ReadOK, RowOK, tables
    <3>5. WriteOK(s)'
      BY <3>1, <3>2 DEF Apart, WriteOK, tables
    <3> QED BY <3>3, <3>4, <3>5
  <2> QED BY <2>1, <2>2
<1>4. ASSUME NEW s \in Requests
      PROVE  LockOK(s)'
  <2>1. CASE s = r
    <3>1. ASSUME NEW t \in Requests \ {r}, pc'[t] = "commit"
          PROVE  pc[t] = "commit" /\ call'[t] = call[t]
      BY <3>1 DEF Apart
    <3>2. pc'[r] = "commit" => TenantTx /\ Matches(call[r])'
      BY DEF Matches, tables
    <3>3. ASSUME pc'[r] = "commit", NEW t \in Requests \ {r}, pc'[t] = "commit"
          PROVE  ~SameRow(call'[t], call'[r])
      BY <3>1, <3>3
    <3> QED BY <2>1, <3>2, <3>3 DEF LockOK
  <2>2. CASE s # r
    <3>1. Apart(s) /\ LockOK(s)
      BY <2>2 DEF IInv
    <3>2. pc'[s] = "commit" => TenantTx /\ Matches(call[s])'
      BY <3>1 DEF LockOK, Matches, tables, Apart
    <3>3. ASSUME NEW t \in Requests \ {s}, pc'[t] = "commit", pc'[s] = "commit"
          PROVE  ~SameRow(call'[t], call'[s])
      <4>1. CASE t = r
        BY <3>1, <3>3, <4>1, SameRowSymmetric DEF Apart
      <4>2. CASE t # r
        BY <3>1, <3>3, <4>2 DEF Apart, LockOK
      <4> QED BY <4>1, <4>2
    <3> QED BY <3>1, <3>2, <3>3 DEF LockOK, Apart
  <2> QED BY <2>1, <2>2
<1> QED BY <1>1, <1>2, <1>3, <1>4 DEF IInv

LEMMA ReceiveStep ==
    ASSUME IInv, NEW r \in Requests, NEW c \in Calls, Receive(r, c)
    PROVE  IInv'
<1>1. /\ pc[r] = "idle" /\ pc' = [pc EXCEPT ![r] = FirstStep(c)]
      /\ call' = [call EXCEPT ![r] = c]
      /\ UNCHANGED <<tables, now, saw, sawJob, stamp, result>>
  BY DEF Receive, Goto
<1>2. FirstStep(c) \in Steps
  BY DEF FirstStep, Steps
<1>3. TypeOK'
  BY <1>1, <1>2 DEF IInv, TypeOK, tables
<1>4. \A s \in Requests \ {r} : Apart(s)
  BY <1>1 DEF Apart, IInv, TypeOK
<1>5. pc'[r] = FirstStep(c) /\ call'[r] = c
  BY <1>1 DEF IInv, TypeOK
<1>6. CallOK(r)'
  BY <1>1, <1>5 DEF CallOK, FirstStep, IInv, Calls, TokenOps
<1>7. ReadOK(r)' /\ pc'[r] # "commit"
  BY <1>5 DEF ReadOK, FirstStep, TokenOps
<1>8. WriteOK(r)'
  <2>1. pc'[r] \in {"write", "commit"} =>
            c.op \notin {"save", "finish", "create"} /\ (c.op = "grade" => c.outcome = "pending")
    BY <1>5 DEF FirstStep, TokenOps
  <2> QED BY <1>5, <2>1 DEF WriteOK
<1> QED BY <1>1, <1>3, <1>4, <1>6, <1>7, <1>8, LocalStep

LEMMA RefuseStep ==
    ASSUME IInv, NEW r \in Requests, pc[r] # "idle", Refuse(r)
    PROVE  IInv'
<1>1. /\ pc' = [pc EXCEPT ![r] = "reply"]
      /\ saw' = [saw EXCEPT ![r] = Absent]
      /\ sawJob' = [sawJob EXCEPT ![r] = NoJob]
      /\ result' = [result EXCEPT ![r] = "refused"]
      /\ UNCHANGED <<tables, now, call, stamp>>
  BY DEF Refuse, Goto
<1>2. TypeOK'
  BY <1>1 DEF IInv, TypeOK, tables, Steps, Results, InvitationRows
<1>3. \A s \in Requests \ {r} : Apart(s)
  BY <1>1 DEF Apart, IInv, TypeOK
<1>4. pc'[r] = "reply"
  BY <1>1 DEF IInv, TypeOK
<1>5. CallOK(r)' /\ ReadOK(r)' /\ WriteOK(r)'
  BY <1>1, <1>4 DEF CallOK, ReadOK, WriteOK, IInv
<1> QED BY <1>1, <1>2, <1>3, <1>4, <1>5, LocalStep

\* What a check has to establish for the request to go on.
LEMMA ProceedStep ==
    ASSUME IInv, NEW r \in Requests, pc[r] = "check", Proceed(r),
           call[r].op = "save" =>
               /\ call[r].question \in Attached
               /\ saw[r].status = "accepted" /\ ~Expired(saw[r], now),
           call[r].op = "finish" => saw[r].status = "accepted",
           call[r].op = "grade" => saw[r].status = "completed"
    PROVE  IInv'
<1> DEFINE c == call[r]
           st == IF c.op \in TokenOps THEN now ELSE 0
<1>1. /\ pc' = [pc EXCEPT ![r] = "write"]
      /\ stamp' = [stamp EXCEPT ![r] = st]
      /\ saw' = [saw EXCEPT ![r] = Absent]
      /\ sawJob' = [sawJob EXCEPT ![r] = IF c.op = "create" THEN sawJob[r] ELSE NoJob]
      /\ UNCHANGED <<tables, now, call, result>>
  BY DEF Proceed, Goto
<1>2. now \in Time /\ 0 \in Time /\ st \in Time /\ st <= now /\ c \in Calls
  BY AssessmentConstants DEF IInv, TypeOK, Time, CallOK
<1>3. TypeOK'
  BY <1>1, <1>2 DEF IInv, TypeOK, tables, Steps, InvitationRows
<1>4. \A s \in Requests \ {r} : Apart(s)
  BY <1>1 DEF Apart, IInv, TypeOK
<1>5. pc'[r] = "write" /\ call'[r] = c /\ stamp'[r] = st
  BY <1>1 DEF IInv, TypeOK
<1>6. CallOK(r)'
  BY <1>1, <1>2, <1>5 DEF CallOK
<1>7. ReadOK(r)'
  BY <1>5 DEF ReadOK
<1>8. WriteOK(r)'
  <2>1. c.op \in TokenOps \cup {"grade"} =>
            RowOK(saw[r]) /\ Evolves(saw[r], invitations[c.inv])
    BY DEF IInv, ReadOK
  <2>2. c.op = "save" =>
            /\ c.question \in Attached
            /\ invitations[c.inv].status \in {"accepted", "completed"}
            /\ ~Expired(invitations[c.inv], st)
    BY <2>1 DEF Evolves, Expired, TokenOps
  <2>3. c.op = "finish" =>
            /\ invitations[c.inv].status \in {"accepted", "completed"}
            /\ invitations[c.inv].acceptedAt <= st
    BY <2>1 DEF Evolves, RowOK, TokenOps
  <2>4. c.op = "grade" => invitations[c.inv].status = "completed"
    BY <2>1 DEF Evolves
  <2>5. c.op = "create" => sawJob'[r] \in JobRows
    BY <1>1 DEF IInv, ReadOK, TypeOK
  <2> QED BY <1>1, <1>5, <2>2, <2>3, <2>4, <2>5 DEF WriteOK, tables, Expired
<1> QED BY <1>1, <1>3, <1>4, <1>5, <1>6, <1>7, <1>8, LocalStep

LEMMA ReadInvitationStep ==
    ASSUME IInv, NEW r \in Requests, ReadInvitation(r)
    PROVE  IInv'
<1> DEFINE c == call[r]
           row == invitations[c.inv]
           next == IF c.op \in TokenOps THEN "preload" ELSE "check"
<1>0. pc[r] = "read" /\ c \in Calls /\ c.op \in TokenOps \cup {"grade"}
  BY DEF ReadInvitation, IInv, CallOK
<1>1. CASE Refuse(r)
  BY <1>0, <1>1, RefuseStep
<1>2. CASE /\ row.status # "absent"
           /\ saw' = [saw EXCEPT ![r] = row]
           /\ pc' = [pc EXCEPT ![r] = next]
           /\ UNCHANGED <<tables, now, call, sawJob, stamp, result>>
  <2>1. row \in InvitationRows /\ RowOK(row)
    BY <1>0 DEF IInv, TypeOK, Calls, TokenOps
  <2>2. TypeOK'
    BY <1>2, <2>1 DEF IInv, TypeOK, tables, Steps
  <2>3. \A s \in Requests \ {r} : Apart(s)
    BY <1>2 DEF Apart, IInv, TypeOK
  <2>4. pc'[r] = next /\ call'[r] = c /\ saw'[r] = row
    BY <1>2 DEF IInv, TypeOK
  <2>5. CallOK(r)' /\ pc'[r] # "commit"
    BY <1>0, <1>2, <2>4 DEF CallOK, IInv
  <2>6. ReadOK(r)'
    BY <1>0, <1>2, <2>1, <2>4 DEF ReadOK, RowOK, Evolves, tables, TokenOps
  <2>7. WriteOK(r)'
    BY <2>4 DEF WriteOK
  <2> QED BY <1>2, <2>2, <2>3, <2>5, <2>6, <2>7, LocalStep
<1> QED BY <1>1, <1>2 DEF ReadInvitation, Goto

LEMMA ReadJobStep ==
    ASSUME IInv, NEW r \in Requests, ReadJob(r)
    PROVE  IInv'
<1> DEFINE c == call[r]
           row == jobs[JobIn(c)]
<1>0. pc[r] = "preload" /\ c \in Calls /\ c.op \in TokenOps \cup {"create"}
  BY DEF ReadJob, IInv, CallOK
<1>1. /\ sawJob' = [sawJob EXCEPT ![r] = row]
      /\ pc' = [pc EXCEPT ![r] = "check"]
      /\ UNCHANGED <<tables, now, call, saw, stamp, result>>
  BY DEF ReadJob, Goto
<1>2. row \in JobRows
  <2>1. c.inv \in Jobs \X Participants
    BY <1>0 DEF Calls, Invitations, TokenOps
  <2>2. JobIn(c) \in Jobs
    BY <1>0, <2>1 DEF JobIn, JobOf, TokenOps
  <2> QED BY <2>2 DEF IInv, TypeOK
<1>3. TypeOK'
  BY <1>1, <1>2 DEF IInv, TypeOK, tables, Steps
<1>4. \A s \in Requests \ {r} : Apart(s)
  BY <1>1 DEF Apart, IInv, TypeOK
<1>5. pc'[r] = "check" /\ call'[r] = c /\ sawJob'[r] = row
  BY <1>1 DEF IInv, TypeOK
<1>6. CallOK(r)' /\ WriteOK(r)'
  BY <1>0, <1>1, <1>5 DEF CallOK, WriteOK, IInv
<1>7. ReadOK(r)'
  BY <1>0, <1>1, <1>2, <1>5 DEF ReadOK, RowOK, IInv, tables
<1> QED BY <1>1, <1>3, <1>4, <1>5, <1>6, <1>7, LocalStep

LEMMA CheckStep ==
    ASSUME IInv, NEW r \in Requests, Check(r)
    PROVE  IInv'
<1>1. ASSUME pc[r] = "check", Refuse(r)
      PROVE  IInv'
  BY <1>1, RefuseStep
<1>2. CASE CheckAccept(r)
  BY <1>1, <1>2, ProceedStep DEF CheckAccept, Checking, Guarded
<1>3. CASE CheckSaveAnswer(r)
  BY <1>1, <1>3, ProceedStep DEF CheckSaveAnswer, Checking, Guarded
<1>4. CASE CheckFinish(r)
  BY <1>1, <1>4, ProceedStep DEF CheckFinish, Checking, Guarded
<1>5. CASE CheckSetOutcome(r)
  BY <1>1, <1>5, ProceedStep DEF CheckSetOutcome, Checking, Guarded
<1>6. CASE CheckCreate(r)
  BY <1>1, <1>6, ProceedStep DEF CheckCreate, Checking, Guarded
<1>7. CASE CheckUpdateJob(r)
  BY <1>1, <1>7, ProceedStep DEF CheckUpdateJob, Checking, Guarded
<1> QED BY <1>2, <1>3, <1>4, <1>5, <1>6, <1>7 DEF Check

LEMMA ForgetStep ==
    ASSUME IInv, NEW r \in Requests, Forget(r)
    PROVE  IInv'
<1>1. /\ pc' = [pc EXCEPT ![r] = "idle"]
      /\ call' = [call EXCEPT ![r] = NoCall]
      /\ saw' = [saw EXCEPT ![r] = Absent]
      /\ sawJob' = [sawJob EXCEPT ![r] = NoJob]
      /\ stamp' = [stamp EXCEPT ![r] = 0]
      /\ result' = [result EXCEPT ![r] = "none"]
      /\ UNCHANGED <<tables, now>>
  BY DEF Forget, Goto
<1>2. 0 \in Time /\ now \in Time
  BY AssessmentConstants DEF Time, IInv, TypeOK
<1>3. TypeOK'
  BY <1>1, <1>2 DEF IInv, TypeOK, tables, Steps, Results, InvitationRows
<1>4. \A s \in Requests \ {r} : Apart(s)
  BY <1>1 DEF Apart, IInv, TypeOK
<1>5. pc'[r] = "idle" /\ stamp'[r] = 0
  BY <1>1 DEF IInv, TypeOK
<1>6. CallOK(r)' /\ ReadOK(r)' /\ WriteOK(r)'
  BY <1>1, <1>2, <1>5 DEF CallOK, ReadOK, WriteOK, Time
<1> QED BY <1>1, <1>3, <1>4, <1>5, <1>6, LocalStep

LEMMA CommitLostStep ==
    ASSUME IInv, NEW r \in Requests, CommitLost(r)
    PROVE  IInv'
<1>1. /\ pc[r] = "commit"
      /\ pc' = [pc EXCEPT ![r] = "reply"]
      /\ UNCHANGED <<tables, now, locals>>
  BY DEF CommitLost, Goto
<1>2. TypeOK'
  BY <1>1 DEF IInv, TypeOK, tables, locals, Steps
<1>3. \A s \in Requests \ {r} : Apart(s)
  BY <1>1 DEF Apart, IInv, TypeOK, locals
<1>4. pc'[r] = "reply"
  BY <1>1 DEF IInv, TypeOK
<1>5. CallOK(r)' /\ ReadOK(r)' /\ WriteOK(r)'
  BY <1>1, <1>4 DEF CallOK, ReadOK, WriteOK, IInv, locals
<1> QED BY <1>1, <1>2, <1>3, <1>4, <1>5, LocalStep DEF locals

\* The statement is executed and waits for the commit of its transaction.
LEMMA LockStep ==
    ASSUME IInv, NEW r \in Requests, pc[r] = "write", ~Locked(r),
           Matches(call[r]), TenantTx, NEW res \in {"ok", "error"},
           pc' = [pc EXCEPT ![r] = "commit"],
           result' = [result EXCEPT ![r] = res],
           UNCHANGED <<tables, now, call, saw, sawJob, stamp>>
    PROVE  IInv'
<1>1. TypeOK'
  BY DEF IInv, TypeOK, tables, Steps, Results
<1>2. \A s \in Requests \ {r} : Apart(s)
  BY DEF Apart, IInv, TypeOK
<1>3. pc'[r] = "commit" /\ call'[r] = call[r]
  BY DEF IInv, TypeOK
<1>4. CallOK(r)' /\ ReadOK(r)' /\ WriteOK(r)'
  BY <1>3 DEF CallOK, ReadOK, WriteOK, IInv, tables
<1>5. \A s \in Requests \ {r} : pc[s] = "commit" => ~SameRow(call[s], call'[r])
  BY <1>3 DEF Locked
<1> QED BY <1>1, <1>2, <1>3, <1>4, <1>5, LocalStep

LEMMA TickStep ==
    ASSUME IInv, Tick
    PROVE  IInv'
<1>1. /\ now \in Time /\ now < MaxTime /\ now' = now + 1 /\ MaxTime \in Nat
      /\ UNCHANGED <<tables, pc, locals>>
  BY AssessmentConstants DEF Tick, IInv, TypeOK
<1>2. now' \in Time /\ now' >= now
  BY <1>1 DEF Time
<1>3. TypeOK'
  BY <1>1, <1>2 DEF IInv, TypeOK, tables, locals
<1>4. ASSUME NEW row \in InvitationRows, RowOK(row)
      PROVE  RowOK(row)'
  BY <1>1, <1>4 DEF RowOK, InvitationRows, Absent, Time, Never
<1>5. \A i \in Invitations : RowOK(invitations[i])'
  BY <1>1, <1>4 DEF IInv, TypeOK, tables
<1>6. AnswersAreGated'
  BY <1>1 DEF IInv, AnswersAreGated, tables
<1>7. ASSUME NEW r \in Requests
      PROVE  CallOK(r)' /\ ReadOK(r)' /\ WriteOK(r)' /\ LockOK(r)'
  <2>1. CallOK(r)'
    BY <1>1, <1>2 DEF IInv, TypeOK, CallOK, locals, Time
  <2>2. ReadOK(r)'
    BY <1>1, <1>4 DEF IInv, TypeOK, ReadOK, locals, tables
  <2>3. WriteOK(r)' /\ LockOK(r)'
    BY <1>1 DEF IInv, WriteOK, LockOK, Matches, locals, tables
  <2> QED BY <2>1, <2>2, <2>3
<1> QED BY <1>3, <1>5, <1>6, <1>7 DEF IInv

-----------------------------------------------------------------------------
(* The statements *)

\* What one statement may do to a row of invitations: the four steps of the
\* abstract life, told by the fields they write.
Invited(old, new) ==
    /\ old = Absent /\ new.status = "pending" /\ new.acceptedAt = Never
    /\ new.outcome = "pending"

Accepted(old, new) ==
    /\ old.status = "pending" /\ new.status = "accepted"
    /\ new.acceptedAt \in Time /\ new.duration = old.duration
    /\ new.outcome = old.outcome

Submitted(old, new) ==
    /\ old.status = "accepted" /\ new.status = "completed"
    /\ new.acceptedAt = old.acceptedAt /\ new.duration = old.duration
    /\ new.outcome = old.outcome

Graded(old, new) ==
    /\ new.status = old.status /\ new.status # "absent"
    /\ new.acceptedAt = old.acceptedAt /\ new.completedAt = old.completedAt
    /\ new.duration = old.duration /\ new.outcome \in Outcomes
    /\ new.outcome # old.outcome => old.status = "completed"

Lives(old, new) ==
    Invited(old, new) \/ Accepted(old, new) \/ Submitted(old, new) \/ Graded(old, new)

\* A row written by a request that passed its checks and whose statement
\* matches is a good row, one step of life after the row it replaces.
LEMMA RowWritten ==
    ASSUME IInv, NEW r \in Requests, pc[r] \in {"write", "commit"},
           Matches(call[r]), Table(call[r]) = "invitations"
    PROVE  LET old == invitations[call[r].inv]
               new == RowAfter(r)
           IN  /\ call[r].inv \in Invitations
               /\ new \in InvitationRows /\ RowOK(new) /\ Lives(old, new)
<1> DEFINE c == call[r]
           old == invitations[c.inv]
           new == RowAfter(r)
<1>1. /\ c \in Calls /\ c.op \in {"accept", "finish", "grade", "create"}
      /\ c.inv \in Invitations
      /\ c.op = "grade" => c.outcome \in Outcomes
  BY DEF IInv, CallOK, Table, Calls
<1>2. /\ old \in InvitationRows /\ RowOK(old) /\ WriteOK(r)
      /\ stamp[r] \in Time /\ stamp[r] <= now /\ now \in Time
  BY <1>1 DEF IInv, TypeOK, CallOK
<1>3. CASE c.op = "accept"
  <2>1. old.status = "pending" /\ new = AcceptInvitation(old, stamp[r])
    BY <1>3 DEF Matches, RowAfter
  <2>2. old \in [status : {"pending", "accepted", "completed"},
                 acceptedAt : Time \cup {Never}, completedAt : Time \cup {Never},
                 outcome : Outcomes, duration : Durations]
    BY <1>2, <2>1 DEF InvitationRows, Absent
  <2>3. new \in InvitationRows
    BY <1>2, <2>1, <2>2 DEF AcceptInvitation, InvitationRows
  <2>4. RowOK(new) /\ Accepted(old, new)
    BY <1>2, <2>1, <2>2 DEF AcceptInvitation, RowOK, Accepted, Time, Never
  <2> QED BY <1>1, <2>3, <2>4 DEF Lives
<1>4. CASE c.op = "finish"
  <2>1. old.status = "accepted" /\ new = CompleteInvitation(old, stamp[r])
    BY <1>4 DEF Matches, RowAfter
  <2>2. old \in [status : {"pending", "accepted", "completed"},
                 acceptedAt : Time \cup {Never}, completedAt : Time \cup {Never},
                 outcome : Outcomes, duration : Durations]
    BY <1>2, <2>1 DEF InvitationRows, Absent
  <2>3. new \in InvitationRows
    BY <1>2, <2>1, <2>2 DEF CompleteInvitation, InvitationRows
  <2>4. old.acceptedAt <= stamp[r]
    BY <1>2, <1>4 DEF WriteOK
  <2>5. RowOK(new) /\ Submitted(old, new)
    BY <1>2, <2>1, <2>2, <2>4 DEF CompleteInvitation, RowOK, Submitted, Time, Never
  <2> QED BY <1>1, <2>3, <2>5 DEF Lives
<1>5. CASE c.op = "grade"
  <2>1. /\ old.status # "absent" /\ new = UpdateInvitationOutcome(old, c.outcome)
        /\ c.outcome # "pending" => old.status = "completed"
    BY <1>2, <1>5 DEF Matches, RowAfter, WriteOK
  <2>2. old \in [status : {"pending", "accepted", "completed"},
                 acceptedAt : Time \cup {Never}, completedAt : Time \cup {Never},
                 outcome : Outcomes, duration : Durations]
    BY <1>2, <2>1 DEF InvitationRows, Absent
  <2>3. new \in InvitationRows
    BY <1>1, <1>5, <2>1, <2>2 DEF UpdateInvitationOutcome, InvitationRows
  <2>4. RowOK(new) /\ Graded(old, new)
    BY <1>1, <1>2, <1>5, <2>1, <2>2 DEF UpdateInvitationOutcome, RowOK, Graded
  <2> QED BY <1>1, <2>3, <2>4 DEF Lives
<1>6. CASE c.op = "create"
  <2>1. old.status = "absent" /\ new = CreateInvitation(sawJob[r].duration)
    BY <1>6 DEF Matches, RowAfter
  <2>2. old = Absent
    BY <1>2, <2>1 DEF InvitationRows
  <2>3. sawJob[r].duration \in Durations
    BY <1>2, <1>6 DEF WriteOK, JobRows
  <2>4. new \in InvitationRows
    BY <2>1, <2>3 DEF CreateInvitation, InvitationRows, Absent, Outcomes
  <2>5. RowOK(new) /\ Invited(old, new)
    BY <1>2, <2>1, <2>2 DEF CreateInvitation, RowOK, Invited, Absent, Time, Never
  <2> QED BY <1>1, <2>4, <2>5 DEF Lives
<1> QED BY <1>1, <1>3, <1>4, <1>5, <1>6

\* A life goes forward.
LEMMA LivesEvolve ==
    ASSUME NEW old \in InvitationRows, NEW new \in InvitationRows,
           RowOK(old), Lives(old, new)
    PROVE  Evolves(old, new)
BY DEF Lives, Invited, Accepted, Submitted, Graded, Evolves, RowOK, Absent

LEMMA EvolvesTransitive ==
    ASSUME NEW a, NEW b, NEW c, Evolves(a, b), Evolves(b, c)
    PROVE  Evolves(a, c)
BY DEF Evolves

\* What a statement does to the tables.
LEMMA StoreEvolves ==
    ASSUME IInv, NEW r \in Requests, pc[r] \in {"write", "commit"},
           Matches(call[r]), Store(r), UNCHANGED now
    PROVE  /\ jobs' \in [Jobs -> JobRows]
           /\ invitations' \in [Invitations -> InvitationRows]
           /\ answers' \in [Invitations \X Questions -> Answers \cup {NoAnswer}]
           /\ AnswersAreGated'
           /\ \A i \in Invitations :
                  RowOK(invitations[i])' /\ Evolves(invitations[i], invitations'[i])
<1> DEFINE c == call[r]
<1>1. c \in Calls
  BY DEF IInv, CallOK
<1>2. \A row : Evolves(row, row)
  BY DEF Evolves
<1>3. CASE /\ Table(c) = "invitations"
           /\ invitations' = [invitations EXCEPT ![c.inv] = RowAfter(r)]
           /\ UNCHANGED <<jobs, answers>>
  <2>1. /\ c.inv \in Invitations
        /\ RowAfter(r) \in InvitationRows /\ RowOK(RowAfter(r))
        /\ Lives(invitations[c.inv], RowAfter(r))
    BY <1>3, RowWritten
  <2>2. \A i \in Invitations : invitations[i] \in InvitationRows /\ RowOK(invitations[i])
    BY DEF IInv, TypeOK
  <2>3. Evolves(invitations[c.inv], RowAfter(r))
    BY <2>1, <2>2, LivesEvolve
  <2>4. invitations' \in [Invitations -> InvitationRows]
    BY <1>3, <2>1 DEF IInv, TypeOK
  <2>5. ASSUME NEW i \in Invitations
        PROVE  /\ RowOK(invitations[i])'
               /\ Evolves(invitations[i], invitations'[i])
    <3>1. invitations'[i] = IF i = c.inv THEN RowAfter(r) ELSE invitations[i]
      BY <1>3 DEF IInv, TypeOK
    <3>2. RowOK(invitations'[i]) /\ Evolves(invitations[i], invitations'[i])
      BY <1>2, <2>1, <2>2, <2>3, <3>1
    <3> QED BY <3>2 DEF RowOK
  <2>6. AnswersAreGated'
    BY <1>3, <2>5 DEF IInv, AnswersAreGated, Evolves
  <2> QED BY <1>3, <2>4, <2>5, <2>6 DEF IInv, TypeOK
<1>4. CASE /\ Table(c) = "invitation_answers"
           /\ answers' = [answers EXCEPT ![<<c.inv, c.question>>] = c.answer]
           /\ UNCHANGED <<jobs, invitations>>
  <2>1. c.op = "save" /\ c.inv \in Invitations /\ c.question \in Questions /\ c.answer \in Answers
    BY <1>1, <1>4 DEF Table, Calls
  <2>2. WriteOK(r)
    BY DEF IInv
  <2>3. AnswersAreGated'
    BY <1>4, <2>1, <2>2 DEF IInv, TypeOK, AnswersAreGated, WriteOK
  <2> QED BY <1>2, <1>4, <2>1, <2>3 DEF IInv, TypeOK, RowOK
<1>5. CASE /\ Table(c) = "job_postings"
           /\ jobs' = [jobs EXCEPT ![c.job] = [status |-> c.status, duration |-> c.duration]]
           /\ UNCHANGED <<invitations, answers>>
  <2>1. c.op = "updateJob" /\ c.status \in JobStatuses /\ c.duration \in Durations
    BY <1>1, <1>5 DEF Table, Calls
  <2>2. jobs' \in [Jobs -> JobRows]
    BY <1>5, <2>1 DEF IInv, TypeOK, JobRows
  <2> QED BY <1>2, <1>5, <2>2 DEF IInv, TypeOK, RowOK, AnswersAreGated
<1> QED BY <1>3, <1>4, <1>5 DEF Store

\* A statement preserves the invariant when no open transaction holds its row.
LEMMA StoreStep ==
    ASSUME IInv, NEW r \in Requests, pc[r] \in {"write", "commit"},
           Matches(call[r]), Store(r),
           \A s \in Requests \ {r} : pc[s] = "commit" => ~SameRow(call[s], call[r]),
           pc' = [pc EXCEPT ![r] = "reply"],
           result' \in [Requests -> Results],
           UNCHANGED <<now, call, saw, sawJob, stamp>>
    PROVE  IInv'
<1>1. /\ jobs' \in [Jobs -> JobRows]
      /\ invitations' \in [Invitations -> InvitationRows]
      /\ answers' \in [Invitations \X Questions -> Answers \cup {NoAnswer}]
      /\ AnswersAreGated'
      /\ \A i \in Invitations :
             RowOK(invitations[i])' /\ Evolves(invitations[i], invitations'[i])
  BY StoreEvolves
<1>2. TypeOK'
  BY <1>1 DEF IInv, TypeOK, Steps
<1>3. ASSUME NEW s \in Requests
      PROVE  CallOK(s)' /\ ReadOK(s)' /\ WriteOK(s)'
  <2>1. CallOK(s) /\ ReadOK(s) /\ WriteOK(s)
    BY DEF IInv
  <2>2. pc'[s] = IF s = r THEN "reply" ELSE pc[s]
    BY DEF IInv, TypeOK
  <2>3. CallOK(s)'
    BY <2>1, <2>2 DEF CallOK
  <2>4. pc[s] # "idle" /\ call[s].op # "updateJob" => call[s].inv \in Invitations
    BY <2>1 DEF CallOK, Calls
  <2>5. ReadOK(s)'
    <3>1. CASE pc'[s] \in {"preload", "check"} /\ call[s].op \in TokenOps \cup {"grade"}
      <4>1. Evolves(saw[s], invitations[call[s].inv]) /\ RowOK(saw[s])
        BY <2>1, <2>2, <3>1 DEF ReadOK
      <4>2. Evolves(invitations[call[s].inv], invitations'[call[s].inv])
        BY <1>1, <2>2, <2>4, <3>1 DEF TokenOps
      <4>3. Evolves(saw[s], invitations'[call[s].inv])
        BY <4>1, <4>2, EvolvesTransitive
      <4> QED BY <2>2, <3>1, <4>1, <4>3 DEF ReadOK, RowOK, TokenOps
    <3>2. CASE ~(pc'[s] \in {"preload", "check"} /\ call[s].op \in TokenOps \cup {"grade"})
      BY <2>1, <2>2, <3>2 DEF ReadOK
    <3> QED BY <3>1, <3>2
  <2>6. WriteOK(s)'
    <3>1. CASE pc'[s] \in {"write", "commit"} /\ call[s].op # "updateJob"
      <4>1. Evolves(invitations[call[s].inv], invitations'[call[s].inv])
        BY <1>1, <2>2, <2>4, <3>1
      <4> QED BY <2>1, <2>2, <3>1, <4>1 DEF WriteOK, Evolves, Expired
    <3>2. CASE ~(pc'[s] \in {"write", "commit"} /\ call[s].op # "updateJob")
      BY <3>2 DEF WriteOK
    <3> QED BY <3>1, <3>2
  <2> QED BY <2>3, <2>5, <2>6
<1>4. ASSUME NEW s \in Requests
      PROVE  LockOK(s)'
  <2>1. SUFFICES ASSUME pc'[s] = "commit"
                 PROVE  /\ TenantTx /\ Matches(call[s])'
                        /\ \A t \in Requests \ {s} :
                               pc'[t] = "commit" => ~SameRow(call[t], call[s])
    BY DEF LockOK
  <2>2. s # r /\ pc[s] = "commit"
    BY <2>1 DEF IInv, TypeOK
  <2>3. LockOK(s)
    BY DEF IInv
  <2>4. Matches(call[s])'
    <3>1. CASE /\ Table(call[s]) = "invitations" /\ Table(call[r]) = "invitations"
               /\ call[s].inv = call[r].inv
      <4>1. ~SameRow(call[s], call[r]) /\ Matches(call[s])
        BY <2>2, <2>3 DEF LockOK
      <4>2. call[s] \in Calls /\ call[r] \in Calls
        BY <2>2 DEF IInv, CallOK
      <4> QED BY <3>1, <4>1, <4>2 DEF SameRow, Matches, Table, Calls
    <3>2. CASE Table(call[s]) # "invitations"
      BY <3>2 DEF Table, Matches
    <3>3. CASE /\ Table(call[s]) = "invitations"
               /\ ~(Table(call[r]) = "invitations" /\ call[s].inv = call[r].inv)
      <4>1. Matches(call[s])
        BY <2>2, <2>3 DEF LockOK
      <4>2. call[s].inv \in Invitations
        BY <2>2, <3>3 DEF IInv, CallOK, Calls, Table
      <4>3. invitations'[call[s].inv] = invitations[call[s].inv]
        BY <3>3, <4>2 DEF Store, IInv, TypeOK
      <4> QED BY <4>1, <4>3 DEF Matches
    <3> QED BY <3>1, <3>2, <3>3
  <2>5. ASSUME NEW t \in Requests \ {s}, pc'[t] = "commit"
        PROVE  ~SameRow(call[t], call[s])
    <3>1. pc[t] = "commit"
      BY <2>5 DEF IInv, TypeOK
    <3> QED BY <2>2, <2>3, <3>1 DEF LockOK
  <2> QED BY <2>2, <2>3, <2>4, <2>5 DEF LockOK
<1> QED BY <1>1, <1>2, <1>3, <1>4 DEF IInv

LEMMA WriteStep ==
    ASSUME IInv, NEW r \in Requests, Write(r)
    PROVE  IInv'
<1>1. pc[r] = "write" /\ ~Locked(r)
  BY DEF Write
<1>2. CASE Refuse(r)
  BY <1>1, <1>2, RefuseStep
<1>3. CASE /\ Matches(call[r]) /\ TenantTx
           /\ \E res \in {"ok", "error"} : result' = [result EXCEPT ![r] = res]
           /\ pc' = [pc EXCEPT ![r] = "commit"]
           /\ UNCHANGED <<tables, now, call, saw, sawJob, stamp>>
  BY <1>1, <1>3, LockStep
<1>4. CASE /\ Matches(call[r]) /\ Store(r)
           /\ \E res \in {"ok", "error"} : result' = [result EXCEPT ![r] = res]
           /\ pc' = [pc EXCEPT ![r] = "reply"]
           /\ UNCHANGED <<now, call, saw, sawJob, stamp>>
  <2>1. result' \in [Requests -> Results]
    BY <1>4 DEF IInv, TypeOK, Results
  <2>2. \A s \in Requests \ {r} : pc[s] = "commit" => ~SameRow(call[s], call[r])
    BY <1>1 DEF Locked
  <2> QED BY <1>1, <1>4, <2>1, <2>2, StoreStep
<1> QED BY <1>2, <1>3, <1>4 DEF Write, Goto

LEMMA CommitStep ==
    ASSUME IInv, NEW r \in Requests, Commit(r)
    PROVE  IInv'
<1>1. /\ pc[r] = "commit" /\ Store(r)
      /\ pc' = [pc EXCEPT ![r] = "reply"]
      /\ UNCHANGED <<now, call, saw, sawJob, stamp, result>>
  BY DEF Commit, Goto, locals
<1>2. /\ Matches(call[r])
      /\ \A s \in Requests \ {r} : pc[s] = "commit" => ~SameRow(call[s], call[r])
  BY <1>1 DEF IInv, LockOK
<1>3. result' \in [Requests -> Results]
  BY <1>1 DEF IInv, TypeOK
<1> QED BY <1>1, <1>2, <1>3, StoreStep

-----------------------------------------------------------------------------
(* The theorems *)

LEMMA InitEstablishesIInv == Init => IInv
<1> SUFFICES ASSUME Init PROVE IInv
  OBVIOUS
<1>1. now = 0 /\ 0 \in Time
  BY AssessmentConstants DEF Init, Time
<1>2. TypeOK
  BY <1>1 DEF Init, TypeOK, InvitationRows, Steps, Results
<1>3. \A i \in Invitations : invitations[i] = Absent /\ RowOK(invitations[i])
  BY <1>1 DEF Init, RowOK, Absent, Never
<1>4. AnswersAreGated
  BY DEF Init, AnswersAreGated
<1>5. \A r \in Requests : CallOK(r) /\ ReadOK(r) /\ WriteOK(r) /\ LockOK(r)
  BY <1>1 DEF Init, CallOK, ReadOK, WriteOK, LockOK
<1> QED BY <1>2, <1>3, <1>4, <1>5 DEF IInv

LEMMA StepPreservesIInv == IInv /\ [Next]_vars => IInv'
<1> SUFFICES ASSUME IInv, [Next]_vars PROVE IInv'
  OBVIOUS
<1>1. ASSUME NEW r \in Requests, NEW c \in Calls, Receive(r, c)
      PROVE  IInv'
  BY <1>1, ReceiveStep
<1>2. ASSUME NEW r \in Requests, Run(r)
      PROVE  IInv'
  <2>1. CASE ReadInvitation(r)
    BY <2>1, ReadInvitationStep
  <2>2. CASE ReadJob(r)
    BY <2>2, ReadJobStep
  <2>3. CASE Check(r)
    BY <2>3, CheckStep
  <2>4. CASE EndTx(r)
    BY <2>4, CommitStep, CommitLostStep DEF EndTx
  <2>5. CASE Respond(r)
    BY <2>5, ForgetStep DEF Respond
  <2> QED BY <1>2, <2>1, <2>2, <2>3, <2>4, <2>5 DEF Run
<1>3. ASSUME NEW r \in Requests, Write(r)
      PROVE  IInv'
  BY <1>3, WriteStep
<1>4. ASSUME NEW r \in Requests, Abandon(r)
      PROVE  IInv'
  BY <1>4, ForgetStep DEF Abandon
<1>5. CASE Tick
  BY <1>5, TickStep
<1>6. CASE UNCHANGED vars
  <2>1. /\ UNCHANGED <<jobs, invitations, answers, now, pc, call, saw, sawJob, stamp>>
        /\ UNCHANGED result
    BY <1>6 DEF vars, tables, locals
  <2>2. TypeOK'
    BY <2>1 DEF IInv, TypeOK
  <2>3. \A i \in Invitations : RowOK(invitations[i])'
    BY <2>1 DEF IInv, RowOK
  <2>4. AnswersAreGated'
    BY <2>1 DEF IInv, AnswersAreGated
  <2>5. ASSUME NEW r \in Requests
        PROVE  CallOK(r)' /\ ReadOK(r)' /\ WriteOK(r)' /\ LockOK(r)'
    BY <2>1 DEF IInv, CallOK, ReadOK, WriteOK, LockOK, Matches, RowOK
  <2> QED BY <2>2, <2>3, <2>4, <2>5 DEF IInv
<1> QED BY <1>1, <1>2, <1>3, <1>4, <1>5, <1>6 DEF Next

\* The inductive invariant holds of every reachable state, for any number of
\* jobs, participants and requests and with or without request transactions
\* (services.go:455-579, store.go:389-482, TenantSchemaMiddleware.go:46-69).
THEOREM Invariance == Spec => []IInv
<1>1. Init => IInv
  BY InitEstablishesIInv
<1>2. IInv /\ [Next]_vars => IInv'
  BY StepPreservesIInv
<1> QED BY <1>1, <1>2, PTL DEF Spec

\* Type correctness: the rows respect the schema's checks.
THEOREM TypeCorrect == Spec => []TypeOK
<1>1. IInv => TypeOK
  BY DEF IInv
<1> QED BY <1>1, Invariance, PTL

\* Only completed assessments are graded, however reads and writes interleave.
THEOREM Grading == Spec => []GradedWhenCompleted
<1>1. IInv => GradedWhenCompleted
  BY DEF IInv, RowOK, GradedWhenCompleted
<1> QED BY <1>1, Invariance, PTL

\* The timestamps of an invitation agree with its status and are in order.
THEOREM Timestamps == Spec => []TimestampsFollowStatus
<1>1. IInv => TimestampsFollowStatus
  BY DEF IInv, RowOK, TimestampsFollowStatus
<1> QED BY <1>1, Invariance, PTL

\* Answers exist only for accepted invitations and attached questions.
THEOREM Gating == Spec => []AnswersAreGated
<1>1. IInv => AnswersAreGated
  BY DEF IInv
<1> QED BY <1>1, Invariance, PTL

\* A save that passed the clock's check is in time for the deadline in the
\* table, whatever was committed after the row was read.
THEOREM Punctuality == Spec => []SavesAreInTime
<1>1. IInv => SavesAreInTime
  BY DEF IInv, WriteOK, SavesAreInTime
<1> QED BY <1>1, Invariance, PTL

-----------------------------------------------------------------------------
(* Steps: the deadline, and the abstract life *)

\* One invitation takes one step of its life.
OneLives ==
    \E i \in Invitations, row \in InvitationRows :
        /\ invitations' = [invitations EXCEPT ![i] = row]
        /\ Lives(invitations[i], row)

\* Only the statements write invitations, one row at a time.
LEMMA StepLives ==
    ASSUME IInv, [Next]_vars
    PROVE  UNCHANGED invitations \/ OneLives
<1>1. ASSUME NEW r \in Requests, pc[r] \in {"write", "commit"},
             Matches(call[r]), Store(r)
      PROVE  UNCHANGED invitations \/ OneLives
  <2>1. CASE /\ Table(call[r]) = "invitations"
             /\ invitations' = [invitations EXCEPT ![call[r].inv] = RowAfter(r)]
    BY <1>1, <2>1, RowWritten DEF OneLives
  <2> QED BY <1>1, <2>1 DEF Store
<1>2. ASSUME NEW r \in Requests, Run(r)
      PROVE  UNCHANGED invitations \/ OneLives
  <2>1. CASE ReadInvitation(r)
    BY <2>1 DEF ReadInvitation, Refuse, tables
  <2>2. CASE ReadJob(r)
    BY <2>2 DEF ReadJob, tables
  <2>3. CASE Check(r)
    BY <2>3 DEF Check, CheckAccept, CheckSaveAnswer, CheckFinish, CheckSetOutcome,
                CheckCreate, CheckUpdateJob, Guarded, Proceed, Refuse, tables
  <2>4. CASE EndTx(r)
    BY <1>1, <2>4 DEF EndTx, Commit, CommitLost, tables, IInv, LockOK
  <2>5. CASE Respond(r)
    BY <2>5 DEF Respond, Forget, tables
  <2> QED BY <1>2, <2>1, <2>2, <2>3, <2>4, <2>5 DEF Run
<1>3. ASSUME NEW r \in Requests, Write(r)
      PROVE  UNCHANGED invitations \/ OneLives
  BY <1>1, <1>3 DEF Write, Refuse, tables
<1>4. ASSUME NEW r \in Requests, NEW c \in Calls, Receive(r, c) \/ Abandon(r)
      PROVE  UNCHANGED invitations
  BY <1>4 DEF Receive, Abandon, Forget, tables
<1>5. ASSUME NEW r \in Requests, Abandon(r)
      PROVE  UNCHANGED invitations
  BY <1>5 DEF Abandon, Forget, tables
<1>6. CASE Tick \/ UNCHANGED vars
  BY <1>6 DEF Tick, vars, tables
<1> QED BY <1>2, <1>3, <1>4, <1>5, <1>6 DEF Next

\* The countdown a participant was given at acceptance never changes: not by
\* a second accept in flight, nor by a job update (store.go:423, :163).
THEOREM FixedDeadline == Spec => DeadlineIsFixed
<1>1. ASSUME IInv, [Next]_vars, NEW i \in Invitations,
             invitations[i].acceptedAt # Never
      PROVE  /\ invitations'[i].acceptedAt = invitations[i].acceptedAt
             /\ invitations'[i].duration = invitations[i].duration
  <2>1. invitations[i] \in InvitationRows /\ RowOK(invitations[i])
    BY <1>1 DEF IInv, TypeOK
  <2>2. CASE OneLives
    <3>1. PICK j \in Invitations, row \in InvitationRows :
              /\ invitations' = [invitations EXCEPT ![j] = row]
              /\ Lives(invitations[j], row)
      BY <2>2 DEF OneLives
    <3>2. CASE i = j
      <4>1. Evolves(invitations[i], row)
        BY <2>1, <3>1, <3>2, LivesEvolve
      <4>2. invitations'[i] = row
        BY <1>1, <3>1, <3>2 DEF IInv, TypeOK
      <4> QED BY <1>1, <2>1, <4>1, <4>2 DEF Evolves, RowOK
    <3>3. CASE i # j
      BY <1>1, <3>1, <3>3 DEF IInv, TypeOK
    <3> QED BY <3>2, <3>3
  <2> QED BY <1>1, <2>2, StepLives
<1>2. IInv /\ [Next]_vars =>
          [\A i \in Invitations :
               invitations[i].acceptedAt # Never =>
                   /\ invitations'[i].acceptedAt = invitations[i].acceptedAt
                   /\ invitations'[i].duration = invitations[i].duration]_vars
  BY <1>1
<1> QED BY <1>2, Invariance, PTL DEF Spec, DeadlineIsFixed

\* A deadline falls on one of the instants of the abstract specification.
LEMMA DueIsInstant ==
    ASSUME NEW row \in InvitationRows,
           row.status = "accepted", row.acceptedAt \in Time
    PROVE  /\ row.acceptedAt # Never
           /\ row.acceptedAt + row.duration \in 0..(MaxTime + 480)
<1>1. row.duration \in Durations
  BY DEF InvitationRows, Absent
<1>2. row.duration \in 1..480
  BY <1>1, AssessmentConstants
<1>3. row.acceptedAt \in 0..MaxTime /\ MaxTime \in Nat
  BY AssessmentConstants DEF Time
<1> QED BY <1>2, <1>3 DEF Never

\* A step of the tables is a step of the abstract life, or none.
LEMMA StepMaps ==
    ASSUME IInv, [Next]_vars
    PROVE  [Lifecycle!Next]_(Lifecycle!vars)
<1>1. CASE UNCHANGED invitations
  BY <1>1 DEF Lifecycle!vars
<1>2. CASE OneLives
  <2>1. PICK i \in Invitations, row \in InvitationRows :
            /\ invitations' = [invitations EXCEPT ![i] = row]
            /\ Lives(invitations[i], row)
    BY <1>2 DEF OneLives
  <2> DEFINE old == invitations[i]
             stages == [j \in Invitations |-> invitations[j].status]
             due(r) == IF r.acceptedAt = Never THEN -1 ELSE r.acceptedAt + r.duration
             dues == [j \in Invitations |-> due(invitations[j])]
             verdicts == [j \in Invitations |-> invitations[j].outcome]
  <2>2. \A j \in Invitations : invitations'[j] = IF j = i THEN row ELSE invitations[j]
    BY <2>1 DEF IInv, TypeOK
  <2>3. /\ [j \in Invitations |-> invitations'[j].status] = [stages EXCEPT ![i] = row.status]
        /\ [j \in Invitations |-> due(invitations'[j])] = [dues EXCEPT ![i] = due(row)]
        /\ [j \in Invitations |-> invitations'[j].outcome] = [verdicts EXCEPT ![i] = row.outcome]
    BY <2>2
  <2>4. stages[i] = old.status /\ dues[i] = due(old) /\ verdicts[i] = old.outcome
    OBVIOUS
  <2>5. /\ row.status = old.status => [stages EXCEPT ![i] = row.status] = stages
        /\ due(row) = due(old) => [dues EXCEPT ![i] = due(row)] = dues
        /\ row.outcome = old.outcome => [verdicts EXCEPT ![i] = row.outcome] = verdicts
    BY <2>4
  <2>6. RowOK(old) /\ old \in InvitationRows
    BY DEF IInv, TypeOK
  <2>7. CASE Invited(old, row)
    <3>1. /\ old.status = "absent" /\ row.status = "pending"
          /\ due(row) = due(old) /\ row.outcome = old.outcome
      BY <2>7 DEF Invited, Absent
    <3> QED BY <2>3, <2>4, <2>5, <3>1 DEF Lifecycle!Next, Lifecycle!Invite
  <2>8. CASE Accepted(old, row)
    <3>1. due(row) \in 0..(MaxTime + 480)
      BY <2>8, DueIsInstant DEF Accepted
    <3> QED BY <2>3, <2>4, <2>5, <2>8, <3>1
            DEF Accepted, Lifecycle!Next, Lifecycle!Accept
  <2>9. CASE Submitted(old, row)
    BY <2>3, <2>4, <2>5, <2>9 DEF Submitted, Lifecycle!Next, Lifecycle!Submit
  <2>10. CASE Graded(old, row)
    <3>1. CASE row.outcome = old.outcome
      BY <2>3, <2>5, <2>10, <3>1 DEF Graded, Lifecycle!vars
    <3>2. CASE row.outcome # old.outcome
      BY <2>3, <2>4, <2>5, <2>10, <3>2
         DEF Graded, Lifecycle!Next, Lifecycle!Grade, Lifecycle!Verdicts, Outcomes
    <3> QED BY <3>1, <3>2
  <2> QED BY <2>1, <2>7, <2>8, <2>9, <2>10 DEF Lives
<1> QED BY <1>1, <1>2, StepLives

\* The requests of the API, whatever their interleaving, implement the life
\* of an invitation.
THEOREM Refinement == Spec => ImplementsLifecycle
<1>1. Init => Lifecycle!Init
  BY DEF Init, Absent, Never, Lifecycle!Init, Lifecycle!Open
<1>2. IInv /\ [Next]_vars => [Lifecycle!Next]_(Lifecycle!vars)
  BY StepMaps
<1> QED BY <1>1, <1>2, Invariance, PTL DEF Spec, ImplementsLifecycle, Lifecycle!Spec

-----------------------------------------------------------------------------
(* Answers after the submission *)

\* What a step of r does to its own save: it comes to a check with the row it
\* reads, and past it with a row that was accepted.
SaveMoves(r) ==
    /\ \A s \in Requests \ {r} : Apart(s)
    /\ \/ pc'[r] \notin {"preload", "check", "write", "commit"}
       \/ call'[r].op # "save"
       \/ /\ call'[r] = call[r] /\ pc[r] = "read" /\ pc'[r] = "preload"
          /\ saw'[r] = invitations[call[r].inv]
       \/ call'[r] = call[r] /\ pc[r] = "preload" /\ pc'[r] = "check" /\ saw'[r] = saw[r]
       \/ call'[r] = call[r] /\ pc[r] = "check" /\ saw[r].status = "accepted"
       \/ call'[r] = call[r] /\ pc[r] = "write"

LEMMA StepSaveMoves ==
    ASSUME IInv, NEW r \in Requests,
           (\E c \in Calls : Receive(r, c)) \/ Run(r) \/ Write(r) \/ Abandon(r)
    PROVE  SaveMoves(r)
<1> USE DEF Goto
<1>1. /\ pc \in [Requests -> Steps] /\ call \in [Requests -> Calls \cup {NoCall}]
      /\ saw \in [Requests -> InvitationRows] /\ stamp \in [Requests -> Time]
      /\ sawJob \in [Requests -> JobRows \cup {NoJob}]
  BY DEF IInv, TypeOK
<1>2. ASSUME Refuse(r) PROVE SaveMoves(r)
  BY <1>1, <1>2 DEF Refuse, SaveMoves, Apart
<1>3. ASSUME Forget(r) PROVE SaveMoves(r)
  BY <1>1, <1>3 DEF Forget, SaveMoves, Apart
<1>4. ASSUME NEW c \in Calls, Receive(r, c) PROVE SaveMoves(r)
  <2>1. FirstStep(c) \in {"preload", "check", "write", "commit"} => c.op # "save"
    BY DEF FirstStep, TokenOps
  <2> QED BY <1>1, <1>4, <2>1 DEF Receive, SaveMoves, Apart
<1>5. CASE ReadInvitation(r)
  BY <1>1, <1>2, <1>5 DEF ReadInvitation, SaveMoves, Apart, TokenOps
<1>6. CASE ReadJob(r)
  BY <1>1, <1>6 DEF ReadJob, SaveMoves, Apart
<1>7. CASE Check(r)
  <2>1. ASSUME Proceed(r), pc[r] = "check",
               call[r].op = "save" => saw[r].status = "accepted"
        PROVE  SaveMoves(r)
    BY <1>1, <2>1 DEF Proceed, SaveMoves, Apart
  <2> QED BY <1>2, <1>7, <2>1 DEF Check, CheckAccept, CheckSaveAnswer, CheckFinish,
              CheckSetOutcome, CheckCreate, CheckUpdateJob, Checking, Guarded
<1>8. CASE EndTx(r)
  BY <1>1, <1>8 DEF EndTx, Commit, CommitLost, SaveMoves, Apart, locals
<1>9. CASE Write(r)
  BY <1>1, <1>2, <1>9 DEF Write, SaveMoves, Apart
<1> QED BY <1>3, <1>4, <1>5, <1>6, <1>7, <1>8, <1>9 DEF Run, Respond, Abandon

\* Answers are written by saves past their check.
LEMMA StepAnswers ==
    ASSUME IInv, [Next]_vars
    PROVE  \/ UNCHANGED answers
           \/ \E r \in Requests :
                  /\ pc[r] \in {"write", "commit"} /\ call[r].op = "save"
                  /\ answers' = [answers EXCEPT ![<<call[r].inv, call[r].question>>] = call[r].answer]
<1>1. ASSUME NEW r \in Requests, Run(r)
      PROVE  \/ UNCHANGED answers
             \/ pc[r] = "commit" /\ Store(r)
  BY <1>1 DEF Run, ReadInvitation, ReadJob, Check, CheckAccept, CheckSaveAnswer, CheckFinish,
              CheckSetOutcome, CheckCreate, CheckUpdateJob, Guarded, Proceed, Refuse,
              EndTx, Commit, CommitLost, Respond, Forget, tables
<1>2. ASSUME NEW r \in Requests, Write(r)
      PROVE  \/ UNCHANGED answers
             \/ pc[r] = "write" /\ Store(r)
  BY <1>2 DEF Write, Refuse, tables
<1>3. ASSUME NEW r \in Requests, (\E c \in Calls : Receive(r, c)) \/ Abandon(r)
      PROVE  UNCHANGED answers
  BY <1>3 DEF Receive, Abandon, Forget, tables
<1>4. CASE Tick \/ UNCHANGED vars
  BY <1>4 DEF Tick, vars, tables
<1>5. ASSUME NEW r \in Requests, Store(r)
      PROVE  \/ UNCHANGED answers
             \/ /\ call[r].op = "save"
                /\ answers' = [answers EXCEPT ![<<call[r].inv, call[r].question>>] = call[r].answer]
  BY <1>5 DEF Store, Table
<1> QED BY <1>1, <1>2, <1>3, <1>4, <1>5 DEF Next

\* After the submission, no save begins that would still be written, and when
\* those that had read the row before are over the answers are final
\* (services.go:527-560, store.go:436-459).
THEOREM SettledAnswers == Spec => AnswersSettle
<1>1. ASSUME IInv, [Next]_vars, NEW i \in Invitations,
             invitations[i].status = "completed", Saving(i) = {}
      PROVE  /\ Saving(i)' = {}
             /\ \A q \in Questions : answers'[<<i, q>>] = answers[<<i, q>>]
  <2>1. Saving(i)' = {}
    <3> SUFFICES ASSUME NEW s \in Requests, s \in Saving(i)' PROVE FALSE
      BY DEF Saving
    <3>1. s \notin Saving(i)
      BY <1>1
    <3>2. ASSUME NEW r \in Requests, SaveMoves(r) PROVE FALSE
      <4>1. s = r
        BY <3>1, <3>2 DEF SaveMoves, Saving, Apart
      <4> QED BY <1>1, <3>1, <3>2, <4>1 DEF SaveMoves, Saving
    <3>3. CASE Tick \/ UNCHANGED vars
      BY <3>1, <3>3 DEF Saving, Tick, vars, locals
    <3> QED BY <1>1, <3>2, <3>3, StepSaveMoves DEF Next
  <2>2. ASSUME NEW q \in Questions PROVE answers'[<<i, q>>] = answers[<<i, q>>]
    <3>1. ASSUME NEW r \in Requests, pc[r] \in {"write", "commit"}, call[r].op = "save",
                 answers' = [answers EXCEPT ![<<call[r].inv, call[r].question>>] = call[r].answer]
          PROVE  answers'[<<i, q>>] = answers[<<i, q>>]
      <4>1. call[r].inv # i
        BY <1>1, <3>1 DEF Saving
      <4>2. <<call[r].inv, call[r].question>> # <<i, q>>
        BY <4>1
      <4> QED BY <3>1, <4>2 DEF IInv, TypeOK
    <3> QED BY <1>1, <3>1, StepAnswers
  <2> QED BY <2>1, <2>2
<1>2. IInv /\ [Next]_vars =>
          [\A i \in Invitations :
               invitations[i].status = "completed" /\ Saving(i) = {} =>
                   /\ Saving(i)' = {}
                   /\ \A q \in Questions : answers'[<<i, q>>] = answers[<<i, q>>]]_vars
  BY <1>1
<1> QED BY <1>2, Invariance, PTL DEF Spec, AnswersSettle

-----------------------------------------------------------------------------
(* What participants are told *)

\* Without a transaction of the request, it is told of a success only after
\* its statement, which is committed by then.
LEMMA StepReplies ==
    ASSUME IInv, ~TenantTx, NEW r \in Requests,
           (\E c \in Calls : Receive(r, c)) \/ Run(r) \/ Write(r) \/ Abandon(r)
    PROVE  /\ \A s \in Requests \ {r} : Apart(s) /\ result'[s] = result[s]
           /\ pc'[r] = "reply" /\ result'[r] = "ok" =>
                  /\ pc[r] = "write" /\ Matches(call[r]) /\ Store(r)
                  /\ call'[r] = call[r] /\ stamp'[r] = stamp[r]
<1> USE DEF Goto
<1> DEFINE Result == /\ \A s \in Requests \ {r} : Apart(s) /\ result'[s] = result[s]
                     /\ pc'[r] = "reply" /\ result'[r] = "ok" =>
                            /\ pc[r] = "write" /\ Matches(call[r]) /\ Store(r)
                            /\ call'[r] = call[r] /\ stamp'[r] = stamp[r]
<1>1. /\ pc \in [Requests -> Steps] /\ call \in [Requests -> Calls \cup {NoCall}]
      /\ saw \in [Requests -> InvitationRows] /\ stamp \in [Requests -> Time]
      /\ sawJob \in [Requests -> JobRows \cup {NoJob}] /\ result \in [Requests -> Results]
  BY DEF IInv, TypeOK
<1>2. ASSUME Refuse(r) PROVE Result
  BY <1>1, <1>2 DEF Refuse, Apart
<1>3. ASSUME Forget(r) PROVE Result
  BY <1>1, <1>3 DEF Forget, Apart
<1>4. ASSUME NEW c \in Calls, Receive(r, c) PROVE Result
  <2>1. FirstStep(c) # "reply"
    BY DEF FirstStep
  <2> QED BY <1>1, <1>4, <2>1 DEF Receive, Apart
<1>5. CASE ReadInvitation(r)
  BY <1>1, <1>2, <1>5 DEF ReadInvitation, Apart
<1>6. CASE ReadJob(r)
  BY <1>1, <1>6 DEF ReadJob, Apart
<1>7. CASE Check(r)
  <2>1. ASSUME Proceed(r) PROVE Result
    BY <1>1, <2>1 DEF Proceed, Apart
  <2> QED BY <1>2, <1>7, <2>1 DEF Check, CheckAccept, CheckSaveAnswer, CheckFinish,
              CheckSetOutcome, CheckCreate, CheckUpdateJob, Guarded
<1>8. CASE EndTx(r)
  BY <1>8 DEF EndTx, Commit, CommitLost, IInv, LockOK
<1>9. CASE Write(r)
  BY <1>1, <1>2, <1>9 DEF Write, Apart
<1> QED BY <1>3, <1>4, <1>5, <1>6, <1>7, <1>8, <1>9 DEF Run, Respond, Abandon

\* What has happened to an invitation is not taken back.
LEMMA StampsStay ==
    ASSUME IInv, [Next]_vars, NEW i \in Invitations
    PROVE  /\ invitations[i].acceptedAt # Never =>
                  invitations'[i].acceptedAt = invitations[i].acceptedAt
           /\ invitations[i].completedAt # Never =>
                  invitations'[i].completedAt = invitations[i].completedAt
           /\ invitations[i].status # "absent" => invitations'[i].status # "absent"
<1>1. invitations[i] \in InvitationRows /\ RowOK(invitations[i])
  BY DEF IInv, TypeOK
<1>2. CASE OneLives
  <2>1. PICK j \in Invitations, row \in InvitationRows :
            /\ invitations' = [invitations EXCEPT ![j] = row]
            /\ Lives(invitations[j], row)
    BY <1>2 DEF OneLives
  <2>2. invitations'[i] = IF i = j THEN row ELSE invitations[i]
    BY <2>1 DEF IInv, TypeOK
  <2> QED BY <1>1, <2>1, <2>2 DEF Lives, Invited, Accepted, Submitted, Graded, RowOK, Absent
<1> QED BY <1>2, StepLives

\* Without a tenant, a participant who is told of the acceptance or of the
\* submission finds it stored, and so does an interviewer the invitation; with
\* one the response is ahead of the commit (TenantSchemaMiddleware.go:61-75).
THEOREM Acknowledged == ~TenantTx => (Spec => []AcknowledgedIsStored)
<1> SUFFICES ASSUME ~TenantTx PROVE Spec => []AcknowledgedIsStored
  OBVIOUS
<1>1. Init => AcknowledgedIsStored
  BY DEF Init, AcknowledgedIsStored
<1>2. IInv /\ AcknowledgedIsStored /\ [Next]_vars => AcknowledgedIsStored'
  <2> SUFFICES ASSUME IInv, AcknowledgedIsStored, [Next]_vars, NEW s \in Requests,
                      pc'[s] = "reply", result'[s] = "ok",
                      call'[s].op \in {"accept", "finish", "create"}
               PROVE  LET row == invitations'[call'[s].inv]
                      IN  /\ call'[s].op = "accept" => row.acceptedAt = stamp'[s]
                          /\ call'[s].op = "finish" => row.completedAt = stamp'[s]
                          /\ call'[s].op = "create" => row.status # "absent"
    BY DEF AcknowledgedIsStored
  <2> DEFINE c == call[s]
  <2>1. ASSUME pc[s] = "reply", result[s] = "ok", call'[s] = c, stamp'[s] = stamp[s]
        PROVE  LET row == invitations'[call'[s].inv]
               IN  /\ call'[s].op = "accept" => row.acceptedAt = stamp'[s]
                   /\ call'[s].op = "finish" => row.completedAt = stamp'[s]
                   /\ call'[s].op = "create" => row.status # "absent"
    <3>1. c.inv \in Invitations /\ stamp[s] # Never
      BY <2>1, AssessmentConstants DEF IInv, TypeOK, Calls, NoCall, Time, Never
    <3>2. /\ c.op = "accept" => invitations[c.inv].acceptedAt = stamp[s]
          /\ c.op = "finish" => invitations[c.inv].completedAt = stamp[s]
          /\ c.op = "create" => invitations[c.inv].status # "absent"
      BY <2>1 DEF AcknowledgedIsStored
    <3> QED BY <2>1, <3>1, <3>2, StampsStay
  <2>2. ASSUME pc[s] = "write", Matches(c), Store(s), call'[s] = c, stamp'[s] = stamp[s]
        PROVE  LET row == invitations'[call'[s].inv]
               IN  /\ call'[s].op = "accept" => row.acceptedAt = stamp'[s]
                   /\ call'[s].op = "finish" => row.completedAt = stamp'[s]
                   /\ call'[s].op = "create" => row.status # "absent"
    <3>1. /\ c.inv \in Invitations /\ RowAfter(s) \in InvitationRows
          /\ Lives(invitations[c.inv], RowAfter(s))
      BY <2>2, RowWritten DEF Table
    <3>2. invitations'[c.inv] = RowAfter(s)
      BY <2>2, <3>1 DEF Store, Table, IInv, TypeOK
    <3>3. invitations[c.inv] \in InvitationRows
      BY <3>1 DEF IInv, TypeOK
    <3>4. CASE c.op = "accept"
      BY <2>2, <3>2, <3>3, <3>4 DEF RowAfter, AcceptInvitation, InvitationRows, Absent
    <3>5. CASE c.op = "finish"
      BY <2>2, <3>2, <3>3, <3>5 DEF RowAfter, CompleteInvitation, InvitationRows, Absent
    <3>6. CASE c.op = "create"
      BY <2>2, <3>2, <3>6 DEF RowAfter, CreateInvitation, Absent
    <3> QED BY <2>2, <3>4, <3>5, <3>6
  <2>3. ASSUME NEW r \in Requests,
               (\E d \in Calls : Receive(r, d)) \/ Run(r) \/ Write(r) \/ Abandon(r)
        PROVE  \/ /\ pc[s] = "reply" /\ result[s] = "ok"
                  /\ call'[s] = c /\ stamp'[s] = stamp[s]
               \/ /\ pc[s] = "write" /\ Matches(c) /\ Store(s)
                  /\ call'[s] = c /\ stamp'[s] = stamp[s]
    BY <2>3, StepReplies DEF Apart
  <2>4. CASE Tick \/ UNCHANGED vars
    BY <2>1, <2>4 DEF Tick, vars, locals
  <2> QED BY <2>1, <2>2, <2>3, <2>4 DEF Next
<1> QED BY <1>1, <1>2, Invariance, PTL DEF Spec
=============================================================================
