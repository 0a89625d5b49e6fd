------------------------ MODULE InterviewSessionProofs ------------------------
(* What InterviewSession.tla promises, with and without tenant transactions, *)
(* for any number of interviews, users, documents and requests in flight.    *)
EXTENDS InterviewSession, TLAPS

-----------------------------------------------------------------------------
(* The inductive invariant *)

\* The steps in which a request has checked what it needs.
Checked == {"write", "reread", "publish", "commit"}

\* A request runs the operation it was sent; what it has read of its
\* interview, that it exists and is attended by the user, stays true.
RequestOK(r) ==
    /\ pc[r] # "idle" => call[r] \in Calls
    /\ pc[r] = "read" => call[r].op # "respond"
    /\ ~TenantTx /\ pc[r] = "commit" => call[r].op = "note"
    /\ pc[r] \in Checked /\ call[r].op \in {"status", "document", "note"} =>
           Exists(call[r].inv) /\ IsAttendee(call[r].inv, call[r].user)

\* An open transaction has its row to itself, as it found it.
LockOK(r) ==
    pc[r] \in Open =>
        /\ Matches(call[r])
        /\ \A s \in Requests \ {r} : pc[s] \in Open => ~SameRow(call[s], call[r])

\* An interview is attended by its creator, and notes are the attendees'.
AttendedOK ==
    /\ \A i \in Invitations : Exists(i) => IsAttendee(i, interviews[i].creator)
    /\ \A i \in Invitations, u \in Users : <<i, u>> \in notes => IsAttendee(i, u)

IInv ==
    /\ TypeOK
    /\ AttendedOK
    /\ \A r \in Requests : RequestOK(r) /\ LockOK(r)

-----------------------------------------------------------------------------
(* Rows and calls *)

LEMMA CallFields ==
    ASSUME NEW c \in Calls
    PROVE  /\ c.inv \in Invitations /\ c.user \in Users
           /\ c.op \in {"schedule", "status", "document", "note", "respond"}
           /\ c.op = "schedule" => c.others \subseteq Users /\ c.document \in Documents
           /\ c.op = "status" => c.status \in Statuses
           /\ c.op = "document" => c.document \in Documents
           /\ c.op = "respond" => c.answer \in {"accepted", "declined"}
BY DEF Calls

LEMMA RowFields ==
    ASSUME TypeOK, NEW i \in Invitations
    PROVE  /\ Exists(i) => interviews[i] \in Rows
           /\ ~Exists(i) => interviews[i] = NoInterview
BY DEF TypeOK, Exists, Rows, NoInterview, Statuses

\* What the statements of a request do to the tables, one disjunct of Store
\* each.
LEMMA StoreCases ==
    ASSUME TypeOK, NEW r \in Requests, call[r] \in Calls, Store(r),
           call[r].op \in {"status", "document"} => Exists(call[r].inv)
    PROVE  /\ interviews' \in [Invitations -> Rows \cup {NoInterview}]
           /\ attendees' \in [Invitations \X Users -> AttendeeStatuses]
           /\ notes' \subseteq Invitations \X Users
<1> DEFINE c == call[r]
<1>1. c.inv \in Invitations /\ c.user \in Users
  BY CallFields
<1>2. CASE c.op = "schedule"
  <2>1. [status |-> "scheduled", document |-> c.document, creator |-> c.user] \in Rows
    BY <1>1, <1>2, CallFields DEF Rows, Statuses
  <2>2. interviews' \in [Invitations -> Rows \cup {NoInterview}]
    BY <1>1, <1>2, <2>1 DEF Store, TypeOK
  <2>3. attendees' \in [Invitations \X Users -> AttendeeStatuses]
    BY <1>2 DEF Store, NewAttendees, TypeOK, AttendeeStatuses
  <2> QED BY <1>2, <2>2, <2>3 DEF Store, TypeOK
<1>3. CASE c.op = "status"
  <2>1. c.status \in Statuses /\ interviews[c.inv] \in Rows
    BY <1>1, <1>3, CallFields, RowFields
  <2>2. [interviews[c.inv] EXCEPT !.status = c.status] \in Rows
    BY <2>1 DEF Rows
  <2> QED BY <1>1, <1>3, <2>2 DEF Store, TypeOK
<1>4. CASE c.op = "document"
  <2>1. c.document \in Documents /\ interviews[c.inv] \in Rows
    BY <1>1, <1>4, CallFields, RowFields
  <2>2. [interviews[c.inv] EXCEPT !.document = c.document] \in Rows
    BY <2>1 DEF Rows
  <2> QED BY <1>1, <1>4, <2>2 DEF Store, TypeOK
<1>5. CASE c.op = "note"
  BY <1>1, <1>5 DEF Store, TypeOK
<1>6. CASE c.op = "respond"
  BY <1>1, <1>6, CallFields DEF Store, TypeOK, AttendeeStatuses
<1> QED BY <1>2, <1>3, <1>4, <1>5, <1>6, CallFields

\* Interviews and attendees stay; statements on one interview leave the
\* others alone, and only a schedule makes a new one.
LEMMA StoreKeeps ==
    ASSUME TypeOK, NEW r \in Requests, call[r] \in Calls, Store(r),
           call[r].op \in {"status", "document"} => Exists(call[r].inv)
    PROVE  /\ \A i \in Invitations :
                  /\ i # call[r].inv => interviews'[i] = interviews[i]
                  /\ call[r].op # "schedule" => (Exists(i)' <=> Exists(i))
                  /\ call[r].op \notin {"schedule", "status"} =>
                         interviews'[i].status = interviews[i].status
                  /\ Exists(i) => Exists(i)'
           /\ \A i \in Invitations, u \in Users : IsAttendee(i, u) => IsAttendee(i, u)'
<1> DEFINE c == call[r]
<1>1. c.inv \in Invitations /\ c.user \in Users
  BY CallFields
<1>2. ASSUME NEW i \in Invitations, NEW u \in Users, IsAttendee(i, u)
      PROVE  IsAttendee(i, u)'
  <2>1. <<i, u>> \in Invitations \X Users /\ attendees[<<i, u>>] # "none"
    BY <1>2 DEF IsAttendee
  <2>2. CASE c.op = "schedule"
    <3>1. attendees'[<<i, u>>] = IF i = c.inv /\ u \in c.others \cup {c.user}
                                THEN IF u = c.user THEN "accepted" ELSE "invited"
                                ELSE attendees[<<i, u>>]
      BY <2>1, <2>2 DEF Store, NewAttendees
    <3> QED BY <2>1, <3>1 DEF IsAttendee
  <2>3. CASE c.op = "respond"
    <3>1. c.answer # "none"
      BY <2>3, CallFields
    <3>2. attendees'[<<i, u>>] \in {c.answer, attendees[<<i, u>>]}
      BY <2>1, <2>3 DEF Store, TypeOK
    <3> QED BY <2>1, <3>1, <3>2 DEF IsAttendee
  <2>4. CASE c.op \in {"status", "document", "note"}
    BY <2>1, <2>4 DEF Store, IsAttendee
  <2> QED BY <2>2, <2>3, <2>4, CallFields
<1>3. ASSUME NEW i \in Invitations, i # c.inv
      PROVE  interviews'[i] = interviews[i]
  BY <1>1, <1>3 DEF Store, TypeOK
<1>4. CASE c.op = "schedule"
  <2>1. interviews'[c.inv].status = "scheduled"
    BY <1>1, <1>4 DEF Store, TypeOK
  <2>2. ASSUME NEW i \in Invitations, Exists(i) PROVE Exists(i)'
    BY <1>3, <2>1, <2>2 DEF Exists
  <2> QED BY <1>2, <1>3, <1>4, <2>2
<1>5. CASE c.op \in {"note", "respond"}
  BY <1>2, <1>5 DEF Store, Exists
<1>6. CASE c.op = "status"
  <2>1. interviews[c.inv] \in Rows /\ c.status # "absent"
    BY <1>1, <1>6, RowFields, CallFields DEF Statuses
  <2>2. interviews'[c.inv].status = c.status
    BY <1>1, <1>6, <2>1 DEF Store, TypeOK, Rows
  <2> QED BY <1>2, <1>3, <1>6, <2>1, <2>2 DEF Exists
<1>7. CASE c.op = "document"
  <2>1. interviews[c.inv] \in Rows
    BY <1>1, <1>7, RowFields
  <2>2. interviews'[c.inv].status = interviews[c.inv].status
    BY <1>1, <1>7, <2>1 DEF Store, TypeOK, Rows
  <2> QED BY <1>2, <1>3, <1>7, <2>2 DEF Exists
<1> QED BY <1>4, <1>5, <1>6, <1>7, CallFields

\* What a statement finds on another row stays as it is.
LEMMA StoreKeepsMatches ==
    ASSUME TypeOK, NEW r \in Requests, call[r] \in Calls, Store(r), Matches(call[r]),
           call[r].op \in {"status", "document"} => Exists(call[r].inv),
           NEW s \in Requests, call[s] \in Calls, call'[s] = call[s],
           Matches(call[s]), ~SameRow(call[s], call[r])
    PROVE  Matches(call[s])'
<1> DEFINE c == call[r]
           d == call[s]
<1>1. /\ c.inv \in Invitations /\ d.inv \in Invitations /\ d.user \in Users
      /\ c.op \in {"schedule", "status", "document", "note", "respond"}
  BY CallFields
<1>2. CASE d.op = "schedule"
  <2>1. ~Exists(d.inv) /\ ~(c.op = "schedule" /\ c.inv = d.inv)
    BY <1>2 DEF Matches, SameRow
  <2>2. interviews'[d.inv].status = "absent"
    BY <1>1, <2>1, StoreKeeps DEF Exists
  <2> QED BY <1>2, <2>2 DEF Matches, Exists
<1>3. CASE d.op = "note"
  <2>1. interviews[d.inv].status = "started"
    BY <1>3 DEF Matches
  <2>2. c.inv = d.inv => c.op = "respond"
    BY <1>3, <2>1 DEF Matches, SameRow, Exists
  <2>3. interviews'[d.inv].status = interviews[d.inv].status
    BY <1>1, <2>2, StoreKeeps
  <2> QED BY <1>3, <2>1, <2>3 DEF Matches
<1>4. CASE d.op = "respond"
  <2>1. attendees'[<<d.inv, d.user>>] # "none"
    BY <1>1, <1>4, StoreKeeps DEF Matches, IsAttendee
  <2> QED BY <1>4, <2>1 DEF Matches, IsAttendee
<1>5. CASE d.op \in {"status", "document"}
  BY <1>5 DEF Matches
<1> QED BY <1>2, <1>3, <1>4, <1>5, CallFields

\* The creator attends, and so does who has written a note.
LEMMA StoreKeepsAttended ==
    ASSUME TypeOK, AttendedOK, NEW r \in Requests, call[r] \in Calls, Store(r),
           call[r].op \in {"status", "document", "note"} =>
               Exists(call[r].inv) /\ IsAttendee(call[r].inv, call[r].user)
    PROVE  /\ AttendedOK'
           /\ call[r].op # "respond" => attendees'[<<call[r].inv, call[r].user>>] # "none"
<1> DEFINE c == call[r]
<1>1. /\ c.inv \in Invitations /\ c.user \in Users
      /\ <<c.inv, c.user>> \in Invitations \X Users
      /\ c.op \in {"schedule", "status", "document", "note", "respond"}
  BY CallFields
<1>2. \A i \in Invitations, u \in Users : IsAttendee(i, u) => attendees'[<<i, u>>] # "none"
  BY StoreKeeps DEF IsAttendee
<1>3. c.op # "respond" => attendees'[<<c.inv, c.user>>] # "none"
  <2>1. CASE c.op = "schedule"
    BY <1>1, <2>1 DEF Store, NewAttendees
  <2>2. CASE c.op \in {"status", "document", "note"}
    BY <1>1, <1>2, <2>2
  <2> QED BY <1>1, <2>1, <2>2
<1>4. ASSUME NEW i \in Invitations, interviews'[i].status # "absent"
      PROVE  attendees'[<<i, interviews'[i].creator>>] # "none"
  <2>1. CASE c.op = "schedule" /\ i = c.inv
    <3>1. interviews'[i].creator = c.user
      BY <1>1, <2>1 DEF Store, TypeOK
    <3> QED BY <1>3, <2>1, <3>1
  <2>2. CASE ~(c.op = "schedule" /\ i = c.inv)
    <3>1. Exists(i) /\ interviews[i] \in Rows
      BY <1>1, <1>4, <2>2, StoreKeeps, RowFields DEF Exists
    <3>2. IsAttendee(i, interviews[i].creator) /\ interviews[i].creator \in Users
      BY <3>1 DEF AttendedOK, Rows
    <3>3. interviews'[i].creator = interviews[i].creator
      <4>1. CASE i # c.inv
        BY <4>1, StoreKeeps
      <4>2. CASE i = c.inv /\ c.op \in {"status", "document"}
        BY <1>1, <3>1, <4>2 DEF Store, TypeOK, Rows
      <4>3. CASE c.op \in {"note", "respond"}
        BY <4>3 DEF Store
      <4> QED BY <1>1, <2>2, <4>1, <4>2, <4>3
    <3> QED BY <1>2, <3>2, <3>3
  <2> QED BY <2>1, <2>2
<1>5. ASSUME NEW i \in Invitations, NEW u \in Users, <<i, u>> \in notes'
      PROVE  attendees'[<<i, u>>] # "none"
  <2>1. CASE <<i, u>> \in notes
    BY <1>2, <2>1 DEF AttendedOK
  <2>2. CASE <<i, u>> \notin notes
    <3>1. c.op = "note" /\ <<i, u>> = <<c.inv, c.user>>
      BY <1>1, <1>5, <2>2 DEF Store
    <3>2. i = c.inv /\ u = c.user
      BY <3>1
    <3> QED BY <1>3, <3>1, <3>2
  <2> QED BY <2>1, <2>2
<1> QED BY <1>3, <1>4, <1>5 DEF AttendedOK, Exists, IsAttendee

-----------------------------------------------------------------------------
(* The steps keep the inductive invariant *)

LEMMA InitEstablishesIInv == Init => IInv
BY DEF Init, IInv, TypeOK, AttendedOK, RequestOK, LockOK, Exists, NoInterview,
       Open, Checked, Steps, AttendeeStatuses

LEMMA OpenSteps == /\ Open \subseteq Checked \ {"write"}
                   /\ "commit" \in Open
                   /\ "idle" \notin Open /\ "read" \notin Open
                   /\ TenantTx => "reread" \in Open /\ "publish" \in Open
                   /\ ~TenantTx => "reread" \notin Open /\ "publish" \notin Open
BY DEF Open, Checked

\* A step of r that changes no table, and opens no transaction.
LEMMA LocalStep ==
    ASSUME IInv, NEW r \in Requests, UNCHANGED <<interviews, attendees, notes>>,
           passed' \in [Invitations -> BOOLEAN],
           NEW step \in Steps, pc' = [pc EXCEPT ![r] = step],
           NEW c \in Calls \cup {NoCall}, call' = [call EXCEPT ![r] = c],
           NEW e \in Events \cup {NoEvent}, event' = [event EXCEPT ![r] = e],
           RequestOK(r)',
           step \in Open =>
               /\ c = call[r] /\ Matches(c)
               /\ \A s \in Requests \ {r} : pc[s] \in Open => ~SameRow(call[s], c)
    PROVE  IInv'
<1>1. TypeOK'
  BY DEF IInv, TypeOK
<1>2. AttendedOK'
  BY DEF IInv, AttendedOK, Exists, IsAttendee
<1>3. /\ pc'[r] = step /\ call'[r] = c
      /\ \A s \in Requests \ {r} : pc'[s] = pc[s] /\ call'[s] = call[s]
  BY DEF IInv, TypeOK
<1>4. ASSUME NEW s \in Requests PROVE RequestOK(s)'
  <2>1. CASE s = r
    BY <2>1
  <2>2. CASE s # r
    <3>1. RequestOK(s)
      BY DEF IInv
    <3> QED BY <1>3, <2>2, <3>1 DEF RequestOK, Exists, IsAttendee
  <2> QED BY <2>1, <2>2
<1>5. ASSUME NEW s \in Requests PROVE LockOK(s)'
  <2>1. CASE s = r
    BY <1>3, <2>1 DEF LockOK, Matches, Exists, IsAttendee, SameRow, Open
  <2>2. CASE s # r
    <3>1. LockOK(s)
      BY DEF IInv
    <3>2. pc[s] \in Open => Matches(call[s])'
      BY <1>3, <2>2, <3>1 DEF LockOK, Matches, Exists, IsAttendee
    <3>3. (pc[s] \in Open /\ step \in Open) => ~SameRow(c, call[s])
      BY <2>2 DEF SameRow
    <3>4. ASSUME NEW o \in Requests \ {s}, pc[s] \in Open, pc'[o] \in Open
          PROVE  ~SameRow(call'[o], call[s])
      <4>1. CASE o = r
        BY <1>3, <3>3, <3>4, <4>1
      <4>2. CASE o # r
        BY <1>3, <3>1, <3>4, <4>2 DEF LockOK
      <4> QED BY <4>1, <4>2
    <3> QED BY <1>3, <2>2, <3>2, <3>4 DEF LockOK, Open, SameRow
  <2> QED BY <2>1, <2>2
<1> QED BY <1>1, <1>2, <1>4, <1>5 DEF IInv

LEMMA ForgetStep ==
    ASSUME IInv, NEW r \in Requests, Forget(r), UNCHANGED <<passed, tables>>
    PROVE  IInv'
<1>1. "idle" \in Steps /\ "idle" \notin Checked /\ "idle" \notin Open
  BY OpenSteps DEF Steps, Checked
<1>2. RequestOK(r)'
  BY <1>1 DEF RequestOK, Forget, Goto, IInv, TypeOK
<1>3. passed' \in [Invitations -> BOOLEAN] /\ UNCHANGED <<interviews, attendees, notes>>
  BY DEF IInv, TypeOK, tables
<1> QED BY <1>1, <1>2, <1>3, LocalStep DEF Forget, Goto

\* The request goes on with its call, nothing written yet.
LEMMA GotoStep ==
    ASSUME IInv, NEW r \in Requests, UNCHANGED <<passed, tables, call>>,
           NEW step \in Steps, Goto(r, step),
           NEW e \in Events \cup {NoEvent}, event' = [event EXCEPT ![r] = e],
           RequestOK(r)',
           step \in Open =>
               /\ Matches(call[r])
               /\ \A s \in Requests \ {r} : pc[s] \in Open => ~SameRow(call[s], call[r])
    PROVE  IInv'
<1>1. call[r] \in Calls \cup {NoCall} /\ call' = [call EXCEPT ![r] = call[r]]
  BY DEF IInv, TypeOK
<1>2. passed' \in [Invitations -> BOOLEAN] /\ UNCHANGED <<interviews, attendees, notes>>
  BY DEF IInv, TypeOK, tables
<1> QED BY <1>1, <1>2, LocalStep DEF Goto

LEMMA ReceiveStep ==
    ASSUME IInv, NEW r \in Requests, NEW c \in Calls, Receive(r, c)
    PROVE  IInv'
<1> DEFINE step == IF c.op = "respond" THEN "write" ELSE "read"
<1>1. /\ step \in Steps /\ step \notin Open
      /\ pc' = [pc EXCEPT ![r] = step] /\ call' = [call EXCEPT ![r] = c]
      /\ UNCHANGED <<passed, interviews, attendees, notes, event>>
  BY OpenSteps DEF Receive, Goto, Steps, Checked, tables
<1>2. RequestOK(r)'
  BY <1>1 DEF RequestOK, Checked, IInv, TypeOK
<1>3. event[r] \in Events \cup {NoEvent} /\ event' = [event EXCEPT ![r] = event[r]]
      /\ passed' \in [Invitations -> BOOLEAN]
  BY <1>1 DEF IInv, TypeOK
<1> QED BY <1>1, <1>2, <1>3, LocalStep

LEMMA ReadStep ==
    ASSUME IInv, NEW r \in Requests, ReadInvitation(r) \/ ReadInterview(r)
    PROVE  IInv'
<1>1. CASE Forget(r) /\ UNCHANGED <<passed, tables>>
  BY <1>1, ForgetStep
<1>2. CASE ~Forget(r)
  <2>1. /\ pc[r] = "read" /\ Goto(r, "write") /\ UNCHANGED <<passed, tables, call, event>>
        /\ call[r].op = "schedule" \/ Permitted(call[r])
    BY <1>2 DEF ReadInvitation, ReadInterview
  <2>2. /\ "write" \in Steps /\ "write" \notin Open
        /\ event[r] \in Events \cup {NoEvent} /\ event' = [event EXCEPT ![r] = event[r]]
    BY <2>1, OpenSteps DEF Steps, IInv, TypeOK
  <2>3. RequestOK(r)'
    <3>1. RequestOK(r)
      BY DEF IInv
    <3> QED BY <2>1, <3>1 DEF RequestOK, Permitted, Goto, IInv, TypeOK, tables, Exists, IsAttendee
  <2> QED BY <2>1, <2>2, <2>3, GotoStep
<1> QED BY <1>1, <1>2 DEF ReadInvitation, ReadInterview

\* The event of a request is built from a row that is there.
LEMMA EventTyped ==
    ASSUME IInv, NEW r \in Requests, pc[r] = "reread", call[r].op # "schedule"
    PROVE  EventOf(call[r]) \in Events
<1> DEFINE c == call[r]
<1>1. c \in Calls /\ RequestOK(r)
  BY DEF IInv, RequestOK
<1>2. /\ c.inv \in Invitations
      /\ c.op \in {"status", "document", "note", "respond"}
      /\ c.op = "document" => c.document \in Documents
  BY <1>1, CallFields
<1>3. CASE c.op = "document"
  <2>1. interviews[c.inv] \in Rows
    BY <1>1, <1>2, <1>3, RowFields DEF RequestOK, Checked, IInv
  <2>2. (IF TenantTx THEN c.document ELSE interviews[c.inv].document) \in Documents
    BY <1>2, <1>3, <2>1 DEF Rows
  <2> QED BY <1>2, <1>3, <2>2 DEF EventOf, Events
<1>4. CASE c.op = "status"
  BY <1>2, <1>4 DEF EventOf, Events
<1>5. CASE c.op = "note"
  BY <1>2, <1>5 DEF EventOf, Events
<1>6. CASE c.op = "respond"
  BY <1>2, <1>6 DEF EventOf, Events
<1> QED BY <1>2, <1>3, <1>4, <1>5, <1>6

\* An open transaction keeps what it has found.
LEMMA StayOpen ==
    ASSUME IInv, NEW r \in Requests, pc[r] \in Open
    PROVE  /\ Matches(call[r])
           /\ \A s \in Requests \ {r} : pc[s] \in Open => ~SameRow(call[s], call[r])
BY DEF IInv, LockOK

LEMMA RereadStep ==
    ASSUME IInv, NEW r \in Requests, Reread(r)
    PROVE  IInv'
<1>1. pc[r] = "reread" /\ RequestOK(r) /\ {"publish", "commit"} \subseteq Steps
  BY DEF Reread, IInv, Steps
<1>2. TenantTx => pc[r] \in Open
  BY <1>1, OpenSteps
<1>3. ASSUME NEW step \in {"publish", "commit"}, Goto(r, step), step = "commit" => TenantTx,
             UNCHANGED <<passed, tables, call>>
      PROVE  RequestOK(r)'
  BY <1>1, <1>3 DEF RequestOK, Checked, Goto, IInv, TypeOK, tables, Exists, IsAttendee
<1>4. CASE call[r].op = "schedule" /\ TenantTx
  <2>1. /\ Goto(r, "commit") /\ UNCHANGED <<passed, tables, call>>
        /\ event[r] \in Events \cup {NoEvent} /\ event' = [event EXCEPT ![r] = event[r]]
    BY <1>4 DEF Reread, IInv, TypeOK
  <2> QED BY <1>1, <1>2, <1>3, <1>4, <2>1, StayOpen, GotoStep
<1>5. CASE call[r].op = "schedule" /\ ~TenantTx
  BY <1>5, ForgetStep DEF Reread
<1>6. CASE call[r].op # "schedule"
  <2>1. /\ Goto(r, "publish") /\ UNCHANGED <<passed, tables, call>>
        /\ event' = [event EXCEPT ![r] = EventOf(call[r])]
        /\ EventOf(call[r]) \in Events \cup {NoEvent}
    BY <1>1, <1>6, EventTyped DEF Reread
  <2>2. "publish" \in Open => pc[r] \in Open
    BY <1>2, OpenSteps
  <2> QED BY <1>1, <1>3, <2>1, <2>2, StayOpen, GotoStep
<1> QED BY <1>4, <1>5, <1>6 DEF SessionConstants

LEMMA AfterPublishStep ==
    ASSUME IInv, NEW r \in Requests, AfterPublish(r)
    PROVE  IInv'
<1>1. CASE TenantTx
  <2>1. /\ pc[r] = "publish" /\ pc[r] \in Open /\ "commit" \in Steps
        /\ Goto(r, "commit") /\ UNCHANGED <<passed, tables, call>>
        /\ event[r] \in Events \cup {NoEvent} /\ event' = [event EXCEPT ![r] = event[r]]
    BY <1>1, OpenSteps DEF AfterPublish, Steps, IInv, TypeOK
  <2>2. RequestOK(r)'
    <3>1. RequestOK(r)
      BY DEF IInv
    <3> QED BY <1>1, <2>1, <3>1
            DEF RequestOK, Checked, Goto, IInv, TypeOK, tables, Exists, IsAttendee
  <2> QED BY <2>1, <2>2, StayOpen, GotoStep
<1>2. CASE ~TenantTx
  BY <1>2, ForgetStep DEF AfterPublish
<1> QED BY <1>1, <1>2

\* A step of r that writes its rows and closes its transaction.
LEMMA StoreStep ==
    ASSUME IInv, NEW r \in Requests, Store(r), UNCHANGED passed,
           call[r] \in Calls, Matches(call[r]),
           pc[r] \in {"write", "commit"},
           \A s \in Requests \ {r} : pc[s] \in Open => ~SameRow(call[s], call[r]),
           NEW step \in Steps \ Open, pc' = [pc EXCEPT ![r] = step],
           NEW c \in {call[r], NoCall}, call' = [call EXCEPT ![r] = c],
           step = "idle" \/ (step = "reread" /\ c = call[r]),
           NEW e \in Events \cup {NoEvent}, event' = [event EXCEPT ![r] = e]
    PROVE  IInv'
<1>1. /\ pc'[r] = step /\ call'[r] = c
      /\ \A s \in Requests \ {r} : pc'[s] = pc[s] /\ call'[s] = call[s]
  BY DEF IInv, TypeOK
<1>2. call[r].op \in {"status", "document", "note"} =>
          Exists(call[r].inv) /\ IsAttendee(call[r].inv, call[r].user)
  BY DEF IInv, RequestOK, Checked
<1>3. TypeOK'
  BY <1>2, StoreCases DEF IInv, TypeOK
<1>4. AttendedOK'
  BY <1>2, StoreKeepsAttended DEF IInv
<1>5. ASSUME NEW s \in Requests, call'[s] = call[s], RequestOK(s),
             pc[s] \in Checked, call[s].op \in {"status", "document", "note"}
      PROVE  Exists(call[s].inv)' /\ IsAttendee(call[s].inv, call[s].user)'
  <2>1. call[s] \in Calls
    BY <1>5 DEF RequestOK, Checked
  <2>2. call[s].inv \in Invitations /\ call[s].user \in Users
    BY <2>1, CallFields
  <2>3. interviews'[call[s].inv].status # "absent"
    BY <1>2, <1>5, <2>2, StoreKeeps DEF RequestOK, IInv, Exists
  <2>4. attendees'[<<call[s].inv, call[s].user>>] # "none"
    BY <1>2, <1>5, <2>2, StoreKeeps DEF RequestOK, IInv, IsAttendee
  <2> QED BY <1>5, <2>3, <2>4 DEF Exists, IsAttendee
<1>6. ASSUME NEW s \in Requests PROVE RequestOK(s)' /\ LockOK(s)'
  <2>1. RequestOK(s) /\ LockOK(s)
    BY DEF IInv
  <2>2. CASE s = r
    <3>1. step = "reread" => RequestOK(r)'
      BY <1>1, <1>5, <2>1, <2>2 DEF RequestOK, Checked
    <3>2. step = "idle" => RequestOK(r)'
      BY <1>1 DEF RequestOK, Checked
    <3>3. LockOK(r)'
      BY <1>1 DEF LockOK, Open
    <3> QED BY <2>2, <3>1, <3>2, <3>3
  <2>3. CASE s # r
    <3>1. RequestOK(s)'
      BY <1>1, <1>5, <2>1, <2>3 DEF RequestOK
    <3>2. ASSUME pc[s] \in Open PROVE Matches(call[s])'
      <4>1. call[s] \in Calls /\ Matches(call[s]) /\ ~SameRow(call[s], call[r])
        BY <2>1, <2>3, <3>2, OpenSteps DEF RequestOK, LockOK, Checked
      <4> QED BY <1>1, <1>2, <2>3, <4>1, StoreKeepsMatches DEF IInv
    <3>3. LockOK(s)'
      BY <1>1, <2>1, <2>3, <3>2 DEF LockOK, Open, SameRow
    <3> QED BY <3>1, <3>3
  <2> QED BY <2>2, <2>3
<1> QED BY <1>3, <1>4, <1>6 DEF IInv

LEMMA WriteStep ==
    ASSUME IInv, NEW r \in Requests, Write(r)
    PROVE  IInv'
<1>1. /\ pc[r] = "write" /\ RequestOK(r) /\ call[r] \in Calls
      /\ {"reread", "commit"} \subseteq Steps
      /\ event[r] \in Events \cup {NoEvent}
      /\ \A s \in Requests \ {r} : pc[s] \in Open => ~SameRow(call[s], call[r])
  BY DEF Write, Locked, IInv, TypeOK, RequestOK, Steps
<1>2. CASE ~Matches(call[r])
  BY <1>2, ForgetStep DEF Write
<1>3. CASE Matches(call[r]) /\ (TenantTx \/ call[r].op = "note")
  <2>1. PICK step \in {"reread", "commit"} :
            /\ Goto(r, step) /\ UNCHANGED <<passed, tables, call, event>>
            /\ step = "commit" => call[r].op = "note"
    BY <1>3 DEF Write
  <2>2. RequestOK(r)'
    BY <1>1, <2>1 DEF RequestOK, Checked, Goto, IInv, TypeOK, tables, Exists, IsAttendee
  <2>3. event' = [event EXCEPT ![r] = event[r]]
    BY <2>1 DEF IInv, TypeOK
  <2> QED BY <1>1, <1>3, <2>1, <2>2, <2>3, GotoStep
<1>4. CASE Matches(call[r]) /\ ~TenantTx /\ call[r].op # "note"
  <2>1. Goto(r, "reread") /\ Store(r) /\ UNCHANGED <<passed, call, event>>
    BY <1>4 DEF Write
  <2>2. /\ call' = [call EXCEPT ![r] = call[r]] /\ event' = [event EXCEPT ![r] = event[r]]
        /\ pc' = [pc EXCEPT ![r] = "reread"] /\ "reread" \in Steps \ Open
    BY <1>1, <1>4, <2>1, OpenSteps DEF IInv, TypeOK, Goto
  <2> QED BY <1>1, <1>4, <2>1, <2>2, StoreStep
<1> QED BY <1>2, <1>3, <1>4

LEMMA CommitStep ==
    ASSUME IInv, NEW r \in Requests, Commit(r)
    PROVE  IInv'
<1>1. /\ pc[r] = "commit" /\ pc[r] \in Open /\ Store(r) /\ UNCHANGED passed
      /\ call[r] \in Calls /\ event[r] \in Events \cup {NoEvent}
      /\ {"idle", "reread"} \subseteq Steps
  BY OpenSteps DEF Commit, IInv, TypeOK, RequestOK, Steps
<1>2. CASE TenantTx
  <2>1. /\ pc' = [pc EXCEPT ![r] = "idle"] /\ call' = [call EXCEPT ![r] = NoCall]
        /\ event' = [event EXCEPT ![r] = NoEvent] /\ "idle" \in Steps \ Open
    BY <1>1, <1>2, OpenSteps DEF Commit, Forget, Goto
  <2> QED BY <1>1, <2>1, StayOpen, StoreStep
<1>3. CASE ~TenantTx
  <2>1. /\ pc' = [pc EXCEPT ![r] = "reread"] /\ call' = [call EXCEPT ![r] = call[r]]
        /\ event' = [event EXCEPT ![r] = event[r]] /\ "reread" \in Steps \ Open
    BY <1>1, <1>3, OpenSteps DEF Commit, Goto, IInv, TypeOK
  <2> QED BY <1>1, <2>1, StayOpen, StoreStep
<1> QED BY <1>2, <1>3

LEMMA NextStep == IInv /\ [Next]_session => IInv'
<1> SUFFICES ASSUME IInv, [Next]_session PROVE IInv'
  OBVIOUS
<1>1. CASE UNCHANGED session
  BY <1>1 DEF session, tables, IInv, TypeOK, AttendedOK, RequestOK, LockOK, Open,
              Matches, Exists, IsAttendee, SameRow
<1>2. ASSUME NEW r \in Requests, Quiet(r) \/ Publish(r) PROVE IInv'
  <2>1. CASE \E c \in Calls : Receive(r, c)
    BY <2>1, ReceiveStep
  <2>2. CASE ReadInvitation(r) \/ ReadInterview(r)
    BY <2>2, ReadStep
  <2>3. CASE Write(r)
    BY <2>3, WriteStep
  <2>4. CASE Reread(r)
    BY <2>4, RereadStep
  <2>5. CASE PublishFails(r) \/ Publish(r)
    BY <2>5, AfterPublishStep DEF PublishFails, Publish
  <2>6. CASE Commit(r)
    BY <2>6, CommitStep
  <2>7. CASE Abandon(r)
    BY <2>7, ForgetStep DEF Abandon
  <2> QED BY <1>2, <2>1, <2>2, <2>3, <2>4, <2>5, <2>6, <2>7 DEF Quiet
<1>3. ASSUME NEW i \in Invitations, Regrade(i) PROVE IInv'
  BY <1>3 DEF Regrade, tables, IInv, TypeOK, AttendedOK, RequestOK, LockOK, Open,
              Matches, Exists, IsAttendee, SameRow
<1> QED BY <1>1, <1>2, <1>3 DEF Next

-----------------------------------------------------------------------------
(* Theorems *)

\* Requests, rows and locks fit together in every reachable state, whatever
\* requests run at the same time (interviews.go:78-273, store.go:484-643).
THEOREM Invariance == Spec => []IInv
<1> QED BY InitEstablishesIInv, NextStep, PTL DEF Spec

\* Every reachable state has the types of the schema and the services.
THEOREM TypeCorrect == Spec => []TypeOK
<1>1. IInv => TypeOK
  BY DEF IInv
<1> QED BY <1>1, Invariance, PTL

\* The steps that change tables are those that store.
LEMMA OnlyStoresWrite ==
    ASSUME IInv, [Next]_session
    PROVE  \/ UNCHANGED tables
           \/ \E r \in Requests :
                  /\ Store(r) /\ Matches(call[r]) /\ call[r] \in Calls
                  /\ pc[r] \in {"write"} \cup Open /\ pc[r] \in {"write", "commit"}
                  /\ pc'[r] # pc[r]
                  /\ call[r].op \in {"status", "document", "note"} =>
                         Exists(call[r].inv) /\ IsAttendee(call[r].inv, call[r].user)
<1>1. ASSUME NEW r \in Requests, Write(r) \/ Commit(r), ~UNCHANGED tables
      PROVE  /\ Store(r) /\ Matches(call[r]) /\ call[r] \in Calls
             /\ pc[r] \in {"write"} \cup Open /\ pc[r] \in {"write", "commit"}
             /\ pc'[r] # pc[r]
             /\ call[r].op \in {"status", "document", "note"} =>
                    Exists(call[r].inv) /\ IsAttendee(call[r].inv, call[r].user)
  <2>1. Store(r) /\ pc[r] \in {"write"} \cup Open /\ pc[r] \in {"write", "commit"}
    BY <1>1, OpenSteps DEF Write, Commit
  <2>2. Matches(call[r])
    BY <1>1, <2>1, StayOpen DEF Write, Commit
  <2>3. RequestOK(r)
    BY DEF IInv
  <2>4. pc'[r] # pc[r]
    BY <1>1 DEF Write, Commit, Forget, Goto, IInv, TypeOK
  <2> QED BY <2>1, <2>2, <2>3, <2>4 DEF RequestOK, Checked
<1>2. ASSUME NEW r \in Requests, Quiet(r) \/ Publish(r), ~(Write(r) \/ Commit(r))
      PROVE  UNCHANGED tables
  BY <1>2 DEF Quiet, Receive, ReadInvitation, ReadInterview, Reread, PublishFails, Publish,
              AfterPublish, Abandon
<1>3. ASSUME NEW i \in Invitations, Regrade(i) PROVE UNCHANGED tables
  BY <1>3 DEF Regrade
<1> QED BY <1>1, <1>2, <1>3 DEF Next, session

\* Notes are written only while the interview is started, though the service
\* has checked it in an earlier read (interviews.go:209, store.go:589-596).
THEOREM Notes == Spec => NotesWhileStarted
<1>1. IInv /\ [Next]_session =>
          [\A n \in notes' \ notes : interviews[n[1]].status = "started"]_session
  <2> SUFFICES ASSUME IInv, [Next]_session, NEW n \in notes' \ notes
               PROVE  interviews[n[1]].status = "started"
    OBVIOUS
  <2>1. PICK r \in Requests : Store(r) /\ Matches(call[r])
    BY OnlyStoresWrite DEF tables
  <2>2. call[r].op = "note" /\ n = <<call[r].inv, call[r].user>>
    BY <2>1 DEF Store
  <2> QED BY <2>1, <2>2 DEF Matches
<1> QED BY <1>1, Invariance, PTL DEF Spec, NotesWhileStarted

\* Only a stored schedule, and only stored statements of an interview's own
\* requests, change that interview.
LEMMA ChangesAreStored ==
    ASSUME IInv, [Next]_session, NEW i \in Invitations, interviews'[i] # interviews[i]
    PROVE  \E r \in Requests :
               /\ Store(r) /\ Matches(call[r]) /\ call[r] \in Calls
               /\ call[r].op \in {"schedule", "status", "document"} /\ call[r].inv = i
               /\ pc[r] \in {"write"} \cup Open /\ pc[r] \in {"write", "commit"}
               /\ pc'[r] # pc[r]
               /\ call[r].op \in {"status", "document"} =>
                      Exists(i) /\ IsAttendee(i, call[r].user)
<1>1. ~UNCHANGED tables
  BY DEF tables
<1>2. PICK r \in Requests :
          /\ Store(r) /\ Matches(call[r]) /\ call[r] \in Calls
          /\ pc[r] \in {"write"} \cup Open /\ pc[r] \in {"write", "commit"}
          /\ pc'[r] # pc[r]
          /\ call[r].op \in {"status", "document", "note"} =>
                 Exists(call[r].inv) /\ IsAttendee(call[r].inv, call[r].user)
  BY <1>1, OnlyStoresWrite
<1>3. call[r].inv = i
  BY <1>2, StoreKeeps DEF IInv
<1>4. call[r].op \in {"schedule", "status", "document"}
  BY <1>2 DEF Store
<1> QED BY <1>2, <1>3, <1>4

\* Whoever changes an interview attends it, its creator does, and so does
\* everybody who has written a note (interviews.go:103-119, 209-233).
THEOREM Attendance == Spec => ChangedByAttendees
<1> DEFINE A(i) ==
      /\ Exists(i)' /\ interviews'[i] # interviews[i] =>
             \E r \in Requests :
                 /\ pc[r] \in {"write", "commit"} /\ pc'[r] # pc[r]
                 /\ call[r].inv = i /\ attendees'[<<i, call[r].user>>] # "none"
      /\ Exists(i)' => IsAttendee(i, interviews[i].creator)'
      /\ \A u \in Users : <<i, u>> \in notes' => IsAttendee(i, u)'
<1>1. IInv /\ IInv' /\ [Next]_session => [\A i \in Invitations : A(i)]_session
  <2> SUFFICES ASSUME IInv, IInv', [Next]_session, NEW i \in Invitations PROVE A(i)
    OBVIOUS
  <2>1. Exists(i)' => IsAttendee(i, interviews[i].creator)'
    BY DEF IInv, AttendedOK
  <2>2. \A u \in Users : <<i, u>> \in notes' => IsAttendee(i, u)'
    BY DEF IInv, AttendedOK
  <2>3. ASSUME interviews'[i] # interviews[i]
        PROVE  \E r \in Requests :
                   /\ pc[r] \in {"write", "commit"} /\ pc'[r] # pc[r]
                   /\ call[r].inv = i /\ attendees'[<<i, call[r].user>>] # "none"
    <3>1. PICK r \in Requests :
              /\ Store(r) /\ call[r] \in Calls /\ call[r].inv = i
              /\ call[r].op \in {"schedule", "status", "document"}
              /\ pc[r] \in {"write", "commit"} /\ pc'[r] # pc[r]
              /\ call[r].op \in {"status", "document"} =>
                     Exists(i) /\ IsAttendee(i, call[r].user)
      BY <2>3, ChangesAreStored
    <3>2. attendees'[<<call[r].inv, call[r].user>>] # "none"
      BY <3>1, StoreKeepsAttended DEF IInv
    <3> QED BY <3>1, <3>2
  <2> QED BY <2>1, <2>2, <2>3
<1> QED BY <1>1, Invariance, PTL DEF Spec, ChangedByAttendees

\* A request becomes pending by passing its check.
LEMMA PendingPassed ==
    ASSUME IInv, [Next]_session, NEW i \in Invitations, NEW op \in {"schedule", "status"},
           NEW r \in Requests, r \notin Pending(i, op),
           pc'[r] \in {"write"} \cup Open, call'[r].op = op, call'[r].inv = i
    PROVE  /\ op = "schedule" => passed[i]
           /\ op = "status" => interviews[i].status \notin {"completed", "cancelled"}
<1>1. ~(pc'[r] = pc[r] /\ call'[r] = call[r])
  BY DEF Pending
<1>2. Quiet(r) \/ Publish(r)
  <2>1. ASSUME NEW s \in Requests, s # r, Quiet(s) \/ Publish(s)
        PROVE  pc'[r] = pc[r] /\ call'[r] = call[r]
    BY <2>1 DEF Quiet, Receive, ReadInvitation, ReadInterview, Write, Reread, PublishFails,
                Publish, AfterPublish, Commit, Abandon, Forget, Goto, IInv, TypeOK
  <2>2. ASSUME NEW j \in Invitations, Regrade(j) PROVE pc'[r] = pc[r] /\ call'[r] = call[r]
    BY <2>2 DEF Regrade
  <2> QED BY <1>1, <2>1, <2>2 DEF Next, session
<1>3. pc'[r] # "idle"
  BY OpenSteps
<1>4. ~Forget(r)
  BY <1>3 DEF Forget, Goto, IInv, TypeOK
<1>5. CASE \E c \in Calls : Receive(r, c)
  <2>1. PICK c \in Calls : Receive(r, c)
    BY <1>5
  <2>2. call'[r] = c /\ pc'[r] = "read"
    BY <2>1 DEF Receive, Goto, IInv, TypeOK
  <2> QED BY <2>2, OpenSteps
<1>6. CASE ReadInvitation(r)
  <2>1. call'[r] = call[r] /\ call[r].op = "schedule" /\ passed[call[r].inv]
    BY <1>4, <1>6 DEF ReadInvitation, IInv, TypeOK
  <2> QED BY <2>1
<1>7. CASE ReadInterview(r)
  <2>1. call'[r] = call[r] /\ Permitted(call[r]) /\ call[r].op # "schedule"
    BY <1>4, <1>7 DEF ReadInterview, IInv, TypeOK
  <2> QED BY <2>1 DEF Permitted, ValidTransition
<1>8. CASE Write(r)
  <2>1. pc[r] = "write" /\ call'[r] = call[r]
    BY <1>4, <1>8 DEF Write, IInv, TypeOK
  <2> QED BY <2>1 DEF Pending
<1>9. CASE Reread(r)
  <2>1. pc[r] = "reread" /\ call'[r] = call[r] /\ pc'[r] \in {"publish", "commit"}
        /\ (pc'[r] = "commit" => TenantTx)
    BY <1>4, <1>9 DEF Reread, Goto, IInv, TypeOK
  <2> QED BY <2>1, OpenSteps DEF Pending, SessionConstants
<1>10. CASE Publish(r) \/ PublishFails(r)
  <2>1. TenantTx /\ pc[r] = "publish" /\ call'[r] = call[r]
    BY <1>4, <1>10 DEF Publish, PublishFails, AfterPublish, IInv, TypeOK
  <2> QED BY <2>1, OpenSteps DEF Pending
<1>11. CASE Commit(r)
  <2>1. pc'[r] = "reread" /\ ~TenantTx
    BY <1>4, <1>11 DEF Commit, Goto, IInv, TypeOK
  <2> QED BY <2>1, OpenSteps
<1> QED BY <1>2, <1>4, <1>5, <1>6, <1>7, <1>8, <1>9, <1>10, <1>11 DEF Quiet, Abandon

\* Completed and cancelled are final but for the changes that had been checked
\* before (interviews.go:164, store.go:541).
THEOREM FinalStatuses == Spec => StatusSettles
<1>1. IInv /\ [Next]_session =>
        [\A i \in Invitations :
           interviews[i].status \in {"completed", "cancelled"} /\ Pending(i, "status") = {} =>
               /\ Pending(i, "status")' = {}
               /\ interviews'[i].status = interviews[i].status]_session
  <2> SUFFICES ASSUME IInv, [Next]_session, NEW i \in Invitations,
                      interviews[i].status \in {"completed", "cancelled"},
                      Pending(i, "status") = {}
               PROVE  /\ Pending(i, "status")' = {}
                      /\ interviews'[i].status = interviews[i].status
    OBVIOUS
  <2>1. ASSUME NEW r \in Requests, pc'[r] \in {"write"} \cup Open,
               call'[r].op = "status", call'[r].inv = i
        PROVE  FALSE
    BY <2>1, PendingPassed
  <2>2. Pending(i, "status")' = {}
    BY <2>1 DEF Pending, Open
  <2>3. ASSUME interviews'[i] # interviews[i]
        PROVE  interviews'[i].status = interviews[i].status
    <3>1. PICK r \in Requests :
              /\ Store(r) /\ Matches(call[r]) /\ call[r] \in Calls
              /\ call[r].op \in {"schedule", "status", "document"} /\ call[r].inv = i
              /\ pc[r] \in {"write"} \cup Open
              /\ call[r].op \in {"status", "document"} => Exists(i)
      BY <2>3, ChangesAreStored
    <3>2. call[r].op # "status"
      BY <3>1 DEF Pending
    <3>3. call[r].op # "schedule"
      BY <3>1 DEF Matches, Exists
    <3> QED BY <3>1, <3>2, <3>3, StoreKeeps DEF IInv
  <2> QED BY <2>2, <2>3
<1> QED BY <1>1, Invariance, PTL DEF Spec, StatusSettles

\* An assessment whose outcome was set back gets an interview only from a
\* request that had read the outcome before (interviews.go:79-119).
THEOREM Schedules == Spec => SchedulesSettle
<1> DEFINE A(i) ==
      ~passed[i] /\ ~passed'[i] /\ Pending(i, "schedule") = {} =>
          Pending(i, "schedule")' = {} /\ Exists(i)' = Exists(i)
<1>1. IInv /\ [Next]_session => [\A i \in Invitations : A(i)]_session
  <2> SUFFICES ASSUME IInv, [Next]_session, NEW i \in Invitations,
                      ~passed[i], Pending(i, "schedule") = {}
               PROVE  Pending(i, "schedule")' = {} /\ Exists(i)' = Exists(i)
    OBVIOUS
  <2>1. ASSUME NEW r \in Requests, pc'[r] \in {"write"} \cup Open,
               call'[r].op = "schedule", call'[r].inv = i
        PROVE  FALSE
    BY <2>1, PendingPassed
  <2>2. Pending(i, "schedule")' = {}
    BY <2>1 DEF Pending, Open
  <2>3. CASE interviews'[i] = interviews[i]
    BY <2>2, <2>3 DEF Exists
  <2>4. CASE interviews'[i] # interviews[i]
    <3>1. PICK r \in Requests :
              /\ Store(r) /\ call[r] \in Calls
              /\ call[r].op \in {"schedule", "status", "document"} /\ call[r].inv = i
              /\ pc[r] \in {"write"} \cup Open
              /\ call[r].op \in {"status", "document"} => Exists(i)
      BY <2>4, ChangesAreStored
    <3>2. call[r].op # "schedule"
      BY <3>1 DEF Pending
    <3>3. Exists(i)' <=> Exists(i)
      BY <3>1, <3>2, StoreKeeps DEF IInv
    <3> QED BY <2>2, <3>3 DEF Exists
  <2> QED BY <2>3, <2>4
<1> QED BY <1>1, Invariance, PTL DEF Spec, SchedulesSettle
=============================================================================
