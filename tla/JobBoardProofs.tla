---------------------------- MODULE JobBoardProofs ----------------------------
(* What JobBoard.tla promises, for any number of jobs, questions,            *)
(* participants, forms and requests in flight.                               *)
EXTENDS JobBoard, TLAPS

-----------------------------------------------------------------------------
(* Forms *)

\* An accepted form is stored as a whole, valid content.
LEMMA StoredFormIsContent ==
    ASSUME NEW form \in Inputs, Acceptable(form)
    PROVE  /\ StoredRow(form) \in Rows
           /\ StoredOptions(form) \in SUBSET AllOptionRows
           /\ [row |-> StoredRow(form), options |-> StoredOptions(form)] \in Contents
<1> DEFINE n == IF form.type \in ChoiceTypes THEN form.options ELSE 0
<1>1. form \in Forms /\ MaxOptions \in Nat
  BY BoardConstants
<1>2. form.type \in Types /\ form.text \in Texts /\ form.options \in 0..MaxOptions
  BY <1>1 DEF Acceptable, Forms
<1>3. n \in 0..MaxOptions /\ (IF form.type \in ChoiceTypes THEN n >= 2 ELSE n = 0)
  BY <1>1, <1>2 DEF Acceptable
<1>4. StoredRow(form) \in Rows
  BY <1>2 DEF StoredRow, Rows
<1>5. StoredOptions(form) \in SUBSET AllOptionRows
  <2>1. 1..n \subseteq 1..MaxOptions
    BY <1>1, <1>3
  <2> QED BY <1>2, <2>1 DEF StoredOptions, OptionRows, AllOptionRows
<1>6. [row |-> StoredRow(form), options |-> StoredOptions(form)] \in Contents
  <2>1. [row |-> StoredRow(form), options |-> StoredOptions(form)] = Content(form.type, form.text, n)
    BY DEF StoredRow, StoredOptions, Content
  <2>2. CASE form.type \in ChoiceTypes
    <3>1. n \in 2..MaxOptions
      BY <1>1, <1>3, <2>2
    <3> QED BY <1>2, <2>1, <2>2, <3>1 DEF Contents
  <2>3. CASE form.type \notin ChoiceTypes
    <3>1. n = 0 /\ form.type \in WrittenTypes
      BY <1>2, <2>3 DEF Types, ChoiceTypes, WrittenTypes
    <3> QED BY <1>2, <2>1, <3>1 DEF Contents
  <2> QED BY <2>2, <2>3
<1> QED BY <1>4, <1>5, <1>6

-----------------------------------------------------------------------------
(* The inductive invariant *)

LEMMA InitEstablishesIInv == Init => IInv
BY DEF Init, IInv, TypeOK, AskedOK, CallOK, EditOK, Steps, Editing, Calls

\* A step of r that changes no table.
LEMMA LocalStep ==
    ASSUME IInv, NEW r \in Requests, UNCHANGED board,
           NEW step \in Steps, pc' = [pc EXCEPT ![r] = step],
           NEW c \in Calls \cup {NoCall}, call' = [call EXCEPT ![r] = c],
           NEW rows \in SUBSET AllOptionRows, gone' = [gone EXCEPT ![r] = rows],
           CallOK(r)',
           (step = "write" /\ c.op \in {"publish", "invite"}) => c.job \in asked,
           step \in Editing =>
               /\ questions[c.question] # Missing
               /\ \A s \in Requests \ {r} : pc[s] \in Editing => call[s].question # c.question
               /\ step = "commit" => rows = options[c.question]
    PROVE  IInv'
<1>1. UNCHANGED <<jobs, links, questions, options, deprecated, invited, asked>>
  BY DEF board, library
<1>2. TypeOK'
  BY <1>1 DEF IInv, TypeOK
<1>3. /\ pc'[r] = step /\ call'[r] = c /\ gone'[r] = rows
      /\ \A s \in Requests \ {r} :
             pc'[s] = pc[s] /\ call'[s] = call[s] /\ gone'[s] = gone[s]
  BY DEF IInv, TypeOK
<1>4. AskedOK'
  BY <1>1, <1>3 DEF IInv, AskedOK
<1>5. \A s \in Requests : CallOK(s)'
  BY <1>3 DEF IInv, CallOK
<1>6. ASSUME NEW s \in Requests PROVE EditOK(s)'
  <2>1. CASE s = r
    BY <1>1, <1>3, <2>1 DEF EditOK
  <2>2. CASE s # r
    <3>1. EditOK(s)
      BY DEF IInv
    <3>2. (pc[s] \in Editing /\ pc'[r] \in Editing) => call'[r].question # call[s].question
      BY <1>3, <2>2
    <3> QED BY <1>1, <1>3, <2>2, <3>1, <3>2 DEF EditOK
  <2> QED BY <2>1, <2>2
<1> QED BY <1>2, <1>4, <1>5, <1>6 DEF IInv

LEMMA ForgetStep ==
    ASSUME IInv, NEW r \in Requests, Forget(r), UNCHANGED board
    PROVE  IInv'
<1>1. "idle" \in Steps /\ "idle" \notin Editing /\ {} \in SUBSET AllOptionRows
  BY DEF Steps, Editing
<1>2. CallOK(r)'
  BY <1>1 DEF CallOK, Forget, Goto, IInv, TypeOK
<1> QED BY <1>1, <1>2, LocalStep DEF Forget, Goto

LEMMA ReceiveStep ==
    ASSUME IInv, NEW r \in Requests, NEW c \in Calls, Receive(r, c)
    PROVE  IInv'
<1>1. /\ FirstStep(c.op) \in Steps
      /\ FirstStep(c.op) \notin Editing
      /\ FirstStep(c.op) = "write" => c.op = "edit"
  BY DEF FirstStep, Steps, Editing
<1>2. /\ pc' = [pc EXCEPT ![r] = FirstStep(c.op)]
      /\ call' = [call EXCEPT ![r] = c] /\ UNCHANGED <<board, gone>>
  BY DEF Receive, Goto
<1>3. gone[r] \in SUBSET AllOptionRows /\ gone' = [gone EXCEPT ![r] = gone[r]]
  BY <1>2 DEF IInv, TypeOK
<1>4. CallOK(r)'
  BY <1>1, <1>2 DEF CallOK, FirstStep, IInv, TypeOK, Calls
<1> QED BY <1>1, <1>2, <1>3, <1>4, LocalStep

\* What a check has to establish for the request to go on.
LEMMA CheckStep ==
    ASSUME IInv, NEW r \in Requests, NEW ok \in BOOLEAN, NEW next \in Steps,
           Check(r, ok, next), pc[r] # "idle",
           next = "count" => call[r].op \in {"attach", "detach"},
           next \in {"count", "write", "delete"},
           next = "delete" => call[r].op = "edit",
           (ok /\ next = "write" /\ call[r].op \in {"publish", "invite"}) => call[r].job \in asked,
           (ok /\ next = "delete") =>
               /\ questions[call[r].question] # Missing
               /\ ~Locked(call[r].question)
    PROVE  IInv'
<1>1. CASE ok
  <2>1. pc' = [pc EXCEPT ![r] = next] /\ UNCHANGED <<board, call, gone>>
    BY <1>1 DEF Check, Goto
  <2>2. /\ call[r] \in Calls /\ call' = [call EXCEPT ![r] = call[r]]
        /\ gone[r] \in SUBSET AllOptionRows /\ gone' = [gone EXCEPT ![r] = gone[r]]
    BY <2>1 DEF IInv, TypeOK, CallOK
  <2>3. CallOK(r)'
    BY <2>1, <2>2 DEF CallOK, IInv, TypeOK, Editing
  <2>4. next \in Editing =>
            /\ questions[call[r].question] # Missing
            /\ \A s \in Requests \ {r} :
                   pc[s] \in Editing => call[s].question # call[r].question
            /\ next # "commit"
    BY <1>1 DEF Editing, Locked
  <2> QED BY <1>1, <2>1, <2>2, <2>3, <2>4, LocalStep
<1>2. CASE ~ok
  BY <1>2, ForgetStep DEF Check
<1> QED BY <1>1, <1>2

LEMMA ReadStep ==
    ASSUME IInv, NEW r \in Requests,
           \/ GetQuestion(r) \/ GetJobToPublish(r) \/ GetJobToInvite(r)
           \/ CountInvitations(r) \/ UpdateRow(r)
    PROVE  IInv'
<1>1. {"count", "write", "delete"} \subseteq Steps
  BY DEF Steps
<1>2. CASE GetQuestion(r)
  BY <1>1, <1>2, CheckStep DEF GetQuestion, Reading
<1>3. CASE GetJobToPublish(r)
  <2>1. QuestionsOf(call[r].job) # {} => call[r].job \in asked
    BY DEF IInv, AskedOK, QuestionsOf
  <2> QED BY <1>1, <1>3, <2>1, CheckStep DEF GetJobToPublish, Reading
<1>4. CASE GetJobToInvite(r)
  <2>1. PICK eligible \in BOOLEAN :
            Check(r, jobs[call[r].job] = "published" /\ eligible, "write")
    BY <1>4 DEF GetJobToInvite
  <2>2. call[r].op = "invite" /\ pc[r] = "read" /\ call[r] \in Calls
    BY <1>4 DEF GetJobToInvite, Reading, IInv, CallOK
  <2>3. jobs[call[r].job] = "published" => call[r].job \in asked
    BY <2>2 DEF IInv, AskedOK, Calls
  <2> QED BY <1>1, <2>1, <2>2, <2>3, CheckStep
<1>5. CASE CountInvitations(r)
  BY <1>1, <1>5, CheckStep DEF CountInvitations, IInv, CallOK
<1>6. CASE UpdateRow(r)
  BY <1>1, <1>6, CheckStep DEF UpdateRow
<1> QED BY <1>2, <1>3, <1>4, <1>5, <1>6

LEMMA DeleteOptionsStep ==
    ASSUME IInv, NEW r \in Requests, DeleteOptions(r)
    PROVE  IInv'
<1> DEFINE c == call[r]
<1>1. /\ pc[r] = "delete" /\ c \in Calls /\ c.op = "edit" /\ c.question \in Questions
      /\ EditOK(r)
  BY DEF DeleteOptions, IInv, CallOK, Calls, Editing
<1>2. /\ pc' = [pc EXCEPT ![r] = "commit"] /\ "commit" \in Steps
      /\ gone' = [gone EXCEPT ![r] = options[c.question]]
      /\ options[c.question] \in SUBSET AllOptionRows
      /\ call' = [call EXCEPT ![r] = c] /\ UNCHANGED board
  BY <1>1 DEF DeleteOptions, Goto, Steps, IInv, TypeOK
<1>3. CallOK(r)'
  BY <1>1, <1>2 DEF CallOK, IInv, TypeOK
<1> QED BY <1>1, <1>2, <1>3, LocalStep DEF EditOK, Editing

\* What a write of r has to establish: no open edit of others is touched.
LEMMA ForgetWithTables ==
    ASSUME IInv, NEW r \in Requests, Forget(r), TypeOK',
           asked \subseteq asked',
           \A l \in links' : l[1] \in asked',
           \A j \in Jobs : jobs'[j] = "published" => j \in asked',
           \A i \in invited' : i[1] \in asked',
           \A s \in Requests \ {r} : pc[s] \in Editing =>
               /\ questions'[call[s].question] # Missing
               /\ options'[call[s].question] = options[call[s].question]
    PROVE  IInv'
<1>1. /\ pc'[r] = "idle" /\ call'[r] = NoCall
      /\ \A s \in Requests \ {r} :
             pc'[s] = pc[s] /\ call'[s] = call[s] /\ gone'[s] = gone[s]
  BY DEF IInv, TypeOK, Forget, Goto
<1>2. AskedOK'
  BY <1>1 DEF IInv, AskedOK
<1>3. ASSUME NEW s \in Requests PROVE CallOK(s)' /\ EditOK(s)'
  <2>1. CASE s = r
    BY <1>1, <2>1 DEF CallOK, EditOK, Editing
  <2>2. CASE s # r
    <3>1. CallOK(s) /\ EditOK(s)
      BY DEF IInv
    <3>2. CallOK(s)'
      BY <1>1, <2>2, <3>1 DEF CallOK
    <3>3. EditOK(s)'
      BY <1>1, <2>2, <3>1 DEF EditOK, Editing
    <3> QED BY <3>2, <3>3
  <2> QED BY <2>1, <2>2
<1> QED BY <1>2, <1>3 DEF IInv

LEMMA WriteBoardStep ==
    ASSUME IInv, NEW r \in Requests, WriteBoard(r)
    PROVE  IInv'
<1> DEFINE c == call[r]
<1>1. pc[r] = "write" /\ c \in Calls /\ Forget(r) /\ UNCHANGED library
  BY DEF WriteBoard, IInv, CallOK
<1>2. c.op \in {"publish", "invite"} => c.job \in asked
  BY <1>1 DEF IInv, AskedOK
<1>3. UNCHANGED <<questions, options, deprecated>>
  BY <1>1 DEF library
<1>4. pc' \in [Requests -> Steps] /\ call' \in [Requests -> Calls \cup {NoCall}]
      /\ gone' \in [Requests -> SUBSET AllOptionRows]
  BY <1>1 DEF Forget, Goto, IInv, TypeOK, Steps
<1>5. \A s \in Requests : pc[s] \in Editing => questions[call[s].question] # Missing
  BY DEF IInv, EditOK
<1>6. CASE c.op = "publish" /\ jobs' = [jobs EXCEPT ![c.job] = "published"]
           /\ UNCHANGED <<links, invited, asked>>
  <2>1. TypeOK'
    BY <1>3, <1>4, <1>6 DEF IInv, TypeOK, JobStatuses
  <2>2. \A j \in Jobs : jobs'[j] = "published" => j \in asked
    BY <1>2, <1>6 DEF IInv, TypeOK, AskedOK
  <2> QED BY <1>1, <1>3, <1>5, <1>6, <2>1, <2>2, ForgetWithTables DEF IInv, AskedOK
<1>7. CASE c.op = "attach" /\ links' = links \cup {<<c.job, c.question>>}
           /\ asked' = asked \cup {c.job} /\ UNCHANGED <<jobs, invited>>
  <2>1. c.job \in Jobs /\ c.question \in Questions
    BY <1>1, <1>7 DEF Calls
  <2>2. TypeOK'
    BY <1>3, <1>4, <1>7, <2>1 DEF IInv, TypeOK
  <2> QED BY <1>1, <1>3, <1>5, <1>7, <2>2, ForgetWithTables DEF IInv, AskedOK
<1>8. CASE c.op = "detach" /\ links' = links \ {<<c.job, c.question>>}
           /\ UNCHANGED <<jobs, invited, asked>>
  <2>1. TypeOK'
    BY <1>3, <1>4, <1>8 DEF IInv, TypeOK
  <2> QED BY <1>1, <1>3, <1>5, <1>8, <2>1, ForgetWithTables DEF IInv, AskedOK
<1>9. CASE c.op = "invite" /\ invited' = invited \cup {<<c.job, c.participant>>}
           /\ UNCHANGED <<jobs, links, asked>>
  <2>1. c.job \in Jobs /\ c.participant \in Participants
    BY <1>1, <1>9 DEF Calls
  <2>2. TypeOK'
    BY <1>3, <1>4, <1>9, <2>1 DEF IInv, TypeOK
  <2> QED BY <1>1, <1>2, <1>3, <1>5, <1>9, <2>2, ForgetWithTables DEF IInv, AskedOK
<1> QED BY <1>6, <1>7, <1>8, <1>9 DEF WriteBoard

LEMMA CommitEditStep ==
    ASSUME IInv, NEW r \in Requests, CommitEdit(r)
    PROVE  /\ IInv'
           /\ call[r].question \in Questions
           /\ call[r].form \in Inputs /\ Acceptable(call[r].form)
           /\ questions[call[r].question] # Missing
           /\ options' = [options EXCEPT ![call[r].question] = StoredOptions(call[r].form)]
<1> DEFINE c == call[r]
           q == c.question
<1>1. /\ pc[r] = "commit" /\ c \in Calls /\ c.op = "edit" /\ EditOK(r)
      /\ q \in Questions /\ c.form \in Inputs /\ Acceptable(c.form)
  BY DEF CommitEdit, IInv, CallOK, Calls, Editing
<1>2. questions[q] # Missing /\ gone[r] = options[q]
  BY <1>1 DEF EditOK, Editing
<1>3. /\ questions' = [questions EXCEPT ![q] = StoredRow(c.form)]
      /\ options' = [options EXCEPT ![q] = StoredOptions(c.form)]
      /\ Forget(r)
      /\ UNCHANGED <<jobs, links, deprecated, invited, asked>>
  BY <1>2 DEF CommitEdit
<1>4. StoredRow(c.form) \in Rows /\ StoredOptions(c.form) \in SUBSET AllOptionRows
  BY <1>1, StoredFormIsContent
<1>5. TypeOK'
  BY <1>1, <1>3, <1>4 DEF IInv, TypeOK, Forget, Goto, Steps
<1>6. ASSUME NEW s \in Requests \ {r}, pc[s] \in Editing
      PROVE  /\ questions'[call[s].question] # Missing
             /\ options'[call[s].question] = options[call[s].question]
  <2>1. call[s].question # q /\ questions[call[s].question] # Missing
    BY <1>1, <1>6 DEF IInv, EditOK, Editing
  <2>2. call[s].question \in Questions
    BY <1>6 DEF IInv, CallOK, Calls, Editing
  <2> QED BY <1>3, <2>1, <2>2 DEF IInv, TypeOK
<1>7. IInv'
  BY <1>3, <1>5, <1>6, ForgetWithTables DEF IInv, AskedOK
<1> QED BY <1>1, <1>2, <1>3, <1>7

\* A request of a single statement leaves the others alone, and every open
\* edit its question and options.
LEMMA StatementStep ==
    ASSUME IInv, TypeOK', UNCHANGED <<links, invited, asked, pc, call, gone>>,
           \A j \in Jobs : jobs'[j] = "published" => jobs[j] = "published",
           \A q \in Questions : questions[q] # Missing =>
               questions'[q] # Missing /\ options'[q] = options[q]
    PROVE  IInv'
<1>1. AskedOK'
  BY DEF IInv, AskedOK
<1>2. ASSUME NEW r \in Requests PROVE CallOK(r)' /\ EditOK(r)'
  <2>1. CallOK(r) /\ EditOK(r)
    BY DEF IInv
  <2>2. CallOK(r)'
    BY <2>1 DEF CallOK
  <2>3. pc[r] \in Editing => call[r].question \in Questions
    BY <2>1 DEF CallOK, Calls, Editing
  <2>4. EditOK(r)'
    BY <2>1, <2>3 DEF EditOK, Editing
  <2> QED BY <2>2, <2>4
<1> QED BY <1>1, <1>2 DEF IInv

LEMMA CreateJobStep ==
    ASSUME IInv, NEW j \in Jobs, CreateJob(j)
    PROVE  IInv'
<1>1. TypeOK'
  BY DEF IInv, TypeOK, CreateJob, library, JobStatuses
<1>2. \A i \in Jobs : jobs'[i] = "published" => jobs[i] = "published"
  BY DEF IInv, TypeOK, CreateJob
<1> QED BY <1>1, <1>2, StatementStep DEF CreateJob, library

LEMMA UpdateJobStep ==
    ASSUME IInv, NEW j \in Jobs, NEW status \in {"draft", "deprecated"}, UpdateJob(j, status)
    PROVE  IInv'
<1>1. TypeOK'
  BY DEF IInv, TypeOK, UpdateJob, library, JobStatuses
<1>2. \A i \in Jobs : jobs'[i] = "published" => jobs[i] = "published"
  BY DEF IInv, TypeOK, UpdateJob
<1> QED BY <1>1, <1>2, StatementStep DEF UpdateJob, library

LEMMA CreateQuestionStep ==
    ASSUME IInv, NEW q \in Questions, NEW form \in Inputs, CreateQuestion(q, form)
    PROVE  IInv'
<1>1. StoredRow(form) \in Rows /\ StoredOptions(form) \in SUBSET AllOptionRows
  BY StoredFormIsContent DEF CreateQuestion
<1>2. TypeOK'
  BY <1>1 DEF IInv, TypeOK, CreateQuestion
<1>3. \A p \in Questions : questions[p] # Missing =>
          questions'[p] # Missing /\ options'[p] = options[p]
  BY DEF IInv, TypeOK, CreateQuestion
<1> QED BY <1>2, <1>3, StatementStep DEF CreateQuestion

LEMMA SetQuestionDeprecatedStep ==
    ASSUME IInv, NEW q \in Questions, NEW mark \in BOOLEAN, SetQuestionDeprecated(q, mark)
    PROVE  IInv'
<1>1. TypeOK'
  BY DEF IInv, TypeOK, SetQuestionDeprecated
<1> QED BY <1>1, StatementStep DEF SetQuestionDeprecated

LEMMA StepPreservesIInv == IInv /\ [Next]_vars => IInv'
<1> SUFFICES ASSUME IInv, [Next]_vars PROVE IInv'
  OBVIOUS
<1>1. ASSUME NEW r \in Requests, Run(r)
      PROVE  IInv'
  BY <1>1, ReadStep, WriteBoardStep, DeleteOptionsStep, CommitEditStep DEF Run
<1>2. ASSUME NEW r \in Requests, NEW c \in Calls, Receive(r, c)
      PROVE  IInv'
  BY <1>2, ReceiveStep
<1>3. ASSUME NEW r \in Requests, Abandon(r)
      PROVE  IInv'
  BY <1>3, ForgetStep DEF Abandon
<1>4. CASE UNCHANGED vars
  <2>1. UNCHANGED <<jobs, links, questions, options, deprecated, invited, asked, pc, call, gone>>
    BY <1>4 DEF vars, board, library
  <2>2. TypeOK'
    BY <2>1 DEF IInv, TypeOK
  <2> QED BY <2>1, <2>2, StatementStep
<1> QED BY <1>1, <1>2, <1>3, <1>4, CreateJobStep, UpdateJobStep, CreateQuestionStep,
           SetQuestionDeprecatedStep DEF Next

\* The inductive invariant holds of every reachable state (services.go:163-273,
\* store.go:131-293): requests have what they have read, and open edits what
\* they have locked.
THEOREM Invariance == Spec => []IInv
<1>1. Init => IInv
  BY InitEstablishesIInv
<1>2. IInv /\ [Next]_vars => IInv'
  BY StepPreservesIInv
<1> QED BY <1>1, <1>2, PTL DEF Spec

\* Type correctness of the job board and the library.
THEOREM TypeCorrect == Spec => []TypeOK
<1>1. IInv => TypeOK
  BY DEF IInv
<1> QED BY <1>1, Invariance, PTL

\* Published and offered jobs were given questions (services.go:168-176).
THEOREM Asking == Spec => []OfferedWereAsked
<1>1. IInv => OfferedWereAsked
  BY DEF IInv, AskedOK, OfferedWereAsked, InvitationsOf
<1> QED BY <1>1, Invariance, PTL

-----------------------------------------------------------------------------
(* Steps of requests that passed a check which would fail by now *)

\* How a step changes what the properties look at.  Requests get to a step
\* by the check before it; tables change by the one write of a request.
Moves(r) ==
    /\ \A s \in Requests \ {r} : pc'[s] = pc[s] /\ call'[s] = call[s]
    /\ \/ pc'[r] \in {"idle", "read"}
       \/ pc'[r] = "count" /\ call'[r].op = "detach"
       \/ pc'[r] = "count" /\ call'[r] = call[r] /\ pc[r] = "read"
          /\ ~deprecated[call[r].question]
       \/ pc'[r] \in {"write", "delete", "commit"} /\ call'[r].op = "edit"
       \/ /\ pc'[r] = "write" /\ call'[r] = call[r] /\ pc[r] = "read"
          /\ call[r].op = "publish"
       \/ /\ pc'[r] = "write" /\ call'[r] = call[r] /\ pc[r] = "read"
          /\ call[r].op = "invite" /\ jobs[call[r].job] = "published"
       \/ /\ pc'[r] = "write" /\ call'[r] = call[r] /\ pc[r] = "count"
          /\ InvitationsOf(call[r].job) = {}

LEMMA StepMoves ==
    ASSUME IInv, NEW r \in Requests,
           (\E c \in Calls : Receive(r, c)) \/ Run(r) \/ Abandon(r)
    PROVE  Moves(r)
<1> USE DEF Goto
<1>1. pc \in [Requests -> Steps] /\ call \in [Requests -> Calls \cup {NoCall}] /\ CallOK(r)
  BY DEF IInv, TypeOK
<1>2. ASSUME Forget(r) PROVE Moves(r)
  BY <1>1, <1>2 DEF Forget, Moves
<1>3. ASSUME NEW c \in Calls, Receive(r, c) PROVE Moves(r)
  <2>1. /\ pc' = [pc EXCEPT ![r] = FirstStep(c.op)] /\ call' = [call EXCEPT ![r] = c]
    BY <1>3 DEF Receive
  <2>2. \/ FirstStep(c.op) = "read"
        \/ FirstStep(c.op) = "count" /\ c.op = "detach"
        \/ FirstStep(c.op) = "write" /\ c.op = "edit"
    BY DEF FirstStep
  <2> QED BY <1>1, <2>1, <2>2 DEF Moves
<1>4. ASSUME Run(r) PROVE Moves(r)
  <2>1. CASE GetQuestion(r)
    BY <1>1, <1>2, <2>1 DEF GetQuestion, Reading, Check, Moves
  <2>2. CASE GetJobToPublish(r)
    BY <1>1, <1>2, <2>2 DEF GetJobToPublish, Reading, Check, Moves
  <2>3. CASE GetJobToInvite(r)
    BY <1>1, <1>2, <2>3 DEF GetJobToInvite, Reading, Check, Moves
  <2>4. CASE CountInvitations(r)
    BY <1>1, <1>2, <2>4 DEF CountInvitations, Check, Moves
  <2>5. CASE UpdateRow(r)
    BY <1>1, <1>2, <2>5 DEF UpdateRow, Check, Moves
  <2>6. CASE DeleteOptions(r)
    BY <1>1, <2>6 DEF DeleteOptions, Moves, CallOK, Editing
  <2>7. CASE WriteBoard(r) \/ CommitEdit(r)
    BY <1>2, <2>7 DEF WriteBoard, CommitEdit
  <2> QED BY <1>4, <2>1, <2>2, <2>3, <2>4, <2>5, <2>6, <2>7 DEF Run
<1> QED BY <1>2, <1>3, <1>4 DEF Abandon

\* What a step writes to the links and the invitations.
Relinks(r) ==
    /\ pc[r] = "write" /\ UNCHANGED invited
    /\ \/ call[r].op = "attach" /\ links' = links \cup {<<call[r].job, call[r].question>>}
       \/ call[r].op = "detach" /\ links' = links \ {<<call[r].job, call[r].question>>}

Invites(r) ==
    /\ pc[r] = "write" /\ UNCHANGED links /\ call[r].op = "invite"
    /\ invited' = invited \cup {<<call[r].job, call[r].participant>>}

LEMMA StepWrites ==
    ASSUME IInv, [Next]_vars
    PROVE  \/ UNCHANGED <<links, invited>>
           \/ \E r \in Requests : Relinks(r) \/ Invites(r)
<1>1. ASSUME NEW r \in Requests, WriteBoard(r)
      PROVE  UNCHANGED <<links, invited>> \/ Relinks(r) \/ Invites(r)
  BY <1>1 DEF WriteBoard, Relinks, Invites
<1>2. ASSUME NEW r \in Requests, Run(r), ~WriteBoard(r)
      PROVE  UNCHANGED <<links, invited>>
  BY <1>2 DEF Run, GetQuestion, GetJobToPublish, GetJobToInvite, CountInvitations,
              UpdateRow, DeleteOptions, CommitEdit, Check, board
<1>3. ASSUME NEW r \in Requests, (\E c \in Calls : Receive(r, c)) \/ Abandon(r)
      PROVE  UNCHANGED <<links, invited>>
  BY <1>3 DEF Receive, Abandon, board
<1>4. ASSUME ~\E r \in Requests : (\E c \in Calls : Receive(r, c)) \/ Run(r) \/ Abandon(r)
      PROVE  UNCHANGED <<links, invited>>
  BY <1>4 DEF Next, vars, board, CreateJob, UpdateJob, CreateQuestion, SetQuestionDeprecated
<1> QED BY <1>1, <1>2, <1>3, <1>4

LEMMA OneMoves ==
    ASSUME IInv, [Next]_vars
    PROVE  UNCHANGED <<pc, call>> \/ \E r \in Requests : Moves(r)
<1>1. ASSUME ~\E r \in Requests : (\E c \in Calls : Receive(r, c)) \/ Run(r) \/ Abandon(r)
      PROVE  UNCHANGED <<pc, call>>
  BY <1>1 DEF Next, vars, CreateJob, UpdateJob, CreateQuestion, SetQuestionDeprecated
<1> QED BY <1>1, StepMoves

\* No request can attach or detach once the job is offered and those that
\* counted before are over (store.go:252-293).
THEOREM InvitedJobs == Spec => InvitedJobsSettle
<1>1. ASSUME IInv, [Next]_vars, NEW j \in Jobs,
             InvitationsOf(j) # {}, Relinking(j) = {}
      PROVE  /\ InvitationsOf(j)' # {} /\ Relinking(j)' = {}
             /\ QuestionsOf(j)' = QuestionsOf(j)
  <2>1. Relinking(j)' = {}
    <3> SUFFICES ASSUME NEW s \in Requests, pc'[s] = "write",
                        call'[s].op \in {"attach", "detach"}, call'[s].job = j
                 PROVE  FALSE
      BY DEF Relinking
    <3>1. s \notin Relinking(j)
      BY <1>1
    <3>2. CASE UNCHANGED <<pc, call>>
      BY <3>1, <3>2 DEF Relinking
    <3>3. ASSUME NEW r \in Requests, Moves(r) PROVE FALSE
      <4>1. s = r
        BY <3>1, <3>3 DEF Moves, Relinking
      <4> QED BY <1>1, <3>3, <4>1 DEF Moves
    <3> QED BY <1>1, <3>2, <3>3, OneMoves
  <2>2. InvitationsOf(j)' # {} /\ QuestionsOf(j)' = QuestionsOf(j)
    <3>1. CASE UNCHANGED <<links, invited>>
      BY <1>1, <3>1 DEF InvitationsOf, QuestionsOf
    <3>2. ASSUME NEW r \in Requests, Relinks(r)
          PROVE  InvitationsOf(j)' # {} /\ QuestionsOf(j)' = QuestionsOf(j)
      <4>1. call[r].job # j
        BY <1>1, <3>2 DEF Relinks, Relinking
      <4>2. <<call[r].job, call[r].question>>[1] # j
        BY <4>1
      <4> QED BY <1>1, <3>2, <4>2 DEF Relinks, InvitationsOf, QuestionsOf
    <3>3. ASSUME NEW r \in Requests, Invites(r)
          PROVE  InvitationsOf(j)' # {} /\ QuestionsOf(j)' = QuestionsOf(j)
      BY <1>1, <3>3 DEF Invites, InvitationsOf, QuestionsOf
    <3> QED BY <1>1, <3>1, <3>2, <3>3, StepWrites
  <2> QED BY <2>1, <2>2
<1>2. IInv /\ [Next]_vars =>
          [\A j \in Jobs :
               InvitationsOf(j) # {} /\ Relinking(j) = {} =>
                   /\ InvitationsOf(j)' # {} /\ Relinking(j)' = {}
                   /\ QuestionsOf(j)' = QuestionsOf(j)]_vars
  BY <1>1
<1> QED BY <1>2, Invariance, PTL DEF Spec, InvitedJobsSettle

\* No request can attach a question once it is deprecated and those that read
\* it before are over (services.go:189-198).
THEOREM DeprecatedQuestions == Spec => DeprecatedQuestionsSettle
<1>1. ASSUME IInv, [Next]_vars, NEW q \in Questions,
             deprecated[q], Attaching(q) = {}
      PROVE  /\ Attaching(q)' = {}
             /\ \A j \in Jobs : <<j, q>> \in links' => <<j, q>> \in links
  <2>1. Attaching(q)' = {}
    <3> SUFFICES ASSUME NEW s \in Requests, pc'[s] \in {"count", "write"},
                        call'[s].op = "attach", call'[s].question = q
                 PROVE  FALSE
      BY DEF Attaching
    <3>1. s \notin Attaching(q)
      BY <1>1
    <3>2. CASE UNCHANGED <<pc, call>>
      BY <3>1, <3>2 DEF Attaching
    <3>3. ASSUME NEW r \in Requests, Moves(r) PROVE FALSE
      <4>1. s = r
        BY <3>1, <3>3 DEF Moves, Attaching
      <4> QED BY <1>1, <3>1, <3>3, <4>1 DEF Moves, Attaching
    <3> QED BY <1>1, <3>2, <3>3, OneMoves
  <2>2. ASSUME NEW j \in Jobs, <<j, q>> \in links' PROVE <<j, q>> \in links
    <3>1. CASE UNCHANGED <<links, invited>>
      BY <2>2, <3>1
    <3>2. ASSUME NEW r \in Requests, Relinks(r) PROVE <<j, q>> \in links
      <4>1. ~(call[r].op = "attach" /\ call[r].question = q)
        BY <1>1, <3>2 DEF Relinks, Attaching
      <4> QED BY <2>2, <3>2, <4>1 DEF Relinks
    <3>3. ASSUME NEW r \in Requests, Invites(r) PROVE <<j, q>> \in links
      BY <2>2, <3>3 DEF Invites
    <3> QED BY <1>1, <3>1, <3>2, <3>3, StepWrites
  <2> QED BY <2>1, <2>2
<1>2. IInv /\ [Next]_vars =>
          [\A q \in Questions :
               deprecated[q] /\ deprecated'[q] /\ Attaching(q) = {} =>
                   /\ Attaching(q)' = {}
                   /\ \A j \in Jobs : <<j, q>> \in links' => <<j, q>> \in links]_vars
  BY <1>1
<1> QED BY <1>2, Invariance, PTL DEF Spec, DeprecatedQuestionsSettle

\* No request can offer a job that is withdrawn, once those that read it
\* before are over (services.go:455-484).
THEOREM WithdrawnJobs == Spec => WithdrawnJobsSettle
<1>1. ASSUME IInv, [Next]_vars, NEW j \in Jobs,
             jobs[j] # "published", Inviting(j) = {}
      PROVE  Inviting(j)' = {} /\ InvitationsOf(j)' = InvitationsOf(j)
  <2>1. Inviting(j)' = {}
    <3> SUFFICES ASSUME NEW s \in Requests, pc'[s] = "write",
                        call'[s].op = "invite", call'[s].job = j
                 PROVE  FALSE
      BY DEF Inviting
    <3>1. s \notin Inviting(j)
      BY <1>1
    <3>2. CASE UNCHANGED <<pc, call>>
      BY <3>1, <3>2 DEF Inviting
    <3>3. ASSUME NEW r \in Requests, Moves(r) PROVE FALSE
      <4>1. s = r
        BY <3>1, <3>3 DEF Moves, Inviting
      <4>2. pc[r] = "count" => call[r].op \in {"attach", "detach"}
        BY <1>1 DEF IInv, CallOK
      <4> QED BY <1>1, <3>3, <4>1, <4>2 DEF Moves
    <3> QED BY <1>1, <3>2, <3>3, OneMoves
  <2>2. InvitationsOf(j)' = InvitationsOf(j)
    <3>1. ASSUME NEW r \in Requests, Invites(r)
          PROVE  InvitationsOf(j)' = InvitationsOf(j)
      <4>1. call[r].job # j
        BY <1>1, <3>1 DEF Invites, Inviting
      <4>2. <<call[r].job, call[r].participant>>[1] # j
        BY <4>1
      <4> QED BY <3>1, <4>2 DEF Invites, InvitationsOf
    <3> QED BY <1>1, <3>1, StepWrites DEF Relinks, InvitationsOf
  <2> QED BY <2>1, <2>2
<1>2. IInv /\ [Next]_vars =>
          [\A j \in Jobs :
               jobs[j] # "published" /\ jobs'[j] # "published" /\ Inviting(j) = {} =>
                   /\ Inviting(j)' = {}
                   /\ InvitationsOf(j)' = InvitationsOf(j)]_vars
  BY <1>1
<1> QED BY <1>2, Invariance, PTL DEF Spec, WithdrawnJobsSettle

-----------------------------------------------------------------------------
(* The library *)

\* Only a creation, the commit of an edit and a mark change the library.
LEMMA StepEdits ==
    ASSUME IInv, [Next]_vars
    PROVE  \/ UNCHANGED library
           \/ \E r \in Requests : CommitEdit(r)
           \/ \E q \in Questions, form \in Inputs : CreateQuestion(q, form)
           \/ \E q \in Questions, mark \in BOOLEAN : SetQuestionDeprecated(q, mark)
<1>1. ASSUME NEW r \in Requests, Run(r), ~CommitEdit(r)
      PROVE  UNCHANGED library
  BY <1>1 DEF Run, GetQuestion, GetJobToPublish, GetJobToInvite, CountInvitations,
              UpdateRow, DeleteOptions, WriteBoard, Check, board
<1>2. ASSUME NEW r \in Requests, (\E c \in Calls : Receive(r, c)) \/ Abandon(r)
      PROVE  UNCHANGED library
  BY <1>2 DEF Receive, Abandon, board
<1>3. ASSUME NEW j \in Jobs,
             CreateJob(j) \/ \E status \in {"draft", "deprecated"} : UpdateJob(j, status)
      PROVE  UNCHANGED library
  BY <1>3 DEF CreateJob, UpdateJob
<1>4. CASE UNCHANGED vars
  BY <1>4 DEF vars, board
<1> QED BY <1>1, <1>2, <1>3, <1>4 DEF Next

\* The content of a question whose row and options are replaced together.
LEMMA ContentReplaced ==
    ASSUME IInv, NEW q \in Questions, NEW form \in Inputs, Acceptable(form),
           questions' = [questions EXCEPT ![q] = StoredRow(form)],
           options' = [options EXCEPT ![q] = StoredOptions(form)]
    PROVE  \E c \in Contents :
               [p \in Questions |-> ContentOf(p)'] = [[p \in Questions |-> ContentOf(p)] EXCEPT ![q] = c]
<1> DEFINE c == [row |-> StoredRow(form), options |-> StoredOptions(form)]
<1>1. c \in Contents /\ StoredRow(form) # Missing
  BY StoredFormIsContent, BoardConstants
<1>2. ContentOf(q)' = c
  BY <1>1 DEF ContentOf, IInv, TypeOK
<1>3. \A p \in Questions \ {q} : ContentOf(p)' = ContentOf(p)
  BY DEF ContentOf, IInv, TypeOK
<1> QED BY <1>1, <1>2, <1>3

LEMMA ContentIsMissing ==
    ASSUME IInv, NEW q \in Questions
    PROVE  ContentOf(q) = Missing <=> questions[q] = Missing
<1>1. CASE questions[q] # Missing
  <2>1. [row |-> questions[q], options |-> options[q]] \in [row : Rows, options : SUBSET AllOptionRows]
    BY <1>1 DEF IInv, TypeOK
  <2> QED BY <1>1, <2>1, BoardConstants DEF ContentOf
<1> QED BY <1>1 DEF ContentOf

\* A step of the tables is a step of the library, or none.
LEMMA StepMaps ==
    ASSUME IInv, [Next]_vars
    PROVE  [Library!Next]_(Library!library)
<1> DEFINE content == [q \in Questions |-> ContentOf(q)]
<1>1. CASE UNCHANGED library
  BY <1>1 DEF library, Library!library, ContentOf
<1>2. ASSUME NEW r \in Requests, CommitEdit(r)
      PROVE  Library!Next
  <2>1. /\ call[r].question \in Questions
        /\ call[r].form \in Inputs /\ Acceptable(call[r].form)
        /\ questions[call[r].question] # Missing
        /\ options' = [options EXCEPT ![call[r].question] = StoredOptions(call[r].form)]
        /\ questions' = [questions EXCEPT ![call[r].question] = StoredRow(call[r].form)]
        /\ UNCHANGED deprecated
    BY <1>2, CommitEditStep DEF CommitEdit
  <2>2. PICK c \in Contents : content' = [content EXCEPT ![call[r].question] = c]
    BY <2>1, ContentReplaced
  <2>3. content[call[r].question] # Missing
    BY <2>1, ContentIsMissing
  <2> QED BY <2>1, <2>2, <2>3 DEF Library!Next, Library!Edit
<1>3. ASSUME NEW q \in Questions, NEW form \in Inputs, CreateQuestion(q, form)
      PROVE  Library!Next
  <2>1. PICK c \in Contents : content' = [content EXCEPT ![q] = c]
    BY <1>3, ContentReplaced DEF CreateQuestion
  <2>2. content[q] = Missing /\ UNCHANGED deprecated
    BY <1>3, ContentIsMissing DEF CreateQuestion
  <2> QED BY <2>1, <2>2 DEF Library!Next, Library!Create
<1>4. ASSUME NEW q \in Questions, NEW mark \in BOOLEAN, SetQuestionDeprecated(q, mark)
      PROVE  Library!Next
  <2>1. content[q] # Missing
    BY <1>4, ContentIsMissing DEF SetQuestionDeprecated
  <2>2. content' = content /\ deprecated' = [deprecated EXCEPT ![q] = mark]
    BY <1>4 DEF SetQuestionDeprecated, ContentOf
  <2> QED BY <2>1, <2>2 DEF Library!Next, Library!Mark
<1> QED BY <1>1, <1>2, <1>3, <1>4, StepEdits

\* The questions that everybody reads are those of QuestionLibrary, though an
\* edit takes three statements and several may meet (store.go:214-250).
THEOREM Refinement == Spec => ImplementsLibrary
<1>1. Init => Library!Init
  BY DEF Init, Library!Init, ContentOf
<1>2. IInv /\ [Next]_vars => [Library!Next]_(Library!library)
  BY StepMaps
<1> QED BY <1>1, <1>2, Invariance, PTL DEF Spec, ImplementsLibrary, Library!Spec
=============================================================================
