------------------------------ MODULE JobBoard ------------------------------
(***************************************************************************)
(* Jobs, their questions and the invitations to them, as interviewers      *)
(* change them at the same time: a job is created as a draft, questions    *)
(* are attached and detached, the job is published and withdrawn,          *)
(* participants are invited, and questions are written, edited and         *)
(* deprecated.  What most of these requests check they have read by        *)
(* statements that are over when they write.                               *)
(*                                                                         *)
(* A request of a single statement is one action.  The others are          *)
(* modelled statement by statement; their one write takes effect when it   *)
(* becomes visible to the others: at once without a tenant, at the commit  *)
(* of the request's transaction with one.  Nothing looks at the rows       *)
(* again in between, so that both ways of running are covered.             *)
(***************************************************************************)
EXTENDS Naturals

CONSTANTS Jobs, Participants, Questions,
          Texts, Blank,    \* texts of questions; Blank is empty once trimmed
          MaxOptions,      \* bound on the options of a question
          Inputs,          \* the question forms interviewers may send
          Missing,
          Requests         \* requests that may be in flight at once

Types == {"open", "multiple_choice", "radio", "code_review"}
ChoiceTypes == {"multiple_choice", "radio"}
WrittenTypes == {"open", "code_review"}

\* A question form: how many options are left when blank ones are dropped,
\* and whether reference answer and code snippet are given.
Forms == [type : Types \cup {"other"}, text : Texts \cup {Blank},
          options : 0..MaxOptions, reference : BOOLEAN, snippet : BOOLEAN]

Rows == [type : Types, text : Texts, reference : BOOLEAN, snippet : BOOLEAN]

\* Option rows carry the text of the edit that has inserted them.
AllOptionRows == Texts \X (1..MaxOptions)

ASSUME BoardConstants ==
    /\ Inputs \subseteq Forms
    /\ Blank \notin Texts
    /\ MaxOptions \in Nat
    /\ Missing \notin Rows
    /\ Missing \notin [row : Rows, options : SUBSET AllOptionRows]

VARIABLES jobs,       \* table job_postings: the status, or "absent"
          links,      \* table job_posting_questions
          questions,  \* table questions: the columns an edit writes, or Missing
          options,    \* table question_options
          deprecated, \* questions.deprecated
          invited,    \* table invitations: job and participant
          asked,      \* history: the jobs that have had a question
          pc, call, gone \* requests in flight; the options an edit has deleted

library == <<questions, options, deprecated>>
board == <<jobs, links, library, invited, asked>>
vars == <<board, pc, call, gone>>

-----------------------------------------------------------------------------
(* Questions *)

OptionRows(text, n) == {text} \X (1..n)

\* What validateQuestion accepts.
Acceptable(form) ==
    /\ form.type \in Types
    /\ form.text # Blank
    /\ form.type \in ChoiceTypes => form.options >= 2
    /\ form.type \in WrittenTypes => form.reference
    /\ form.type = "code_review" => form.snippet

\* What validateQuestion returns: fields that do not belong to the type are
\* emptied.
StoredRow(form) ==
    [type |-> form.type, text |-> form.text,
     reference |-> form.type \in WrittenTypes,
     snippet |-> form.type = "code_review"]

StoredOptions(form) ==
    OptionRows(form.text, IF form.type \in ChoiceTypes THEN form.options ELSE 0)

-----------------------------------------------------------------------------
(* Requests *)

JobStatuses == {"draft", "published", "deprecated"}

Calls ==
    [op : {"publish"}, job : Jobs]
    \cup [op : {"attach", "detach"}, job : Jobs, question : Questions]
    \cup [op : {"invite"}, job : Jobs, participant : Participants]
    \cup [op : {"edit"}, question : Questions, form : {f \in Inputs : Acceptable(f)}]

NoCall == [op |-> "none"]

Steps == {"idle", "read", "count", "write", "delete", "commit"}

Exists(j) == jobs[j] # "absent"

InvitationsOf(j) == {i \in invited : i[1] = j}
QuestionsOf(j) == {l \in links : l[1] = j}

Goto(r, step) == pc' = [pc EXCEPT ![r] = step]

\* The request is answered or given up; what it has not committed is gone.
Forget(r) ==
    /\ Goto(r, "idle")
    /\ call' = [call EXCEPT ![r] = NoCall]
    /\ gone' = [gone EXCEPT ![r] = {}]

\* The service goes on, or refuses the request, on what it has just read.
Check(r, ok, next) ==
    /\ IF ok THEN Goto(r, next) /\ UNCHANGED <<call, gone>> ELSE Forget(r)
    /\ UNCHANGED board

FirstStep(op) ==
    CASE op = "detach" -> "count"
      [] op = "edit" -> "write"
      [] OTHER -> "read"

Receive(r, c) ==
    /\ pc[r] = "idle"
    /\ Goto(r, FirstStep(c.op))
    /\ call' = [call EXCEPT ![r] = c]
    /\ UNCHANGED <<board, gone>>

Reading(r, op) == pc[r] = "read" /\ call[r].op = op

\* Mutant: AttachQuestion of the service forgets the mark.
GetQuestionUnmarked(r) ==
    /\ Reading(r, "attach")
    /\ Check(r, questions[call[r].question] # Missing, "count")

\* JobService.AttachQuestion reads the question before the store does.
GetQuestion(r) ==
    /\ Reading(r, "attach")
    /\ Check(r, /\ questions[call[r].question] # Missing
                /\ ~deprecated[call[r].question], "count")

\* Mutant: a job is published whatever its questions.
GetJobToPublishBare(r) ==
    /\ Reading(r, "publish")
    /\ Check(r, Exists(call[r].job), "write")

\* JobService.Update with status "published" reads the job with its questions.
GetJobToPublish(r) ==
    /\ Reading(r, "publish")
    /\ Check(r, QuestionsOf(call[r].job) # {}, "write")

\* Mutant: InvitationService.Create without the status.
GetJobToInviteAny(r) ==
    /\ Reading(r, "invite")
    /\ Check(r, Exists(call[r].job), "write")

\* InvitationService.Create: the job must be published; whether the
\* participant exists and meets the threshold is CandidateMatching's subject.
GetJobToInvite(r) ==
    /\ Reading(r, "invite")
    /\ \E eligible \in BOOLEAN :
           Check(r, jobs[call[r].job] = "published" /\ eligible, "write")

\* Mutant: DetachQuestion without the count.
CountToAttachOnly(r) ==
    /\ pc[r] = "count"
    /\ Check(r, /\ Exists(call[r].job)
                /\ call[r].op = "attach" => InvitationsOf(call[r].job) = {}, "write")

\* AttachQuestion and DetachQuestion of the store count the invitations.
CountInvitations(r) ==
    /\ pc[r] = "count"
    /\ Check(r, Exists(call[r].job) /\ InvitationsOf(call[r].job) = {}, "write")

-----------------------------------------------------------------------------
(* Writes *)

\* UpdateJob, the association's Append and Delete, CreateInvitation: each
\* writes whatever the request has read.  An invitation that exists already
\* violates the unique key.
WriteBoard(r) ==
    /\ pc[r] = "write" /\ call[r].op # "edit"
    /\ LET c == call[r]
       IN  \/ /\ c.op = "publish"
              /\ jobs' = [jobs EXCEPT ![c.job] = "published"]
              /\ UNCHANGED <<links, invited, asked>>
           \/ /\ c.op = "attach"
              /\ links' = links \cup {<<c.job, c.question>>}
              /\ asked' = asked \cup {c.job}
              /\ UNCHANGED <<jobs, invited>>
           \/ /\ c.op = "detach"
              /\ links' = links \ {<<c.job, c.question>>}
              /\ UNCHANGED <<jobs, invited, asked>>
           \/ /\ c.op = "invite"
              /\ invited' = invited \cup {<<c.job, c.participant>>}
              /\ UNCHANGED <<jobs, links, asked>>
    /\ Forget(r)
    /\ UNCHANGED library

\* The transaction of an edit locks the question's row with its first
\* statement and keeps it to the commit.
Locked(q) ==
    \E s \in Requests : pc[s] \in {"delete", "commit"} /\ call[s].question = q

\* Mutant: no row is locked.
UpdateRowUnlocked(r) ==
    /\ pc[r] = "write" /\ call[r].op = "edit"
    /\ Check(r, questions[call[r].question] # Missing, "delete")

\* UPDATE questions ... WHERE id = ?
UpdateRow(r) ==
    /\ pc[r] = "write" /\ call[r].op = "edit"
    /\ ~Locked(call[r].question)
    /\ Check(r, questions[call[r].question] # Missing, "delete")

\* Mutant: the last option is kept.
DeleteOptionsButLast(r) ==
    /\ pc[r] = "delete"
    /\ gone' = [gone EXCEPT ![r] = {o \in options[call[r].question] : o[2] < MaxOptions}]
    /\ Goto(r, "commit")
    /\ UNCHANGED <<board, call>>

\* DELETE FROM question_options WHERE question_id = ?, of the rows committed
\* by then.
DeleteOptions(r) ==
    /\ pc[r] = "delete"
    /\ gone' = [gone EXCEPT ![r] = options[call[r].question]]
    /\ Goto(r, "commit")
    /\ UNCHANGED <<board, call>>

\* The new options are inserted and the transaction commits.
CommitEdit(r) ==
    /\ pc[r] = "commit"
    /\ LET q == call[r].question
           form == call[r].form
       IN  /\ questions' = [questions EXCEPT ![q] = StoredRow(form)]
           /\ options' = [options EXCEPT ![q] = (@ \ gone[r]) \cup StoredOptions(form)]
    /\ Forget(r)
    /\ UNCHANGED <<jobs, links, deprecated, invited, asked>>

\* A statement or the commit fails, the context ends, or the process dies.
Abandon(r) ==
    /\ pc[r] # "idle"
    /\ Forget(r)
    /\ UNCHANGED board

-----------------------------------------------------------------------------
(* Requests of a single statement *)

CreateJob(j) ==
    /\ ~Exists(j)
    /\ jobs' = [jobs EXCEPT ![j] = "draft"]
    /\ UNCHANGED <<links, library, invited, asked, pc, call, gone>>

\* JobService.Update with any other status looks at nothing.
UpdateJob(j, status) ==
    /\ Exists(j)
    /\ jobs' = [jobs EXCEPT ![j] = status]
    /\ UNCHANGED <<links, library, invited, asked, pc, call, gone>>

CreateQuestion(q, form) ==
    /\ questions[q] = Missing
    /\ Acceptable(form)
    /\ questions' = [questions EXCEPT ![q] = StoredRow(form)]
    /\ options' = [options EXCEPT ![q] = StoredOptions(form)]
    /\ UNCHANGED <<jobs, links, deprecated, invited, asked, pc, call, gone>>

SetQuestionDeprecated(q, mark) ==
    /\ questions[q] # Missing
    /\ ~Locked(q)
    /\ deprecated' = [deprecated EXCEPT ![q] = mark]
    /\ UNCHANGED <<jobs, links, questions, options, invited, asked, pc, call, gone>>

-----------------------------------------------------------------------------
(* Specification *)

Init ==
    /\ jobs = [j \in Jobs |-> "absent"]
    /\ links = {}
    /\ questions = [q \in Questions |-> Missing]
    /\ options = [q \in Questions |-> {}]
    /\ deprecated = [q \in Questions |-> FALSE]
    /\ invited = {}
    /\ asked = {}
    /\ pc = [r \in Requests |-> "idle"]
    /\ call = [r \in Requests |-> NoCall]
    /\ gone = [r \in Requests |-> {}]

Run(r) ==
    \/ GetQuestion(r) \/ GetJobToPublish(r) \/ GetJobToInvite(r)
    \/ CountInvitations(r) \/ WriteBoard(r)
    \/ UpdateRow(r) \/ DeleteOptions(r) \/ CommitEdit(r)

Next ==
    \/ \E r \in Requests : (\E c \in Calls : Receive(r, c)) \/ Run(r) \/ Abandon(r)
    \/ \E j \in Jobs :
           CreateJob(j) \/ \E status \in {"draft", "deprecated"} : UpdateJob(j, status)
    \/ \E q \in Questions :
           \/ \E form \in Inputs : CreateQuestion(q, form)
           \/ \E mark \in BOOLEAN : SetQuestionDeprecated(q, mark)

Spec == Init /\ [][Next]_vars

-----------------------------------------------------------------------------
(* Properties *)

\* Tables and requests hold what the schema and the services allow.
TypeOK ==
    /\ jobs \in [Jobs -> JobStatuses \cup {"absent"}]
    /\ links \subseteq Jobs \X Questions
    /\ questions \in [Questions -> Rows \cup {Missing}]
    /\ options \in [Questions -> SUBSET AllOptionRows]
    /\ deprecated \in [Questions -> BOOLEAN]
    /\ invited \subseteq Jobs \X Participants
    /\ asked \subseteq Jobs
    /\ pc \in [Requests -> Steps]
    /\ call \in [Requests -> Calls \cup {NoCall}]
    /\ gone \in [Requests -> SUBSET AllOptionRows]

\* No job is published or offered to anybody before it was given a question,
\* though the service counts the questions in a read that is over when it
\* publishes (services.go:168-176).
OfferedWereAsked ==
    \A j \in Jobs :
        (jobs[j] = "published" \/ InvitationsOf(j) # {}) => j \in asked

\* The requests that have counted the invitations to a job and are about to
\* write its links; that have found a question unmarked and attach it; that
\* have found a job published and invite to it.
Relinking(j) ==
    {r \in Requests : /\ pc[r] = "write" /\ call[r].op \in {"attach", "detach"}
                      /\ call[r].job = j}

Attaching(q) ==
    {r \in Requests : /\ pc[r] \in {"count", "write"} /\ call[r].op = "attach"
                      /\ call[r].question = q}

Inviting(j) ==
    {r \in Requests : /\ pc[r] = "write" /\ call[r].op = "invite"
                      /\ call[r].job = j}

\* The questions of an invited job do not change (store.go:268, 284): a
\* request that has counted too early may still do it, but once those are
\* over there are no others, and the questions stay for good.
InvitedJobsSettle ==
    [][\A j \in Jobs :
           InvitationsOf(j) # {} /\ Relinking(j) = {} =>
               /\ InvitationsOf(j)' # {} /\ Relinking(j)' = {}
               /\ QuestionsOf(j)' = QuestionsOf(j)]_vars

\* A deprecated question is not newly attached (services.go:194): only a
\* request that has read the question before may do it, and none joins
\* while the question is deprecated.
DeprecatedQuestionsSettle ==
    [][\A q \in Questions :
           deprecated[q] /\ deprecated'[q] /\ Attaching(q) = {} =>
               /\ Attaching(q)' = {}
               /\ \A j \in Jobs : <<j, q>> \in links' => <<j, q>> \in links]_vars

\* Only published jobs are offered (services.go:460): a withdrawn job is
\* offered by a request that has read it before, and by no later one.
WithdrawnJobsSettle ==
    [][\A j \in Jobs :
           jobs[j] # "published" /\ jobs'[j] # "published" /\ Inviting(j) = {} =>
               /\ Inviting(j)' = {}
               /\ InvitationsOf(j)' = InvitationsOf(j)]_vars

-----------------------------------------------------------------------------
(* The inductive invariant *)

Editing == {"delete", "commit"}

\* A request runs the operation it was sent.
CallOK(r) ==
    /\ pc[r] # "idle" => call[r] \in Calls
    /\ pc[r] = "read" => call[r].op \in {"attach", "publish", "invite"}
    /\ pc[r] = "count" => call[r].op \in {"attach", "detach"}
    /\ pc[r] \in Editing => call[r].op = "edit"

\* An open edit has its question to itself, and the options it has deleted
\* are all there are.
EditOK(r) ==
    pc[r] \in Editing =>
        LET q == call[r].question
        IN  /\ questions[q] # Missing
            /\ \A s \in Requests \ {r} : pc[s] \in Editing => call[s].question # q
            /\ pc[r] = "commit" => gone[r] = options[q]

\* A job with questions, published or offered, or about to be, was asked.
AskedOK ==
    /\ \A l \in links : l[1] \in asked
    /\ \A j \in Jobs : jobs[j] = "published" => j \in asked
    /\ \A i \in invited : i[1] \in asked
    /\ \A r \in Requests :
           (pc[r] = "write" /\ call[r].op \in {"publish", "invite"}) => call[r].job \in asked

\* What every step preserves: with it the last write of an edit is the whole
\* of it (store.go:214-246), and a publication stays justified by the
\* questions its request has read (services.go:168-176).
IInv ==
    /\ TypeOK
    /\ AskedOK
    /\ \A r \in Requests : CallOK(r) /\ EditOK(r)

-----------------------------------------------------------------------------
(* The library as QuestionLibrary sees it *)

Content(type, text, n) ==
    [row |-> [type |-> type, text |-> text, reference |-> type \in WrittenTypes,
              snippet |-> type = "code_review"],
     options |-> OptionRows(text, n)]

\* The whole contents of valid questions: choices have two options or more
\* of one and the same edit, the others a reference answer, reviews code.
Contents ==
    {Content(type, text, n) : type \in ChoiceTypes, text \in Texts, n \in 2..MaxOptions}
    \cup {Content(type, text, 0) : type \in WrittenTypes, text \in Texts}

ContentOf(q) ==
    IF questions[q] = Missing THEN Missing
    ELSE [row |-> questions[q], options |-> options[q]]

Library == INSTANCE QuestionLibrary WITH content <- [q \in Questions |-> ContentOf(q)]

\* Edits of three statements, of several interviewers at once, look like
\* one: no reader of committed rows finds one edit's row with another's options.
ImplementsLibrary == Library!Spec
=============================================================================
