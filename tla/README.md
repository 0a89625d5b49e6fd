# Go Guess in TLA+

A verification development of the Go Guess server and of the parts of its
frontend on which correctness depends: modules that model the code, TLC
configurations that check them on small instances, and proofs checked by TLAPS.
Paths below are relative to the repository.

Go Guess lets interviewers publish jobs with questions, invite matching
participants to a timed assessment, grade it, and hold the interview that
follows, with a shared document and private notes that all pages see live.

## 1. The system

### Components

| Component | State | Operations | Module |
|---|---|---|---|
| Assessment invitations (`service/services.go` 455-584, `repository/store.go` 389-482) | tables `job_postings`, `invitations`, `invitation_answers`; the locals of requests in flight | Create, Accept, SaveAnswer, Finish, SetOutcome; JobService.Update | `Assessment`, abstractly `InvitationLifecycle` |
| Tenant transactions (`web/middleware/TenantSchemaMiddleware.go`) | one open transaction per request | begin, commit or roll back around the handler | `TenantTx` of `Assessment` and `InterviewSession`, `schema` of `CandidateMatching` |
| Scheduled interviews (`service/interviews.go` 78-273) | `scheduled_interviews`, `interview_attendees`, `interview_notes` | Create, UpdateStatus, UpdateDocument, CreateNote, UpdateInbox | `InterviewSession` |
| Live meeting streams (`interviews.go` 281-341, `handler.go` 550-605, `client.ts` 165-216) | one subscription per open page | subscribe, snapshot, filter, write, reconnect | `LiveMeeting` |
| Event bus (`eventbus/amqp.go`) | one mutex, subscribers, connection, dispatcher goroutines | publish, subscribe, dispatch, Close | `EventBus` |
| Answer page (`ParticipantInterviewPage.tsx`) | answers, queues of saves, the button that works | type, move, submit | `AnswerPage` |
| Jobs and the question library (`services.go` 105-283, `store.go` 107-293) | `job_postings`, `job_posting_questions`, `questions`, `question_options` | create, publish and withdraw jobs; attach and detach, write, edit and deprecate questions | `JobBoard`, abstractly `QuestionLibrary` |
| Participants and matching (`services.go` 284-439, `store.go` 295-374, 656-681) | `participants`, `traits`, `participant_traits`, `job_posting_traits` | create participants, upload CVs, create traits, refresh all participants' traits, candidates above the threshold | `CandidateMatching` |
| In-memory bus | subscribers | as the event bus | not modelled: tests only |
| Router, handlers, persistence mapping | none of their own | decode a request, copy fields | the requests and rows of the modules |
| CV text extraction, authentication, OpenAPI, database connection, configuration, deployment, interviewer pages | none shared between requests, or none at run time | | not modelled |

### How they interact

A browser calls the API; every request is a goroutine. Handlers call services,
services call the store, and **requests meet in PostgreSQL only**. With a tenant,
the middleware wraps the request in one READ COMMITTED transaction, begun before
the handler and committed after the handler has written its response; without
one, every statement commits on its own. The services of an interview publish an
event after the write, hence with a tenant before the commit. The bus gives it to
RabbitMQ and waits for the confirmation; a fanout exchange copies it to the queue
of every API instance, whose dispatcher goroutine distributes it to the open
event streams, which filter by interview and, for candidates, by type. Pages
reconnect one second after a stream ends.

### What is hard

* A service checks a row it has read and a later statement writes. Some of the
  statements repeat the check in their WHERE clause or under FOR UPDATE
  (acceptance, submission, notes), some do not (answers, outcome, status,
  document, scheduling, invitation).
* Row locks, and the unique keys of rows just inserted, are kept to the end of a
  tenant's request, publications included.
* A refresh reads the rows of all participants and writes every one of them back, in a
  loop of statements, while CVs are uploaded.
* An edit of a question is a transaction of three statements on two tables.
* A response is written before the commit, whose error is dropped.
* Row, event and snapshot of a document travel on three ways.
* One mutex of the bus is held while the broker is awaited and while it is
  reconnected; three goroutines may end one subscription.
* A page saves on every change while its buttons wait.

The hazards are listed line by line in `PROJECT.json`, with the property that
would catch each or the reason why none does.

### What makes each component correct

* *Invitations*: handed out, accepted, submitted once, in that order; graded only
  after submission; the deadline never moves after acceptance; answers gated by
  acceptance and by the deadline, and at rest after submission; what is acknowledged is
  stored.
* *Jobs and questions*: only jobs that were given a question are published and offered;
  the questions of an invited job stay; withdrawn jobs are not offered and deprecated
  questions not attached, but for what was checked before; a question is always one
  edit's whole.
* *Matching*: who has 60% of the job's terms in the CV is found, and nobody else but those whose
  CV is replaced in the middle of the search and who have 60% in the old and the new one together;
  a refresh misses no known trait; an uploaded CV stays; requests wait for each other in a circle
  only when they insert traits or have listed namesakes in opposite orders.
* *Interviews*: only attendees change them; notes are written only while started;
  completed and cancelled are final; both settle once concurrent requests are over.
* *Streams*: a page that is connected and has shown all it got shows what is
  stored; nobody sees what is not theirs, or was never stored.
* *Bus*: no channel is closed twice or sent to afterwards; a subscriber gets every
  event or is closed; a closed bus stays closed; nothing keeps the mutex.
* *Answer page*: the last text stays stored; what is submitted is what was typed.

## 2. Modules

| Module | Role |
|---|---|
| `InvitationLifecycle` | abstract specification of an invitation |
| `Assessment` | requests on invitations, statement by statement; implements it |
| `AssessmentProofs` | theorems about `Assessment` |
| `QuestionLibrary` | abstract specification of the library: questions with whole contents |
| `JobBoard` | requests on jobs, links, questions and invitations; implements it |
| `JobBoardProofs` | theorems about `JobBoard` |
| `CandidateMatching` | requests on traits, jobs and participants, statement by statement |
| `CandidateMatchingProofs` | theorems about `CandidateMatching` |
| `InterviewSession` | requests on scheduled interviews |
| `InterviewSessionProofs` | theorems about `InterviewSession` |
| `LiveMeeting` | extends `InterviewSession` by broker, streams and viewers |
| `LiveMeetingProofs` | theorems about `LiveMeeting`, on top of `InterviewSessionProofs` |
| `EventBus` | the inside of one instance's bus, which `LiveMeeting` abstracts |
| `EventBusProofs` | theorems about `EventBus` |
| `AnswerPage` | the participant's page, with the server as two steps per save |
| `AnswerPageProofs` | theorems about `AnswerPage` |
| `MCAssessment`, `MCJobBoard`, `MCCandidateMatching`, `MCInterviewSession`, `MCLiveMeeting` | instances, symmetry and starting states for TLC |

The modules of the server share a way of modelling: a request is a record in `call[r]`, `pc[r]`
is the next of its statements, its locals are variables indexed by `r`, and each statement,
or the code between two of them, is one action. `Abandon` ends a request anywhere.

### Assessment

`jobs`, `invitations` and `answers` are the committed tables; `pc`, `call`, `saw`,
`sawJob`, `stamp` and `result` are, per request, the statement it is at, its route
and arguments, the rows it has read, the instant it took from `s.now()`, and what
it answers. A request goes

    idle -> read -> preload -> check -> write -> (commit ->) reply -> idle

where `read` and `preload` are the two queries of `Store.GetInterview` that matter,
`check` is the code of the service on what was read, `write` the one writing
statement with its WHERE clause (`Matches`), evaluated on the committed row once
the row lock is free (`Locked`), and `commit` exists with `TenantTx` only. In that
mode an open transaction's effect (`Store`) is applied when it commits: since it
holds the row's lock and nobody reads uncommitted rows, the others see the same,
and a request that reads its own write back does not decide anything with it.
`Abandon` covers a failing statement, the two-minute timeout and a crash.
`CommitLost` is the dropped commit error.

*Abstracted*: questions are attached to all jobs alike and stay (their changes
belong to `JobBoard`); whether a candidate meets the threshold is a free choice (it
is decided in `CandidateMatching`); answers are compared for equality only, so that trimming is left out here (it is
modelled in `AnswerPage`).

`InvitationLifecycle` has stage, deadline and verdict only. The mapping
(`Lifecycle` at the end of `Assessment`) takes the status for the stage, acceptance
plus duration for the deadline, the outcome for the verdict.

`AnswersSettle` is what remains of "answers stop at the submission": `SaveInterviewAnswer`
looks at the status in a read of its own, so a save that passed its check may store an answer
after a `Finish`; the property says that nobody else can, and that such saves run out.

### JobBoard and QuestionLibrary

`jobs` (status or "absent"), `links`, `questions`, `options`, `deprecated` and `invited` are the
tables. `JobService.AttachQuestion` goes `read` (GetQuestion, the mark), `count` (the store counts
the job's invitations), `write`; detaching starts at `count`; publishing is `read` (GetJob with its
questions), `write`; `InvitationService.Create` is `read` (the status), `write`. `WriteBoard` is the
writing statement, which looks at nothing again. Requests of a single statement (`CreateJob`,
`UpdateJob` to another status, `CreateQuestion`, `SetQuestionDeprecated`) are single actions.
`Store.UpdateQuestion` is a transaction with or without a tenant: `UpdateRow` takes the lock of the
question's row, `DeleteOptions` removes the options committed by then (`gone`), `CommitEdit` makes
row and new options visible at once. `Acceptable`, `StoredRow` and `StoredOptions` are
`validateQuestion`. The other requests' writes take effect where they become visible, at the
statement without a tenant and at the commit with one: nothing in between reads them, so one
model covers both. `asked` is a history variable: the jobs that have had a question.

`QuestionLibrary` has one `content` per question, replaced whole by `Edit`. The mapping pairs the
row with its option rows, which carry the text of the edit that inserted them: a mixture of two
edits is no content.

*Abstracted*: the text of an option beyond the edit it is from; the order of questions; titles and
descriptions. Duration and traits of a job are `Assessment`'s and `CandidateMatching`'s.

### CandidateMatching

`schema` says whose tables these are: with "tenant" a request has one transaction (`own[r]` holds
its uncommitted traits and participants, which only it sees, `VisibleTraits` and `VisibleProfile`),
with "public" every statement commits. The steps of the requests:

    createJob   resolve <-> insert ... , InsertJob, list, allTraits, rewrite ..., commit
    updateJob   read, list, allTraits, rewrite ..., commit
    create      allTraits, store, commit
    upload      read, allTraits, store, commit
    invite      read, list, preload, match, commit

`FindTrait` and `InsertTrait` are the SELECT and INSERT of `FirstOrCreate` in `resolveTraits`, for each
name in the order given; `ListParticipants` and `PreloadTraits` the two SELECTs of
`Store.ListParticipants`; `AllTraits` and `Rewrite` are `refreshParticipantTraits`, a row per step, in
the order in which this request has listed them (`order[r]`); a row is
written whole, with the CV as it was listed. `Orders` is ORDER BY last_name, first_name (`store.go`
297): it respects the names (`NameOf`) and, as only emails are unique, leaves the order of
namesakes to each listing. `AwaitsTrait` and `AwaitsProfile` are PostgreSQL's
waits for a unique key and for a row; `BreakDeadlock` is its detection, which fails one of the
statements. `Extract`, `Required`, `Qualifies` and `Eligible` are the pure functions: a name or a word
of a CV is known by what `normalize` makes of it (`TermOf`), a CV is a set of terms, and the rounded
score is compared in integers. `alone` is a history variable: a refresh since whose begin nobody
else has run.

*Abstracted*: last and first name (one number, in their order) and emails, the words of a CV that are no terms,
the other columns. Invitations are inserted in `Assessment` and `JobBoard`.

### InterviewSession and LiveMeeting

The same way of modelling: `interviews`, `attendees`, `notes`, and requests
`idle -> read -> write -> reread -> publish -> commit`. `CreateInterviewNote` runs a
transaction of its own with SELECT ... FOR UPDATE even without a tenant, so that
`commit` follows `write` for notes in that mode. `passed` is what `Assessment`
decides about the invitation; `Regrade` may change it at any time.

`LiveMeeting` adds `broker` (published, not yet dispatched), and for each viewer the
stream: subscribed, then on once its snapshot was read, with its queue and the
document shown. `AfterDispatch` is the dispatcher: a full channel ends the
subscription, otherwise the filter decides. In the code channel and filter are two
buffers; here one queue stands for both, filtered on arrival, which loses nothing
the viewer can tell apart. The broker is FIFO while a connection lasts; what
happens when it does not is the subject of `EventBus`. Two history variables serve the
properties: `saved`, the documents an interview has had, and `unannounced`, the interviews whose
last publication, if any, did not bring the stored document: the save failed between its write and
its publication (`Unpublished`), or, without a tenant, another save had stored its own document
between this one's read-back and its publication (`Overtaken`). The next save that is published in
order takes the interview off again.

### EventBus

The mutex is held from one step to the next by a publication only (`publisher`);
every other critical section runs without waiting and is one action guarded by
`Free`. `links` counts the connections, `dispatcher[g]` is the goroutine of the g-th,
which may outlive it. Closing a closed channel or sending on one puts `channel[s]`
to "panicked". `owed` is a history variable: what a registered subscriber is to get
as long as the connection lasts. The exchange and its exclusive queues are external.

### AnswerPage

`queue[q]` is the chain of promises of `saveQueues`, whose first member is the
request under way (`request[q]`): sent, checked by the server, stored, or refused.
`button` is what `move` or `finish` awaits: `left` counts the saves that were queued
when the button was pressed and have not ended, since `await` takes the promise at
that moment. A save that fails ends like one that succeeds, for its error is caught
in `updateAnswer`. A request that fails ends its handling by the server too (its
context is cancelled). `shown` is the page that thanks the participant.

*Abstracted*: loading and accepting come before the initial state; a second tab and
a reload are left out; the texts of the completed interview, which the page no
longer displays, are not copied into `answers`.

## 3. Runs

| Run | Shows |
|---|---|
| `assessment_auto` | type invariant, gating, grading, punctuality, deadline, settled answers, refinement without a tenant |
| `assessment_tenant` | the inductive invariant `IInv` and `RequestsEnd` with one transaction per request |
| `board` | the inductive invariant, `OfferedWereAsked`, three settling properties and the refinement of `QuestionLibrary` |
| `matching` | type invariant, complete refreshes, deadlocks by traits or namesakes only, whom a change of CV lets in, settled uploads, in both kinds of schema |
| `session` | notes only while started, changes by attendees only, final statuses and schedules that settle |
| `live` | a quiet viewer is current though saves overlap; streams are private; what is shown was stored |
| `bus` | the five safety and three liveness properties of the bus |
| `answer_page` | last save wins; calm submissions are complete |
| `lost_commit` | violation: acknowledged and not stored |
| `live_early` | violation: with a tenant, a stream opened between event and commit stays behind |
| `bus_starved` | violation: the connection is lost, nobody publishes here, subscribers get nothing |
| `answer_lost` | violation: the page reports answers as submitted that were not stored |

The violations are disagreements between code and what the repository says about
it; `PROJECT.json` quotes the lines. Each counterexample takes a handful of steps.

Where the code checks a row in one statement and writes in another, the obvious property ("no
answer after the submission") is false when two requests overlap. The property stated
instead is the strongest that holds: what was checked too early may take effect, *nothing else*
does, and once such requests are over no others join them, so that what should be final is
final from then on (`AnswersSettle`, `StatusSettles`, `SchedulesSettle`, `InvitedJobsSettle`,
`DeprecatedQuestionsSettle`, `WithdrawnJobsSettle`, `UploadsSettle`). A lost check, a check after the
write, or a request that reads once and writes twice breaks it.

### Behaviour the properties leave room for

These follow from the code and are reached in the models. The documents speak of requests one
at a time: "answers are saved before final submission" and "only passed candidates can be
scheduled" (`.github/copilot-instructions.md` 89, 94), candidates "match at least 60% of a posting's
labels and skills" (`README.md` 5), invitations "can only be generated for
matching participants on published jobs" and deprecated questions "cannot be newly attached"
(`README.md` 279-280). Read as promises about every interleaving, these sentences are not kept:

* a save that was checked before stores an answer after `Finish`, with a tenant even after the
  grade (`store.go` 442);
* without a tenant two saves of one document that overlap may be announced in the other order, so
  that viewers are left with the older text until the next save (`interviews.go` 187-192; found by
  trying to prove `QuietViewersAreCurrent`, which excepts them); with a tenant the row stays locked
  until after the publication;
* two status changes checked against the same row both go through (`interviews.go` 160), and an
  interview is scheduled though the outcome was set back meanwhile (`interviews.go` 84);
* an invitation or a link of a question is inserted just after the job was withdrawn or the question
  deprecated, or a link just after the first invitation (`services.go` 460, 194, `store.go` 265);
* a published job may lose its last question, since `DetachQuestion` (`store.go` 278) looks at
  invitations only, though publishing asks for one (`services.go` 173);
* a participant is let in with the terms of the CV that was read and the traits of the one uploaded
  between the two SELECTs of `Candidates`, although neither CV has 60%: A in the old, B in the new, for a
  job that asks for both (`services.go` 290-305); and from 402 terms on the rounded score admits 59.95%;
* two requests of a tenant that refresh the traits, of which one has listed two namesakes in the one
  order and the other in the other (an update moves the row in the table, and nothing breaks the
  tie), wait for each other's rows, and one of them is failed and not retried (`store.go` 297,
  `services.go` 394);
* a refresh of traits that has listed the participants writes an older CV over an upload
  (`services.go` 397);
* two new jobs that name the same new traits: one of the requests fails, by a unique violation or,
  in opposite orders, by a deadlock, and is not retried (`store.go` 674); without a tenant
  `JobService.Create` may fail after the job is stored (`services.go` 158).

### Bounds

* *Two requests in flight* (`Requests`). Every check-then-write race of this code is
  between the check and the write of one request and one complete other request;
  requests are reused, so any number may run before and after.
* `assessment_*`: *one job, one participant*: rows of different invitations share the job only.
  `assessment_auto` has a question that is not attached next to one that is.
* *Clock 0..1, durations 1 minute*: before, at and after the deadline. The tenant run
  has no clock step, for its questions are locks and order. The proofs cover all values; that a
  job's duration edited after the invitation leaves the invitation alone is shown by them only
  (`FixedDeadline`).
* `board`: one job, one participant, two questions: an invitation and the link of each
  question. Three forms: one with options that are dropped, a choice, and one that is refused;
  two texts, so that a mixture of two edits shows.
* `matching`: two participants of one name, the fewest whose rows can be written in two orders; two jobs
  whose labels name two traits in opposite orders; CVs with the one term, with the other and with both, so
  that with two terms each of the first is 50% and their union 100%; both kinds of schema; ids that were
  given up are used again. The jobs' ids are
  interchangeable. About 1.6 million distinct states. With two terms rounding decides
  nothing: the assumption `ScoreIsRounded` of the MC module compares `Qualifies` with the rounded score
  for up to 450 terms, and the threshold is proved for any number.
* `session`: one interview, two interviewers, two documents: who is an attendee and who
  is not, the old text and the new. It runs without a tenant, where reads, writes and the
  note's own transaction interleave most freely; with one, `live_early` runs the module, and
  the proofs cover both.
* `live`: two interviews under way, of which one is watched by a candidate, with a channel of one
  event and one undelivered event, so that a stream is slow as soon as two events
  arrive. Two requests edit the watched document at the same time; an edit of the other
  interview and a note run alone (`Edits`). It starts with interviews under way and
  runs edits and notes only (`UnderWay`); scheduling and status are the subject of
  `session`, and the proofs cover all of them together.
* `bus`: two subscribers, two events, two connections, channels of one event: full
  channels, one lost connection with its dispatcher still running, and a
  publication that races with Close.
* `answer_page`: two questions, three changes: one save under way with one waiting
  behind it, and another question's.

Symmetry (of requests, users, documents, questions, jobs, participants, where a configuration says so) permutes values
that are compared for equality only; no run that checks liveness uses it.

Deadlock is not checked where the bounded clock, events or changes run out
(`CHECK_DEADLOCK FALSE` in the bus's and the page's configurations); `RequestsEnd`,
`PublicationsEnd` and `DispatchersEnd` say that nobody waits for ever.

### Fairness

Safety, action properties and refinements are checked without any fairness.

* `Assessment!FairSpec`: a handler goroutine is scheduled (weak fairness of `Run`);
  PostgreSQL serves the waiters of a row lock in turn, so a statement whose row
  becomes free again and again is executed (strong fairness of `Write`). Nobody has
  to send a request, and nothing has to fail.
* `EventBus!FairSpec`: a publication goes on or fails, as its context is bounded by
  the request's timeout; dispatchers are scheduled; Go's mutex is starvation-free, so
  those who wait for it get it (strong fairness of `Distribute` and `Unsubscribe`).
  Nobody has to publish, read a stream or close.

## 4. Proofs

Every invariant, action property and refinement of the passing runs is a theorem, for every value
of the constants that satisfies the modules' assumptions: any number of requests, rows, viewers,
subscribers and questions, with and without tenants except where the table says otherwise.

| Module | Theorem | States |
|---|---|---|
| `AssessmentProofs` | `Invariance` | `Spec => []IInv` |
| | `TypeCorrect`, `Grading`, `Timestamps`, `Gating`, `Punctuality` | the type invariant and four safety properties, always |
| | `FixedDeadline`, `SettledAnswers` | `DeadlineIsFixed`, `AnswersSettle`, two action properties |
| | `Acknowledged` | `AcknowledgedIsStored`, without a tenant (with one it is false: run `lost_commit`) |
| | `Refinement` | `ImplementsLifecycle` |
| `JobBoardProofs` | `Invariance`, `TypeCorrect`, `Asking` | `IInv`, its types, `OfferedWereAsked` |
| | `InvitedJobs`, `DeprecatedQuestions`, `WithdrawnJobs` | the three settling properties |
| | `Refinement` | `ImplementsLibrary` |
| `InterviewSessionProofs` | `Invariance`, `TypeCorrect` | `IInv`, `TypeOK` |
| | `Notes`, `Attendance` | `NotesWhileStarted`, `ChangedByAttendees` |
| | `FinalStatuses`, `Schedules` | `StatusSettles`, `SchedulesSettle` |
| `CandidateMatchingProofs` | `Invariance`, `TypeCorrect` | `IInv`, `TypeOK` |
| | `CompleteRefresh`, `Circles` | `AloneRefreshIsComplete`, `OnlyTraitsOrNamesakesDeadlock` |
| | `OnlyTraits` | where names are distinct, requests deadlock on new traits only |
| | `Eligibility`, `Uploads` | `EligibilityFollowsCVs`, `UploadsSettle` |
| `LiveMeetingProofs` | `MeetingInvariance`, `MeetingTypes` | `MInv`, `MeetingTypeOK` |
| | `PrivateStreams` | `StreamsArePrivate` |
| | `ShownSaved`, `ViewersCurrent` | `ShownWasSaved`, `QuietViewersAreCurrent`, without a tenant (with one the latter is false: run `live_early`) |
| `EventBusProofs` | `Invariance`, `TypeCorrect` | `IInv`, `TypeOK` |
| | `NoPanic`, `ClosedStaysClosed`, `SingleConnection` | `RegisteredAreOpen`, `ClosedForGood`, `OneConnection` |
| | `NoneSkipped` | `NothingSkipped` |
| `AnswerPageProofs` | `Invariance`, `TypeCorrect` | `IInv`, `TypeOK` |
| | `LastSave`, `CalmSubmission` | `LastSaveWins`, `CalmSubmissionIsComplete` |

### Assessment

Assumed (`AssessmentConstants`): attached questions are questions, durations are 1 to 480
minutes, the constraint of the service and of the database.

**The argument.** None of the safety properties is inductive: grading, for example,
writes without looking at the row it writes, and is right only because of what the
request read before and because what it read cannot be undone. `IInv` says so:

* `RowOK`: what a row may look like;
* `ReadOK`: a row a request has read is an *earlier version* (`Evolves`) of the row in the
  table: once present always present with the same duration, once accepted always
  accepted at the same instant, once completed always completed;
* `WriteOK`: so what the check established of the earlier version still holds of the
  current one: for a save, that the invitation was accepted and that the instant it
  took is before the deadline; for a grade, that it is completed; for a submission,
  that its instant is not before the acceptance;
* `LockOK`: a transaction that has evaluated its WHERE clause is the only one on its row,
  and the clause still holds when it commits.

The proof has one lemma per action (`ReceiveStep` ... `TickStep`) for requests that change
their locals only, the lemma `StoreEvolves` (every statement of the store lets rows evolve
as `Evolves` says), `StoreStep` (which keeps the other requests' `ReadOK` and `WriteOK` from
it), and `WriteStep` and `CommitStep` on top. The refinement maps `Store` on a row to
the action of `InvitationLifecycle` of the same kind and every other step to a stutter.
`Acknowledged` needs no more: without a tenant only the writing statement itself leads to a success
(`StepReplies`), and a timestamp that is set is never set again (`StampsStay`).

### JobBoard

`AskedOK` is why a job is not published bare although the questions it was published for may be
gone: a request at `write` has *seen* a link, so the job has been asked, and `asked` only grows.
`EditOK` is the refinement's heart: an edit between its first statement and its commit is the only
one on its question, so the options it has deleted are all there are, and what it commits is the
whole content of its form (`StoredFormIsContent`). The settling properties need no further
invariant: `StepMoves` and `StepWrites` say, action by action, who may get to `write` and what is
written there.

### InterviewSession

`RequestOK`: what a request has checked of existence and attendance stays true, for interviews
and attendees are never removed. `LockOK`: an open transaction's WHERE clause still holds and
its row is its own. `AttendedOK`: creators and authors of notes attend. `Notes` follows from
`LockOK` (the note's transaction has locked the interview row FOR UPDATE), `Attendance` from
`RequestOK` and `AttendedOK`; the settling theorems go through the cases of a step.

### CandidateMatching

Assumed (`MatchingConstants`): participants are finitely many, their names comparable; `Absent` is no
row. The invariant has, of every request, `CallOK` (its steps are those
of its operation; only a transaction has uncommitted writes), `ReadOK` (what it has read is still
there), `OwnOK` (what it has written, and that it goes on to later participants only), `ListOK`,
`RowsOK` (no two transactions have written the same participant) and `AloneOK` (the state of an
undisturbed refresh), and of the tables `TablesOK` (traits stored with a CV were found in it).

* `Circles`: in a circle where somebody waits for a participant that s has written, take the last,
  in the order of s, of all participants that anybody of the circle waits for (`LastOfThem`; they are
  finitely many). Who has written that one waits in turn, by `OwnOK` for one that comes later
  in the own order (`WaitsForLater`), and earlier in the order of s; two orders differ on namesakes
  only (`OnlyNamesakesDiffer`). `OnlyTraits` follows: where names are distinct, no two orders differ.
* `Eligibility`: by `TablesOK` the traits read by the second SELECT are all in the CV they are stored
  with then, so that they add no term to the text that is read unless that CV is another one, and
  more terms never lower the score (`MoreTerms`). `Threshold` compares the rounded score with 60%: it is
  exact below 402 terms, and 59.95% from there on.
* `Uploads`: `ActSettles`, one case per action.

### LiveMeeting

Assumed (`LiveConstants`): who watches as an interviewer is a user; channels hold at least one
event. `QuietViewersAreCurrent` speaks of the end, when nothing is under way; what keeps it
true on the way there is where the stored document is *coming from*. `MInv` says so:

* `StreamOK`: the viewer is informed (`Informs`) if the last event of the document with the broker
  brings the stored one (`Says`), or the broker has none (`Silent`) and the last one in the
  stream's queue brings it, or neither has any and it is what is shown. This is claimed of
  registered streams of interviews that are `Settled`: not `unannounced`, and no save between its
  write and its publication;
* `BrokerOK`: of a settled interview the broker says the stored document or nothing; that is what
  makes a snapshot right whatever is still under way when it is read;
* `PublicationOK`: what a request is about to publish is an event of its own interview, and brings a
  document if it edits one; `RowsOK`, `EventOK`: stored documents and published ones were saved.

Sequences have lemmas of their own (`AppendSays`, `TailSays`, `FirstSays`): what a publication, a
dispatch, a viewer or a snapshot does to what a sequence says. On the side of the requests
`RequestSettles` is the core: after a step of a request an interview is settled because the step
announced the stored document, or it was settled before and its document is the same. That the
tables stay in order under all this is `InterviewSessionProofs!NextStep`, since a step of
`LiveMeeting` is one of `InterviewSession` or leaves its variables alone (`RequestsAreSessions`).
With a tenant the claims about documents are dropped, those about types and privacy hold all the
same.

### EventBus

Assumed (`BusConstants`): channels hold at least one event, and there is at least one connection.
`RegisteredAreOpen`, `ClosedForGood`, `OneConnection` and `NothingSkipped` need two facts more:
a publication that holds the mutex finds the bus open, and reconnects only after
the old connection was dropped (`PublisherOK`); nothing is owed without a connection or to who has
not subscribed (`OwedOK`). `ChannelStep` goes through everybody who closes a channel,
`ConnectionStep` through reconnection and Close, `OwedStep` follows an event from the exchange to
the dispatcher's hand and from there to the channels.

### AnswerPage

Assumed (`PageConstants`): there is a question. `QueuesOK` ties a queue to the page: the last save
waiting is what the input holds, and the one that is stored is the first. So when the queue is empty
the last text has been stored (`LastSaveWins`). `CalmOK` is about participants who type only while
no button waits: whatever is queued belongs to the question on display and is awaited by
the button.

### Only model-checked

Liveness (`RequestsEnd`, `PublicationsEnd`, `DispatchersEnd`, `CancelledAreClosed`), which under
fairness is out of the prover's reach, and the violations. `Qualifies` is translated to integers
by hand: `math.Round(m/n*1000)/10` rounds half up, and floating point could decide otherwise only at
a tie, which needs a job with a multiple of 2000 terms.

## 5. Not modelled, and why

* The pool of database connections, which the code leaves without a bound. An event stream of a tenant holds its transaction as long as it
  is open, and a panicking handler leaves its transaction open, because
  `Recoverer` is outside the tenant middleware and nothing is deferred. Both need the
  pool as a component, and a bound that the code does not name.
* Reading text out of PDF and DOCX, password hashing, tokens, single sign-on: computation
  on one request's data.
* `MemoryBus`, which only tests use; `ParticipantService.UpdateTraits`, which no route reaches.
* Decoding, encoding, OpenAPI, the fields that mappers copy, configuration and deployment:
  layout, copying, or read once.
* Lists that only read (inbox, calendar, jobs, questions). Those that are read by two SELECTs may
  show a row with the traits or options of another instant; the one on which something is
  decided, `ListParticipants` in `Candidates`, is in `CandidateMatching`.
* Rendering. Of the interviewer pages only the event stream client is modelled.
* Duplicated events (an event whose confirmation was lost is sent again): the document is
  idempotent; for notes it is the page that would show one twice.
* Order after a reconnection: two dispatchers may run and swap two events. `EventBus`
  reaches those states; no property says otherwise.

## 6. Plan

Done, in this order: `InvitationLifecycle` and `Assessment` with proofs, `InterviewSession`,
`LiveMeeting`, `EventBus`, `AnswerPage`, `QuestionLibrary` and `JobBoard` with proofs, the proofs about
`InterviewSession`, `CandidateMatching` with proofs, the proofs about `EventBus`, `AnswerPage` and
`LiveMeeting`.

Left, in order of weight:

1. The order of events inside the bus: that a subscriber gets them as they were published as long
   as one connection lasts, which is what `LiveMeeting` takes from `EventBus`.
2. An abstract specification of a live document (a viewer shows a sequence of stored
   versions) that `LiveMeeting` implements.
3. The tenant middleware with a pool of connections, once the code bounds it: streams and
   panics.
