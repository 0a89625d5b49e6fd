--------------------------- MODULE CandidateMatching ---------------------------
(***************************************************************************)
(* Which participants match a job.  A job names traits; a trait is known   *)
(* once a job has named it; a participant has a CV and the known traits    *)
(* found in it.  Creating or updating a job refreshes the traits of all    *)
(* participants: their rows are read, and every row is written back whole. *)
(* Uploading a CV and creating a participant find their traits alone, and  *)
(* an invitation is given to participants with 60% of a job's terms.       *)
(*                                                                         *)
(* Requests run statement by statement.  In a tenant's schema each has one *)
(* transaction (TenantSchemaMiddleware): it sees its own writes, the       *)
(* others see them when it commits, and wait for the rows it has written.  *)
(* In the public schema every statement commits on its own.                *)
(***************************************************************************)
EXTENDS Naturals, Sequences, FiniteSets

CONSTANTS Participants,
          NameOf,       \* last and first name, as a number in their order
          Jobs,
          Names,        \* traits as they are stored and compared by the store
          Terms, TermOf,\* what normalize makes of names and of words of a CV
          Cvs,          \* CVs, as the sets of terms in their text
          Labellings,   \* the traits a new job may name, in order
          Schemas,
          Absent,       \* no row
          Requests      \* requests that may be in flight at once

ASSUME MatchingConstants ==
    /\ IsFiniteSet(Participants) /\ NameOf \in [Participants -> Nat]
    /\ TermOf \in [Names -> Terms]
    /\ Cvs \subseteq SUBSET Terms
    /\ Labellings \subseteq Seq(Names)
    /\ Schemas \subseteq {"public", "tenant"}
    /\ \A cv \in Cvs : cv # Absent
    /\ \A place \in [Participants -> 1..Cardinality(Participants)] : place # Absent
    /\ \A names \in SUBSET Names :
           names # Absent /\ \A cv \in Cvs : [cv |-> cv, traits |-> names] # Absent

VARIABLES schema,   \* whose tables these are
          traits,   \* table traits
          jobs,     \* table job_postings: the traits a job names
          profiles, \* table participants, with participant_traits
          pc, call, \* requests in flight
          todo,     \* names still to resolve
          listed,   \* CVs as read, of the participants still to refresh
          order,    \* the order in which they were read
          known,    \* traits as read
          own,      \* uncommitted writes of a transaction
          alone     \* history: a refresh, and nobody else has run since it began

tables == <<schema, traits, jobs, profiles>>
locals == <<call, todo, listed, order, known>>
vars == <<tables, pc, locals, own, alone>>

-----------------------------------------------------------------------------
(* Traits, CVs and the threshold *)

Profiles == [cv : Cvs, traits : SUBSET Names]

NamesOf(labels) == {labels[i] : i \in DOMAIN labels}

\* Mutant: the terms are kept in place of the names.
ExtractWords(cv, names) == {TermOf[n] : n \in names} \cap cv

\* extractTraits: the known traits whose term is in the text.
Extract(cv, names) == {n \in names : TermOf[n] \in cv}

\* uniqueTraits of labels, required and additional skills.
Required(j) == {TermOf[n] : n \in jobs[j]}

\* match.Score >= CandidateThreshold for m of n terms, where the score is
\* math.Round(m/n*1000)/10: the rounded per mille are 600 or more.
Qualifies(m, n) == n > 0 /\ 2000 * m + n >= 1200 * n

\* Candidates: the terms of the stored traits and of the CV count alike.
Eligible(j, cv, names) ==
    LET owned == cv \cup {TermOf[n] : n \in names}
    IN  Qualifies(Cardinality(Required(j) \cap owned), Cardinality(Required(j)))

-----------------------------------------------------------------------------
(* Requests *)

Calls ==
    [op : {"createJob"}, job : Jobs, labels : Labellings]
    \cup [op : {"updateJob"}, job : Jobs]
    \cup [op : {"create", "upload"}, participant : Participants, cv : Cvs]
    \cup [op : {"invite"}, job : Jobs, participant : Participants]

NoCall == [op |-> "none"]

\* ORDER BY last_name, first_name: every place has one participant, and
\* namesakes, whom only their emails tell apart, come in any order.
Orders ==
    {place \in [Participants -> 1..Cardinality(Participants)] :
        \A p, q \in Participants :
            /\ place[p] = place[q] => p = q
            /\ NameOf[p] < NameOf[q] => place[p] < place[q]}

Refreshing == {"createJob", "updateJob"}

Steps == {"idle", "resolve", "insert", "read", "list", "preload", "match",
          "allTraits", "store", "rewrite", "commit", "abort"}

Nobody == [p \in Participants |-> Absent]
Nothing == [traits |-> {}, profiles |-> Nobody]

InTx == schema = "tenant"

\* What a statement of the request sees: committed rows and its own.
VisibleTraits(r) == traits \cup own[r].traits
VisibleProfile(r, p) ==
    IF own[r].profiles[p] # Absent THEN own[r].profiles[p] ELSE profiles[p]

Goto(r, step) == pc' = [pc EXCEPT ![r] = step]

\* The request is over, with its locals and its uncommitted writes.
Forget(r) ==
    /\ Goto(r, "idle")
    /\ call' = [call EXCEPT ![r] = NoCall]
    /\ todo' = [todo EXCEPT ![r] = <<>>]
    /\ listed' = [listed EXCEPT ![r] = Nobody]
    /\ order' = [order EXCEPT ![r] = Absent]
    /\ known' = [known EXCEPT ![r] = {}]
    /\ own' = [own EXCEPT ![r] = Nothing]
    /\ alone' = [alone EXCEPT ![r] = FALSE]

\* A statement fails.  A transaction keeps its locks until it is ended.
Fail(r) ==
    /\ IF InTx THEN Goto(r, "abort") /\ UNCHANGED <<locals, own, alone>> ELSE Forget(r)
    /\ UNCHANGED tables

\* The handler is done.
Finish(r) ==
    IF InTx THEN Goto(r, "commit") /\ UNCHANGED <<locals, own, alone>> ELSE Forget(r)

FirstStep(op) ==
    CASE op = "createJob" -> "resolve"
      [] op = "create" -> "allTraits"
      [] OTHER -> "read"

\* The id of a new job is another than those in use: ids are alike, so one that
\* was given up may return.
NewJob(j) ==
    /\ jobs[j] = Absent
    /\ \A s \in Requests : call[s].op = "createJob" => call[s].job # j

Receive(r, c) ==
    /\ pc[r] = "idle"
    /\ c.op = "createJob" => NewJob(c.job)
    /\ Goto(r, FirstStep(c.op))
    /\ call' = [call EXCEPT ![r] = c]
    /\ todo' = [todo EXCEPT ![r] = IF c.op = "createJob" THEN c.labels ELSE <<>>]
    /\ alone' = [s \in Requests |-> /\ s = r /\ c.op \in Refreshing
                                    /\ \A o \in Requests \ {r} : pc[o] = "idle"]
    /\ UNCHANGED <<tables, listed, order, known, own>>

-----------------------------------------------------------------------------
(* CreateJob: the traits are found or created one by one, then the job *)

\* The SELECT of FirstOrCreate.
FindTrait(r) ==
    /\ pc[r] = "resolve" /\ todo[r] # <<>>
    /\ IF Head(todo[r]) \in VisibleTraits(r)
       THEN todo' = [todo EXCEPT ![r] = Tail(@)] /\ UNCHANGED pc
       ELSE Goto(r, "insert") /\ UNCHANGED todo
    /\ UNCHANGED <<tables, call, listed, order, known, own, alone>>

\* Another transaction has inserted the same unique name, and is open.
AwaitsTrait(r, s) ==
    /\ s # r /\ pc[r] = "insert"
    /\ Head(todo[r]) \in own[s].traits

\* The INSERT of FirstOrCreate.  A name somebody has committed since the
\* SELECT is a unique violation, which fails the request.
InsertTrait(r) ==
    /\ pc[r] = "insert"
    /\ \A s \in Requests : ~AwaitsTrait(r, s)
    /\ IF Head(todo[r]) \in traits THEN Fail(r)
       ELSE /\ IF InTx THEN /\ own' = [own EXCEPT ![r].traits = @ \cup {Head(todo[r])}]
                            /\ UNCHANGED traits
                       ELSE /\ traits' = traits \cup {Head(todo[r])}
                            /\ UNCHANGED own
            /\ todo' = [todo EXCEPT ![r] = Tail(@)]
            /\ Goto(r, "resolve")
            /\ UNCHANGED <<schema, jobs, profiles, call, listed, order, known, alone>>

InsertJob(r) ==
    /\ pc[r] = "resolve" /\ todo[r] = <<>>
    /\ jobs' = IF InTx THEN jobs
               ELSE [jobs EXCEPT ![call[r].job] = NamesOf(call[r].labels)]
    /\ Goto(r, "list")
    /\ UNCHANGED <<schema, traits, profiles, locals, own, alone>>

-----------------------------------------------------------------------------
(* Reads *)

\* GetJob, GetParticipant: what is not there is not found.
ReadArguments(r) ==
    /\ pc[r] = "read"
    /\ LET c == call[r]
       IN  IF /\ c.op \in {"updateJob", "invite"} => jobs[c.job] # Absent
              /\ c.op \in {"upload", "invite"} => profiles[c.participant] # Absent
           THEN /\ Goto(r, IF c.op = "upload" THEN "allTraits" ELSE "list")
                /\ UNCHANGED <<tables, locals, own, alone>>
           ELSE Fail(r)

\* ListParticipants: the rows, CVs included, in an order of their names, which
\* is of no account to an invitation.
ListParticipants(r) ==
    /\ pc[r] = "list"
    /\ listed' = [listed EXCEPT ![r] = [p \in Participants |->
           IF VisibleProfile(r, p) = Absent THEN Absent ELSE VisibleProfile(r, p).cv]]
    /\ IF call[r].op = "invite"
       THEN Goto(r, "preload") /\ UNCHANGED order
       ELSE /\ Goto(r, "allTraits")
            /\ \E place \in Orders : order' = [order EXCEPT ![r] = place]
    /\ UNCHANGED <<tables, call, todo, known, own, alone>>

\* ListParticipants: the SELECT of participant_traits that Preload adds.
PreloadTraits(r) ==
    /\ pc[r] = "preload"
    /\ known' = [known EXCEPT ![r] = profiles[call[r].participant].traits]
    /\ Goto(r, "match")
    /\ UNCHANGED <<tables, call, todo, listed, order, own, alone>>

\* Mutant: the public connection is used, outside the transaction.
AllTraitsCommitted(r) ==
    /\ pc[r] = "allTraits"
    /\ known' = [known EXCEPT ![r] = traits]
    /\ Goto(r, IF call[r].op \in Refreshing THEN "rewrite" ELSE "store")
    /\ UNCHANGED <<tables, call, todo, listed, order, own, alone>>

AllTraits(r) ==
    /\ pc[r] = "allTraits"
    /\ known' = [known EXCEPT ![r] = VisibleTraits(r)]
    /\ Goto(r, IF call[r].op \in Refreshing THEN "rewrite" ELSE "store")
    /\ UNCHANGED <<tables, call, todo, listed, order, own, alone>>

\* InvitationService.Create looks for the participant among the candidates;
\* the invitation it stores is Assessment's and JobBoard's subject.
Match(r) ==
    /\ pc[r] = "match"
    /\ LET c == call[r]
       IN  IF Eligible(c.job, listed[r][c.participant], known[r])
           THEN Finish(r) /\ UNCHANGED tables
           ELSE Fail(r)

-----------------------------------------------------------------------------
(* Writing participants *)

\* Mutant: the refresh after an update begins with the last of the participants.
IsNextReversed(r, p) ==
    \/ pc[r] = "store" /\ p = call[r].participant
    \/ /\ pc[r] = "rewrite" /\ listed[r][p] # Absent
       /\ \A o \in Participants :
              listed[r][o] # Absent => IF call[r].op = "updateJob"
                                       THEN order[r][p] >= order[r][o]
                                       ELSE order[r][p] <= order[r][o]

\* The participant whose row the request is about to write.
IsNext(r, p) ==
    \/ pc[r] = "store" /\ p = call[r].participant
    \/ /\ pc[r] = "rewrite" /\ listed[r][p] # Absent
       /\ \A o \in Participants : listed[r][o] # Absent => order[r][p] <= order[r][o]

AwaitsProfile(r, s) ==
    /\ s # r
    /\ \E p \in Participants : IsNext(r, p) /\ own[s].profiles[p] # Absent

\* Mutant: the traits found are added to those the participant has.
WriteProfileAppends(r, p, cv) ==
    LET old == VisibleProfile(r, p)
        row == [cv |-> cv, traits |-> Extract(cv, known[r]) \cup
                                      (IF old = Absent THEN {} ELSE old.traits)]
    IN  /\ \A s \in Requests : ~AwaitsProfile(r, s)
        /\ IF InTx THEN /\ own' = [own EXCEPT ![r].profiles[p] = row]
                        /\ UNCHANGED profiles
                   ELSE /\ profiles' = [profiles EXCEPT ![p] = row]
                        /\ UNCHANGED own

\* The whole row and the links to its traits, in a transaction of its own or
\* within the tenant's.
WriteProfile(r, p, cv) ==
    LET row == [cv |-> cv, traits |-> Extract(cv, known[r])]
    IN  /\ \A s \in Requests : ~AwaitsProfile(r, s)
        /\ IF InTx THEN /\ own' = [own EXCEPT ![r].profiles[p] = row]
                        /\ UNCHANGED profiles
                   ELSE /\ profiles' = [profiles EXCEPT ![p] = row]
                        /\ UNCHANGED own

\* CreateParticipant, which the unique email may refuse, and the upload.
StoreProfile(r) ==
    /\ pc[r] = "store"
    /\ LET c == call[r]
       IN  IF c.op = "create" /\ profiles[c.participant] # Absent
           THEN (\A s \in Requests : ~AwaitsProfile(r, s)) /\ Fail(r)
           ELSE /\ WriteProfile(r, c.participant, c.cv)
                /\ Goto(r, "rewrite")
                /\ UNCHANGED <<schema, traits, jobs, locals, alone>>

\* Mutant: every row is written with the CV of the last one.
RewriteLast(r) ==
    /\ pc[r] = "rewrite"
    /\ \E p, last \in Participants :
           /\ IsNext(r, p)
           /\ listed[r][last] # Absent
           /\ \A o \in Participants : listed[r][o] # Absent => order[r][o] <= order[r][last]
           /\ WriteProfile(r, p, listed[r][last])
           /\ listed' = [listed EXCEPT ![r][p] = Absent]
    /\ UNCHANGED <<schema, traits, jobs, pc, call, todo, order, known, alone>>

\* One round of refreshParticipantTraits: the row is written as it was read.
Rewrite(r) ==
    /\ pc[r] = "rewrite"
    /\ \E p \in Participants :
           /\ IsNext(r, p)
           /\ WriteProfile(r, p, listed[r][p])
           /\ listed' = [listed EXCEPT ![r][p] = Absent]
    /\ UNCHANGED <<schema, traits, jobs, pc, call, todo, order, known, alone>>

\* Nobody is left to write: the handler answers.
Written(r) ==
    /\ pc[r] = "rewrite" /\ listed[r] = Nobody
    /\ Finish(r)
    /\ UNCHANGED tables

Commit(r) ==
    /\ pc[r] = "commit"
    /\ traits' = VisibleTraits(r)
    /\ profiles' = [p \in Participants |-> VisibleProfile(r, p)]
    /\ jobs' = IF call[r].op = "createJob"
               THEN [jobs EXCEPT ![call[r].job] = NamesOf(call[r].labels)] ELSE jobs
    /\ Forget(r)
    /\ UNCHANGED schema

\* The commit of a transaction in which a statement has failed.
Rollback(r) ==
    /\ pc[r] = "abort"
    /\ Forget(r)
    /\ UNCHANGED tables

\* The context ends, the connection is lost, or the process dies.
Abandon(r) ==
    /\ pc[r] # "idle"
    /\ Forget(r)
    /\ UNCHANGED tables

-----------------------------------------------------------------------------
(* Waiting *)

Awaits(r, s) == AwaitsTrait(r, s) \/ AwaitsProfile(r, s)

\* Requests that wait for each other, directly or through others.
Deadlocked(group) ==
    group # {} /\ \A r \in group : \E s \in group : Awaits(r, s)

\* PostgreSQL finds the cycle and fails one of the statements.
BreakDeadlock ==
    \E group \in SUBSET Requests :
        Deadlocked(group) /\ \E victim \in group : Fail(victim)

-----------------------------------------------------------------------------
(* Specification *)

Init ==
    /\ schema \in Schemas
    /\ traits = {}
    /\ jobs = [j \in Jobs |-> Absent]
    /\ profiles = Nobody
    /\ pc = [r \in Requests |-> "idle"]
    /\ call = [r \in Requests |-> NoCall]
    /\ todo = [r \in Requests |-> <<>>]
    /\ listed = [r \in Requests |-> Nobody]
    /\ order = [r \in Requests |-> Absent]
    /\ known = [r \in Requests |-> {}]
    /\ own = [r \in Requests |-> Nothing]
    /\ alone = [r \in Requests |-> FALSE]

Run(r) ==
    \/ FindTrait(r) \/ InsertTrait(r) \/ InsertJob(r)
    \/ ReadArguments(r) \/ ListParticipants(r) \/ PreloadTraits(r) \/ AllTraits(r)
    \/ Match(r)
    \/ StoreProfile(r) \/ Rewrite(r) \/ Written(r)
    \/ Commit(r) \/ Rollback(r)

Next ==
    \/ \E r \in Requests :
           \/ \E c \in Calls : Receive(r, c)
           \/ Run(r) \/ Abandon(r)
    \/ BreakDeadlock

Spec == Init /\ [][Next]_vars

-----------------------------------------------------------------------------
(* Properties *)

\* Tables and requests hold what the schema and the services allow, and
\* every trait of a job or a participant is in the table of traits.
TypeOK ==
    /\ schema \in Schemas
    /\ traits \subseteq Names
    /\ jobs \in [Jobs -> (SUBSET traits) \cup {Absent}]
    /\ profiles \in [Participants -> [cv : Cvs, traits : SUBSET traits] \cup {Absent}]
    /\ pc \in [Requests -> Steps]
    /\ call \in [Requests -> Calls \cup {NoCall}]
    /\ todo \in [Requests -> Seq(Names)]
    /\ listed \in [Requests -> [Participants -> Cvs \cup {Absent}]]
    /\ order \in [Requests -> Orders \cup {Absent}]
    /\ known \in [Requests -> SUBSET Names]
    /\ own \in [Requests -> [traits : SUBSET Names,
                             profiles : [Participants -> Profiles \cup {Absent}]]]
    /\ alone \in [Requests -> BOOLEAN]

\* At least 60% of the job's labels and skills.  From 402 of them on, the score
\* rounded to a tenth of a per cent also lets in who has 59.95%.
AtLeastSixty(j, terms) ==
    LET required == Cardinality(Required(j))
        matched == Cardinality(Required(j) \cap terms)
    IN  /\ required > 0
        /\ 2000 * matched >= 1199 * required
        /\ required < 402 => 5 * matched >= 3 * required

\* Whoever has 60% of the job's terms in the CV that was read matches.  Whoever
\* matches has them there too, unless another CV has replaced that one between
\* the two SELECTs: then the traits of the new CV count together with the
\* terms of the old (services.go:288-305), and 60% may be in neither of the two,
\* but are in both together.  Stored traits that lag behind let nobody in.
EligibilityFollowsCVs ==
    [][\A r \in Requests :
           (pc[r] = "preload" /\ pc'[r] = "match") =>
               LET c == call[r]
                   read == listed[r][c.participant]
                   latest == profiles[c.participant].cv
                   eligible == Eligible(c.job, read, known'[r])
               IN  /\ AtLeastSixty(c.job, read) => eligible
                   /\ eligible => \/ AtLeastSixty(c.job, read)
                                  \/ /\ latest # read
                                     /\ AtLeastSixty(c.job, read \cup latest)]_vars

\* A refresh that has run alone leaves no participant without a trait of the
\* CV, whatever stale traits it has found (services.go:385-405), and its own
\* transaction's new traits count.
AloneRefreshIsComplete ==
    \A r \in Requests :
        (alone[r] /\ pc[r] \in {"rewrite", "commit"} /\ listed[r] = Nobody) =>
            \A p \in Participants :
                LET row == VisibleProfile(r, p)
                IN  row # Absent => row.traits = Extract(row.cv, VisibleTraits(r))

\* Two requests have listed a pair of namesakes, the one first and the other.
OppositeNamesakes(r, s) ==
    \E p, q \in Participants :
        /\ p # q /\ NameOf[p] = NameOf[q]
        /\ order[r] # Absent /\ order[s] # Absent
        /\ order[r][p] < order[r][q] /\ order[s][q] < order[s][p]

\* Requests that wait for each other in a circle all create traits, or two of
\* them have listed namesakes in opposite orders, which ORDER BY last_name,
\* first_name leaves open (store.go:297).  Uploads never close a circle, nor do
\* refreshes that go through the participants in the same order.
OnlyTraitsOrNamesakesDeadlock ==
    \A group \in SUBSET Requests :
        Deadlocked(group) =>
            \/ \A r \in group : pc[r] = "insert"
            \/ \E r, s \in group : OppositeNamesakes(r, s)

\* The refreshes that will write, or have written and not committed, another
\* CV of a participant than the one that is stored.
HoldingAnother(p) ==
    {r \in Requests :
        /\ call[r].op \in Refreshing
        /\ \/ listed[r][p] \notin {Absent, profiles[p].cv}
           \/ own[r].profiles[p] # Absent /\ own[r].profiles[p].cv # profiles[p].cv}

\* An uploaded CV stays until the next upload, unless a refresh had read the
\* participants before it was stored: that one writes the older CV back with
\* the traits (services.go:386-402).  Refreshes that read later never do.
UploadsSettle ==
    [][\A p \in Participants :
           profiles[p] # Absent /\ HoldingAnother(p) = {} =>
               \/ profiles'[p].cv = profiles[p].cv /\ HoldingAnother(p)' = {}
               \/ \E r \in Requests :
                      /\ call[r].op = "upload" /\ call[r].participant = p
                      /\ call[r].cv = profiles'[p].cv /\ pc'[r] # pc[r]]_vars
=============================================================================
