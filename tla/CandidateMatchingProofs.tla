------------------------ MODULE CandidateMatchingProofs ------------------------
(* What CandidateMatching.tla promises, in the public and in tenants'        *)
(* schemas, for any number of participants, jobs, traits and requests.       *)
EXTENDS CandidateMatching, FiniteSetTheorems, WellFoundedInduction, TLAPS

-----------------------------------------------------------------------------
(* The inductive invariant *)

\* The steps in which a request may be, by what it was sent to do.
StepsOf(op) ==
    CASE op = "createJob" -> {"resolve", "insert", "list", "allTraits", "rewrite", "commit", "abort"}
      [] op = "updateJob" -> {"read", "list", "allTraits", "rewrite", "commit", "abort"}
      [] op = "create" -> {"allTraits", "store", "rewrite", "commit", "abort"}
      [] op = "upload" -> {"read", "allTraits", "store", "rewrite", "commit", "abort"}
      [] op = "invite" -> {"read", "list", "preload", "match", "commit", "abort"}

Idle(r) ==
    /\ pc[r] = "idle" /\ call[r] = NoCall /\ todo[r] = <<>>
    /\ listed[r] = Nobody /\ order[r] = Absent /\ known[r] = {}
    /\ own[r] = Nothing /\ ~alone[r]

\* A request runs the operation it was sent; only a transaction has writes
\* of its own, and only it is committed.
CallOK(r) ==
    \/ Idle(r)
    \/ /\ call[r] \in Calls /\ pc[r] \in StepsOf(call[r].op)
       /\ pc[r] = "insert" => todo[r] # <<>>
       /\ pc[r] \in {"commit", "abort"} => InTx
       /\ ~InTx => own[r] = Nothing

\* What a request has read is there: the traits it knows and writes, those
\* its new job names, the job and the participant of an invitation.
ReadOK(r) ==
    /\ known[r] \subseteq VisibleTraits(r)
    /\ call[r].op = "createJob" =>
           /\ NamesOf(call[r].labels) \subseteq NamesOf(todo[r]) \cup VisibleTraits(r)
           /\ pc[r] \notin {"resolve", "insert", "abort"} => todo[r] = <<>>
    /\ call[r].op = "invite" =>
           /\ pc[r] \in {"list", "preload", "match"} =>
                  jobs[call[r].job] # Absent /\ profiles[call[r].participant] # Absent
           /\ pc[r] \in {"preload", "match"} => listed[r][call[r].participant] # Absent

\* Traits are stored with the CV in which they were found.
Found(row) == \A n \in row.traits : TermOf[n] \in row.cv

\* The participants a request has written: only at the end, in order, each
\* with known traits; one by an upload or a creation, which is of a new one.
OwnOK(r) ==
    \A p \in Participants : own[r].profiles[p] # Absent =>
        /\ own[r].profiles[p].traits \subseteq VisibleTraits(r) /\ Found(own[r].profiles[p])
        /\ pc[r] \in {"rewrite", "commit", "abort"} /\ call[r].op # "invite"
        /\ pc[r] = "rewrite" => \A o \in Participants :
               listed[r][o] # Absent => order[r][p] < order[r][o]
        /\ call[r].op \in {"create", "upload"} =>
               p = call[r].participant /\ own[r].profiles[p].cv = call[r].cv
        /\ call[r].op = "create" => profiles[p] = Absent

\* Only a refresh and an invitation list participants, a refresh in an order.
ListOK(r) ==
    /\ call[r].op \in {"create", "upload"} => listed[r] = Nobody
    /\ call[r].op \in Refreshing /\ pc[r] \in {"allTraits", "rewrite", "commit"} =>
           order[r] \in Orders

\* Two transactions never write the same participant.
RowsOK(r) ==
    \A s \in Requests \ {r}, p \in Participants :
        own[r].profiles[p] = Absent \/ own[s].profiles[p] = Absent

\* The state of a refresh that nobody has disturbed.
AloneOK(r) ==
    alone[r] =>
        /\ call[r].op \in Refreshing
        /\ \A s \in Requests \ {r} : pc[s] = "idle"
        /\ pc[r] = "allTraits" => \A p \in Participants :
               listed[r][p] = IF VisibleProfile(r, p) = Absent THEN Absent
                              ELSE VisibleProfile(r, p).cv
        /\ pc[r] \in {"rewrite", "commit"} =>
               /\ known[r] = VisibleTraits(r)
               /\ \A p \in Participants :
                      IF listed[r][p] # Absent
                      THEN VisibleProfile(r, p) # Absent /\ VisibleProfile(r, p).cv = listed[r][p]
                      ELSE VisibleProfile(r, p) # Absent =>
                               VisibleProfile(r, p).traits = Extract(VisibleProfile(r, p).cv, known[r])

RequestOK(r) ==
    CallOK(r) /\ ReadOK(r) /\ OwnOK(r) /\ ListOK(r) /\ RowsOK(r) /\ AloneOK(r)

\* Jobs name the traits of a labelling, participants have traits of their CV.
TablesOK ==
    /\ \A j \in Jobs : jobs[j] # Absent => \E labels \in Labellings : jobs[j] = NamesOf(labels)
    /\ \A p \in Participants : profiles[p] # Absent => Found(profiles[p])

IInv ==
    /\ TypeOK
    /\ TablesOK
    /\ \A r \in Requests : RequestOK(r)

-----------------------------------------------------------------------------
(* Calls, rows and sequences *)

LEMMA CallFields ==
    ASSUME NEW c \in Calls
    PROVE  /\ c.op \in {"createJob", "updateJob", "create", "upload", "invite"}
           /\ c.op \in {"createJob", "updateJob", "invite"} => c.job \in Jobs
           /\ c.op = "createJob" => c.labels \in Labellings
           /\ c.op \in {"create", "upload"} => c.cv \in Cvs
           /\ c.op \in {"create", "upload", "invite"} => c.participant \in Participants
BY DEF Calls

\* A request that is under way runs one of the calls.
LEMMA UnderWay ==
    ASSUME IInv, NEW r \in Requests, pc[r] # "idle"
    PROVE  call[r] \in Calls /\ pc[r] \in StepsOf(call[r].op) /\ RequestOK(r)
BY DEF IInv, RequestOK, CallOK, Idle

LEMMA StepsAreSteps ==
    ASSUME NEW c \in Calls
    PROVE  StepsOf(c.op) \subseteq Steps \ {"idle"}
BY CallFields DEF StepsOf, Steps

LEMMA AbsentIsNone ==
    /\ Absent \notin Cvs
    /\ Absent \notin SUBSET Names
    /\ Absent \notin Profiles
<1>1. \A row \in Profiles : row = [cv |-> row.cv, traits |-> row.traits]
                            /\ row.cv \in Cvs /\ row.traits \in SUBSET Names
  BY DEF Profiles
<1> QED BY <1>1, MatchingConstants

\* In an order every participant has a place of its own, and comes before those
\* whose names come later.
LEMMA OrdersAreStrict ==
    ASSUME NEW place \in Orders, NEW p \in Participants, NEW q \in Participants
    PROVE  /\ place[p] \in Nat /\ place[p] \in 1..Cardinality(Participants)
           /\ p # q /\ place[p] <= place[q] => place[p] < place[q]
           /\ place[p] < place[q] => NameOf[p] <= NameOf[q]
<1>1. /\ place[p] \in 1..Cardinality(Participants) /\ place[q] \in 1..Cardinality(Participants)
      /\ place[p] = place[q] => p = q
      /\ NameOf[q] < NameOf[p] => place[q] < place[p]
  BY DEF Orders
<1>2. /\ Cardinality(Participants) \in Nat /\ NameOf[p] \in Nat /\ NameOf[q] \in Nat
  BY MatchingConstants, FS_CardinalityType
<1> QED BY <1>1, <1>2

\* The head of a list and the names of its tail are its names.
LEMMA NamesOfTail ==
    ASSUME NEW labels \in Seq(Names), labels # <<>>
    PROVE  /\ Head(labels) \in Names /\ Tail(labels) \in Seq(Names)
           /\ NamesOf(labels) = {Head(labels)} \cup NamesOf(Tail(labels))
<1>1. /\ Len(labels) \in Nat /\ Len(labels) > 0
      /\ Head(labels) = labels[1] /\ Head(labels) \in Names
      /\ Tail(labels) \in Seq(Names) /\ Len(Tail(labels)) = Len(labels) - 1
      /\ \A i \in 1..Len(labels) - 1 : Tail(labels)[i] = labels[i + 1]
  OBVIOUS
<1>2. DOMAIN labels = 1..Len(labels) /\ DOMAIN Tail(labels) = 1..Len(labels) - 1
  BY <1>1
<1>3. ASSUME NEW n \in NamesOf(labels) PROVE n \in {Head(labels)} \cup NamesOf(Tail(labels))
  <2>1. PICK i \in 1..Len(labels) : n = labels[i]
    BY <1>2 DEF NamesOf
  <2>2. CASE i # 1
    <3>1. i - 1 \in 1..Len(labels) - 1 /\ labels[i] = Tail(labels)[i - 1]
      BY <1>1, <2>2
    <3> QED BY <1>2, <2>1, <3>1 DEF NamesOf
  <2> QED BY <1>1, <2>1, <2>2
<1>4. ASSUME NEW n \in {Head(labels)} \cup NamesOf(Tail(labels)) PROVE n \in NamesOf(labels)
  <2>1. CASE n = Head(labels)
    BY <1>1, <1>2, <2>1 DEF NamesOf
  <2>2. CASE n \in NamesOf(Tail(labels))
    <3>1. PICK i \in 1..Len(labels) - 1 : n = Tail(labels)[i]
      BY <1>2, <2>2 DEF NamesOf
    <3>2. i + 1 \in 1..Len(labels) /\ n = labels[i + 1]
      BY <1>1, <3>1
    <3> QED BY <1>2, <3>2 DEF NamesOf
  <2> QED BY <2>1, <2>2
<1> QED BY <1>1, <1>3, <1>4

LEMMA NamesOfLabels ==
    ASSUME NEW labels \in Seq(Names)
    PROVE  NamesOf(labels) \in SUBSET Names
BY DEF NamesOf

-----------------------------------------------------------------------------
(* Steps of one request *)

\* What every step leaves to the other requests.
LEMMA OthersKeep ==
    ASSUME IInv, NEW r \in Requests, NEW s \in Requests, s # r,
           pc'[s] = pc[s], call'[s] = call[s], todo'[s] = todo[s],
           listed'[s] = listed[s], order'[s] = order[s], known'[s] = known[s],
           \A o \in Requests \ {r} : own'[o] = own[o],
           ~alone'[s],
           schema' = schema, traits \subseteq traits',
           \A j \in Jobs : jobs[j] # Absent => jobs'[j] # Absent,
           \A p \in Participants :
               /\ profiles[p] # Absent => profiles'[p] # Absent
               /\ profiles'[p] # profiles[p] => own[s].profiles[p] = Absent,
           \A p \in Participants :
               own'[r].profiles[p] # Absent => own[s].profiles[p] = Absent
    PROVE  RequestOK(s)'
<1>1. RequestOK(s)
  BY DEF IInv
<1>2. CallOK(s)'
  BY <1>1 DEF RequestOK, CallOK, Idle, InTx
<1>3. ReadOK(s)'
  <2>1. VisibleTraits(s) \subseteq VisibleTraits(s)'
    BY DEF VisibleTraits
  <2>2. ReadOK(s) /\ (call[s].op = "invite" => CallOK(s))
    BY <1>1 DEF RequestOK
  <2>3. (call[s].op = "invite" /\ pc[s] \in {"list", "preload", "match"})
            => call[s].job \in Jobs /\ call[s].participant \in Participants
    BY <2>2, CallFields DEF CallOK, Idle, NoCall
  <2> QED BY <2>1, <2>2, <2>3 DEF ReadOK
<1>4. OwnOK(s)'
  <2>1. VisibleTraits(s) \subseteq VisibleTraits(s)'
    BY DEF VisibleTraits
  <2> QED BY <1>1, <2>1 DEF RequestOK, OwnOK, Found
<1>5. ListOK(s)'
  BY <1>1 DEF RequestOK, ListOK
<1>6. RowsOK(s)'
  BY <1>1 DEF RequestOK, RowsOK
<1>7. AloneOK(s)'
  BY DEF AloneOK
<1> QED BY <1>2, <1>3, <1>4, <1>5, <1>6, <1>7 DEF RequestOK

OwnWrites == [traits : SUBSET Names, profiles : [Participants -> Profiles \cup {Absent}]]

\* A step of r, whatever it changes.
LEMMA StepKeeps ==
    ASSUME IInv, NEW r \in Requests,
           NEW step \in Steps, pc' = [pc EXCEPT ![r] = step],
           NEW c \in Calls \cup {NoCall}, call' = [call EXCEPT ![r] = c],
           NEW names \in Seq(Names), todo' = [todo EXCEPT ![r] = names],
           NEW cvs \in [Participants -> Cvs \cup {Absent}],
           listed' = [listed EXCEPT ![r] = cvs],
           NEW place \in Orders \cup {Absent}, order' = [order EXCEPT ![r] = place],
           NEW found \in SUBSET Names, known' = [known EXCEPT ![r] = found],
           NEW writes \in OwnWrites, own' = [own EXCEPT ![r] = writes],
           alone' \in [Requests -> BOOLEAN],
           \A s \in Requests \ {r} : alone'[s] => alone[s] /\ pc[r] # "idle",
           schema' = schema, traits \subseteq traits', traits' \subseteq Names,
           jobs' \in [Jobs -> (SUBSET traits') \cup {Absent}],
           profiles' \in [Participants -> [cv : Cvs, traits : SUBSET traits'] \cup {Absent}],
           TablesOK',
           \A j \in Jobs : jobs[j] # Absent => jobs'[j] # Absent,
           \A p \in Participants : profiles[p] # Absent => profiles'[p] # Absent,
           \A s \in Requests \ {r}, p \in Participants :
               /\ profiles'[p] # profiles[p] => own[s].profiles[p] = Absent
               /\ writes.profiles[p] # Absent => own[s].profiles[p] = Absent,
           RequestOK(r)'
    PROVE  IInv'
<1>1. /\ own'[r] = writes
      /\ \A s \in Requests \ {r} :
             /\ pc'[s] = pc[s] /\ call'[s] = call[s] /\ todo'[s] = todo[s]
             /\ listed'[s] = listed[s] /\ order'[s] = order[s]
             /\ known'[s] = known[s] /\ own'[s] = own[s]
  BY DEF IInv, TypeOK, OwnWrites
<1>2. ASSUME NEW s \in Requests \ {r} PROVE ~alone'[s]
  <2>1. alone[s] => pc[r] = "idle"
    BY <1>2 DEF IInv, RequestOK, AloneOK
  <2> QED BY <1>2, <2>1
<1>3. \A s \in Requests \ {r} : RequestOK(s)'
  BY <1>1, <1>2, OthersKeep
<1>4. TypeOK'
  BY DEF IInv, TypeOK, OwnWrites
<1> QED BY <1>3, <1>4 DEF IInv

\* A step of r that changes no table.
LEMMA LocalStep ==
    ASSUME IInv, NEW r \in Requests, UNCHANGED tables,
           NEW step \in Steps, pc' = [pc EXCEPT ![r] = step],
           NEW c \in Calls \cup {NoCall}, call' = [call EXCEPT ![r] = c],
           NEW names \in Seq(Names), todo' = [todo EXCEPT ![r] = names],
           NEW cvs \in [Participants -> Cvs \cup {Absent}],
           listed' = [listed EXCEPT ![r] = cvs],
           NEW place \in Orders \cup {Absent}, order' = [order EXCEPT ![r] = place],
           NEW found \in SUBSET Names, known' = [known EXCEPT ![r] = found],
           NEW writes \in OwnWrites, own' = [own EXCEPT ![r] = writes],
           alone' \in [Requests -> BOOLEAN],
           \A s \in Requests \ {r} : alone'[s] => alone[s] /\ pc[r] # "idle",
           \A s \in Requests \ {r}, p \in Participants :
               writes.profiles[p] # Absent => own[s].profiles[p] = Absent,
           RequestOK(r)'
    PROVE  IInv'
<1>1. /\ schema' = schema /\ traits' = traits /\ jobs' = jobs /\ profiles' = profiles
  BY DEF tables
<1>2. TablesOK'
  BY <1>1 DEF IInv, TablesOK
<1>3. /\ traits' \subseteq Names
      /\ jobs' \in [Jobs -> (SUBSET traits') \cup {Absent}]
      /\ profiles' \in [Participants -> [cv : Cvs, traits : SUBSET traits'] \cup {Absent}]
  BY <1>1 DEF IInv, TypeOK
<1> QED BY <1>1, <1>2, <1>3, StepKeeps

LEMMA NothingTyped ==
    /\ Nobody \in [Participants -> Cvs \cup {Absent}]
    /\ Nothing \in OwnWrites
    /\ \A p \in Participants : Nothing.profiles[p] = Absent /\ Nobody[p] = Absent
    /\ Nothing.traits = {}
BY DEF Nobody, Nothing, OwnWrites

\* The others keep their locals when r forgets its own.
LEMMA Forgotten ==
    ASSUME IInv, NEW r \in Requests, Forget(r)
    PROVE  RequestOK(r)'
<1>1. /\ pc'[r] = "idle" /\ call'[r] = NoCall /\ todo'[r] = <<>> /\ listed'[r] = Nobody
      /\ order'[r] = Absent /\ known'[r] = {} /\ own'[r] = Nothing /\ alone'[r] = FALSE
  BY DEF Forget, Goto, IInv, TypeOK
<1>2. CallOK(r)'
  BY <1>1 DEF CallOK, Idle
<1>3. ReadOK(r)' /\ ListOK(r)'
  BY <1>1 DEF ReadOK, ListOK, NoCall, Refreshing
<1>4. OwnOK(r)' /\ RowsOK(r)'
  BY <1>1, NothingTyped DEF OwnOK, RowsOK
<1>5. AloneOK(r)'
  BY <1>1 DEF AloneOK
<1> QED BY <1>2, <1>3, <1>4, <1>5 DEF RequestOK

LEMMA ForgetStep ==
    ASSUME IInv, NEW r \in Requests, pc[r] # "idle", Forget(r), UNCHANGED tables
    PROVE  IInv'
<1>1. "idle" \in Steps /\ <<>> \in Seq(Names)
  BY DEF Steps
<1>2. alone' \in [Requests -> BOOLEAN] /\ \A s \in Requests \ {r} : alone'[s] = alone[s]
  BY DEF Forget, IInv, TypeOK
<1>3. /\ pc' = [pc EXCEPT ![r] = "idle"] /\ call' = [call EXCEPT ![r] = NoCall]
      /\ todo' = [todo EXCEPT ![r] = <<>>] /\ listed' = [listed EXCEPT ![r] = Nobody]
      /\ order' = [order EXCEPT ![r] = Absent] /\ known' = [known EXCEPT ![r] = {}]
      /\ own' = [own EXCEPT ![r] = Nothing]
  BY DEF Forget, Goto
<1>4. RequestOK(r)'
  BY Forgotten
<1>5. NoCall \in Calls \cup {NoCall} /\ {} \in SUBSET Names
  OBVIOUS
<1>6. \A s \in Requests \ {r} : alone'[s] => alone[s] /\ pc[r] # "idle"
  BY <1>2
<1>7. \A s \in Requests \ {r}, p \in Participants :
          Nothing.profiles[p] # Absent => own[s].profiles[p] = Absent
  BY NothingTyped
<1> QED BY <1>1, <1>2, <1>3, <1>4, <1>5, <1>6, <1>7, NothingTyped, LocalStep

\* A request goes to another step, with other locals but the same writes.
Moves(r, step, names, cvs, place, found) ==
    /\ Goto(r, step)
    /\ todo' = [todo EXCEPT ![r] = names]
    /\ listed' = [listed EXCEPT ![r] = cvs]
    /\ order' = [order EXCEPT ![r] = place]
    /\ known' = [known EXCEPT ![r] = found]
    /\ UNCHANGED <<tables, call, own, alone>>

\* What that takes.
Ready(r, step, names, cvs, place, found) ==
    /\ step \in StepsOf(call[r].op) /\ names \in Seq(Names)
    /\ cvs \in [Participants -> Cvs \cup {Absent}] /\ found \in SUBSET Names
    /\ place \in Orders \cup {Absent}
    /\ call[r].op \in Refreshing /\ step \in {"allTraits", "rewrite", "commit"} =>
           place \in Orders
    /\ step = "insert" => names # <<>>
    /\ step \in {"commit", "abort"} => InTx
    /\ found \subseteq VisibleTraits(r)
    /\ call[r].op = "createJob" =>
           /\ NamesOf(call[r].labels) \subseteq NamesOf(names) \cup VisibleTraits(r)
           /\ step \notin {"resolve", "insert", "abort"} => names = <<>>
    /\ call[r].op = "invite" =>
           /\ step \in {"list", "preload", "match"} =>
                  jobs[call[r].job] # Absent /\ profiles[call[r].participant] # Absent
           /\ step \in {"preload", "match"} => cvs[call[r].participant] # Absent
    /\ call[r].op \in {"create", "upload"} => cvs = Nobody
    /\ \A p \in Participants : own[r].profiles[p] # Absent => step \in {"commit", "abort"}
    /\ alone[r] /\ step = "allTraits" => \A p \in Participants :
           cvs[p] = IF VisibleProfile(r, p) = Absent THEN Absent
                    ELSE VisibleProfile(r, p).cv
    /\ alone[r] /\ step \in {"rewrite", "commit"} =>
           /\ found = VisibleTraits(r)
           /\ \A p \in Participants :
                  IF cvs[p] # Absent
                  THEN VisibleProfile(r, p) # Absent /\ VisibleProfile(r, p).cv = cvs[p]
                  ELSE VisibleProfile(r, p) # Absent =>
                           VisibleProfile(r, p).traits = Extract(VisibleProfile(r, p).cv, found)

LEMMA MoveStep ==
    ASSUME IInv, NEW r \in Requests, pc[r] # "idle",
           NEW step, NEW names, NEW cvs, NEW place, NEW found,
           Moves(r, step, names, cvs, place, found), Ready(r, step, names, cvs, place, found)
    PROVE  IInv'
<1>1. /\ call[r] \in Calls \cup {NoCall} /\ call' = [call EXCEPT ![r] = call[r]]
      /\ own[r] \in OwnWrites /\ own' = [own EXCEPT ![r] = own[r]]
      /\ alone' \in [Requests -> BOOLEAN]
  BY DEF Moves, IInv, TypeOK, OwnWrites
<1>2. \A s \in Requests \ {r}, p \in Participants :
          own[r].profiles[p] # Absent => own[s].profiles[p] = Absent
  BY DEF IInv, RequestOK, RowsOK
<1>3. /\ pc'[r] = step /\ todo'[r] = names /\ listed'[r] = cvs
      /\ order'[r] = place /\ known'[r] = found /\ call' = call /\ own' = own /\ alone' = alone
      /\ schema' = schema /\ traits' = traits /\ jobs' = jobs /\ profiles' = profiles
      /\ \A s \in Requests \ {r} : pc'[s] = pc[s]
  BY DEF Moves, Goto, tables, IInv, TypeOK
<1>4. call[r] \in Calls /\ RequestOK(r)
  BY UnderWay
<1>5. /\ step \in Steps /\ names \in Seq(Names)
      /\ cvs \in [Participants -> Cvs \cup {Absent}] /\ found \in SUBSET Names
      /\ place \in Orders \cup {Absent}
  BY <1>4, StepsAreSteps DEF Ready
<1>6. VisibleTraits(r)' = VisibleTraits(r)
      /\ \A p \in Participants : VisibleProfile(r, p)' = VisibleProfile(r, p)
  BY <1>3 DEF VisibleTraits, VisibleProfile
<1>7. CallOK(r)'
  <2>1. ~InTx => own[r] = Nothing
    BY <1>4 DEF RequestOK, CallOK, Idle
  <2> QED BY <1>3, <1>4, <2>1 DEF CallOK, InTx, Ready
<1>8. ReadOK(r)'
  BY <1>3, <1>6 DEF ReadOK, Ready
<1>9. OwnOK(r)'
  BY <1>3, <1>4, <1>6 DEF RequestOK, OwnOK, Found, Ready
<1>10. ListOK(r)' /\ RowsOK(r)'
  BY <1>3, <1>4 DEF RequestOK, ListOK, RowsOK, Ready
<1>11. AloneOK(r)'
  BY <1>3, <1>4, <1>6 DEF RequestOK, AloneOK, Ready
<1>12. RequestOK(r)'
  BY <1>7, <1>8, <1>9, <1>10, <1>11 DEF RequestOK
<1> QED BY <1>1, <1>2, <1>5, <1>12, LocalStep DEF Moves, Goto

LEMMA LocalsTyped ==
    ASSUME IInv, NEW r \in Requests
    PROVE  /\ todo[r] \in Seq(Names) /\ listed[r] \in [Participants -> Cvs \cup {Absent}]
           /\ known[r] \in SUBSET Names /\ own[r] \in OwnWrites
           /\ todo' = todo => todo' = [todo EXCEPT ![r] = todo[r]]
           /\ listed' = listed => listed' = [listed EXCEPT ![r] = listed[r]]
           /\ order[r] \in Orders \cup {Absent}
           /\ order' = order => order' = [order EXCEPT ![r] = order[r]]
           /\ known' = known => known' = [known EXCEPT ![r] = known[r]]
           /\ known[r] \subseteq VisibleTraits(r)
BY DEF IInv, TypeOK, OwnWrites, RequestOK, ReadOK

\* A request has no writes of its own before it writes participants.
LEMMA NoWritesYet ==
    ASSUME IInv, NEW r \in Requests,
           pc[r] \notin {"rewrite", "commit", "abort"} \/ call[r].op = "invite"
    PROVE  \A p \in Participants : own[r].profiles[p] = Absent
BY DEF IInv, RequestOK, OwnOK

LEMMA FindTraitStep ==
    ASSUME IInv, NEW r \in Requests, FindTrait(r)
    PROVE  IInv'
<1>1. /\ pc[r] = "resolve" /\ todo[r] # <<>> /\ call[r] \in Calls
      /\ pc[r] \in StepsOf(call[r].op) /\ RequestOK(r)
      /\ UNCHANGED <<tables, call, listed, order, known, own, alone>>
  BY UnderWay DEF FindTrait
<1>2. call[r].op = "createJob"
  BY <1>1, CallFields DEF StepsOf
<1>3. \A p \in Participants : own[r].profiles[p] = Absent
  BY <1>1, NoWritesYet
<1>4. NamesOf(call[r].labels) \subseteq NamesOf(todo[r]) \cup VisibleTraits(r)
  BY <1>1, <1>2 DEF RequestOK, ReadOK
<1>5. {"resolve", "insert"} \subseteq StepsOf(call[r].op)
  BY <1>2 DEF StepsOf
<1>6. CASE Head(todo[r]) \in VisibleTraits(r)
  <2>1. /\ Moves(r, "resolve", Tail(todo[r]), listed[r], order[r], known[r])
        /\ Tail(todo[r]) \in Seq(Names)
        /\ NamesOf(todo[r]) \subseteq NamesOf(Tail(todo[r])) \cup VisibleTraits(r)
    BY <1>1, <1>6, LocalsTyped, NamesOfTail DEF FindTrait, Goto, IInv, TypeOK, Moves
  <2>2. Ready(r, "resolve", Tail(todo[r]), listed[r], order[r], known[r])
    BY <1>2, <1>3, <1>4, <1>5, <2>1, LocalsTyped DEF Ready
  <2> QED BY <1>1, <2>1, <2>2, MoveStep
<1>7. CASE Head(todo[r]) \notin VisibleTraits(r)
  <2>1. Moves(r, "insert", todo[r], listed[r], order[r], known[r])
    BY <1>1, <1>7, LocalsTyped DEF FindTrait, Moves
  <2>2. Ready(r, "insert", todo[r], listed[r], order[r], known[r])
    BY <1>1, <1>2, <1>3, <1>4, <1>5, LocalsTyped DEF Ready
  <2> QED BY <1>1, <2>1, <2>2, MoveStep
<1> QED BY <1>6, <1>7

\* A request goes on with the locals it has: it has found what it looked
\* for, a statement has failed, or the handler is done.
LEMMA GoStep ==
    ASSUME IInv, NEW r \in Requests, pc[r] # "idle", UNCHANGED <<tables, locals, own, alone>>,
           NEW step \in StepsOf(call[r].op), Goto(r, step),
           step \in {"list", "allTraits", "commit", "abort"},
           step \in {"commit", "abort"} => InTx,
           call[r].op = "createJob" /\ step # "abort" => todo[r] = <<>>,
           call[r].op = "invite" /\ step = "list" =>
               jobs[call[r].job] # Absent /\ profiles[call[r].participant] # Absent,
           step \in {"list", "allTraits"} => pc[r] \notin {"rewrite", "commit", "abort"},
           step = "allTraits" => call[r].op = "upload",
           call[r].op \in Refreshing /\ step = "commit" => pc[r] = "rewrite"
    PROVE  IInv'
<1>1. Moves(r, step, todo[r], listed[r], order[r], known[r])
  BY LocalsTyped DEF locals, Moves
<1>2. RequestOK(r) /\ call[r] \in Calls
  BY UnderWay
<1>3. \A p \in Participants : own[r].profiles[p] # Absent => step \in {"commit", "abort"}
  BY NoWritesYet
<1>4. call[r].op \in {"create", "upload"} => listed[r] = Nobody
  BY <1>2 DEF RequestOK, ListOK
<1>5. call[r].op = "createJob" => NamesOf(call[r].labels) \subseteq NamesOf(todo[r]) \cup VisibleTraits(r)
  BY <1>2 DEF RequestOK, ReadOK
<1>6. ~(alone[r] /\ step = "allTraits")
  BY <1>2 DEF RequestOK, AloneOK, Refreshing
<1>7. alone[r] /\ step = "commit" =>
          /\ known[r] = VisibleTraits(r)
          /\ \A p \in Participants :
                 IF listed[r][p] # Absent
                 THEN VisibleProfile(r, p) # Absent /\ VisibleProfile(r, p).cv = listed[r][p]
                 ELSE VisibleProfile(r, p) # Absent =>
                     VisibleProfile(r, p).traits = Extract(VisibleProfile(r, p).cv, known[r])
  BY <1>2 DEF RequestOK, AloneOK
<1>8. call[r].op \in Refreshing /\ step \in {"allTraits", "rewrite", "commit"} =>
          order[r] \in Orders
  BY <1>2 DEF RequestOK, ListOK, Refreshing
<1>9. Ready(r, step, todo[r], listed[r], order[r], known[r])
  BY <1>3, <1>4, <1>5, <1>6, <1>7, <1>8, LocalsTyped DEF Ready
<1> QED BY <1>1, <1>9, MoveStep

LEMMA FailStep ==
    ASSUME IInv, NEW r \in Requests, pc[r] # "idle", Fail(r)
    PROVE  IInv'
<1>1. CASE InTx
  <2>1. "abort" \in StepsOf(call[r].op)
    BY UnderWay, CallFields DEF StepsOf
  <2>2. UNCHANGED <<tables, locals, own, alone>> /\ Goto(r, "abort")
    BY <1>1 DEF Fail
  <2> QED BY <1>1, <2>1, <2>2, GoStep
<1>2. CASE ~InTx
  BY <1>2, ForgetStep DEF Fail
<1> QED BY <1>1, <1>2

LEMMA FinishStep ==
    ASSUME IInv, NEW r \in Requests, pc[r] \in {"match", "rewrite"}, Finish(r), UNCHANGED tables
    PROVE  IInv'
<1>1. /\ RequestOK(r) /\ call[r] \in Calls /\ pc[r] \in StepsOf(call[r].op)
      /\ pc[r] # "idle"
  BY UnderWay
<1>2. CASE InTx
  <2>1. "commit" \in StepsOf(call[r].op)
    BY <1>1, CallFields DEF StepsOf
  <2>2. UNCHANGED <<tables, locals, own, alone>> /\ Goto(r, "commit")
    BY <1>2 DEF Finish
  <2>3. call[r].op = "createJob" => pc[r] = "rewrite" /\ todo[r] = <<>>
    BY <1>1 DEF StepsOf, RequestOK, ReadOK
  <2>4. pc[r] = "match" => call[r].op = "invite"
    BY <1>1, CallFields DEF StepsOf
  <2>5. call[r].op \in Refreshing => pc[r] = "rewrite"
    BY <1>1, <2>4 DEF Refreshing
  <2> QED BY <1>1, <1>2, <2>1, <2>2, <2>3, <2>5, GoStep
<1>3. CASE ~InTx
  BY <1>1, <1>3, ForgetStep DEF Finish
<1> QED BY <1>2, <1>3

LEMMA ReadArgumentsStep ==
    ASSUME IInv, NEW r \in Requests, ReadArguments(r)
    PROVE  IInv'
<1> DEFINE c == call[r]
           step == IF c.op = "upload" THEN "allTraits" ELSE "list"
<1>1. /\ pc[r] = "read" /\ RequestOK(r) /\ c \in Calls /\ pc[r] \in StepsOf(c.op)
  BY UnderWay DEF ReadArguments
<1>2. c.op \in {"updateJob", "upload", "invite"}
  BY <1>1, CallFields DEF StepsOf
<1>3. CASE /\ c.op \in {"updateJob", "invite"} => jobs[c.job] # Absent
           /\ c.op \in {"upload", "invite"} => profiles[c.participant] # Absent
  <2>1. UNCHANGED <<tables, locals, own, alone>> /\ Goto(r, step)
    BY <1>3 DEF ReadArguments
  <2>2. step \in StepsOf(c.op)
    BY <1>2 DEF StepsOf
  <2> QED BY <1>1, <1>2, <1>3, <2>1, <2>2, GoStep
<1>4. CASE ~ (/\ c.op \in {"updateJob", "invite"} => jobs[c.job] # Absent
              /\ c.op \in {"upload", "invite"} => profiles[c.participant] # Absent)
  <2>1. Fail(r)
    BY <1>4 DEF ReadArguments
  <2> QED BY <1>1, <2>1, FailStep
<1> QED BY <1>3, <1>4

LEMMA ListStep ==
    ASSUME IInv, NEW r \in Requests, ListParticipants(r)
    PROVE  IInv'
<1> DEFINE step == IF call[r].op = "invite" THEN "preload" ELSE "allTraits"
           cvs == [p \in Participants |->
                      IF VisibleProfile(r, p) = Absent THEN Absent ELSE VisibleProfile(r, p).cv]
<1>1. /\ pc[r] = "list" /\ RequestOK(r) /\ call[r] \in Calls
      /\ pc[r] \in StepsOf(call[r].op)
  BY UnderWay DEF ListParticipants
<1>2. call[r].op \in {"createJob", "updateJob", "invite"} /\ step \in StepsOf(call[r].op)
  BY <1>1, CallFields DEF StepsOf
<1>3. \A p \in Participants : own[r].profiles[p] = Absent /\ VisibleProfile(r, p) = profiles[p]
  BY <1>1, NoWritesYet DEF VisibleProfile
<1>4. \A p \in Participants : profiles[p] # Absent => profiles[p].cv \in Cvs /\ profiles[p].cv # Absent
  BY AbsentIsNone DEF IInv, TypeOK
<1>5. cvs \in [Participants -> Cvs \cup {Absent}]
  BY <1>3, <1>4
<1>6. PICK place \in Orders \cup {Absent} :
          /\ Moves(r, step, todo[r], cvs, place, known[r])
          /\ call[r].op \in Refreshing => place \in Orders
  <2>1. CASE call[r].op = "invite"
    <3>1. Moves(r, step, todo[r], cvs, order[r], known[r])
      BY <1>1, <2>1, LocalsTyped DEF ListParticipants, Moves
    <3> QED BY <2>1, <3>1, LocalsTyped DEF Refreshing
  <2>2. CASE call[r].op # "invite"
    <3>1. PICK place \in Orders : order' = [order EXCEPT ![r] = place]
      BY <2>2 DEF ListParticipants
    <3>2. Moves(r, step, todo[r], cvs, place, known[r])
      BY <1>1, <2>2, <3>1, LocalsTyped DEF ListParticipants, Moves
    <3> QED BY <3>2
  <2> QED BY <2>1, <2>2
<1>7. call[r].op = "invite" =>
          /\ jobs[call[r].job] # Absent /\ profiles[call[r].participant] # Absent
          /\ cvs[call[r].participant] # Absent
  BY <1>1, <1>3, <1>4, CallFields DEF RequestOK, ReadOK
<1>8. call[r].op = "createJob" =>
          todo[r] = <<>> /\ NamesOf(call[r].labels) \subseteq NamesOf(todo[r]) \cup VisibleTraits(r)
  BY <1>1 DEF RequestOK, ReadOK
<1>9. Ready(r, step, todo[r], cvs, place, known[r])
  BY <1>1, <1>2, <1>3, <1>5, <1>6, <1>7, <1>8, LocalsTyped DEF Ready
<1> QED BY <1>1, <1>6, <1>9, MoveStep

LEMMA PreloadStep ==
    ASSUME IInv, NEW r \in Requests, PreloadTraits(r)
    PROVE  IInv'
<1> DEFINE found == profiles[call[r].participant].traits
<1>1. /\ pc[r] = "preload" /\ RequestOK(r) /\ call[r] \in Calls
      /\ pc[r] \in StepsOf(call[r].op)
  BY UnderWay DEF PreloadTraits
<1>2. call[r].op = "invite" /\ "match" \in StepsOf(call[r].op)
  BY <1>1, CallFields DEF StepsOf
<1>3. \A p \in Participants : own[r].profiles[p] = Absent
  BY <1>2, NoWritesYet
<1>4. /\ jobs[call[r].job] # Absent /\ profiles[call[r].participant] # Absent
      /\ listed[r][call[r].participant] # Absent
  BY <1>1, <1>2 DEF RequestOK, ReadOK
<1>5. found \subseteq traits /\ found \in SUBSET Names /\ found \subseteq VisibleTraits(r)
  BY <1>1, <1>2, <1>4, CallFields DEF IInv, TypeOK, VisibleTraits
<1>6. ~alone[r]
  BY <1>1, <1>2 DEF RequestOK, AloneOK, Refreshing
<1>7. Moves(r, "match", todo[r], listed[r], order[r], found)
  BY <1>1, LocalsTyped DEF PreloadTraits, Moves
<1>8. Ready(r, "match", todo[r], listed[r], order[r], found)
  BY <1>2, <1>3, <1>4, <1>5, <1>6, LocalsTyped DEF Ready
<1> QED BY <1>1, <1>7, <1>8, MoveStep

LEMMA AllTraitsStep ==
    ASSUME IInv, NEW r \in Requests, AllTraits(r)
    PROVE  IInv'
<1> DEFINE step == IF call[r].op \in Refreshing THEN "rewrite" ELSE "store"
           found == VisibleTraits(r)
<1>1. /\ pc[r] = "allTraits" /\ RequestOK(r) /\ call[r] \in Calls
      /\ pc[r] \in StepsOf(call[r].op)
  BY UnderWay DEF AllTraits
<1>2. call[r].op \in {"createJob", "updateJob", "create", "upload"} /\ step \in StepsOf(call[r].op)
  BY <1>1, CallFields DEF StepsOf, Refreshing
<1>3. \A p \in Participants : own[r].profiles[p] = Absent
  BY <1>1, NoWritesYet
<1>4. found \in SUBSET Names
  BY LocalsTyped DEF OwnWrites, VisibleTraits, IInv, TypeOK
<1>5. Moves(r, step, todo[r], listed[r], order[r], found)
  BY <1>1, LocalsTyped DEF AllTraits, Moves
<1>6. call[r].op = "createJob" =>
          todo[r] = <<>> /\ NamesOf(call[r].labels) \subseteq NamesOf(todo[r]) \cup VisibleTraits(r)
  BY <1>1 DEF RequestOK, ReadOK
<1>7. call[r].op \in {"create", "upload"} => listed[r] = Nobody
  BY <1>1 DEF RequestOK, ListOK
<1>8. ASSUME alone[r], NEW p \in Participants
      PROVE  IF listed[r][p] # Absent
             THEN VisibleProfile(r, p) # Absent /\ VisibleProfile(r, p).cv = listed[r][p]
             ELSE VisibleProfile(r, p) = Absent
  <2>1. listed[r][p] = IF VisibleProfile(r, p) = Absent THEN Absent ELSE VisibleProfile(r, p).cv
    BY <1>1, <1>8 DEF RequestOK, AloneOK
  <2>2. VisibleProfile(r, p) = profiles[p]
    BY <1>3 DEF VisibleProfile
  <2>3. profiles[p] # Absent => profiles[p].cv # Absent
    BY AbsentIsNone DEF IInv, TypeOK
  <2> QED BY <2>1, <2>2, <2>3
<1>9. call[r].op \in Refreshing => order[r] \in Orders
  BY <1>1 DEF RequestOK, ListOK
<1>10. Ready(r, step, todo[r], listed[r], order[r], found)
  BY <1>1, <1>2, <1>3, <1>4, <1>6, <1>7, <1>8, <1>9, LocalsTyped DEF Ready
<1> QED BY <1>1, <1>5, <1>10, MoveStep

LEMMA ReceiveStep ==
    ASSUME IInv, NEW r \in Requests, NEW c \in Calls, Receive(r, c)
    PROVE  IInv'
<1> DEFINE step == FirstStep(c.op)
           names == IF c.op = "createJob" THEN c.labels ELSE <<>>
<1>1. /\ Idle(r) /\ UNCHANGED <<listed, order, known, own>>
      /\ pc' = [pc EXCEPT ![r] = step] /\ call' = [call EXCEPT ![r] = c]
      /\ todo' = [todo EXCEPT ![r] = names]
      /\ schema' = schema /\ traits' = traits /\ jobs' = jobs /\ profiles' = profiles
      /\ UNCHANGED tables
  <2>1. pc[r] = "idle" /\ CallOK(r)
    BY DEF Receive, IInv, RequestOK
  <2>2. ~(call[r] \in Calls /\ pc[r] \in StepsOf(call[r].op))
    BY <2>1, StepsAreSteps
  <2>3. Idle(r)
    BY <2>1, <2>2 DEF CallOK
  <2> QED BY <2>3 DEF Receive, Goto, tables
<1>2. step \in StepsOf(c.op) /\ step \in Steps /\ step \notin {"insert", "commit", "abort"}
      /\ step \notin {"rewrite", "list", "preload", "match"}
      /\ (c.op = "createJob" => step = "resolve")
      /\ (c.op \in Refreshing => step \in {"resolve", "read"})
  BY CallFields, StepsAreSteps DEF StepsOf, FirstStep, Refreshing
<1>3. names \in Seq(Names)
  BY CallFields, MatchingConstants
<1>4. /\ pc'[r] = step /\ call'[r] = c /\ todo'[r] = names /\ listed'[r] = Nobody
      /\ order'[r] = Absent /\ known'[r] = {} /\ own'[r] = Nothing
      /\ \A s \in Requests \ {r} : pc'[s] = pc[s]
  BY <1>1 DEF IInv, TypeOK, Idle
<1>5. /\ alone' \in [Requests -> BOOLEAN]
      /\ \A s \in Requests \ {r} : ~alone'[s]
      /\ alone'[r] => c.op \in Refreshing /\ \A o \in Requests \ {r} : pc[o] = "idle"
  BY DEF Receive
<1>6. CallOK(r)'
  <2>1. c.op \in {"createJob", "updateJob", "create", "upload", "invite"}
    BY CallFields
  <2> QED BY <1>2, <1>4, <2>1 DEF CallOK
<1>7. ReadOK(r)' /\ ListOK(r)'
  BY <1>2, <1>4, NothingTyped DEF ReadOK, ListOK, NamesOf, VisibleTraits
<1>8. OwnOK(r)' /\ RowsOK(r)'
  BY <1>4, NothingTyped DEF OwnOK, RowsOK
<1>9. AloneOK(r)'
  BY <1>2, <1>4, <1>5 DEF AloneOK
<1>10. RequestOK(r)'
  BY <1>6, <1>7, <1>8, <1>9 DEF RequestOK
<1>11. /\ listed' = [listed EXCEPT ![r] = Nobody] /\ order' = [order EXCEPT ![r] = Absent]
       /\ known' = [known EXCEPT ![r] = {}]
       /\ own' = [own EXCEPT ![r] = Nothing]
  BY <1>1 DEF Idle, IInv, TypeOK
<1>12. \A s \in Requests \ {r}, p \in Participants :
           Nothing.profiles[p] # Absent => own[s].profiles[p] = Absent
  BY NothingTyped
<1>13. {} \in SUBSET Names /\ c \in Calls \cup {NoCall}
       /\ \A s \in Requests \ {r} : alone'[s] => alone[s] /\ pc[r] # "idle"
  BY <1>5
<1> QED BY <1>1, <1>2, <1>3, <1>5, <1>10, <1>11, <1>12, <1>13, NothingTyped, LocalStep

\* What r keeps of its locals when it changes tables or its writes.
LEMMA SameLocals ==
    ASSUME IInv, NEW r \in Requests, UNCHANGED <<call, order, known, alone>>
    PROVE  /\ call[r] \in Calls \cup {NoCall} /\ call' = [call EXCEPT ![r] = call[r]]
           /\ order[r] \in Orders \cup {Absent} /\ order' = [order EXCEPT ![r] = order[r]]
           /\ known' = [known EXCEPT ![r] = known[r]] /\ known[r] \in SUBSET Names
           /\ alone' \in [Requests -> BOOLEAN] /\ alone' = alone
BY DEF IInv, TypeOK

\* More traits are no harm to the rows there are.
LEMMA MoreTraits ==
    ASSUME IInv, traits \subseteq traits'
    PROVE  /\ UNCHANGED jobs => jobs' \in [Jobs -> (SUBSET traits') \cup {Absent}]
           /\ UNCHANGED profiles =>
                  profiles' \in [Participants -> [cv : Cvs, traits : SUBSET traits'] \cup {Absent}]
<1>1. ASSUME NEW j \in Jobs PROVE jobs[j] \in (SUBSET traits') \cup {Absent}
  BY DEF IInv, TypeOK
<1>2. ASSUME NEW p \in Participants
      PROVE  profiles[p] \in [cv : Cvs, traits : SUBSET traits'] \cup {Absent}
  BY DEF IInv, TypeOK
<1> QED BY <1>1, <1>2 DEF IInv, TypeOK

LEMMA InsertTraitStep ==
    ASSUME IInv, NEW r \in Requests, InsertTrait(r)
    PROVE  IInv'
<1> DEFINE name == Head(todo[r])
           names == Tail(todo[r])
           writes == IF InTx THEN [own[r] EXCEPT !.traits = @ \cup {name}] ELSE own[r]
<1>1. /\ pc[r] = "insert" /\ RequestOK(r) /\ call[r] \in Calls
      /\ pc[r] \in StepsOf(call[r].op) /\ todo[r] # <<>>
  BY UnderWay DEF InsertTrait, RequestOK, CallOK, Idle
<1>2. call[r].op = "createJob" /\ "resolve" \in StepsOf(call[r].op) /\ "resolve" \in Steps
  BY <1>1, CallFields DEF StepsOf, Steps
<1>3. CASE name \in traits
  <2>1. Fail(r)
    BY <1>3 DEF InsertTrait
  <2> QED BY <1>1, <2>1, FailStep
<1>4. CASE name \notin traits
  <2>1. /\ name \in Names /\ names \in Seq(Names)
        /\ NamesOf(todo[r]) = {name} \cup NamesOf(names)
        /\ todo' = [todo EXCEPT ![r] = names]
        /\ pc' = [pc EXCEPT ![r] = "resolve"]
        /\ UNCHANGED <<schema, jobs, profiles, call, listed, order, known, alone>>
    BY <1>1, <1>4, LocalsTyped, NamesOfTail DEF InsertTrait, Goto, IInv, TypeOK
  <2>2. own[r] \in OwnWrites
    BY LocalsTyped
  <2>3. /\ own' = [own EXCEPT ![r] = writes] /\ writes \in OwnWrites
        /\ writes.profiles = own[r].profiles
        /\ traits' = IF InTx THEN traits ELSE traits \cup {name}
        /\ name \in writes.traits \cup traits' /\ own[r].traits \subseteq writes.traits
    BY <1>4, <2>1, <2>2 DEF InsertTrait, OwnWrites, IInv, TypeOK
  <2>4. traits \subseteq traits' /\ traits' \subseteq Names
    BY <2>1, <2>3 DEF IInv, TypeOK
  <2>5. \A p \in Participants : writes.profiles[p] = Absent
    BY <1>1, <2>3, NoWritesYet
  <2>6. /\ pc'[r] = "resolve" /\ call'[r] = call[r] /\ todo'[r] = names
        /\ listed'[r] = listed[r] /\ known'[r] = known[r] /\ alone'[r] = alone[r]
        /\ own'[r] = writes
        /\ \A s \in Requests \ {r} : pc'[s] = pc[s]
    BY <2>1, <2>3 DEF IInv, TypeOK
  <2>7. VisibleTraits(r) \cup {name} \subseteq VisibleTraits(r)'
    BY <2>3, <2>4, <2>6 DEF VisibleTraits
  <2>8. CallOK(r)'
    <3>1. ~InTx => own[r] = Nothing
      BY <1>1 DEF RequestOK, CallOK, Idle
    <3> QED BY <1>1, <1>2, <2>1, <2>6, <3>1 DEF CallOK, InTx
  <2>9. ReadOK(r)'
    BY <1>1, <1>2, <2>1, <2>6, <2>7 DEF RequestOK, ReadOK
  <2>10. OwnOK(r)' /\ RowsOK(r)'
    BY <2>5, <2>6 DEF OwnOK, RowsOK
  <2>11. ListOK(r)' /\ AloneOK(r)'
    BY <1>1, <1>2, <2>6 DEF RequestOK, ListOK, AloneOK
  <2>12. RequestOK(r)'
    BY <2>8, <2>9, <2>10, <2>11 DEF RequestOK
  <2>13. TablesOK'
    BY <2>1 DEF IInv, TablesOK, Found
  <2>14. listed[r] \in [Participants -> Cvs \cup {Absent}] /\ listed' = [listed EXCEPT ![r] = listed[r]]
    BY <2>1, LocalsTyped
  <2>15. \A s \in Requests \ {r}, p \in Participants :
             /\ profiles'[p] # profiles[p] => own[s].profiles[p] = Absent
             /\ writes.profiles[p] # Absent => own[s].profiles[p] = Absent
    BY <2>1, <2>5
  <2>16. /\ \A j \in Jobs : jobs[j] # Absent => jobs'[j] # Absent
         /\ \A p \in Participants : profiles[p] # Absent => profiles'[p] # Absent
         /\ jobs' \in [Jobs -> (SUBSET traits') \cup {Absent}]
         /\ profiles' \in [Participants -> [cv : Cvs, traits : SUBSET traits'] \cup {Absent}]
    BY <2>1, <2>4, MoreTraits
  <2>17. \A s \in Requests \ {r} : alone'[s] => alone[s] /\ pc[r] # "idle"
    BY <1>1, <2>1
  <2>18. schema' = schema /\ UNCHANGED <<call, order, known, alone>>
    BY <2>1
  <2> HIDE DEF names, writes
  <2> QED BY <1>2, <2>1, <2>3, <2>4, <2>12, <2>13, <2>14, <2>15, <2>16, <2>17, <2>18,
             SameLocals, StepKeeps
<1> QED BY <1>3, <1>4

LEMMA InsertJobStep ==
    ASSUME IInv, NEW r \in Requests, InsertJob(r)
    PROVE  IInv'
<1> DEFINE names == NamesOf(call[r].labels)
<1>1. /\ pc[r] = "resolve" /\ pc[r] # "idle" /\ RequestOK(r) /\ call[r] \in Calls
      /\ pc[r] \in StepsOf(call[r].op) /\ todo[r] = <<>>
      /\ Goto(r, "list") /\ UNCHANGED <<schema, traits, profiles, locals, own, alone>>
  BY UnderWay DEF InsertJob
<1>2. call[r].op = "createJob" /\ "list" \in StepsOf(call[r].op) /\ "list" \in Steps
  BY <1>1, CallFields DEF StepsOf, Steps
<1>3. CASE InTx
  <2>1. UNCHANGED <<tables, locals, own, alone>>
    BY <1>1, <1>3 DEF InsertJob, tables
  <2> QED BY <1>1, <1>2, <2>1, GoStep
<1>4. CASE ~InTx
  <2>1. /\ call[r].job \in Jobs /\ call[r].labels \in Labellings /\ own[r] = Nothing
        /\ names \subseteq VisibleTraits(r)
    BY <1>1, <1>2, <1>4, CallFields DEF RequestOK, CallOK, Idle, ReadOK, NamesOf
  <2>2. names \subseteq traits /\ names # Absent
    BY <2>1, NothingTyped, AbsentIsNone DEF VisibleTraits, IInv, TypeOK
  <2>3. jobs' = [jobs EXCEPT ![call[r].job] = names]
    BY <1>4 DEF InsertJob
  <2>4. /\ jobs' \in [Jobs -> (SUBSET traits') \cup {Absent}] /\ traits' \subseteq Names
        /\ profiles' \in [Participants -> [cv : Cvs, traits : SUBSET traits'] \cup {Absent}]
        /\ \A j \in Jobs : jobs[j] # Absent => jobs'[j] # Absent
    BY <1>1, <2>2, <2>3 DEF IInv, TypeOK
  <2>5. TablesOK'
    BY <1>1, <2>1, <2>3 DEF IInv, TypeOK, TablesOK, Found
  <2>6. /\ pc'[r] = "list" /\ call'[r] = call[r] /\ todo'[r] = todo[r]
        /\ listed'[r] = listed[r] /\ known'[r] = known[r] /\ own'[r] = own[r] /\ alone'[r] = alone[r]
        /\ \A s \in Requests \ {r} : pc'[s] = pc[s]
    BY <1>1 DEF Goto, locals, IInv, TypeOK
  <2>7. CallOK(r)'
    BY <1>1, <1>2, <2>1, <2>6 DEF CallOK, InTx
  <2>8. ReadOK(r)' /\ ListOK(r)' /\ AloneOK(r)'
    BY <1>1, <1>2, <2>6 DEF RequestOK, ReadOK, ListOK, AloneOK, VisibleTraits
  <2>9. OwnOK(r)' /\ RowsOK(r)'
    BY <2>1, <2>6, NothingTyped DEF OwnOK, RowsOK
  <2>10. RequestOK(r)'
    BY <2>7, <2>8, <2>9 DEF RequestOK
  <2>11. /\ UNCHANGED <<call, order, known, alone>> /\ pc' = [pc EXCEPT ![r] = "list"]
         /\ todo' = [todo EXCEPT ![r] = todo[r]] /\ listed' = [listed EXCEPT ![r] = listed[r]]
         /\ own' = [own EXCEPT ![r] = Nothing] /\ Nothing \in OwnWrites
    BY <1>1, <2>1, LocalsTyped DEF locals, Goto, IInv, TypeOK
  <2>12. \A s \in Requests \ {r}, p \in Participants :
             /\ profiles'[p] # profiles[p] => own[s].profiles[p] = Absent
             /\ Nothing.profiles[p] # Absent => own[s].profiles[p] = Absent
    BY <1>1, NothingTyped
  <2>13. /\ \A p \in Participants : profiles[p] # Absent => profiles'[p] # Absent
         /\ \A s \in Requests \ {r} : alone'[s] => alone[s] /\ pc[r] # "idle"
         /\ schema' = schema /\ traits \subseteq traits'
    BY <1>1
  <2>14. todo[r] \in Seq(Names) /\ listed[r] \in [Participants -> Cvs \cup {Absent}]
    BY LocalsTyped
  <2>15. /\ call[r] \in Calls \cup {NoCall} /\ call' = [call EXCEPT ![r] = call[r]]
         /\ order[r] \in Orders \cup {Absent} /\ order' = [order EXCEPT ![r] = order[r]]
         /\ known' = [known EXCEPT ![r] = known[r]] /\ known[r] \in SUBSET Names
         /\ alone' \in [Requests -> BOOLEAN]
    BY <2>11, SameLocals
  <2> HIDE DEF names
  <2> QED BY <1>2, <2>4, <2>5, <2>10, <2>11, <2>12, <2>13, <2>14, <2>15, StepKeeps
<1> QED BY <1>3, <1>4

\* A request writes the row of a participant and goes on to the next.
LEMMA WriteStep ==
    ASSUME IInv, NEW r \in Requests, pc[r] \in {"store", "rewrite"},
           NEW p \in Participants, IsNext(r, p), NEW cv \in Cvs, WriteProfile(r, p, cv),
           pc' = [pc EXCEPT ![r] = "rewrite"],
           listed' = [listed EXCEPT ![r][p] = Absent],
           UNCHANGED <<schema, traits, jobs, call, todo, order, known, alone>>,
           call[r].op \in {"create", "upload"} => p = call[r].participant /\ cv = call[r].cv,
           call[r].op = "create" => profiles[p] = Absent,
           \A o \in Participants \ {p} : listed[r][o] # Absent => order[r][p] < order[r][o],
           alone[r] => pc[r] = "rewrite" /\ listed[r][p] = cv
    PROVE  IInv'
<1> DEFINE row == [cv |-> cv, traits |-> Extract(cv, known[r])]
           cvs == [listed[r] EXCEPT ![p] = Absent]
           writes == IF InTx THEN [own[r] EXCEPT !.profiles[p] = row] ELSE own[r]
<1>1. /\ RequestOK(r) /\ call[r] \in Calls /\ pc[r] \in StepsOf(call[r].op)
      /\ pc[r] # "idle" /\ known[r] \subseteq VisibleTraits(r)
  BY UnderWay, LocalsTyped
<1>2. /\ call[r].op \in {"createJob", "updateJob", "create", "upload"}
      /\ "rewrite" \in StepsOf(call[r].op) /\ "rewrite" \in Steps
  BY <1>1, CallFields DEF StepsOf, Steps
<1>3. /\ row \in Profiles /\ row # Absent /\ Found(row)
      /\ row.cv = cv /\ row.traits = Extract(cv, known[r]) /\ row.traits \subseteq known[r]
  <2>1. row.cv = cv /\ row.traits = Extract(cv, known[r])
    OBVIOUS
  <2>2. Extract(cv, known[r]) \subseteq known[r] /\ known[r] \in SUBSET Names
    BY LocalsTyped DEF Extract
  <2>3. row \in Profiles
    BY <2>2 DEF Profiles
  <2>4. row # Absent
    BY <2>3, AbsentIsNone
  <2>5. Found(row)
    BY <2>1 DEF Found, Extract
  <2> QED BY <2>1, <2>2, <2>3, <2>4, <2>5
<1>4. \A s \in Requests \ {r} : own[s].profiles[p] = Absent
  BY DEF WriteProfile, AwaitsProfile
<1>5. own[r] \in OwnWrites /\ listed[r] \in [Participants -> Cvs \cup {Absent}]
      /\ (~InTx => own[r] = Nothing)
  BY <1>1, LocalsTyped DEF RequestOK, CallOK, Idle
<1>6. /\ writes \in OwnWrites /\ own' = [own EXCEPT ![r] = writes]
      /\ writes.traits = own[r].traits
      /\ writes.profiles = IF InTx THEN [own[r].profiles EXCEPT ![p] = row] ELSE own[r].profiles
      /\ profiles' = IF InTx THEN profiles ELSE [profiles EXCEPT ![p] = row]
  BY <1>3, <1>5 DEF WriteProfile, OwnWrites, IInv, TypeOK
<1>7. /\ cvs \in [Participants -> Cvs \cup {Absent}] /\ listed' = [listed EXCEPT ![r] = cvs]
      /\ \A o \in Participants : cvs[o] # Absent =>
             o # p /\ cvs[o] = listed[r][o] /\ order[r][p] < order[r][o]
  <2>1. \A o \in Participants : cvs[o] = IF o = p THEN Absent ELSE listed[r][o]
    BY <1>5
  <2>2. cvs \in [Participants -> Cvs \cup {Absent}]
    BY <1>5
  <2>3. listed' = [listed EXCEPT ![r] = cvs]
    BY DEF IInv, TypeOK
  <2>4. \A o \in Participants : cvs[o] # Absent => o # p /\ cvs[o] = listed[r][o]
    BY <2>1
  <2> QED BY <2>2, <2>3, <2>4
<1>8. /\ pc'[r] = "rewrite" /\ call'[r] = call[r] /\ todo'[r] = todo[r]
      /\ listed'[r] = cvs /\ order'[r] = order[r] /\ known'[r] = known[r]
      /\ own'[r] = writes /\ alone'[r] = alone[r]
      /\ \A s \in Requests \ {r} : pc'[s] = pc[s] /\ own'[s] = own[s]
  BY <1>6, <1>7 DEF IInv, TypeOK
<1>9. VisibleTraits(r)' = VisibleTraits(r)
  BY <1>6, <1>8 DEF VisibleTraits
<1>10. /\ VisibleProfile(r, p)' = row
       /\ \A q \in Participants \ {p} : VisibleProfile(r, q)' = VisibleProfile(r, q)
  <2>1. CASE InTx
    BY <1>3, <1>5, <1>6, <1>8, <2>1 DEF VisibleProfile, OwnWrites
  <2>2. CASE ~InTx
    BY <1>5, <1>6, <1>8, <2>2, NothingTyped DEF VisibleProfile, IInv, TypeOK
  <2> QED BY <2>1, <2>2
<1>11. CallOK(r)'
  BY <1>1, <1>2, <1>5, <1>6, <1>8 DEF CallOK, InTx
<1>12. ReadOK(r)'
  BY <1>1, <1>2, <1>8, <1>9 DEF RequestOK, ReadOK, StepsOf
<1>13. ListOK(r)'
  <2>1. call[r].op \in {"create", "upload"} => listed[r] = Nobody
    BY <1>1 DEF RequestOK, ListOK
  <2>2. listed[r] = Nobody => cvs = Nobody
    BY NothingTyped DEF Nobody
  <2>3. pc[r] = "store" => call[r].op \notin Refreshing
    BY <1>1, <1>2 DEF StepsOf, Refreshing
  <2>4. call[r].op \in Refreshing => order[r] \in Orders
    BY <1>1, <2>3 DEF RequestOK, ListOK
  <2> QED BY <1>8, <2>1, <2>2, <2>4 DEF ListOK
<1>14. OwnOK(r)'
  <2> SUFFICES ASSUME NEW q \in Participants, writes.profiles[q] # Absent
               PROVE  /\ writes.profiles[q].traits \subseteq VisibleTraits(r)
                      /\ Found(writes.profiles[q])
                      /\ \A o \in Participants :
                             cvs[o] # Absent => order[r][q] < order[r][o]
                      /\ call[r].op \in {"create", "upload"} =>
                             q = call[r].participant /\ writes.profiles[q].cv = call[r].cv
                      /\ call[r].op = "create" => profiles'[q] = Absent
    BY <1>2, <1>8, <1>9 DEF OwnOK, Found
  <2>1. InTx /\ profiles' = profiles
    BY <1>5, <1>6, NothingTyped
  <2>2. CASE q = p
    BY <1>1, <1>3, <1>5, <1>6, <1>7, <2>1, <2>2 DEF OwnWrites
  <2>3. CASE q # p
    <3>1. writes.profiles[q] = own[r].profiles[q]
      BY <1>5, <1>6, <2>3 DEF OwnWrites
    <3>2. pc[r] = "rewrite"
      BY <3>1, NoWritesYet
    <3> QED BY <1>1, <1>7, <2>1, <3>1, <3>2 DEF RequestOK, OwnOK
  <2> QED BY <2>2, <2>3
<1>15. \A s \in Requests \ {r}, q \in Participants :
           /\ profiles'[q] # profiles[q] => own[s].profiles[q] = Absent
           /\ writes.profiles[q] # Absent => own[s].profiles[q] = Absent
  BY <1>1, <1>4, <1>5, <1>6 DEF RequestOK, RowsOK, OwnWrites, IInv, TypeOK
<1>16. RowsOK(r)'
  BY <1>8, <1>15 DEF RowsOK
<1>17. AloneOK(r)'
  <2> SUFFICES ASSUME alone[r]
               PROVE  /\ known[r] = VisibleTraits(r)
                      /\ \A q \in Participants :
                             IF cvs[q] # Absent
                             THEN VisibleProfile(r, q)' # Absent /\ VisibleProfile(r, q).cv' = cvs[q]
                             ELSE VisibleProfile(r, q)' # Absent =>
                                  VisibleProfile(r, q).traits' = Extract(VisibleProfile(r, q).cv', known[r])
    BY <1>1, <1>2, <1>8, <1>9 DEF RequestOK, AloneOK
  <2>1. /\ known[r] = VisibleTraits(r)
        /\ \A q \in Participants :
               IF listed[r][q] # Absent
               THEN VisibleProfile(r, q) # Absent /\ VisibleProfile(r, q).cv = listed[r][q]
               ELSE VisibleProfile(r, q) # Absent =>
                        VisibleProfile(r, q).traits = Extract(VisibleProfile(r, q).cv, known[r])
    BY <1>1 DEF RequestOK, AloneOK
  <2>2. ASSUME NEW q \in Participants
        PROVE  IF cvs[q] # Absent
               THEN VisibleProfile(r, q)' # Absent /\ VisibleProfile(r, q).cv' = cvs[q]
               ELSE VisibleProfile(r, q)' # Absent =>
                    VisibleProfile(r, q).traits' = Extract(VisibleProfile(r, q).cv', known[r])
    <3>1. CASE q = p
      BY <1>3, <1>5, <1>10, <3>1
    <3>2. CASE q # p
      BY <1>5, <1>10, <2>1, <3>2
    <3> QED BY <3>1, <3>2
  <2> QED BY <2>1, <2>2
<1>18. RequestOK(r)'
  BY <1>11, <1>12, <1>13, <1>14, <1>16, <1>17 DEF RequestOK
<1>19. /\ traits \subseteq traits' /\ traits' \subseteq Names /\ schema' = schema
       /\ jobs' \in [Jobs -> (SUBSET traits') \cup {Absent}]
       /\ \A j \in Jobs : jobs[j] # Absent => jobs'[j] # Absent
       /\ \A s \in Requests \ {r} : alone'[s] => alone[s] /\ pc[r] # "idle"
  BY <1>1 DEF IInv, TypeOK
<1>20. /\ profiles' \in [Participants -> [cv : Cvs, traits : SUBSET traits'] \cup {Absent}]
       /\ TablesOK'
       /\ \A q \in Participants : profiles[q] # Absent => profiles'[q] # Absent
  <2>1. ~InTx => row \in [cv : Cvs, traits : SUBSET traits]
    BY <1>1, <1>3, <1>5, NothingTyped DEF VisibleTraits
  <2>2. \A q \in Participants : profiles'[q] = IF q = p /\ ~InTx THEN row ELSE profiles[q]
    BY <1>6 DEF IInv, TypeOK
  <2>3. profiles' \in [Participants -> [cv : Cvs, traits : SUBSET traits'] \cup {Absent}]
    BY <1>6, <2>1 DEF IInv, TypeOK
  <2>4. \A q \in Participants : profiles'[q] # Absent => Found(profiles'[q])
    BY <1>3, <2>2 DEF IInv, TablesOK
  <2> QED BY <1>3, <2>2, <2>3, <2>4 DEF IInv, TablesOK, Found
<1>21. todo[r] \in Seq(Names) /\ todo' = [todo EXCEPT ![r] = todo[r]]
  BY LocalsTyped
<1>22. UNCHANGED <<call, order, known, alone>>
  OBVIOUS
<1>23. /\ call[r] \in Calls \cup {NoCall} /\ call' = [call EXCEPT ![r] = call[r]]
       /\ order[r] \in Orders \cup {Absent} /\ order' = [order EXCEPT ![r] = order[r]]
       /\ known' = [known EXCEPT ![r] = known[r]] /\ known[r] \in SUBSET Names
       /\ alone' \in [Requests -> BOOLEAN]
  BY <1>22, SameLocals
<1> HIDE DEF row, cvs, writes
<1> QED BY <1>2, <1>6, <1>7, <1>15, <1>18, <1>19, <1>20, <1>21, <1>23, StepKeeps

LEMMA StoreProfileStep ==
    ASSUME IInv, NEW r \in Requests, StoreProfile(r)
    PROVE  IInv'
<1> DEFINE c == call[r]
<1>1. /\ pc[r] = "store" /\ RequestOK(r) /\ c \in Calls /\ pc[r] \in StepsOf(c.op)
  BY UnderWay DEF StoreProfile
<1>2. c.op \in {"create", "upload"} /\ c.participant \in Participants /\ c.cv \in Cvs
  BY <1>1, CallFields DEF StepsOf
<1>3. CASE c.op = "create" /\ profiles[c.participant] # Absent
  <2>1. Fail(r)
    BY <1>3 DEF StoreProfile
  <2> QED BY <1>1, <2>1, FailStep
<1>4. CASE ~(c.op = "create" /\ profiles[c.participant] # Absent)
  <2>1. /\ WriteProfile(r, c.participant, c.cv) /\ Goto(r, "rewrite")
        /\ UNCHANGED <<schema, traits, jobs, locals, alone>>
    BY <1>4 DEF StoreProfile
  <2>2. listed[r] = Nobody
    BY <1>1, <1>2 DEF RequestOK, ListOK
  <2>3. listed' = [listed EXCEPT ![r][c.participant] = Absent]
    BY <1>2, <2>1, <2>2, NothingTyped DEF locals, IInv, TypeOK
  <2>4. IsNext(r, c.participant) /\ ~alone[r]
    BY <1>1, <1>2 DEF IsNext, RequestOK, AloneOK, Refreshing
  <2>5. \A o \in Participants : listed[r][o] = Absent
    BY <2>2, NothingTyped
  <2> QED BY <1>1, <1>2, <1>4, <2>1, <2>3, <2>4, <2>5, WriteStep DEF Goto, locals
<1> QED BY <1>3, <1>4

\* A refresh at work has an order.
LEMMA RefreshesInOrder ==
    ASSUME IInv, NEW r \in Requests, pc[r] = "rewrite", call[r].op \notin {"create", "upload"}
    PROVE  call[r].op \in Refreshing /\ order[r] \in Orders
<1>1. call[r] \in Calls /\ pc[r] \in StepsOf(call[r].op) /\ RequestOK(r)
  BY UnderWay
<1>2. call[r].op \in Refreshing
  BY <1>1, CallFields DEF StepsOf, Refreshing
<1> QED BY <1>1, <1>2 DEF RequestOK, ListOK

LEMMA RewriteStep ==
    ASSUME IInv, NEW r \in Requests, Rewrite(r)
    PROVE  IInv'
<1>1. PICK p \in Participants :
          /\ pc[r] = "rewrite" /\ IsNext(r, p) /\ WriteProfile(r, p, listed[r][p])
          /\ listed' = [listed EXCEPT ![r][p] = Absent]
          /\ UNCHANGED <<schema, traits, jobs, pc, call, todo, order, known, alone>>
  BY DEF Rewrite
<1>2. RequestOK(r)
  BY <1>1, UnderWay
<1>3. /\ listed[r][p] # Absent /\ listed[r][p] \in Cvs
      /\ \A o \in Participants : listed[r][o] # Absent => order[r][p] <= order[r][o]
  BY <1>1 DEF IsNext, IInv, TypeOK
<1>4. call[r].op \notin {"create", "upload"}
  BY <1>2, <1>3, NothingTyped DEF RequestOK, ListOK
<1>5. pc' = [pc EXCEPT ![r] = "rewrite"]
  BY <1>1 DEF IInv, TypeOK
<1>6. \A o \in Participants \ {p} : listed[r][o] # Absent => order[r][p] < order[r][o]
  BY <1>1, <1>3, <1>4, RefreshesInOrder, OrdersAreStrict
<1> QED BY <1>1, <1>3, <1>4, <1>5, <1>6, WriteStep

LEMMA MatchStep ==
    ASSUME IInv, NEW r \in Requests, Match(r)
    PROVE  IInv'
<1>1. pc[r] = "match" /\ ((Finish(r) /\ UNCHANGED tables) \/ Fail(r))
  BY DEF Match
<1> QED BY <1>1, FinishStep, FailStep

LEMMA CommitStep ==
    ASSUME IInv, NEW r \in Requests, Commit(r)
    PROVE  IInv'
<1> DEFINE names == NamesOf(call[r].labels)
<1>1. /\ pc[r] = "commit" /\ pc[r] # "idle" /\ RequestOK(r) /\ call[r] \in Calls
      /\ pc[r] \in StepsOf(call[r].op) /\ Forget(r) /\ schema' = schema
      /\ traits' = VisibleTraits(r)
      /\ profiles' = [p \in Participants |-> VisibleProfile(r, p)]
      /\ jobs' = IF call[r].op = "createJob" THEN [jobs EXCEPT ![call[r].job] = names] ELSE jobs
  BY UnderWay DEF Commit
<1>2. own[r] \in OwnWrites /\ traits \subseteq Names
  BY LocalsTyped DEF IInv, TypeOK
<1>3. traits \subseteq traits' /\ traits' \subseteq Names
  BY <1>1, <1>2 DEF VisibleTraits, OwnWrites
<1>4. call[r].op = "createJob" =>
          /\ call[r].job \in Jobs /\ call[r].labels \in Labellings
          /\ names \subseteq traits' /\ names # Absent
  <2>1. call[r].op = "createJob" => todo[r] = <<>> /\ names \subseteq NamesOf(<<>>) \cup traits'
    BY <1>1 DEF RequestOK, ReadOK
  <2>2. NamesOf(<<>>) = {}
    BY DEF NamesOf
  <2> QED BY <1>1, <1>3, <2>1, <2>2, CallFields, AbsentIsNone
<1>5. /\ jobs' \in [Jobs -> (SUBSET traits') \cup {Absent}]
      /\ \A j \in Jobs : jobs[j] # Absent => jobs'[j] # Absent
      /\ \A j \in Jobs : jobs'[j] # Absent => \E labels \in Labellings : jobs'[j] = NamesOf(labels)
  <2>1. jobs \in [Jobs -> (SUBSET traits') \cup {Absent}]
    BY <1>3 DEF IInv, TypeOK
  <2>2. CASE call[r].op = "createJob"
    BY <1>1, <1>4, <2>1, <2>2 DEF IInv, TablesOK
  <2>3. CASE call[r].op # "createJob"
    BY <1>1, <2>1, <2>3 DEF IInv, TablesOK
  <2> QED BY <2>2, <2>3
<1>6. ASSUME NEW p \in Participants, own[r].profiles[p] # Absent
      PROVE  /\ own[r].profiles[p] \in [cv : Cvs, traits : SUBSET traits']
             /\ Found(own[r].profiles[p])
  BY <1>1, <1>2, <1>6 DEF RequestOK, OwnOK, OwnWrites, Profiles
<1>7. /\ profiles' \in [Participants -> [cv : Cvs, traits : SUBSET traits'] \cup {Absent}]
      /\ \A p \in Participants : profiles[p] # Absent => profiles'[p] # Absent
      /\ \A p \in Participants : profiles'[p] # Absent => Found(profiles'[p])
  <2>1. profiles \in [Participants -> [cv : Cvs, traits : SUBSET traits'] \cup {Absent}]
    BY <1>3 DEF IInv, TypeOK
  <2>2. \A p \in Participants :
            profiles'[p] = IF own[r].profiles[p] # Absent THEN own[r].profiles[p] ELSE profiles[p]
    BY <1>1 DEF VisibleProfile
  <2> QED BY <1>1, <1>6, <2>1, <2>2 DEF IInv, TablesOK, VisibleProfile
<1>8. TablesOK'
  BY <1>5, <1>7 DEF TablesOK, Found
<1>9. \A s \in Requests \ {r}, p \in Participants :
          /\ profiles'[p] # profiles[p] => own[s].profiles[p] = Absent
          /\ Nothing.profiles[p] # Absent => own[s].profiles[p] = Absent
  BY <1>1, NothingTyped DEF VisibleProfile, RequestOK, RowsOK
<1>10. RequestOK(r)'
  BY <1>1, Forgotten
<1>11. /\ pc' = [pc EXCEPT ![r] = "idle"] /\ call' = [call EXCEPT ![r] = NoCall]
       /\ todo' = [todo EXCEPT ![r] = <<>>] /\ listed' = [listed EXCEPT ![r] = Nobody]
       /\ order' = [order EXCEPT ![r] = Absent]
       /\ known' = [known EXCEPT ![r] = {}] /\ own' = [own EXCEPT ![r] = Nothing]
       /\ alone' \in [Requests -> BOOLEAN]
       /\ \A s \in Requests \ {r} : alone'[s] => alone[s] /\ pc[r] # "idle"
  BY <1>1 DEF Forget, Goto, IInv, TypeOK
<1>12. /\ "idle" \in Steps /\ <<>> \in Seq(Names) /\ NoCall \in Calls \cup {NoCall}
       /\ {} \in SUBSET Names
  BY DEF Steps
<1> QED BY <1>1, <1>3, <1>5, <1>7, <1>8, <1>9, <1>10, <1>11, <1>12, NothingTyped, StepKeeps

LEMMA AwaitingIsBusy ==
    ASSUME NEW r, NEW s, Awaits(r, s)
    PROVE  pc[r] \in {"insert", "store", "rewrite"}
BY DEF Awaits, AwaitsTrait, AwaitsProfile, IsNext

LEMMA BreakDeadlockStep ==
    ASSUME IInv, BreakDeadlock
    PROVE  IInv'
<1>1. PICK group \in SUBSET Requests : Deadlocked(group) /\ \E victim \in group : Fail(victim)
  BY DEF BreakDeadlock
<1>2. PICK victim \in group : Fail(victim)
  BY <1>1
<1>3. \E s \in group : Awaits(victim, s)
  BY <1>1, <1>2 DEF Deadlocked
<1>4. pc[victim] # "idle"
  BY <1>3, AwaitingIsBusy
<1> QED BY <1>2, <1>4, FailStep

LEMMA NextStep == IInv /\ [Next]_vars => IInv'
<1> SUFFICES ASSUME IInv, [Next]_vars PROVE IInv'
  OBVIOUS
<1>1. CASE UNCHANGED vars
  <2>1. /\ schema' = schema /\ traits' = traits /\ jobs' = jobs /\ profiles' = profiles
        /\ pc' = pc /\ call' = call /\ todo' = todo /\ listed' = listed /\ order' = order
        /\ known' = known /\ own' = own /\ alone' = alone
    BY <1>1 DEF vars, tables, locals
  <2>2. TypeOK' /\ TablesOK'
    BY <2>1 DEF IInv, TypeOK, TablesOK, Found
  <2>3. ASSUME NEW r \in Requests PROVE RequestOK(r)'
    <3>1. RequestOK(r)
      BY DEF IInv
    <3>2. /\ VisibleTraits(r)' = VisibleTraits(r)
          /\ \A p \in Participants : VisibleProfile(r, p)' = VisibleProfile(r, p)
      BY <2>1 DEF VisibleTraits, VisibleProfile
    <3>3. CallOK(r)' /\ ListOK(r)' /\ RowsOK(r)' /\ ReadOK(r)'
      BY <2>1, <3>1, <3>2 DEF RequestOK, CallOK, Idle, InTx, ListOK, RowsOK, ReadOK
    <3>4. OwnOK(r)' /\ AloneOK(r)'
      BY <2>1, <3>1, <3>2 DEF RequestOK, OwnOK, Found, AloneOK
    <3> QED BY <3>3, <3>4 DEF RequestOK
  <2> QED BY <2>2, <2>3 DEF IInv
<1>2. ASSUME NEW r \in Requests, Run(r) PROVE IInv'
  <2>1. CASE FindTrait(r) \/ InsertTrait(r) \/ InsertJob(r)
    BY <2>1, FindTraitStep, InsertTraitStep, InsertJobStep
  <2>2. CASE ReadArguments(r) \/ ListParticipants(r)
    BY <2>2, ReadArgumentsStep, ListStep
  <2>3. CASE PreloadTraits(r) \/ AllTraits(r) \/ Match(r)
    BY <2>3, PreloadStep, AllTraitsStep, MatchStep
  <2>4. CASE StoreProfile(r) \/ Rewrite(r)
    BY <2>4, StoreProfileStep, RewriteStep
  <2>5. CASE Written(r)
    BY <2>5, FinishStep DEF Written
  <2>6. CASE Commit(r)
    BY <2>6, CommitStep
  <2>7. CASE Rollback(r)
    BY <2>7, ForgetStep DEF Rollback
  <2> QED BY <1>2, <2>1, <2>2, <2>3, <2>4, <2>5, <2>6, <2>7 DEF Run
<1>3. ASSUME NEW r \in Requests, NEW c \in Calls, Receive(r, c) PROVE IInv'
  BY <1>3, ReceiveStep
<1>4. ASSUME NEW r \in Requests, Abandon(r) PROVE IInv'
  BY <1>4, ForgetStep DEF Abandon
<1>5. CASE BreakDeadlock
  BY <1>5, BreakDeadlockStep
<1> QED BY <1>1, <1>2, <1>3, <1>4, <1>5 DEF Next

LEMMA InitEstablishesIInv == Init => IInv
<1> SUFFICES ASSUME Init PROVE IInv
  OBVIOUS
<1>1. \A r \in Requests : Idle(r)
  BY DEF Init, Idle
<1>2. ASSUME NEW r \in Requests PROVE RequestOK(r)
  <2>1. Idle(r)
    BY <1>1
  <2>2. own[r].traits = {} /\ \A p \in Participants : own[r].profiles[p] = Absent
    BY <2>1, NothingTyped DEF Idle
  <2>3. CallOK(r) /\ AloneOK(r)
    BY <2>1 DEF CallOK, AloneOK, Idle
  <2>4. ReadOK(r) /\ ListOK(r)
    BY <2>1 DEF ReadOK, ListOK, Idle, NoCall
  <2>5. OwnOK(r) /\ RowsOK(r)
    BY <2>2 DEF OwnOK, RowsOK
  <2> QED BY <2>3, <2>4, <2>5 DEF RequestOK
<1>3. TypeOK
  <2>1. /\ schema \in Schemas /\ traits \subseteq Names
        /\ jobs \in [Jobs -> (SUBSET traits) \cup {Absent}]
        /\ profiles \in [Participants -> [cv : Cvs, traits : SUBSET traits] \cup {Absent}]
    BY DEF Init, Nobody
  <2>2. /\ pc \in [Requests -> Steps] /\ call \in [Requests -> Calls \cup {NoCall}]
        /\ alone \in [Requests -> BOOLEAN] /\ known \in [Requests -> SUBSET Names]
    BY DEF Init, Steps
  <2>3. <<>> \in Seq(Names)
    OBVIOUS
  <2>4. todo \in [Requests -> Seq(Names)]
    BY <2>3 DEF Init
  <2>5. listed \in [Requests -> [Participants -> Cvs \cup {Absent}]] /\ own \in [Requests -> OwnWrites]
    BY NothingTyped DEF Init
  <2>6. order \in [Requests -> Orders \cup {Absent}]
    BY DEF Init
  <2> QED BY <2>1, <2>2, <2>4, <2>5, <2>6 DEF TypeOK, OwnWrites
<1>4. TablesOK
  BY NothingTyped DEF Init, TablesOK
<1> QED BY <1>2, <1>3, <1>4 DEF IInv

-----------------------------------------------------------------------------
(* Theorems *)

\* Tables, requests and uncommitted writes fit together in every reachable
\* state, in either schema (services.go:105-203, 332-405, store.go:295-374).
THEOREM Invariance == Spec => []IInv
<1> QED BY InitEstablishesIInv, NextStep, PTL DEF Spec

\* Every reachable state has the types of the schema and the services; no
\* job or participant has a trait that is not in the table of traits.
THEOREM TypeCorrect == Spec => []TypeOK
<1>1. IInv => TypeOK
  BY DEF IInv
<1> QED BY <1>1, Invariance, PTL

\* A refresh that nobody has disturbed leaves every participant with all the
\* traits found in the CV, the new job's included (services.go:385-405).
THEOREM CompleteRefresh == Spec => []AloneRefreshIsComplete
<1>1. IInv => AloneRefreshIsComplete
  <2> SUFFICES ASSUME IInv, NEW r \in Requests, alone[r], pc[r] \in {"rewrite", "commit"},
                      listed[r] = Nobody, NEW p \in Participants,
                      VisibleProfile(r, p) # Absent
               PROVE  VisibleProfile(r, p).traits
                          = Extract(VisibleProfile(r, p).cv, VisibleTraits(r))
    BY DEF AloneRefreshIsComplete
  <2>1. RequestOK(r) /\ listed[r][p] = Absent
    BY NothingTyped DEF IInv
  <2> QED BY <2>1 DEF RequestOK, AloneOK
<1> QED BY <1>1, Invariance, PTL

-----------------------------------------------------------------------------
(* Waiting in a circle *)

\* A set of participants that is not empty has one that comes last in an order.
LEMMA LastOfThem ==
    ASSUME NEW place \in Orders, NEW some \in SUBSET Participants, some # {}
    PROVE  \E p \in some : \A q \in some : place[q] <= place[p]
<1> DEFINE N == Cardinality(Participants)
           after == {N - place[p] : p \in some}
<1>1. N \in Nat /\ \A p \in Participants : place[p] \in 1..N
  BY MatchingConstants, FS_CardinalityType, OrdersAreStrict
<1>2. after \subseteq Nat /\ after # {}
  BY <1>1
<1>3. PICK n \in after : \A m \in after : ~(m < n)
  <2>1. IsWellFoundedOn(OpToRel(<, Nat), Nat)
    BY NatLessThanWellFounded
  <2>2. PICK n \in after : \A m \in after : <<m, n>> \notin OpToRel(<, Nat)
    BY <1>2, <2>1, WFMin
  <2> QED BY <1>2, <2>2 DEF OpToRel
<1>4. PICK p \in some : n = N - place[p]
  OBVIOUS
<1>5. ASSUME NEW q \in some PROVE place[q] <= place[p]
  BY <1>1, <1>3, <1>4
<1> QED BY <1>5

\* Whoever waits for a participant waits for a refresh that is going on to one
\* further on in its order.
LEMMA WaitsForLater ==
    ASSUME IInv, NEW r \in Requests, NEW s \in Requests, NEW p \in Participants,
           IsNext(r, p), own[s].profiles[p] # Absent, s # r,
           NEW o \in Requests, Awaits(s, o)
    PROVE  /\ order[s] \in Orders
           /\ \E q \in Participants : /\ IsNext(s, q) /\ own[o].profiles[q] # Absent
                                      /\ order[s][p] < order[s][q]
<1>1. /\ pc[s] \in {"rewrite", "commit", "abort"} /\ RequestOK(s)
      /\ pc[s] = "rewrite" => \A q \in Participants :
             listed[s][q] # Absent => order[s][p] < order[s][q]
  BY DEF IInv, RequestOK, OwnOK
<1>2. pc[s] = "rewrite"
  BY <1>1, AwaitingIsBusy
<1>3. PICK q \in Participants : IsNext(s, q) /\ own[o].profiles[q] # Absent
  BY <1>2 DEF Awaits, AwaitsTrait, AwaitsProfile
<1>4. listed[s][q] # Absent
  BY <1>2, <1>3 DEF IsNext
<1>5. call[s].op \notin {"create", "upload"}
  BY <1>1, <1>4, NothingTyped DEF RequestOK, ListOK
<1>6. order[s] \in Orders
  BY <1>2, <1>5, RefreshesInOrder
<1> QED BY <1>1, <1>2, <1>3, <1>4, <1>6

\* Two orders that disagree on two participants disagree on namesakes.
LEMMA OnlyNamesakesDiffer ==
    ASSUME NEW r \in Requests, NEW s \in Requests, order[r] \in Orders, order[s] \in Orders,
           NEW p \in Participants, NEW q \in Participants,
           order[r][p] < order[r][q], order[s][q] < order[s][p]
    PROVE  OppositeNamesakes(r, s)
<1>1. order[r] # Absent /\ order[s] # Absent
  BY MatchingConstants DEF Orders
<1>2. NameOf[p] <= NameOf[q] /\ NameOf[q] <= NameOf[p]
  BY OrdersAreStrict
<1>3. NameOf[p] = NameOf[q]
  BY <1>2, MatchingConstants
<1>4. p # q
  BY OrdersAreStrict
<1> QED BY <1>1, <1>3, <1>4 DEF OppositeNamesakes

\* A circle in which somebody waits for a participant: consider the last one, in
\* the order of a refresh of the circle, that anybody of it waits for.  Who has
\* written it waits for another that comes later in its own order and earlier in
\* the first refresh's, so these two have listed namesakes in opposite orders.
LEMMA CircleOfNamesakes ==
    ASSUME IInv, NEW group \in SUBSET Requests, Deadlocked(group),
           NEW r \in group, pc[r] # "insert"
    PROVE  \E u, v \in group : OppositeNamesakes(u, v)
<1> DEFINE Held(w, s, p) == IsNext(w, p) /\ s # w /\ own[s].profiles[p] # Absent
           waitedFor == {p \in Participants : \E w, s \in group : Held(w, s, p)}
<1>1. PICK s \in group, first \in Participants : Held(r, s, first)
  <2>1. PICK s \in group : Awaits(r, s)
    BY DEF Deadlocked
  <2>2. AwaitsProfile(r, s)
    BY <2>1 DEF Awaits, AwaitsTrait
  <2> QED BY <2>2 DEF AwaitsProfile
<1>2. ASSUME NEW w \in group, NEW h \in group, NEW p \in Participants, Held(w, h, p)
      PROVE  /\ order[h] \in Orders
             /\ \E q \in waitedFor : order[h][p] < order[h][q]
  <2>1. PICK o \in group : Awaits(h, o)
    BY DEF Deadlocked
  <2>2. order[h] \in Orders
    BY <1>2, <2>1, WaitsForLater
  <2>3. PICK q \in Participants :
            IsNext(h, q) /\ own[o].profiles[q] # Absent /\ order[h][p] < order[h][q]
    BY <1>2, <2>1, WaitsForLater
  <2>4. h # o
    BY <2>1 DEF Awaits, AwaitsTrait, AwaitsProfile
  <2> QED BY <2>2, <2>3, <2>4
<1>3. order[s] \in Orders /\ waitedFor # {}
  BY <1>1, <1>2
<1>4. PICK last \in waitedFor : \A q \in waitedFor : order[s][q] <= order[s][last]
  BY <1>3, LastOfThem
<1>5. PICK w \in group, h \in group : Held(w, h, last)
  OBVIOUS
<1>6. order[h] \in Orders /\ \E q \in waitedFor : order[h][last] < order[h][q]
  BY <1>2, <1>5
<1>7. PICK q \in waitedFor : order[h][last] < order[h][q]
  BY <1>6
<1>8. last # q
  BY <1>6, <1>7, OrdersAreStrict
<1>9. order[s][q] < order[s][last]
  BY <1>3, <1>4, <1>8, OrdersAreStrict
<1>10. OppositeNamesakes(h, s)
  BY <1>3, <1>6, <1>7, <1>9, OnlyNamesakesDiffer
<1> QED BY <1>10

\* However many requests there are, a circle of them consists of creations of
\* traits, or two of them have listed namesakes in opposite orders
\* (store.go:297, services.go:385-405).
THEOREM Circles == Spec => []OnlyTraitsOrNamesakesDeadlock
<1>1. IInv => OnlyTraitsOrNamesakesDeadlock
  BY CircleOfNamesakes DEF OnlyTraitsOrNamesakesDeadlock
<1> QED BY <1>1, Invariance, PTL

\* Where no two participants have the same last and first name, only the
\* creation of traits, which follows the order of a job's labels, can end in a
\* deadlock.
THEOREM OnlyTraits ==
    (\A p, q \in Participants : NameOf[p] = NameOf[q] => p = q) =>
        (Spec => [](\A group \in SUBSET Requests :
                        Deadlocked(group) => \A r \in group : pc[r] = "insert"))
<1> SUFFICES ASSUME \A p, q \in Participants : NameOf[p] = NameOf[q] => p = q
             PROVE  Spec => [](\A group \in SUBSET Requests :
                                   Deadlocked(group) => \A r \in group : pc[r] = "insert")
  OBVIOUS
<1>1. IInv => \A group \in SUBSET Requests :
                  Deadlocked(group) => \A r \in group : pc[r] = "insert"
  BY CircleOfNamesakes DEF OppositeNamesakes
<1> QED BY <1>1, Invariance, PTL

-----------------------------------------------------------------------------
(* What a step can be *)

Acts(r) == Run(r) \/ Abandon(r) \/ (Fail(r) /\ pc[r] # "idle") \/ \E c \in Calls : Receive(r, c)

LEMMA SomebodyActs ==
    ASSUME Next
    PROVE  \E r \in Requests : Acts(r)
<1>1. CASE BreakDeadlock
  <2>1. PICK group \in SUBSET Requests :
            Deadlocked(group) /\ \E victim \in group : Fail(victim)
    BY <1>1 DEF BreakDeadlock
  <2>2. PICK victim \in group : Fail(victim)
    BY <2>1
  <2>3. PICK s \in group : Awaits(victim, s)
    BY <2>1 DEF Deadlocked
  <2> QED BY <2>2, <2>3, AwaitingIsBusy DEF Acts
<1>2. CASE ~BreakDeadlock
  BY <1>2 DEF Next, Acts
<1> QED BY <1>1, <1>2

\* Whoever acts leaves the others' steps and locals alone.
LEMMA OthersRest ==
    ASSUME IInv, NEW r \in Requests, Acts(r), NEW s \in Requests, s # r
    PROVE  /\ pc'[s] = pc[s] /\ call'[s] = call[s]
           /\ listed'[s] = listed[s] /\ own'[s] = own[s]
<1> USE DEF IInv, TypeOK, Goto
<1>1. CASE Forget(r)
  BY <1>1 DEF Forget
<1>2. CASE Fail(r)
  BY <1>1, <1>2 DEF Fail, locals
<1>3. CASE Finish(r)
  BY <1>1, <1>3 DEF Finish, locals
<1>4. CASE FindTrait(r) \/ InsertTrait(r) \/ InsertJob(r)
  BY <1>2, <1>4 DEF FindTrait, InsertTrait, InsertJob, locals
<1>5. CASE ReadArguments(r) \/ ListParticipants(r) \/ PreloadTraits(r) \/ AllTraits(r)
  BY <1>2, <1>5 DEF ReadArguments, ListParticipants, PreloadTraits, AllTraits, locals
<1>6. CASE Match(r) \/ Written(r) \/ Commit(r) \/ Rollback(r) \/ Abandon(r)
  BY <1>1, <1>2, <1>3, <1>6 DEF Match, Written, Commit, Rollback, Abandon
<1>7. CASE StoreProfile(r) \/ Rewrite(r)
  BY <1>2, <1>7 DEF StoreProfile, Rewrite, WriteProfile, locals
<1>8. CASE \E c \in Calls : Receive(r, c)
  BY <1>8 DEF Receive
<1> QED BY <1>2, <1>4, <1>5, <1>6, <1>7, <1>8 DEF Acts, Run

-----------------------------------------------------------------------------
(* The threshold *)

\* A rounded score of 60 is 59.95% or more, and 60% of fewer than 402 terms.
LEMMA Threshold ==
    ASSUME NEW n \in Nat, NEW m \in Nat
    PROVE  /\ Qualifies(m, n) => 2000 * m >= 1199 * n
           /\ Qualifies(m, n) /\ n < 402 => 5 * m >= 3 * n
           /\ n > 0 /\ 2000 * m >= 1199 * n => Qualifies(m, n)
<1>1. ASSUME 5 * m < 3 * n, 2000 * m >= 1199 * n PROVE n >= 402
  <2>1. 5 * m <= 3 * n - 1
    BY <1>1
  <2>2. n >= 400
    BY <1>1, <2>1
  <2>3. CASE n = 400
    BY <1>1, <2>3
  <2>4. CASE n = 401
    BY <1>1, <2>4
  <2> QED BY <2>2, <2>3, <2>4
<1>2. Qualifies(m, n) <=> n > 0 /\ 2000 * m >= 1199 * n
  BY DEF Qualifies
<1> QED BY <1>1, <1>2

LEMMA FirstOnes ==
    ASSUME NEW n \in Nat
    PROVE  IsFiniteSet(1..n) /\ Cardinality(1..n) = n
<1>1. 1 \in Int /\ n \in Int
  OBVIOUS
<1>2. IsFiniteSet(1..n) /\ Cardinality(1..n) = (IF 1 > n THEN 0 ELSE n - 1 + 1)
  BY <1>1, FS_Interval
<1> QED BY <1>2

\* A job has finitely many terms.
LEMMA FinitelyManyTerms ==
    ASSUME IInv, NEW j \in Jobs, jobs[j] # Absent
    PROVE  IsFiniteSet(Required(j)) /\ Cardinality(Required(j)) \in Nat
<1>1. PICK labels \in Labellings : jobs[j] = NamesOf(labels)
  BY DEF IInv, TablesOK
<1>2. labels \in Seq(Names) /\ Len(labels) \in Nat /\ DOMAIN labels = 1..Len(labels)
  BY MatchingConstants
<1> DEFINE terms == [i \in 1..Len(labels) |-> TermOf[labels[i]]]
<1>3. terms \in Surjection(1..Len(labels), Required(j))
  BY <1>1, <1>2 DEF Required, NamesOf, Surjection
<1>4. IsFiniteSet(Required(j))
  BY <1>2, <1>3, FirstOnes, FS_Surjection
<1> QED BY <1>4, FS_CardinalityType

\* Whoever has more terms has no fewer of those the job names.
LEMMA MoreTerms ==
    ASSUME NEW S, IsFiniteSet(S), NEW T, NEW U, T \subseteq U
    PROVE  /\ Cardinality(S \cap T) \in Nat /\ Cardinality(S \cap U) \in Nat
           /\ Cardinality(S \cap T) <= Cardinality(S \cap U)
<1>1. IsFiniteSet(S \cap U) /\ IsFiniteSet(S \cap T)
  BY FS_Subset
<1> QED BY <1>1, FS_Subset, FS_CardinalityType

\* The score of some terms, with those that the traits add.
LEMMA ScoreIsThreshold ==
    ASSUME IInv, NEW j \in Jobs, jobs[j] # Absent, NEW cv, NEW names, NEW more,
           {TermOf[n] : n \in names} \subseteq more
    PROVE  /\ AtLeastSixty(j, cv) => Eligible(j, cv, names)
           /\ Eligible(j, cv, names) => AtLeastSixty(j, cv \cup more)
<1> DEFINE required == Required(j)
           owned == cv \cup {TermOf[n] : n \in names}
           both == cv \cup more
           n == Cardinality(required)
           own1 == Cardinality(required \cap cv)
           own2 == Cardinality(required \cap owned)
           own3 == Cardinality(required \cap both)
<1>1. IsFiniteSet(required) /\ n \in Nat
  BY FinitelyManyTerms
<1>2. cv \subseteq owned /\ owned \subseteq both
  OBVIOUS
<1>3. /\ own1 \in Nat /\ own2 \in Nat /\ own3 \in Nat
      /\ own1 <= own2 /\ own2 <= own3
  BY <1>1, <1>2, MoreTerms
<1>4. Eligible(j, cv, names) <=> Qualifies(own2, n)
  BY DEF Eligible
<1>5. /\ AtLeastSixty(j, cv) => n > 0 /\ 2000 * own1 >= 1199 * n
      /\ n > 0 /\ 2000 * own3 >= 1199 * n /\ (n < 402 => 5 * own3 >= 3 * n) =>
             AtLeastSixty(j, both)
  BY DEF AtLeastSixty
<1>6. Qualifies(own2, n) => n > 0
  BY DEF Qualifies
<1> HIDE DEF required, owned, both, n, own1, own2, own3
<1>7. 2000 * own1 <= 2000 * own2 /\ 2000 * own2 <= 2000 * own3 /\ 5 * own2 <= 5 * own3
  BY <1>3
<1>8. AtLeastSixty(j, cv) => Qualifies(own2, n)
  <2>1. AtLeastSixty(j, cv) => n > 0 /\ 2000 * own2 >= 1199 * n
    BY <1>1, <1>3, <1>5, <1>7
  <2> QED BY <1>1, <1>3, <2>1, Threshold
<1>9. Qualifies(own2, n) => AtLeastSixty(j, both)
  <2>1. Qualifies(own2, n) => 2000 * own2 >= 1199 * n /\ (n < 402 => 5 * own2 >= 3 * n)
    BY <1>1, <1>3, Threshold
  <2>2. Qualifies(own2, n) => 2000 * own3 >= 1199 * n /\ (n < 402 => 5 * own3 >= 3 * n)
    BY <1>1, <1>3, <1>7, <2>1
  <2> QED BY <1>5, <1>6, <2>2
<1> QED BY <1>4, <1>8, <1>9 DEF both

\* Who is found among the candidates of a job with any number of terms: whoever
\* has 60% of them in the CV that is read, and beyond that only those whose CV
\* has been replaced between the two SELECTs and who have 60% in the old and the
\* new CV together; from 402 terms on, 59.95% round to 60 (services.go:288-331,
\* store.go:295-301).
THEOREM Eligibility == Spec => EligibilityFollowsCVs
<1> DEFINE Follows(r) ==
        LET c == call[r]
            read == listed[r][c.participant]
            latest == profiles[c.participant].cv
            eligible == Eligible(c.job, read, known'[r])
        IN  /\ AtLeastSixty(c.job, read) => eligible
            /\ eligible => \/ AtLeastSixty(c.job, read)
                           \/ /\ latest # read
                              /\ AtLeastSixty(c.job, read \cup latest)
<1>1. ASSUME IInv, NEW r \in Requests, PreloadTraits(r) PROVE Follows(r)
  <2> DEFINE c == call[r]
             read == listed[r][c.participant]
             latest == profiles[c.participant].cv
  <2>1. /\ pc[r] = "preload" /\ RequestOK(r) /\ c \in Calls /\ c.op = "invite"
    BY <1>1, UnderWay, CallFields DEF PreloadTraits, StepsOf
  <2>2. c.job \in Jobs /\ c.participant \in Participants
    BY <2>1, CallFields
  <2>3. jobs[c.job] # Absent /\ profiles[c.participant] # Absent
    BY <2>1 DEF RequestOK, ReadOK
  <2>4. known'[r] = profiles[c.participant].traits
    BY <1>1 DEF PreloadTraits, IInv, TypeOK
  <2>5. {TermOf[n] : n \in known'[r]} \subseteq latest
    BY <1>1, <2>2, <2>3, <2>4 DEF IInv, TablesOK, Found
  <2>6. /\ AtLeastSixty(c.job, read) => Eligible(c.job, read, known'[r])
        /\ Eligible(c.job, read, known'[r]) => AtLeastSixty(c.job, read \cup latest)
    BY <1>1, <2>2, <2>3, <2>5, ScoreIsThreshold
  <2>7. latest = read => read \cup latest = read
    OBVIOUS
  <2> QED BY <2>6, <2>7
<1>2. ASSUME IInv, Next, NEW r \in Requests, pc[r] = "preload", pc'[r] = "match"
      PROVE  PreloadTraits(r)
  <2>1. PICK s \in Requests : Acts(s)
    BY <1>2, SomebodyActs
  <2>2. s = r
    BY <1>2, <2>1, OthersRest
  <2>3. pc \in [Requests -> Steps]
    BY <1>2 DEF IInv, TypeOK
  <2>4. ~Fail(r) /\ ~Abandon(r)
    BY <1>2, <2>3 DEF Fail, Abandon, Forget, Goto
  <2> QED BY <1>2, <2>1, <2>2, <2>4
          DEF Acts, Run, Receive, FindTrait, InsertTrait, InsertJob, ReadArguments, ListParticipants,
              AllTraits, Match, StoreProfile, Rewrite, Written, Commit, Rollback
<1>3. IInv /\ [Next]_vars =>
          [\A r \in Requests : (pc[r] = "preload" /\ pc'[r] = "match") => Follows(r)]_vars
  BY <1>1, <1>2
<1> QED BY <1>3, Invariance, PTL DEF Spec, EligibilityFollowsCVs

-----------------------------------------------------------------------------
(* Uploads *)

\* Nobody will write another CV of p when only r has moved, and p's is as it was.
LEMMA HoldsNone ==
    ASSUME NEW p \in Participants, HoldingAnother(p) = {}, profiles'[p].cv = profiles[p].cv,
           NEW r \in Requests,
           \A s \in Requests \ {r} :
               call'[s] = call[s] /\ listed'[s] = listed[s] /\ own'[s] = own[s],
           call'[r].op \in Refreshing =>
               /\ listed'[r][p] \in {Absent, profiles[p].cv}
               /\ own'[r].profiles[p] # Absent => own'[r].profiles[p].cv = profiles[p].cv
    PROVE  HoldingAnother(p)' = {}
<1> SUFFICES ASSUME NEW s \in Requests, s \in HoldingAnother(p)' PROVE FALSE
  BY DEF HoldingAnother
<1>1. CASE s = r
  BY <1>1 DEF HoldingAnother
<1>2. CASE s # r
  BY <1>2 DEF HoldingAnother
<1> QED BY <1>1, <1>2

\* What a request holds of a participant whom nobody holds with another CV.
LEMMA HoldsStored ==
    ASSUME NEW p \in Participants, HoldingAnother(p) = {},
           NEW r \in Requests, call[r].op \in Refreshing
    PROVE  /\ listed[r][p] \in {Absent, profiles[p].cv}
           /\ own[r].profiles[p] # Absent => own[r].profiles[p].cv = profiles[p].cv
BY DEF HoldingAnother

Settled(p) ==
    \/ profiles'[p].cv = profiles[p].cv /\ HoldingAnother(p)' = {}
    \/ \E r \in Requests :
           /\ call[r].op = "upload" /\ call[r].participant = p
           /\ call[r].cv = profiles'[p].cv /\ pc'[r] # pc[r]

LEMMA ForgetSettles ==
    ASSUME IInv, NEW r \in Requests, Forget(r), profiles' = profiles,
           NEW p \in Participants, HoldingAnother(p) = {},
           \A s \in Requests \ {r} :
               call'[s] = call[s] /\ listed'[s] = listed[s] /\ own'[s] = own[s]
    PROVE  Settled(p)
<1>1. call'[r] = NoCall
  BY DEF Forget, IInv, TypeOK
<1>2. call'[r].op \notin Refreshing
  BY <1>1 DEF NoCall, Refreshing
<1> QED BY <1>2, HoldsNone DEF Settled

\* A step that changes neither rows of participants nor what r holds of them.
LEMMA SameSettles ==
    ASSUME IInv, NEW r \in Requests, profiles' = profiles, call' = call, listed' = listed,
           own'[r].profiles = own[r].profiles,
           NEW p \in Participants, HoldingAnother(p) = {},
           \A s \in Requests \ {r} :
               call'[s] = call[s] /\ listed'[s] = listed[s] /\ own'[s] = own[s]
    PROVE  Settled(p)
BY HoldsNone, HoldsStored DEF Settled

LEMMA ActSettles ==
    ASSUME IInv, NEW r \in Requests, Acts(r),
           NEW p \in Participants, profiles[p] # Absent, HoldingAnother(p) = {}
    PROVE  Settled(p)
<1>1. \A s \in Requests \ {r} :
          /\ pc'[s] = pc[s] /\ call'[s] = call[s] /\ listed'[s] = listed[s] /\ own'[s] = own[s]
  BY OthersRest
<1>2. pc[r] # "idle" => /\ call[r] \in Calls /\ pc[r] \in StepsOf(call[r].op) /\ RequestOK(r)
  BY UnderWay
<1>3. CASE Forget(r) /\ UNCHANGED tables
  BY <1>1, <1>3, ForgetSettles DEF tables
<1>4. CASE UNCHANGED <<profiles, call, listed>> /\ own'[r].profiles = own[r].profiles
  BY <1>1, <1>4, SameSettles
<1>5. CASE Fail(r) \/ (Finish(r) /\ UNCHANGED tables)
  BY <1>3, <1>4, <1>5 DEF Fail, Finish, locals, tables
<1>6. CASE FindTrait(r) \/ InsertJob(r) \/ PreloadTraits(r) \/ AllTraits(r)
  BY <1>4, <1>6 DEF FindTrait, InsertJob, PreloadTraits, AllTraits, tables, locals
<1>7. CASE InsertTrait(r)
  <2>1. own'[r] = own[r] \/ own' = [own EXCEPT ![r].traits = @ \cup {Head(todo[r])}] \/ Fail(r)
    BY <1>7 DEF InsertTrait
  <2>2. own[r] \in OwnWrites /\ own \in [Requests -> OwnWrites]
    BY DEF IInv, TypeOK, OwnWrites
  <2>3. Fail(r) \/ own'[r].profiles = own[r].profiles
    BY <2>1, <2>2 DEF OwnWrites
  <2>4. Fail(r) \/ UNCHANGED <<profiles, call, listed>>
    BY <1>7 DEF InsertTrait
  <2> QED BY <1>4, <1>5, <2>3, <2>4
<1>8. CASE ReadArguments(r)
  BY <1>4, <1>5, <1>8 DEF ReadArguments, tables, locals
<1>9. CASE ListParticipants(r)
  <2>1. own[r].profiles[p] = Absent
    BY <1>2, <1>9 DEF ListParticipants, RequestOK, OwnOK
  <2>2. listed'[r][p] = profiles[p].cv
    BY <1>9, <2>1 DEF ListParticipants, VisibleProfile, IInv, TypeOK
  <2>3. profiles' = profiles /\ own' = own
    BY <1>9 DEF ListParticipants, tables
  <2> QED BY <1>1, <2>1, <2>2, <2>3, HoldsNone DEF Settled
<1>10. CASE Match(r) \/ Written(r)
  BY <1>5, <1>10 DEF Match, Written
<1>11. CASE Rollback(r) \/ Abandon(r)
  BY <1>3, <1>11 DEF Rollback, Abandon
<1>12. CASE \E c \in Calls : Receive(r, c)
  <2>1. Idle(r) /\ UNCHANGED <<profiles, listed, own>>
    BY <1>12, StepsAreSteps DEF Receive, IInv, RequestOK, CallOK, tables
  <2>2. listed'[r][p] = Absent /\ own'[r].profiles[p] = Absent
    BY <2>1, NothingTyped DEF Idle
  <2> QED BY <1>1, <2>1, <2>2, HoldsNone DEF Settled
<1>13. CASE StoreProfile(r)
  <2>1. /\ pc[r] = "store" /\ call[r].op \in {"create", "upload"}
        /\ call[r].participant \in Participants
    BY <1>2, <1>13, CallFields DEF StoreProfile, StepsOf
  <2>2. CASE call[r].op = "create" /\ profiles[call[r].participant] # Absent
    BY <1>5, <1>13, <2>2 DEF StoreProfile
  <2>3. CASE ~(call[r].op = "create" /\ profiles[call[r].participant] # Absent)
    <3>1. /\ WriteProfile(r, call[r].participant, call[r].cv) /\ pc'[r] = "rewrite"
          /\ UNCHANGED <<call, listed>>
      BY <1>13, <2>3 DEF StoreProfile, Goto, locals, IInv, TypeOK
    <3>2. CASE profiles'[p] = profiles[p]
      BY <1>1, <2>1, <3>1, <3>2, HoldsNone DEF Settled, Refreshing
    <3>3. CASE profiles'[p] # profiles[p]
      <4>1. p = call[r].participant /\ profiles'[p].cv = call[r].cv
        BY <3>1, <3>3 DEF WriteProfile, IInv, TypeOK
      <4> QED BY <2>1, <2>3, <3>1, <4>1 DEF Settled
    <3> QED BY <3>2, <3>3
  <2> QED BY <2>2, <2>3
<1>14. CASE Rewrite(r)
  <2>1. PICK q \in Participants :
            /\ pc[r] = "rewrite" /\ IsNext(r, q) /\ WriteProfile(r, q, listed[r][q])
            /\ listed' = [listed EXCEPT ![r][q] = Absent] /\ call' = call
    BY <1>14 DEF Rewrite
  <2>2. call[r].op \in Refreshing
    <3>1. listed[r] # Nobody
      BY <2>1, NothingTyped DEF IsNext
    <3> QED BY <1>2, <2>1, <3>1, CallFields DEF RequestOK, ListOK, StepsOf, Refreshing
  <2>3. /\ listed[r][p] \in {Absent, profiles[p].cv}
        /\ own[r].profiles[p] # Absent => own[r].profiles[p].cv = profiles[p].cv
    BY <2>2, HoldsStored
  <2>4. /\ listed'[r][p] \in {Absent, profiles[p].cv}
        /\ profiles'[p].cv = profiles[p].cv
        /\ own'[r].profiles[p] # Absent => own'[r].profiles[p].cv = profiles[p].cv
    BY <2>1, <2>3 DEF WriteProfile, IsNext, IInv, TypeOK
  <2> QED BY <1>1, <2>4, HoldsNone DEF Settled
<1>15. CASE Commit(r)
  <2>1. /\ pc[r] = "commit" /\ Forget(r) /\ profiles'[p] = VisibleProfile(r, p)
    BY <1>15 DEF Commit
  <2>2. call'[r].op \notin Refreshing /\ pc'[r] = "idle"
    BY <2>1 DEF Forget, Goto, NoCall, Refreshing, IInv, TypeOK
  <2>3. CASE profiles'[p].cv = profiles[p].cv
    BY <1>1, <2>2, <2>3, HoldsNone DEF Settled
  <2>4. CASE profiles'[p].cv # profiles[p].cv
    <3>1. own[r].profiles[p] # Absent /\ own[r].profiles[p].cv # profiles[p].cv
      BY <2>1, <2>4 DEF VisibleProfile
    <3>2. call[r].op \notin Refreshing
      BY <3>1, HoldsStored
    <3>3. call[r].op = "upload"
      BY <1>2, <2>1, <3>1, <3>2, CallFields DEF RequestOK, OwnOK, Refreshing
    <3>4. call[r].participant = p /\ call[r].cv = profiles'[p].cv
      BY <1>2, <2>1, <3>1, <3>3 DEF RequestOK, OwnOK, VisibleProfile
    <3> QED BY <2>1, <2>2, <3>3, <3>4 DEF Settled
  <2> QED BY <2>3, <2>4
<1> QED BY <1>5, <1>6, <1>7, <1>8, <1>9, <1>10, <1>11, <1>12, <1>13, <1>14, <1>15
        DEF Acts, Run

\* Once no refresh holds an older CV of a participant, the CV that is stored
\* stays until the next upload: the refreshes that follow write it back as
\* they have read it (services.go:345-356, 385-405).
THEOREM Uploads == Spec => UploadsSettle
<1>1. ASSUME IInv, Next, NEW p \in Participants, profiles[p] # Absent, HoldingAnother(p) = {}
      PROVE  Settled(p)
  BY <1>1, SomebodyActs, ActSettles
<1>2. IInv /\ [Next]_vars =>
          [\A p \in Participants : profiles[p] # Absent /\ HoldingAnother(p) = {} => Settled(p)]_vars
  BY <1>1
<1> QED BY <1>2, Invariance, PTL DEF Spec, UploadsSettle, Settled
=============================================================================
