--------------------------- MODULE LiveMeetingProofs ---------------------------
(* What LiveMeeting.tla promises, for any number of interviews, documents,   *)
(* requests in flight and viewers, and streams of any capacity.  That the    *)
(* requests keep their tables in order is proved in InterviewSessionProofs;  *)
(* here are the events they publish, on their way to the viewers.            *)
EXTENDS LiveMeeting, InterviewSessionProofs, SequenceTheorems

-----------------------------------------------------------------------------
(* Events of a document in a sequence of events *)

BringsDocument(e, i) == e.type = "document.updated" /\ e.inv = i

\* No event of the sequence brings a document of i.
Silent(s, i) == \A k \in DOMAIN s : ~BringsDocument(s[k], i)

\* The last one that does brings d.
Says(s, i, d) ==
    \E k \in DOMAIN s :
        /\ BringsDocument(s[k], i) /\ s[k].document = d
        /\ \A j \in DOMAIN s : j > k => ~BringsDocument(s[j], i)

-----------------------------------------------------------------------------
(* The inductive invariant *)

\* A document that was published is that of an interview there is and, without
\* a tenant, it was stored before.
EventOK(e) ==
    e.type = "document.updated" =>
        Exists(e.inv) /\ (~TenantTx => <<e.inv, e.document>> \in saved)

\* The document of i was published as it is stored.
Settled(i) ==
    /\ i \notin unannounced
    /\ \A r \in Requests :
           EditsDocument(r) /\ call[r].inv = i => pc[r] \notin {"reread", "publish"}

\* The viewer with the stream s, behind the broker's b, has shown d or will in
\* the end.
Informs(b, s, d) ==
    \/ Says(b, s.inv, d)
    \/ /\ Silent(b, s.inv)
       /\ \/ Says(s.queue, s.inv, d)
          \/ Silent(s.queue, s.inv) /\ (s.step = "on" => s.shown = d)

\* What is about to be published is an event of the request's interview, and
\* brings a document if that is what was edited.
PublicationOK ==
    \A r \in Requests : pc[r] = "publish" =>
        /\ event[r] \in Events /\ event[r].inv = call[r].inv
        /\ event[r].type = "document.updated" <=> EditsDocument(r)
        /\ EventOK(event[r])

RowsOK ==
    ~TenantTx => \A i \in Invitations : Exists(i) => <<i, interviews[i].document>> \in saved

BrokerOK ==
    /\ \A k \in DOMAIN broker : EventOK(broker[k])
    /\ ~TenantTx => \A i \in Invitations : Exists(i) /\ Settled(i) =>
           Silent(broker, i) \/ Says(broker, i, interviews[i].document)

\* A viewer's stream carries what it may, and without a tenant it ends with
\* the stored document.
StreamOK(v, s) ==
    /\ Exists(s.inv)
    /\ s.step = "subscribed" => Len(s.queue) <= Buffer
    /\ \A k \in DOMAIN s.queue :
           /\ s.queue[k].inv = s.inv /\ EventOK(s.queue[k])
           /\ v \in Candidates => s.queue[k].type \notin {"note.created", "attendee.updated"}
    /\ ~TenantTx =>
           /\ s.shown # "nothing" => <<s.inv, s.shown>> \in saved
           /\ s.registered /\ Settled(s.inv) => Informs(broker, s, interviews[s.inv].document)

MInv ==
    /\ IInv /\ MeetingTypeOK
    /\ PublicationOK /\ RowsOK /\ BrokerOK
    /\ \A v \in Viewers : streams[v] # Off => StreamOK(v, streams[v])

-----------------------------------------------------------------------------
(* What sequences say when they grow and shrink *)

LEMMA EmptySays ==
    ASSUME NEW i, NEW d
    PROVE  Silent(<<>>, i) /\ ~Says(<<>>, i, d)
BY DEF Silent, Says

LEMMA AppendSays ==
    ASSUME NEW S, NEW s \in Seq(S), NEW e \in S, NEW i, NEW d
    PROVE  /\ BringsDocument(e, i) /\ e.document = d => Says(Append(s, e), i, d)
           /\ ~BringsDocument(e, i) /\ Silent(s, i) => Silent(Append(s, e), i)
           /\ ~BringsDocument(e, i) /\ Says(s, i, d) => Says(Append(s, e), i, d)
<1> DEFINE t == Append(s, e)
           n == Len(s)
<1>1. /\ t \in Seq(S) /\ n \in Nat /\ DOMAIN s = 1 .. n /\ DOMAIN t = 1 .. n + 1
      /\ \A k \in 1 .. n : t[k] = s[k]
      /\ t[n + 1] = e
  BY AppendProperties
<1> HIDE DEF t, n
<1>2. n + 1 \in DOMAIN t /\ \A k \in DOMAIN t : k = n + 1 \/ (k \in DOMAIN s /\ t[k] = s[k])
  BY <1>1
<1>3. ASSUME BringsDocument(e, i), e.document = d PROVE Says(t, i, d)
  <2>1. \A j \in DOMAIN t : ~(j > n + 1)
    BY <1>1
  <2> QED BY <1>1, <1>2, <1>3, <2>1 DEF Says
<1>4. ASSUME ~BringsDocument(e, i), Silent(s, i) PROVE Silent(t, i)
  BY <1>1, <1>2, <1>4 DEF Silent
<1>5. ASSUME ~BringsDocument(e, i), Says(s, i, d) PROVE Says(t, i, d)
  <2>1. PICK k \in DOMAIN s :
            /\ BringsDocument(s[k], i) /\ s[k].document = d
            /\ \A j \in DOMAIN s : j > k => ~BringsDocument(s[j], i)
    BY <1>5 DEF Says
  <2>2. k \in DOMAIN t /\ t[k] = s[k]
    BY <1>1
  <2>3. \A j \in DOMAIN t : j > k => ~BringsDocument(t[j], i)
    BY <1>1, <1>2, <1>5, <2>1
  <2> QED BY <2>1, <2>2, <2>3 DEF Says
<1> QED BY <1>3, <1>4, <1>5 DEF t

LEMMA TailSays ==
    ASSUME NEW S, NEW s \in Seq(S), s # <<>>, NEW i, NEW d
    PROVE  /\ Head(s) \in S /\ Tail(s) \in Seq(S)
           /\ Silent(s, i) => Silent(Tail(s), i) /\ ~BringsDocument(Head(s), i)
           /\ Says(s, i, d) => \/ Says(Tail(s), i, d)
                               \/ /\ Silent(Tail(s), i)
                                  /\ BringsDocument(Head(s), i) /\ Head(s).document = d
<1> DEFINE t == Tail(s)
           n == Len(s)
<1>1. /\ t \in Seq(S) /\ n \in Nat /\ n > 0 /\ DOMAIN s = 1 .. n /\ DOMAIN t = 1 .. n - 1
      /\ \A k \in 1 .. n - 1 : t[k] = s[k + 1]
      /\ Head(s) = s[1] /\ Head(s) \in S
  BY HeadTailProperties, EmptySeq
<1> HIDE DEF t, n
<1>2. 1 \in DOMAIN s /\ \A k \in DOMAIN t : k + 1 \in DOMAIN s /\ t[k] = s[k + 1]
  BY <1>1
<1>3. ASSUME Silent(s, i) PROVE Silent(t, i) /\ ~BringsDocument(Head(s), i)
  BY <1>1, <1>2, <1>3 DEF Silent
<1>4. ASSUME Says(s, i, d)
      PROVE  Says(t, i, d) \/ (Silent(t, i) /\ BringsDocument(Head(s), i) /\ Head(s).document = d)
  <2>1. PICK k \in DOMAIN s :
            /\ BringsDocument(s[k], i) /\ s[k].document = d
            /\ \A j \in DOMAIN s : j > k => ~BringsDocument(s[j], i)
    BY <1>4 DEF Says
  <2>2. CASE k = 1
    <3>1. \A j \in DOMAIN t : ~BringsDocument(t[j], i)
      BY <1>1, <1>2, <2>1, <2>2
    <3> QED BY <1>1, <2>1, <2>2, <3>1 DEF Silent
  <2>3. CASE k # 1
    <3>1. k - 1 \in DOMAIN t /\ t[k - 1] = s[k]
      BY <1>1, <2>3
    <3>2. \A j \in DOMAIN t : j > k - 1 => ~BringsDocument(t[j], i)
      BY <1>1, <1>2, <2>1
    <3> QED BY <2>1, <3>1, <3>2 DEF Says
  <2> QED BY <2>2, <2>3
<1> QED BY <1>1, <1>3, <1>4 DEF t

LEMMA FirstSays ==
    ASSUME NEW S, NEW s \in Seq(S), NEW e \in S, NEW i, NEW d,
           BringsDocument(e, i), e.document = d, Silent(s, i) \/ Says(s, i, d)
    PROVE  Says(<<e>> \o s, i, d)
<1> DEFINE t == <<e>> \o s
           n == Len(s)
<1>1. /\ n \in Nat /\ DOMAIN s = 1 .. n /\ DOMAIN t = 1 .. n + 1
      /\ t[1] = e /\ \A k \in 1 .. n : t[k + 1] = s[k]
  OBVIOUS
<1> HIDE DEF t, n
<1>2. \A k \in DOMAIN t : k = 1 \/ (k - 1 \in DOMAIN s /\ t[k] = s[k - 1])
  <2> SUFFICES ASSUME NEW k \in DOMAIN t, k # 1 PROVE k - 1 \in DOMAIN s /\ t[k] = s[k - 1]
    OBVIOUS
  <2>1. k - 1 \in 1 .. n /\ (k - 1) + 1 = k
    BY <1>1
  <2> QED BY <1>1, <2>1
<1>3. CASE Silent(s, i)
  <2>1. 1 \in DOMAIN t /\ \A j \in DOMAIN t : j > 1 => ~BringsDocument(t[j], i)
    BY <1>1, <1>2, <1>3 DEF Silent
  <2> QED BY <1>1, <2>1 DEF Says, t
<1>4. CASE Says(s, i, d)
  <2>1. PICK k \in DOMAIN s :
            /\ BringsDocument(s[k], i) /\ s[k].document = d
            /\ \A j \in DOMAIN s : j > k => ~BringsDocument(s[j], i)
    BY <1>4 DEF Says
  <2>2. k + 1 \in DOMAIN t /\ t[k + 1] = s[k]
    BY <1>1
  <2>3. \A j \in DOMAIN t : j > k + 1 => ~BringsDocument(t[j], i)
    BY <1>1, <1>2, <2>1
  <2> QED BY <2>1, <2>2, <2>3 DEF Says, t
<1> QED BY <1>3, <1>4

\* What is in a sequence that has grown or shrunk.
LEMMA Elements ==
    ASSUME NEW S, NEW s \in Seq(S)
    PROVE  /\ Len(s) \in Nat
           /\ \A e \in S : /\ Append(s, e) \in Seq(S) /\ Len(Append(s, e)) = Len(s) + 1
                           /\ \A k \in DOMAIN Append(s, e) :
                                  Append(s, e)[k] = e \/ \E j \in DOMAIN s : Append(s, e)[k] = s[j]
                           /\ <<e>> \o s \in Seq(S) /\ Len(<<e>> \o s) = Len(s) + 1
                           /\ \A k \in DOMAIN (<<e>> \o s) :
                                  (<<e>> \o s)[k] = e \/ \E j \in DOMAIN s : (<<e>> \o s)[k] = s[j]
           /\ s # <<>> => /\ Head(s) \in S /\ Tail(s) \in Seq(S) /\ Len(Tail(s)) = Len(s) - 1
                          /\ \E j \in DOMAIN s : Head(s) = s[j]
                          /\ \A k \in DOMAIN Tail(s) : \E j \in DOMAIN s : Tail(s)[k] = s[j]
<1>1. Len(s) \in Nat /\ DOMAIN s = 1 .. Len(s)
  OBVIOUS
<1>2. ASSUME NEW e \in S
      PROVE  /\ Append(s, e) \in Seq(S) /\ Len(Append(s, e)) = Len(s) + 1
             /\ \A k \in DOMAIN Append(s, e) :
                    Append(s, e)[k] = e \/ \E j \in DOMAIN s : Append(s, e)[k] = s[j]
  <2>1. /\ Append(s, e) \in Seq(S) /\ Len(Append(s, e)) = Len(s) + 1
        /\ DOMAIN Append(s, e) = 1 .. Len(s) + 1
        /\ \A k \in 1 .. Len(s) : Append(s, e)[k] = s[k]
        /\ Append(s, e)[Len(s) + 1] = e
    BY AppendProperties
  <2>2. \A k \in 1 .. Len(s) + 1 : k \in 1 .. Len(s) \/ k = Len(s) + 1
    BY <1>1
  <2> QED BY <1>1, <2>1, <2>2
<1>3. ASSUME NEW e \in S
      PROVE  /\ <<e>> \o s \in Seq(S) /\ Len(<<e>> \o s) = Len(s) + 1
             /\ \A k \in DOMAIN (<<e>> \o s) :
                    (<<e>> \o s)[k] = e \/ \E j \in DOMAIN s : (<<e>> \o s)[k] = s[j]
  <2> DEFINE t == <<e>> \o s
  <2>1. /\ t \in Seq(S) /\ Len(t) = Len(s) + 1 /\ DOMAIN t = 1 .. Len(s) + 1
        /\ t[1] = e /\ \A k \in 1 .. Len(s) : t[k + 1] = s[k]
    OBVIOUS
  <2> HIDE DEF t
  <2>2. \A k \in 1 .. Len(s) + 1 : k = 1 \/ (k - 1 \in 1 .. Len(s) /\ (k - 1) + 1 = k)
    BY <1>1
  <2>3. ASSUME NEW k \in DOMAIN t PROVE t[k] = e \/ \E j \in DOMAIN s : t[k] = s[j]
    <3>1. k = 1 \/ (k - 1 \in DOMAIN s /\ t[k] = s[k - 1])
      BY <1>1, <2>1, <2>2
    <3> QED BY <2>1, <3>1
  <2> QED BY <2>1, <2>3 DEF t
<1>4. ASSUME s # <<>>
      PROVE  /\ Head(s) \in S /\ Tail(s) \in Seq(S) /\ Len(Tail(s)) = Len(s) - 1
             /\ \E j \in DOMAIN s : Head(s) = s[j]
             /\ \A k \in DOMAIN Tail(s) : \E j \in DOMAIN s : Tail(s)[k] = s[j]
  <2>1. /\ Head(s) \in S /\ Tail(s) \in Seq(S) /\ Len(Tail(s)) = Len(s) - 1
        /\ Head(s) = s[1] /\ \A i \in 1 .. Len(Tail(s)) : Tail(s)[i] = s[i + 1]
        /\ Len(s) > 0
    BY <1>4, HeadTailProperties, EmptySeq
  <2>2. 1 \in DOMAIN s /\ \A k \in 1 .. Len(s) - 1 : k + 1 \in DOMAIN s
    BY <1>1, <2>1
  <2>3. DOMAIN Tail(s) = 1 .. Len(s) - 1
    BY <1>1, <2>1
  <2> QED BY <2>1, <2>2, <2>3
<1> QED BY <1>1, <1>2, <1>3, <1>4

-----------------------------------------------------------------------------
(* Types *)

LEMMA BoundedSeqs ==
    ASSUME NEW S, NEW N \in Nat, NEW s
    PROVE  s \in UNION {[1 .. n -> S] : n \in 0 .. N} <=> s \in Seq(S) /\ Len(s) <= N
<1>1. ASSUME s \in UNION {[1 .. n -> S] : n \in 0 .. N}
      PROVE  s \in Seq(S) /\ Len(s) <= N
  <2>1. PICK n \in 0 .. N : s \in [1 .. n -> S]
    BY <1>1
  <2>2. n \in Nat /\ n <= N
    BY <2>1
  <2>3. s \in Seq(S) /\ Len(s) = n
    BY <2>1, <2>2
  <2> QED BY <2>2, <2>3
<1>2. ASSUME s \in Seq(S), Len(s) <= N
      PROVE  s \in UNION {[1 .. n -> S] : n \in 0 .. N}
  <2>1. Len(s) \in 0 .. N /\ s \in [1 .. Len(s) -> S]
    BY <1>2
  <2> QED BY <2>1
<1> QED BY <1>1, <1>2

LEMMA StreamSet ==
    Streams = [step : {"subscribed", "on"}, inv : Invitations, registered : BOOLEAN,
               queue : {q \in Seq(Events) : Len(q) <= Buffer + 1},
               shown : Documents \cup {"nothing"}]
<1>1. Buffer + 1 \in Nat
  BY LiveConstants
<1>2. UNION {[1 .. n -> Events] : n \in 0 .. Buffer + 1} = {q \in Seq(Events) : Len(q) <= Buffer + 1}
  BY <1>1, BoundedSeqs
<1> QED BY <1>2 DEF Streams

LEMMA StreamMade ==
    ASSUME NEW step \in {"subscribed", "on"}, NEW i \in Invitations, NEW reg \in BOOLEAN,
           NEW q \in Seq(Events), Len(q) <= Buffer + 1, NEW d \in Documents \cup {"nothing"}
    PROVE  [step |-> step, inv |-> i, registered |-> reg, queue |-> q, shown |-> d] \in Streams
<1>1. q \in {p \in Seq(Events) : Len(p) <= Buffer + 1}
  OBVIOUS
<1> QED BY <1>1, StreamSet, Zenon

LEMMA StreamFields ==
    ASSUME NEW s \in Streams
    PROVE  /\ s.step \in {"subscribed", "on"} /\ s.inv \in Invitations
           /\ s.queue \in Seq(Events) /\ Len(s.queue) <= Buffer + 1
           /\ s.registered \in BOOLEAN /\ s.shown \in Documents \cup {"nothing"}
           /\ s = [step |-> s.step, inv |-> s.inv, registered |-> s.registered,
                   queue |-> s.queue, shown |-> s.shown]
<1> DEFINE Queues == {p \in Seq(Events) : Len(p) <= Buffer + 1}
<1>1. s \in [step : {"subscribed", "on"}, inv : Invitations, registered : BOOLEAN,
             queue : Queues, shown : Documents \cup {"nothing"}]
  BY StreamSet
<1> HIDE DEF Queues
<1>2. s.registered \in BOOLEAN
  BY <1>1, Zenon
<1>3. /\ s.step \in {"subscribed", "on"} /\ s.inv \in Invitations
      /\ s.queue \in Queues /\ s.shown \in Documents \cup {"nothing"}
  BY <1>1
<1>4. s = [step |-> s.step, inv |-> s.inv, registered |-> s.registered,
           queue |-> s.queue, shown |-> s.shown]
  BY <1>1
<1> QED BY <1>2, <1>3, <1>4 DEF Queues

\* A stream is a record of five fields, of which a step changes one or two.
LEMMA StreamEdits ==
    ASSUME NEW x \in Streams, NEW q, NEW d
    PROVE  /\ [x EXCEPT !.queue = q] =
                  [step |-> x.step, inv |-> x.inv, registered |-> x.registered,
                   queue |-> q, shown |-> x.shown]
           /\ [x EXCEPT !.registered = d] =
                  [step |-> x.step, inv |-> x.inv, registered |-> d,
                   queue |-> x.queue, shown |-> x.shown]
           /\ [x EXCEPT !.step = "on", !.queue = q] =
                  [step |-> "on", inv |-> x.inv, registered |-> x.registered,
                   queue |-> q, shown |-> x.shown]
           /\ [x EXCEPT !.queue = q, !.shown = d] =
                  [step |-> x.step, inv |-> x.inv, registered |-> x.registered,
                   queue |-> q, shown |-> d]
<1> DEFINE Queues == {p \in Seq(Events) : Len(p) <= Buffer + 1}
           Given == [step |-> x.step, inv |-> x.inv, registered |-> x.registered,
                     queue |-> q, shown |-> x.shown]
           On == [step |-> "on", inv |-> x.inv, registered |-> x.registered,
                  queue |-> x.queue, shown |-> x.shown]
<1>1. x \in [step : {"subscribed", "on"}, inv : Invitations, registered : BOOLEAN,
             queue : Queues, shown : Documents \cup {"nothing"}]
  BY StreamSet
<1> HIDE DEF Queues
<1>2. [x EXCEPT !.queue = q] = Given
  BY <1>1
<1>3. [x EXCEPT !.registered = d] =
          [step |-> x.step, inv |-> x.inv, registered |-> d, queue |-> x.queue, shown |-> x.shown]
  BY <1>1
<1>4. [x EXCEPT !.step = "on"] = On
  BY <1>1
<1>5. [x EXCEPT !.step = "on", !.queue = q] = [[x EXCEPT !.step = "on"] EXCEPT !.queue = q]
  BY <1>1
<1>6. [On EXCEPT !.queue = q] =
          [step |-> "on", inv |-> x.inv, registered |-> x.registered, queue |-> q, shown |-> x.shown]
  OBVIOUS
<1>7. [x EXCEPT !.queue = q, !.shown = d] = [[x EXCEPT !.queue = q] EXCEPT !.shown = d]
  BY <1>1
<1>8. [Given EXCEPT !.shown = d] =
          [step |-> x.step, inv |-> x.inv, registered |-> x.registered, queue |-> q, shown |-> d]
  OBVIOUS
<1> HIDE DEF Given, On
<1>9. [x EXCEPT !.step = "on", !.queue = q] =
          [step |-> "on", inv |-> x.inv, registered |-> x.registered, queue |-> q, shown |-> x.shown]
  BY <1>4, <1>5, <1>6, Zenon
<1>10. [x EXCEPT !.queue = q, !.shown = d] =
           [step |-> x.step, inv |-> x.inv, registered |-> x.registered, queue |-> q, shown |-> d]
  BY <1>2, <1>7, <1>8, Zenon
<1> QED BY <1>2, <1>3, <1>9, <1>10, Zenon DEF Given

LEMMA StreamShows ==
    ASSUME NEW x \in Streams, NEW q, NEW d, NEW y, y = [x EXCEPT !.queue = q, !.shown = d]
    PROVE  y = [step |-> x.step, inv |-> x.inv, registered |-> x.registered,
                queue |-> q, shown |-> d]
BY StreamEdits, Zenon

LEMMA StreamTypes ==
    ASSUME MeetingTypeOK, NEW v \in Viewers, streams[v] # Off
    PROVE  /\ streams[v] \in Streams
           /\ streams[v].step \in {"subscribed", "on"} /\ streams[v].inv \in Invitations
           /\ streams[v].queue \in Seq(Events) /\ Len(streams[v].queue) <= Buffer + 1
           /\ streams[v].registered \in BOOLEAN
           /\ streams[v].shown \in Documents \cup {"nothing"}
<1>1. streams[v] \in Streams
  BY DEF MeetingTypeOK
<1> QED BY <1>1, StreamFields

LEMMA OffOrNot ==
    ASSUME MeetingTypeOK, NEW v \in Viewers
    PROVE  streams[v] = Off <=> streams[v].step = "off"
<1>1. streams[v] # Off => streams[v].step \in {"subscribed", "on"}
  BY StreamTypes
<1>2. Off.step = "off"
  BY DEF Off
<1> QED BY <1>1, <1>2

LEMMA BrokerTypes ==
    MeetingTypeOK => broker \in Seq(Events) /\ Len(broker) <= MaxUndelivered
BY BoundedSeqs, LiveConstants DEF MeetingTypeOK

-----------------------------------------------------------------------------
(* What the requests do *)

LEMMA RequestsAreSessions ==
    ASSUME [MeetingNext]_meeting
    PROVE  [Next]_session
BY DEF MeetingNext, meeting, Announce, Proceed, Unconfirmed, GradeAgain, Subscribe, ReadSnapshot,
       Show, Disconnect, Dispatch, Next, Quiet

LEMMA ExistsStays ==
    ASSUME IInv, [Next]_session, NEW i \in Invitations, Exists(i)
    PROVE  Exists(i)'
<1>1. CASE interviews'[i] = interviews[i]
  BY <1>1 DEF Exists
<1>2. CASE interviews'[i] # interviews[i]
  <2>1. PICK r \in Requests :
            /\ Store(r) /\ call[r] \in Calls
            /\ call[r].op \in {"schedule", "status", "document"} /\ call[r].inv = i
            /\ call[r].op \in {"status", "document"} => Exists(i)
    BY <1>2, ChangesAreStored
  <2> QED BY <2>1, StoreKeeps DEF IInv
<1> QED BY <1>1, <1>2

LEMMA OthersWait ==
    ASSUME IInv, NEW r \in Requests, Quiet(r) \/ Publish(r), NEW s \in Requests, s # r
    PROVE  pc'[s] = pc[s] /\ call'[s] = call[s] /\ event'[s] = event[s]
BY DEF Quiet, Receive, ReadInvitation, ReadInterview, Write, Reread, PublishFails, Publish,
       AfterPublish, Commit, Abandon, Forget, Goto, IInv, TypeOK

\* A request that goes on keeps its call.
LEMMA Onward ==
    ASSUME IInv, NEW r \in Requests, Quiet(r) \/ Publish(r)
    PROVE  /\ pc'[r] \in {"reread", "publish"} => call'[r] = call[r] /\ call[r] \in Calls
           /\ pc'[r] = "publish" =>
                  /\ pc[r] = "reread" /\ call[r].op # "schedule"
                  /\ event'[r] = EventOf(call[r]) /\ UNCHANGED tables
<1>1. TypeOK /\ (pc[r] # "idle" => call[r] \in Calls)
  BY DEF IInv, RequestOK
<1>2. Forget(r) => pc'[r] = "idle"
  BY <1>1 DEF Forget, Goto, TypeOK
<1>3. CASE \E c \in Calls : Receive(r, c)
  BY <1>1, <1>3 DEF Receive, Goto, TypeOK
<1>4. CASE ReadInvitation(r) \/ ReadInterview(r)
  BY <1>1, <1>2, <1>4 DEF ReadInvitation, ReadInterview, Goto, TypeOK
<1>5. CASE Write(r)
  BY <1>1, <1>2, <1>5 DEF Write, Goto, TypeOK
<1>6. CASE Reread(r)
  BY <1>1, <1>2, <1>6 DEF Reread, Goto, TypeOK
<1>7. CASE PublishFails(r) \/ Publish(r)
  BY <1>1, <1>2, <1>7 DEF PublishFails, Publish, AfterPublish, Goto, TypeOK
<1>8. CASE Commit(r)
  BY <1>1, <1>2, <1>8 DEF Commit, Goto, TypeOK
<1>9. CASE Abandon(r)
  BY <1>2, <1>9 DEF Abandon
<1> QED BY <1>3, <1>4, <1>5, <1>6, <1>7, <1>8, <1>9 DEF Quiet

LEMMA EventFields ==
    ASSUME IInv, NEW r \in Requests, pc[r] = "reread", call[r].op # "schedule"
    PROVE  LET e == EventOf(call[r])
           IN  /\ e \in Events /\ e.inv = call[r].inv /\ e.inv \in Invitations
               /\ e.type = "document.updated" <=> EditsDocument(r)
               /\ EditsDocument(r) => Exists(e.inv)
               /\ EditsDocument(r) /\ ~TenantTx => e.document = interviews[e.inv].document
<1> DEFINE c == call[r]
<1>1. c \in Calls /\ c.inv \in Invitations
      /\ c.op \in {"status", "document", "note", "respond"}
  BY CallFields DEF IInv, RequestOK
<1>2. CASE c.op = "document"
  <2>1. Exists(c.inv) /\ interviews[c.inv].document \in Documents /\ c.document \in Documents
    <3>1. Exists(c.inv)
      BY <1>2 DEF IInv, RequestOK, Checked
    <3>2. interviews[c.inv] \in Rows
      BY <1>1, <3>1, RowFields DEF IInv
    <3> QED BY <1>1, <1>2, <3>1, <3>2, CallFields DEF Rows
  <2>2. EventOf(c) = [type |-> "document.updated", inv |-> c.inv,
                      document |-> IF TenantTx THEN c.document ELSE interviews[c.inv].document]
    BY <1>2 DEF EventOf
  <2> QED BY <1>1, <1>2, <2>1, <2>2 DEF Events, EditsDocument
<1>3. CASE c.op \in {"status", "note", "respond"}
  <2>1. \E t \in {"status.updated", "note.created", "attendee.updated"} :
            EventOf(c) = [type |-> t, inv |-> c.inv]
    BY <1>3 DEF EventOf
  <2> QED BY <1>1, <1>3, <2>1 DEF Events, EditsDocument
<1> QED BY <1>1, <1>2, <1>3

-----------------------------------------------------------------------------
(* The viewers *)

\* One stream changes and nothing else does.
LEMMA OneStream ==
    ASSUME MInv, NEW v \in Viewers, UNCHANGED <<session, broker, unannounced, saved>>,
           NEW s \in Streams \cup {Off}, streams' = [streams EXCEPT ![v] = s],
           s # Off => StreamOK(v, s)
    PROVE  MInv'
<1>1. /\ UNCHANGED <<passed, interviews, attendees, notes, pc, call, event>>
      /\ UNCHANGED <<broker, unannounced, saved>>
  BY DEF session, tables
<1>2. IInv'
  BY <1>1, NextStep DEF MInv, session, tables
<1>3. MeetingTypeOK'
  BY <1>1, <1>2 DEF MInv, IInv, MeetingTypeOK
<1>4. PublicationOK' /\ RowsOK' /\ BrokerOK'
  BY <1>1 DEF MInv, PublicationOK, EventOK, RowsOK, BrokerOK, Settled, EditsDocument, Exists
<1>5. \A w \in Viewers : streams'[w] = IF w = v THEN s ELSE streams[w]
  BY DEF MInv, MeetingTypeOK
<1>6. ASSUME NEW w \in Viewers, streams'[w] # Off PROVE StreamOK(w, streams[w])'
  <2>1. CASE w = v
    <3>1. StreamOK(v, s) /\ streams'[w] = s
      BY <1>5, <1>6, <2>1
    <3> QED BY <1>1, <2>1, <3>1 DEF StreamOK, EventOK, Settled, EditsDocument, Exists
  <2>2. CASE w # v
    <3>1. StreamOK(w, streams[w]) /\ streams'[w] = streams[w]
      BY <1>5, <1>6, <2>2 DEF MInv
    <3> QED BY <1>1, <3>1 DEF StreamOK, EventOK, Settled, EditsDocument, Exists
  <2> QED BY <2>1, <2>2
<1> QED BY <1>2, <1>3, <1>4, <1>6 DEF MInv

LEMMA SubscribeStep ==
    ASSUME MInv, NEW v \in Viewers, Subscribe(v)
    PROVE  MInv'
<1>1. PICK i \in Invitations :
          /\ Exists(i)
          /\ streams' = [streams EXCEPT ![v] =
                 [step |-> "subscribed", inv |-> i, registered |-> TRUE,
                  queue |-> <<>>, shown |-> "nothing"]]
  BY DEF Subscribe
<1> DEFINE s == [step |-> "subscribed", inv |-> i, registered |-> TRUE,
                 queue |-> <<>>, shown |-> "nothing"]
<1>2. /\ s.step = "subscribed" /\ s.inv = i /\ s.queue = <<>> /\ s.shown = "nothing"
      /\ <<>> \in Seq(Events) /\ Len(<<>>) = 0 /\ 0 <= Buffer /\ 0 <= Buffer + 1
  BY LiveConstants
<1>3. s \in Streams
  <2>1. TRUE \in BOOLEAN /\ "subscribed" \in {"subscribed", "on"}
        /\ "nothing" \in Documents \cup {"nothing"}
    OBVIOUS
  <2> QED BY <1>2, <2>1, StreamMade
<1> HIDE DEF s
<1>4. ~TenantTx /\ Settled(i) => Silent(broker, i) \/ Says(broker, i, interviews[i].document)
  BY <1>1 DEF MInv, BrokerOK
<1>5. StreamOK(v, s)
  BY <1>1, <1>2, <1>4, EmptySays DEF StreamOK, Informs
<1>6. UNCHANGED <<session, broker, unannounced, saved>> /\ streams' = [streams EXCEPT ![v] = s]
  BY <1>1 DEF Subscribe, s
<1> QED BY <1>3, <1>5, <1>6, OneStream

\* The snapshot is the document as it is stored: it comes before what has
\* arrived since, and settles what has not.
LEMMA SnapshotStep ==
    ASSUME MInv, NEW v \in Viewers, ReadSnapshot(v)
    PROVE  MInv'
<1> DEFINE x == streams[v]
           i == x.inv
           d == interviews[i].document
           e == DocumentEvent(i, d)
           s == [step |-> "on", inv |-> i, registered |-> x.registered,
                 queue |-> <<e>> \o x.queue, shown |-> x.shown]
<1>1. x # Off /\ x.step = "subscribed"
  BY DEF ReadSnapshot, Off
<1>2. /\ StreamOK(v, x) /\ x \in Streams /\ i \in Invitations
      /\ x.queue \in Seq(Events) /\ x.registered \in BOOLEAN
      /\ x.shown \in Documents \cup {"nothing"}
  BY <1>1, StreamTypes DEF MInv
<1>3. Exists(i) /\ d \in Documents
  <2>1. Exists(i)
    BY <1>2 DEF StreamOK
  <2> QED BY <1>2, <2>1, RowFields DEF MInv, IInv, Rows
<1>4. /\ e \in Events /\ e.type = "document.updated" /\ e.inv = i /\ e.document = d
      /\ BringsDocument(e, i)
  BY <1>2, <1>3 DEF DocumentEvent, Events, BringsDocument
<1>5. streams' = [streams EXCEPT ![v] = s]
  <2>1. streams' = [streams EXCEPT ![v].step = "on", ![v].queue = <<e>> \o @]
    BY DEF ReadSnapshot
  <2>2. [streams EXCEPT ![v].step = "on", ![v].queue = <<e>> \o @] =
            [streams EXCEPT ![v] = [x EXCEPT !.step = "on", !.queue = <<e>> \o @]]
    BY DEF MInv, MeetingTypeOK
  <2>3. [x EXCEPT !.step = "on", !.queue = <<e>> \o @] = s
    <3>1. \A q : [x EXCEPT !.step = "on", !.queue = q] =
                    [step |-> "on", inv |-> x.inv, registered |-> x.registered, queue |-> q,
                     shown |-> x.shown]
      BY <1>2, StreamEdits
    <3> QED BY <3>1, Zenon
  <2> QED BY <2>1, <2>2, <2>3
<1>6. /\ <<e>> \o x.queue \in Seq(Events) /\ Len(<<e>> \o x.queue) <= Buffer + 1
      /\ \A k \in DOMAIN (<<e>> \o x.queue) :
             (<<e>> \o x.queue)[k] = e \/ \E j \in DOMAIN x.queue : (<<e>> \o x.queue)[k] = x.queue[j]
  <2>1. Len(x.queue) <= Buffer /\ Len(x.queue) \in Nat
    BY <1>1, <1>2 DEF StreamOK
  <2>2. Len(<<e>> \o x.queue) = Len(x.queue) + 1 /\ <<e>> \o x.queue \in Seq(Events)
    BY <1>2, <1>4, Elements
  <2>3. Len(x.queue) + 1 <= Buffer + 1
    BY <2>1, LiveConstants
  <2> QED BY <1>2, <1>4, <2>2, <2>3, Elements
<1>7. s \in Streams
  BY <1>2, <1>6, StreamMade
<1>8. /\ s.step = "on" /\ s.inv = i /\ s.registered = x.registered
      /\ s.queue = <<e>> \o x.queue /\ s.shown = x.shown
  BY Zenon
<1> HIDE DEF s
<1>9. EventOK(e)
  BY <1>2, <1>3, <1>4 DEF EventOK, MInv, RowsOK
<1>10. /\ s.registered <=> x.registered
       /\ Informs(broker, x, d) => Informs(broker, s, d)
  <2>1. Silent(x.queue, i) \/ Says(x.queue, i, d) => Says(<<e>> \o x.queue, i, d)
    BY <1>2, <1>4, FirstSays
  <2> QED BY <1>8, <2>1 DEF Informs
<1>11. StreamOK(v, s)
  <2>1. \A k \in DOMAIN s.queue :
           /\ s.queue[k].inv = s.inv /\ EventOK(s.queue[k])
           /\ v \in Candidates => s.queue[k].type \notin {"note.created", "attendee.updated"}
    <3> SUFFICES ASSUME NEW k \in DOMAIN s.queue
                 PROVE  /\ s.queue[k].inv = s.inv /\ EventOK(s.queue[k])
                        /\ v \in Candidates => s.queue[k].type \notin {"note.created", "attendee.updated"}
      OBVIOUS
    <3>1. CASE s.queue[k] = e
      BY <1>4, <1>8, <1>9, <3>1
    <3>2. CASE \E j \in DOMAIN x.queue : s.queue[k] = x.queue[j]
      <4>1. PICK j \in DOMAIN x.queue : s.queue[k] = x.queue[j]
        BY <3>2
      <4> QED BY <1>2, <1>8, <4>1 DEF StreamOK
    <3> QED BY <1>6, <1>8, <3>1, <3>2
  <2>2. s.step # "subscribed" /\ Exists(s.inv)
    BY <1>3, <1>8
  <2>3. ~TenantTx =>
           /\ s.shown # "nothing" => <<s.inv, s.shown>> \in saved
           /\ s.registered /\ Settled(s.inv) => Informs(broker, s, interviews[s.inv].document)
    BY <1>2, <1>8, <1>10 DEF StreamOK
  <2> QED BY <2>1, <2>2, <2>3 DEF StreamOK
<1> QED BY <1>5, <1>7, <1>11, OneStream DEF ReadSnapshot

LEMMA ShowStep ==
    ASSUME MInv, NEW v \in Viewers, Show(v)
    PROVE  MInv'
<1> DEFINE x == streams[v]
           i == x.inv
           e == Head(x.queue)
           d == interviews[i].document
           shown == IF e.type = "document.updated" THEN e.document ELSE x.shown
           s == [step |-> "on", inv |-> i, registered |-> x.registered,
                 queue |-> Tail(x.queue), shown |-> shown]
<1>1. x # Off /\ x.step = "on" /\ x.queue # <<>>
  BY DEF Show, Off
<1>2. /\ StreamOK(v, x) /\ x \in Streams /\ i \in Invitations
      /\ x.queue \in Seq(Events) /\ x.registered \in BOOLEAN
      /\ x.shown \in Documents \cup {"nothing"} /\ Len(x.queue) <= Buffer + 1
  BY <1>1, StreamTypes DEF MInv
<1>3. /\ e \in Events /\ Tail(x.queue) \in Seq(Events) /\ Len(Tail(x.queue)) <= Buffer + 1
      /\ \E j \in DOMAIN x.queue : e = x.queue[j]
      /\ \A k \in DOMAIN Tail(x.queue) : \E j \in DOMAIN x.queue : Tail(x.queue)[k] = x.queue[j]
  <2>1. Len(Tail(x.queue)) = Len(x.queue) - 1 /\ Len(x.queue) \in Nat
    BY <1>1, <1>2, Elements
  <2>2. Len(x.queue) - 1 <= Buffer + 1
    BY <1>2, <2>1, LiveConstants
  <2> QED BY <1>1, <1>2, <2>1, <2>2, Elements
<1>4. e.inv = i /\ EventOK(e)
  BY <1>2, <1>3 DEF StreamOK
<1>5. shown \in Documents \cup {"nothing"}
  BY <1>2, <1>3 DEF Events
<1>6. streams' = [streams EXCEPT ![v] = s]
  <2>1. streams' = [streams EXCEPT ![v].queue = Tail(@),
                         ![v].shown = IF e.type = "document.updated" THEN e.document ELSE @]
    BY DEF Show
  <2>2. [streams EXCEPT ![v].queue = Tail(@),
                         ![v].shown = IF e.type = "document.updated" THEN e.document ELSE @] =
            [streams EXCEPT ![v] = [x EXCEPT !.queue = Tail(@),
                         !.shown = IF e.type = "document.updated" THEN e.document ELSE @]]
    BY DEF MInv, MeetingTypeOK
  <2>3. [x EXCEPT !.queue = Tail(@),
                  !.shown = IF e.type = "document.updated" THEN e.document ELSE @] = s
    <3> HIDE DEF x
    <3>1. ASSUME NEW q, NEW w
          PROVE  [x EXCEPT !.queue = q, !.shown = w] =
                     [step |-> x.step, inv |-> x.inv, registered |-> x.registered, queue |-> q,
                      shown |-> w]
      BY <1>2, StreamShows, Zenon
    <3>2. [x EXCEPT !.queue = Tail(x.queue), !.shown = shown] =
              [step |-> x.step, inv |-> x.inv, registered |-> x.registered,
               queue |-> Tail(x.queue), shown |-> shown]
      BY <3>1, Zenon
    <3> QED BY <1>1, <3>2, Zenon
  <2> QED BY <2>1, <2>2, <2>3
<1>7. s \in Streams
  BY <1>2, <1>3, <1>5, StreamMade
<1>8. /\ s.step = "on" /\ s.inv = i /\ s.registered = x.registered
      /\ s.queue = Tail(x.queue) /\ s.shown = shown
  BY Zenon
<1> HIDE DEF s
<1>9. Informs(broker, x, d) => Informs(broker, s, d)
  <2>1. Says(x.queue, i, d) => \/ Says(Tail(x.queue), i, d)
                               \/ /\ Silent(Tail(x.queue), i)
                                  /\ BringsDocument(e, i) /\ e.document = d
    BY <1>1, <1>2, TailSays
  <2>2. Silent(x.queue, i) => Silent(Tail(x.queue), i) /\ ~BringsDocument(e, i)
    BY <1>1, <1>2, TailSays
  <2>3. BringsDocument(e, i) => shown = e.document
    BY DEF BringsDocument
  <2>4. ~BringsDocument(e, i) => shown = x.shown
    BY <1>4 DEF BringsDocument
  <2> HIDE DEF shown, d, e
  <2> QED BY <1>1, <1>8, <2>1, <2>2, <2>3, <2>4 DEF Informs
<1>10. StreamOK(v, s)
  <2>1. \A k \in DOMAIN s.queue :
           /\ s.queue[k].inv = s.inv /\ EventOK(s.queue[k])
           /\ v \in Candidates => s.queue[k].type \notin {"note.created", "attendee.updated"}
    BY <1>2, <1>3, <1>8 DEF StreamOK
  <2>2. s.step # "subscribed" /\ Exists(s.inv)
    BY <1>2, <1>8 DEF StreamOK
  <2>3. ~TenantTx /\ s.shown # "nothing" => <<s.inv, s.shown>> \in saved
    BY <1>2, <1>4, <1>8 DEF StreamOK, EventOK
  <2>4. ~TenantTx /\ s.registered /\ Settled(s.inv) => Informs(broker, s, interviews[s.inv].document)
    BY <1>2, <1>8, <1>9 DEF StreamOK
  <2> QED BY <2>1, <2>2, <2>3, <2>4 DEF StreamOK
<1> QED BY <1>6, <1>7, <1>10, OneStream DEF Show

LEMMA DisconnectStep ==
    ASSUME MInv, NEW v \in Viewers, Disconnect(v)
    PROVE  MInv'
<1>1. UNCHANGED <<session, broker, unannounced, saved>> /\ streams' = [streams EXCEPT ![v] = Off]
  BY DEF Disconnect
<1>2. Off \in Streams \cup {Off}
  OBVIOUS
<1>3. Off # Off => StreamOK(v, Off)
  OBVIOUS
<1> QED BY <1>1, <1>2, <1>3, OneStream

-----------------------------------------------------------------------------
(* The dispatcher *)

\* An event that leaves the broker's sequence for the stream's keeps the viewer
\* informed; one that does not concern the viewer brings no document of theirs.
LEMMA DispatchInforms ==
    ASSUME NEW b \in Seq(Events), b # <<>>, NEW x, NEW s, NEW d,
           x.queue \in Seq(Events), s.inv = x.inv, s.step = x.step, s.shown = x.shown,
           \/ s.queue = Append(x.queue, Head(b))
           \/ s.queue = x.queue /\ ~BringsDocument(Head(b), x.inv),
           Informs(b, x, d)
    PROVE  Informs(Tail(b), s, d)
<1> DEFINE i == x.inv
           e == Head(b)
<1>1. /\ e \in Events
      /\ Silent(b, i) => Silent(Tail(b), i) /\ ~BringsDocument(e, i)
      /\ Says(b, i, d) => \/ Says(Tail(b), i, d)
                          \/ Silent(Tail(b), i) /\ BringsDocument(e, i) /\ e.document = d
  BY TailSays
<1>2. /\ BringsDocument(e, i) /\ e.document = d => Says(Append(x.queue, e), i, d)
      /\ ~BringsDocument(e, i) /\ Silent(x.queue, i) => Silent(Append(x.queue, e), i)
      /\ ~BringsDocument(e, i) /\ Says(x.queue, i, d) => Says(Append(x.queue, e), i, d)
  BY <1>1, AppendSays
<1> HIDE DEF e
<1>3. CASE Says(b, i, d)
  BY <1>1, <1>2, <1>3 DEF Informs, e
<1>4. CASE Silent(b, i)
  <2>1. ~BringsDocument(e, i) /\ Silent(Tail(b), i)
    BY <1>1, <1>4
  <2>2. Says(x.queue, i, d) => Says(s.queue, i, d)
    BY <1>2, <2>1 DEF e
  <2>3. Silent(x.queue, i) => Silent(s.queue, i)
    BY <1>2, <2>1 DEF e
  <2>4. \/ Says(x.queue, i, d)
        \/ Silent(x.queue, i) /\ (x.step = "on" => x.shown = d)
        \/ Says(b, i, d)
    BY DEF Informs
  <2>5. CASE Says(b, i, d)
    BY <1>3, <2>5
  <2>6. CASE ~Says(b, i, d)
    BY <2>1, <2>2, <2>3, <2>4, <2>6 DEF Informs
  <2> QED BY <2>5, <2>6
<1> QED BY <1>3, <1>4 DEF Informs

LEMMA DispatchViewer ==
    ASSUME MInv, broker # <<>>, NEW v \in Viewers, streams[v] # Off,
           NEW s, s = AfterDispatch(v, Head(broker))
    PROVE  /\ s \in Streams
           /\ s.inv = streams[v].inv /\ s.step = streams[v].step /\ s.shown = streams[v].shown
           /\ s.step = "subscribed" => Len(s.queue) <= Buffer
           /\ \A k \in DOMAIN s.queue :
                  /\ s.queue[k].inv = s.inv /\ EventOK(s.queue[k])
                  /\ v \in Candidates => s.queue[k].type \notin {"note.created", "attendee.updated"}
           /\ s.registered => /\ streams[v].registered
                              /\ \A d : Informs(broker, streams[v], d) => Informs(Tail(broker), s, d)
<1> DEFINE x == streams[v]
           e == Head(broker)
<1>1. /\ StreamOK(v, x) /\ x \in Streams /\ x.inv \in Invitations
      /\ x.step \in {"subscribed", "on"} /\ x.queue \in Seq(Events)
      /\ Len(x.queue) <= Buffer + 1 /\ Len(x.queue) \in Nat
      /\ x.registered \in BOOLEAN /\ x.shown \in Documents \cup {"nothing"}
  BY StreamTypes DEF MInv
<1>2. broker \in Seq(Events) /\ e \in Events /\ EventOK(e)
  <2>1. broker \in Seq(Events)
    BY BrokerTypes DEF MInv
  <2>2. e \in Events /\ \E j \in DOMAIN broker : e = broker[j]
    BY <2>1, Elements
  <2> QED BY <2>1, <2>2 DEF MInv, BrokerOK
<1>3. Receives(v) <=> x.registered
  BY <1>1 DEF Receives
<1>4. /\ x.step = "subscribed" => Len(x.queue) <= Buffer
      /\ \A k \in DOMAIN x.queue :
             /\ x.queue[k].inv = x.inv /\ EventOK(x.queue[k])
             /\ v \in Candidates => x.queue[k].type \notin {"note.created", "attendee.updated"}
  BY <1>1 DEF StreamOK
<1>5. CASE ~x.registered
  <2>1. s = x
    BY <1>3, <1>5 DEF AfterDispatch
  <2> QED BY <1>1, <1>4, <1>5, <2>1
<1>6. CASE x.registered /\ Len(x.queue) >= Buffer
  <2> DEFINE new == [step |-> x.step, inv |-> x.inv, registered |-> FALSE, queue |-> x.queue,
                     shown |-> x.shown]
  <2>1. s = [x EXCEPT !.registered = FALSE]
    BY <1>3, <1>6 DEF AfterDispatch
  <2>2. [x EXCEPT !.registered = FALSE] =
            [step |-> x.step, inv |-> x.inv, registered |-> FALSE, queue |-> x.queue, shown |-> x.shown]
    BY <1>1, StreamEdits, Zenon
  <2>3. s = new
    BY <2>1, <2>2, Zenon
  <2>4. new \in Streams
    BY <1>1, StreamMade
  <2>5. /\ new.step = x.step /\ new.inv = x.inv /\ new.registered = FALSE
        /\ new.queue = x.queue /\ new.shown = x.shown
    BY Zenon
  <2> HIDE DEF new
  <2> QED BY <1>4, <2>3, <2>4, <2>5
<1>7. CASE x.registered /\ ~(Len(x.queue) >= Buffer)
  <2> DEFINE q == IF Concerns(v, e) THEN Append(x.queue, e) ELSE x.queue
             new == [step |-> x.step, inv |-> x.inv, registered |-> x.registered, queue |-> q,
                     shown |-> x.shown]
  <2>1. s = [x EXCEPT !.queue = q]
    BY <1>3, <1>7 DEF AfterDispatch
  <2>2. [x EXCEPT !.queue = q] =
            [step |-> x.step, inv |-> x.inv, registered |-> x.registered, queue |-> q, shown |-> x.shown]
    BY <1>1, StreamEdits, Zenon
  <2>3. s = new
    BY <2>1, <2>2, Zenon
  <2>4. /\ s.step = x.step /\ s.inv = x.inv /\ s.registered = x.registered
        /\ s.queue = q /\ s.shown = x.shown
    <3>1. /\ new.step = x.step /\ new.inv = x.inv /\ new.registered = x.registered
          /\ new.queue = q /\ new.shown = x.shown
      BY Zenon
    <3> HIDE DEF new
    <3> QED BY <2>3, <3>1, Zenon
  <2>5. /\ q \in Seq(Events) /\ Len(q) <= Len(x.queue) + 1
        /\ \A k \in DOMAIN q : \/ Concerns(v, e) /\ q[k] = e
                               \/ \E j \in DOMAIN x.queue : q[k] = x.queue[j]
    BY <1>1, <1>2, Elements
  <2>6. Len(q) <= Buffer /\ Len(q) <= Buffer + 1
    BY <1>1, <1>7, <2>5, LiveConstants
  <2>7. s \in Streams
    <3>1. new \in Streams
      BY <1>1, <2>5, <2>6, StreamMade
    <3> QED BY <2>3, <3>1, Zenon
  <2>8. BringsDocument(e, x.inv) => Concerns(v, e)
    BY DEF BringsDocument, Concerns
  <2>9. ASSUME NEW d, Informs(broker, x, d) PROVE Informs(Tail(broker), s, d)
    <3>1. s.queue = Append(x.queue, e) \/ (s.queue = x.queue /\ ~BringsDocument(e, x.inv))
      BY <2>4, <2>8
    <3> QED BY <1>1, <1>2, <2>4, <2>9, <3>1, DispatchInforms
  <2>10. \A k \in DOMAIN s.queue :
            /\ s.queue[k].inv = s.inv /\ EventOK(s.queue[k])
            /\ v \in Candidates => s.queue[k].type \notin {"note.created", "attendee.updated"}
    <3>1. Concerns(v, e) => /\ e.inv = x.inv
                            /\ v \in Candidates => e.type \notin {"note.created", "attendee.updated"}
      BY DEF Concerns
    <3> HIDE DEF q, e, x
    <3> QED BY <1>2, <1>4, <2>4, <2>5, <3>1
  <2> QED BY <1>7, <2>4, <2>6, <2>7, <2>9, <2>10
<1> QED BY <1>1, <1>5, <1>6, <1>7

LEMMA DispatchStep ==
    ASSUME MInv, Dispatch
    PROVE  MInv'
<1>1. /\ UNCHANGED <<passed, interviews, attendees, notes, pc, call, event>>
      /\ UNCHANGED <<unannounced, saved>>
      /\ broker # <<>> /\ broker' = Tail(broker)
      /\ streams' = [v \in Viewers |-> AfterDispatch(v, Head(broker))]
  BY DEF Dispatch, session, tables
<1>2. IInv'
  BY <1>1, NextStep DEF MInv, session, tables
<1>3. broker \in Seq(Events) /\ Len(broker) <= MaxUndelivered
  BY BrokerTypes DEF MInv
<1>4. /\ broker' \in Seq(Events) /\ Len(broker') <= MaxUndelivered
      /\ \A k \in DOMAIN broker' : \E j \in DOMAIN broker : broker'[k] = broker[j]
  <2>1. Tail(broker) \in Seq(Events) /\ Len(Tail(broker)) = Len(broker) - 1 /\ Len(broker) \in Nat
    BY <1>1, <1>3, Elements
  <2>2. Len(broker) - 1 <= MaxUndelivered
    BY <1>3, <2>1, LiveConstants
  <2>3. \A k \in DOMAIN Tail(broker) : \E j \in DOMAIN broker : Tail(broker)[k] = broker[j]
    BY <1>1, <1>3, Elements
  <2>4. Len(Tail(broker)) <= MaxUndelivered
    BY <2>1, <2>2
  <2> QED BY <1>1, <2>1, <2>3, <2>4
<1>5. ASSUME NEW v \in Viewers, streams[v] = Off PROVE streams'[v] = Off
  BY <1>1, <1>5 DEF AfterDispatch, Receives, Off
<1>6. MeetingTypeOK'
  <2>1. \A v \in Viewers : streams'[v] \in Streams \cup {Off}
    <3> SUFFICES ASSUME NEW v \in Viewers PROVE streams'[v] \in Streams \cup {Off}
      OBVIOUS
    <3>1. streams'[v] = AfterDispatch(v, Head(broker))
      BY <1>1
    <3> QED BY <1>1, <1>5, <3>1, DispatchViewer
  <2>2. broker' \in UNION {[1 .. n -> Events] : n \in 0 .. MaxUndelivered}
    BY <1>4, BoundedSeqs, LiveConstants
  <2> QED BY <1>1, <1>2, <2>1, <2>2 DEF MInv, IInv, MeetingTypeOK
<1>7. PublicationOK' /\ RowsOK'
  BY <1>1 DEF MInv, PublicationOK, EventOK, RowsOK, EditsDocument, Exists
<1>8. BrokerOK'
  <2>1. \A k \in DOMAIN broker' : EventOK(broker[k])'
    BY <1>1, <1>4 DEF MInv, BrokerOK, EventOK, Exists
  <2>2. ASSUME ~TenantTx, NEW i \in Invitations, Exists(i), Settled(i)
        PROVE  Silent(Tail(broker), i) \/ Says(Tail(broker), i, interviews[i].document)
    <3>1. Silent(broker, i) \/ Says(broker, i, interviews[i].document)
      BY <2>2 DEF MInv, BrokerOK
    <3> QED BY <1>1, <1>3, <3>1, TailSays
  <2>3. \A i \in Invitations : (Exists(i)' <=> Exists(i)) /\ (Settled(i)' <=> Settled(i))
    BY <1>1 DEF Exists, Settled, EditsDocument
  <2> QED BY <1>1, <2>1, <2>2, <2>3 DEF BrokerOK
<1>9. ASSUME NEW v \in Viewers, streams'[v] # Off PROVE StreamOK(v, streams[v])'
  <2> DEFINE x == streams[v]
             s == AfterDispatch(v, Head(broker))
  <2>1. streams'[v] = s /\ x # Off /\ StreamOK(v, x)
    BY <1>1, <1>5, <1>9 DEF MInv
  <2>2. /\ s.inv = x.inv /\ s.step = x.step /\ s.shown = x.shown
        /\ s.step = "subscribed" => Len(s.queue) <= Buffer
        /\ \A k \in DOMAIN s.queue :
               /\ s.queue[k].inv = s.inv /\ EventOK(s.queue[k])
               /\ v \in Candidates => s.queue[k].type \notin {"note.created", "attendee.updated"}
        /\ s.registered => /\ x.registered
                           /\ \A d : Informs(broker, x, d) => Informs(Tail(broker), s, d)
    BY <1>1, <2>1, DispatchViewer
  <2> HIDE DEF s, x
  <2>3. StreamOK(v, x)
    BY <2>1
  <2>5. ~TenantTx =>
           /\ s.shown # "nothing" => <<s.inv, s.shown>> \in saved
           /\ s.registered /\ Settled(s.inv) => Informs(Tail(broker), s, interviews[s.inv].document)
    BY <2>2, <2>3 DEF StreamOK
  <2>6. Exists(s.inv)
    BY <2>2, <2>3 DEF StreamOK
  <2> QED BY <1>1, <2>1, <2>2, <2>5, <2>6 DEF StreamOK, EventOK, Settled, EditsDocument, Exists
<1> QED BY <1>2, <1>6, <1>7, <1>8, <1>9 DEF MInv

-----------------------------------------------------------------------------
(* The requests *)

\* What a step of a request does besides the tables.
LEMMA RequestMoves ==
    ASSUME MInv, NEW r \in Requests, Announce(r) \/ Proceed(r) \/ Unconfirmed(r)
    PROVE  /\ Quiet(r) \/ Publish(r)
           /\ [Next]_session /\ IInv'
           /\ UNCHANGED streams /\ Remember
           /\ \/ UNCHANGED broker
              \/ /\ AfterPublish(r) /\ pc[r] = "publish" /\ event[r] \in Events
                 /\ Len(broker) < MaxUndelivered /\ broker' = Append(broker, event[r])
<1>1. Quiet(r) \/ Publish(r)
  BY DEF Announce, Proceed, Unconfirmed, Quiet
<1>2. [Next]_session
  BY <1>1 DEF Next
<1>3. IInv'
  BY <1>2, NextStep DEF MInv
<1>4. UNCHANGED streams /\ Remember
  BY DEF Announce, Proceed, Unconfirmed, Follow
<1>5. Announce(r) \/ Unconfirmed(r) =>
          AfterPublish(r) /\ Len(broker) < MaxUndelivered /\ broker' = Append(broker, event[r])
  BY DEF Announce, Unconfirmed, Publish, PublishFails
<1>6. AfterPublish(r) => pc[r] = "publish" /\ event[r] \in Events
  BY DEF AfterPublish, MInv, PublicationOK
<1>7. Proceed(r) => UNCHANGED broker
  BY DEF Proceed
<1> QED BY <1>1, <1>2, <1>3, <1>4, <1>5, <1>6, <1>7

\* What was published stays good.
LEMMA EventsStay ==
    ASSUME IInv, [Next]_session, saved \subseteq saved', NEW e \in Events, EventOK(e)
    PROVE  e.type = "document.updated" =>
               Exists(e.inv)' /\ (~TenantTx => <<e.inv, e.document>> \in saved')
<1>1. e.inv \in Invitations
  BY DEF Events
<1> QED BY <1>1, ExistsStays DEF EventOK

\* A request changes the document of an interview there is only as it stores
\* an edit of it.
LEMMA DocumentStays ==
    ASSUME IInv, NEW r \in Requests, Quiet(r) \/ Publish(r), ~TenantTx,
           NEW i \in Invitations, Exists(i),
           interviews'[i].document # interviews[i].document
    PROVE  EditsDocument(r) /\ call[r].inv = i /\ pc[r] = "write" /\ pc'[r] = "reread"
<1>1. [Next]_session
  BY DEF Next
<1>2. PICK s \in Requests :
          /\ Store(s) /\ Matches(call[s]) /\ call[s] \in Calls
          /\ call[s].op \in {"schedule", "status", "document"} /\ call[s].inv = i
          /\ pc[s] \in {"write", "commit"} /\ pc'[s] # pc[s]
  BY <1>1, ChangesAreStored
<1>3. s = r
  BY <1>2, OthersWait
<1>4. call[s].op # "schedule"
  BY <1>2 DEF Matches
<1>5. call[s].op # "status"
  <2> SUFFICES ASSUME call[s].op = "status" PROVE FALSE
    OBVIOUS
  <2>1. interviews' = [interviews EXCEPT ![i].status = call[s].status]
    BY <1>2 DEF Store
  <2>2. interviews[i] \in Rows /\ interviews \in [Invitations -> Rows \cup {NoInterview}]
    BY RowFields DEF IInv, TypeOK
  <2> QED BY <2>1, <2>2 DEF Rows
<1>6. EditsDocument(r) /\ pc[r] \in {"write", "commit"}
  BY <1>2, <1>3, <1>4, <1>5 DEF EditsDocument
<1>7. pc[r] = "write"
  BY <1>6 DEF IInv, RequestOK, EditsDocument
<1>8. Write(r) \/ Abandon(r)
  BY <1>7 DEF Quiet, Publish, PublishFails, AfterPublish, Receive, ReadInvitation, ReadInterview,
              Reread, Commit
<1>9. Write(r) /\ ~UNCHANGED tables
  BY <1>8 DEF Abandon, tables
<1>10. pc'[r] = "reread"
  BY <1>6, <1>9 DEF Write, Goto, EditsDocument, IInv, TypeOK
<1> QED BY <1>2, <1>3, <1>6, <1>7, <1>10

\* The interview of a request that has just been announced, and has not been
\* overtaken, is settled by it; the others are as settled as they were.
LEMMA RequestSettles ==
    ASSUME MInv, NEW r \in Requests, Announce(r) \/ Proceed(r) \/ Unconfirmed(r), ~TenantTx,
           NEW i \in Invitations, Exists(i), Settled(i)'
    PROVE  \/ /\ broker' = Append(broker, event[r])
              /\ BringsDocument(event[r], i) /\ event[r].document = interviews'[i].document
           \/ /\ Settled(i) /\ interviews'[i].document = interviews[i].document
              /\ UNCHANGED broker \/ ~BringsDocument(event[r], i)
<1>1. /\ Quiet(r) \/ Publish(r)
      /\ \/ UNCHANGED broker
         \/ /\ AfterPublish(r) /\ pc[r] = "publish" /\ event[r] \in Events
            /\ broker' = Append(broker, event[r])
  BY RequestMoves
<1>2. \A s \in Requests : s # r => pc'[s] = pc[s] /\ call'[s] = call[s]
  BY <1>1, OthersWait DEF MInv
<1>3. pc'[r] \in {"reread", "publish"} => call'[r] = call[r]
  BY <1>1, Onward DEF MInv
<1>4. ASSUME EditsDocument(r), call[r].inv = i, pc[r] \in {"reread", "publish"},
             Proceed(r) \/ Unconfirmed(r)
      PROVE  FALSE
  <2>1. pc'[r] \notin {"reread", "publish"}
    BY <1>3, <1>4 DEF Settled, EditsDocument
  <2>2. i \in unannounced'
    BY <1>4, <2>1 DEF Proceed, Unconfirmed, Follow, Unpublished
  <2> QED BY <2>2 DEF Settled
<1>5. CASE EditsDocument(r) /\ call[r].inv = i /\ Announce(r)
  <2>1. ~Overtaken(r)
    BY <1>5 DEF Announce, Settled
  <2>2. /\ pc[r] = "publish" /\ UNCHANGED interviews /\ broker' = Append(broker, event[r])
    BY <1>5 DEF Announce, Publish, AfterPublish, tables
  <2>3. event[r].inv = i /\ event[r].type = "document.updated"
    BY <1>5, <2>2 DEF MInv, PublicationOK
  <2> QED BY <1>5, <2>1, <2>2, <2>3 DEF Overtaken, BringsDocument
<1>6. CASE EditsDocument(r) /\ call[r].inv = i /\ ~Announce(r)
  <2>1. pc[r] \notin {"reread", "publish"}
    BY <1>4, <1>6
  <2>2. pc'[r] # "reread"
    BY <1>3, <1>6 DEF Settled, EditsDocument
  <2>3. interviews'[i].document = interviews[i].document
    BY <1>1, <2>2, DocumentStays DEF MInv
  <2>4. UNCHANGED broker
    BY <1>1, <2>1
  <2>5. i \notin unannounced
    BY <1>6 DEF Proceed, Unconfirmed, Follow, Settled
  <2>6. Settled(i)
    BY <1>2, <2>1, <2>5 DEF Settled, EditsDocument
  <2> QED BY <2>3, <2>4, <2>6
<1>7. CASE ~(EditsDocument(r) /\ call[r].inv = i)
  <2>1. interviews'[i].document = interviews[i].document
    BY <1>1, <1>7, DocumentStays DEF MInv
  <2>2. i \notin unannounced
    BY <1>7 DEF Announce, Proceed, Unconfirmed, Follow, Unpublished, Settled
  <2>3. Settled(i)
    BY <1>2, <1>7, <2>2 DEF Settled, EditsDocument
  <2>4. UNCHANGED broker \/ ~BringsDocument(event[r], i)
    BY <1>1, <1>7 DEF MInv, PublicationOK, BringsDocument
  <2> QED BY <2>1, <2>3, <2>4
<1> QED BY <1>4, <1>5, <1>6, <1>7

LEMMA RequestStep ==
    ASSUME MInv, NEW r \in Requests, Announce(r) \/ Proceed(r) \/ Unconfirmed(r)
    PROVE  MInv'
<1>1. /\ Quiet(r) \/ Publish(r)
      /\ [Next]_session /\ IInv' /\ UNCHANGED streams /\ Remember
      /\ \/ UNCHANGED broker
         \/ /\ AfterPublish(r) /\ pc[r] = "publish" /\ event[r] \in Events
            /\ Len(broker) < MaxUndelivered /\ broker' = Append(broker, event[r])
  BY RequestMoves
<1>2. /\ IInv /\ MeetingTypeOK /\ broker \in Seq(Events) /\ Len(broker) <= MaxUndelivered
      /\ \A i \in Invitations : Exists(i) => Exists(i)'
  BY <1>1, BrokerTypes, ExistsStays DEF MInv
<1>3. \A i \in Invitations : Exists(i)' => interviews'[i].document \in Documents
  BY <1>1 DEF IInv, TypeOK, Exists, Rows, NoInterview
<1>4. /\ saved \subseteq saved'
      /\ \A i \in Invitations : Exists(i)' => <<i, interviews'[i].document>> \in saved'
  BY <1>1 DEF Remember
<1>5. \A e \in Events : EventOK(e) =>
          (e.type = "document.updated" =>
               Exists(e.inv)' /\ (~TenantTx => <<e.inv, e.document>> \in saved'))
  BY <1>1, <1>2, <1>4, EventsStay
<1>6. /\ broker' \in Seq(Events) /\ Len(broker') <= MaxUndelivered
      /\ \A k \in DOMAIN broker' :
             \/ pc[r] = "publish" /\ broker'[k] = event[r]
             \/ \E j \in DOMAIN broker : broker'[k] = broker[j]
  <2>1. CASE UNCHANGED broker
    BY <1>2, <2>1
  <2>2. CASE /\ pc[r] = "publish" /\ event[r] \in Events
             /\ Len(broker) < MaxUndelivered /\ broker' = Append(broker, event[r])
    <3>1. Len(broker') = Len(broker) + 1 /\ Len(broker) \in Nat /\ broker' \in Seq(Events)
      BY <1>2, <2>2, Elements
    <3>2. Len(broker) + 1 <= MaxUndelivered
      BY <2>2, <3>1, LiveConstants
    <3> QED BY <1>2, <2>2, <3>1, <3>2, Elements
  <2> QED BY <1>1, <2>1, <2>2
<1>7. MeetingTypeOK'
  <2>1. saved' \subseteq Invitations \X Documents
    BY <1>1, <1>2, <1>3 DEF Remember, MeetingTypeOK
  <2>2. unannounced' \subseteq Invitations
    <3>1. EditsDocument(r) => call[r].inv \in Invitations
      <4>1. call[r] \in Calls \cup {NoCall}
        BY <1>2 DEF IInv, TypeOK
      <4> QED BY <4>1, CallFields DEF EditsDocument, NoCall
    <3> QED BY <1>2, <3>1 DEF MeetingTypeOK, Announce, Proceed, Unconfirmed, Follow, Unpublished
  <2>3. broker' \in UNION {[1 .. n -> Events] : n \in 0 .. MaxUndelivered}
    BY <1>6, BoundedSeqs, LiveConstants
  <2>4. streams' \in [Viewers -> Streams \cup {Off}] /\ TypeOK'
    BY <1>1, <1>2 DEF MeetingTypeOK, IInv
  <2> QED BY <2>1, <2>2, <2>3, <2>4 DEF MeetingTypeOK
<1>8. PublicationOK'
  <2> SUFFICES ASSUME NEW s \in Requests, pc'[s] = "publish"
               PROVE  /\ event'[s] \in Events /\ event'[s].inv = call'[s].inv
                      /\ event'[s].type = "document.updated" <=> EditsDocument(s)'
                      /\ EventOK(event[s])'
    BY DEF PublicationOK
  <2>1. CASE s = r
    <3>1. /\ call'[r] = call[r] /\ pc[r] = "reread" /\ call[r].op # "schedule"
          /\ event'[r] = EventOf(call[r]) /\ UNCHANGED tables
      BY <1>1, <1>2, <2>1, Onward
    <3>2. PICK e \in Events :
              /\ e = EventOf(call[r]) /\ e.inv = call[r].inv /\ e.inv \in Invitations
              /\ e.type = "document.updated" <=> EditsDocument(r)
              /\ EditsDocument(r) => Exists(e.inv)
              /\ EditsDocument(r) /\ ~TenantTx => e.document = interviews[e.inv].document
      BY <1>2, <3>1, EventFields
    <3>3. /\ EditsDocument(r) => Exists(e.inv)'
          /\ EditsDocument(r) /\ ~TenantTx => <<e.inv, e.document>> \in saved'
      BY <1>2, <1>4, <3>1, <3>2 DEF tables
    <3> QED BY <2>1, <3>1, <3>2, <3>3 DEF EventOK, EditsDocument, Exists
  <2>2. CASE s # r
    <3>1. pc'[s] = pc[s] /\ call'[s] = call[s] /\ event'[s] = event[s]
      BY <1>1, <1>2, <2>2, OthersWait
    <3>2. PICK e \in Events :
              /\ e = event[s] /\ e.inv = call[s].inv
              /\ e.type = "document.updated" <=> EditsDocument(s)
              /\ EventOK(e)
      BY <3>1 DEF MInv, PublicationOK
    <3>3. e.type = "document.updated" =>
              Exists(e.inv)' /\ (~TenantTx => <<e.inv, e.document>> \in saved')
      BY <1>5, <3>2
    <3> QED BY <3>1, <3>2, <3>3 DEF EventOK, EditsDocument, Exists
  <2> QED BY <2>1, <2>2
<1>9. RowsOK'
  BY <1>4 DEF RowsOK
<1>10. ASSUME NEW k \in DOMAIN broker' PROVE broker'[k] \in Events /\ EventOK(broker[k])'
  <2>1. PICK e \in Events : broker'[k] = e /\ EventOK(e)
    <3>1. pc[r] = "publish" => event[r] \in Events /\ EventOK(event[r])
      BY DEF MInv, PublicationOK
    <3>2. \A j \in DOMAIN broker : broker[j] \in Events /\ EventOK(broker[j])
      BY <1>2 DEF MInv, BrokerOK
    <3> QED BY <1>6, <3>1, <3>2
  <2>2. e.type = "document.updated" =>
            Exists(e.inv)' /\ (~TenantTx => <<e.inv, e.document>> \in saved')
    BY <1>5, <2>1
  <2> QED BY <2>1, <2>2 DEF EventOK, Exists
<1>11. ASSUME ~TenantTx, NEW i \in Invitations, Exists(i), Settled(i)'
       PROVE  \/ Says(broker', i, interviews'[i].document)
              \/ /\ Settled(i) /\ interviews'[i].document = interviews[i].document
                 /\ Silent(broker, i) => Silent(broker', i)
                 /\ \A d : Says(broker, i, d) => Says(broker', i, d)
  <2> DEFINE e == event[r]
  <2>1. \/ /\ broker' = Append(broker, e)
           /\ BringsDocument(e, i) /\ e.document = interviews'[i].document
        \/ /\ Settled(i) /\ interviews'[i].document = interviews[i].document
           /\ UNCHANGED broker \/ ~BringsDocument(e, i)
    BY <1>11, RequestSettles
  <2>2. UNCHANGED broker \/ (broker' = Append(broker, e) /\ e \in Events)
    BY <1>1
  <2> HIDE DEF e
  <2>3. CASE UNCHANGED broker /\ Settled(i) /\ interviews'[i].document = interviews[i].document
    BY <2>3
  <2>4. CASE broker' = Append(broker, e) /\ e \in Events
    <3>1. \A d : /\ BringsDocument(e, i) /\ e.document = d => Says(broker', i, d)
                 /\ ~BringsDocument(e, i) /\ Silent(broker, i) => Silent(broker', i)
                 /\ ~BringsDocument(e, i) /\ Says(broker, i, d) => Says(broker', i, d)
      BY <1>2, <2>4, AppendSays
    <3> QED BY <2>1, <2>3, <3>1
  <2>5. CASE broker' = Append(broker, e) /\ ~(e \in Events)
    BY <2>1, <2>2, <2>3, <2>5
  <2> QED BY <2>1, <2>2, <2>3, <2>4, <2>5
<1>12. BrokerOK'
  <2>1. ASSUME ~TenantTx, NEW i \in Invitations, Exists(i)', Settled(i)'
        PROVE  Silent(broker', i) \/ Says(broker', i, interviews'[i].document)
    <3>1. CASE Exists(i)
      <4>1. Settled(i) => Silent(broker, i) \/ Says(broker, i, interviews[i].document)
        BY <2>1, <3>1 DEF MInv, BrokerOK
      <4> QED BY <1>11, <2>1, <3>1, <4>1
    <3>2. CASE ~Exists(i)
      <4>1. Silent(broker, i)
        BY <3>2 DEF MInv, BrokerOK, EventOK, Silent, BringsDocument
      <4>2. interviews' # interviews
        BY <2>1, <3>2 DEF Exists
      <4>3. UNCHANGED broker
        BY <1>1, <4>2 DEF AfterPublish, tables
      <4> QED BY <4>1, <4>3
    <3> QED BY <3>1, <3>2
  <2> QED BY <1>10, <2>1 DEF BrokerOK
<1>13. ASSUME NEW v \in Viewers, streams'[v] # Off PROVE StreamOK(v, streams[v])'
  <2>1. PICK s : /\ streams[v] = s /\ streams'[v] = s /\ StreamOK(v, s)
                 /\ s.inv \in Invitations /\ s.queue \in Seq(Events)
    BY <1>1, <1>2, <1>13, StreamTypes DEF MInv
  <2>2. Exists(s.inv)'
    BY <1>2, <2>1 DEF StreamOK
  <2>3. ASSUME NEW k \in DOMAIN s.queue
        PROVE  s.queue[k].type = "document.updated" =>
                   /\ Exists(s.queue[k].inv)'
                   /\ ~TenantTx => <<s.queue[k].inv, s.queue[k].document>> \in saved'
    <3>1. PICK e \in Events : e = s.queue[k] /\ EventOK(e)
      BY <2>1 DEF StreamOK
    <3> QED BY <1>5, <3>1
  <2>4. ASSUME ~TenantTx, s.registered, Settled(s.inv)'
        PROVE  Informs(broker', s, interviews'[s.inv].document)
    <3>1. Exists(s.inv)
      BY <2>1 DEF StreamOK
    <3>2. \/ Says(broker', s.inv, interviews'[s.inv].document)
          \/ /\ Settled(s.inv) /\ interviews'[s.inv].document = interviews[s.inv].document
             /\ Silent(broker, s.inv) => Silent(broker', s.inv)
             /\ \A d : Says(broker, s.inv, d) => Says(broker', s.inv, d)
      BY <1>11, <2>1, <2>4, <3>1
    <3>3. Settled(s.inv) => Informs(broker, s, interviews[s.inv].document)
      BY <2>1, <2>4 DEF StreamOK
    <3> QED BY <3>2, <3>3 DEF Informs
  <2>5. ~TenantTx /\ s.shown # "nothing" => <<s.inv, s.shown>> \in saved'
    BY <1>4, <2>1 DEF StreamOK
  <2>6. /\ s.step = "subscribed" => Len(s.queue) <= Buffer
        /\ \A k \in DOMAIN s.queue :
               /\ s.queue[k].inv = s.inv
               /\ v \in Candidates => s.queue[k].type \notin {"note.created", "attendee.updated"}
    BY <2>1 DEF StreamOK
  <2> QED BY <2>1, <2>2, <2>3, <2>4, <2>5, <2>6 DEF StreamOK, EventOK, Settled, EditsDocument, Exists
<1> QED BY <1>1, <1>7, <1>8, <1>9, <1>12, <1>13 DEF MInv

-----------------------------------------------------------------------------
(* The steps keep the inductive invariant *)

LEMMA MeetingInitOK == MeetingInit => MInv
<1> SUFFICES ASSUME MeetingInit PROVE MInv
  OBVIOUS
<1>1. /\ Init /\ streams = [v \in Viewers |-> Off] /\ broker = <<>>
      /\ unannounced = {} /\ saved = {}
  BY DEF MeetingInit
<1>2. IInv
  BY <1>1, InitEstablishesIInv
<1>3. MeetingTypeOK
  <2>1. <<>> \in Seq(Events) /\ Len(<<>>) = 0 /\ 0 <= MaxUndelivered
    BY LiveConstants
  <2>2. broker \in UNION {[1 .. n -> Events] : n \in 0 .. MaxUndelivered}
    BY <1>1, <2>1, BoundedSeqs, LiveConstants
  <2> QED BY <1>1, <1>2, <2>2 DEF MeetingTypeOK, IInv
<1>4. \A i \in Invitations : ~Exists(i)
  BY <1>1 DEF Init, Exists, NoInterview
<1>5. PublicationOK
  BY <1>1 DEF PublicationOK, Init
<1> QED BY <1>1, <1>2, <1>3, <1>4, <1>5 DEF MInv, RowsOK, BrokerOK

\* Only the outcome of an assessment changes, or nothing.
LEMMA ElsewhereStep ==
    ASSUME MInv, UNCHANGED <<tables, pc, call, event, streams, broker, unannounced, saved>>, IInv'
    PROVE  MInv'
<1>1. /\ UNCHANGED <<interviews, attendees, notes, pc, call, event>>
      /\ UNCHANGED <<streams, broker, unannounced, saved>>
  BY DEF tables
<1>2. MeetingTypeOK'
  BY <1>1 DEF MInv, IInv, MeetingTypeOK
<1>3. PublicationOK' /\ RowsOK' /\ BrokerOK'
  BY <1>1 DEF MInv, PublicationOK, EventOK, RowsOK, BrokerOK, Settled, EditsDocument, Exists
<1>4. ASSUME NEW v \in Viewers, streams'[v] # Off PROVE StreamOK(v, streams[v])'
  <2>1. StreamOK(v, streams[v]) /\ streams'[v] = streams[v]
    BY <1>1, <1>4 DEF MInv
  <2> QED BY <1>1, <2>1 DEF StreamOK, EventOK, Settled, EditsDocument, Exists
<1> QED BY <1>2, <1>3, <1>4 DEF MInv

LEMMA MeetingNextStep == MInv /\ [MeetingNext]_meeting => MInv'
<1> SUFFICES ASSUME MInv, [MeetingNext]_meeting PROVE MInv'
  OBVIOUS
<1>1. IInv'
  BY RequestsAreSessions, NextStep DEF MInv
<1>2. CASE UNCHANGED meeting
  <2>1. UNCHANGED <<tables, pc, call, event, streams, broker, unannounced, saved>>
    BY <1>2 DEF meeting, session
  <2> QED BY <1>1, <2>1, ElsewhereStep
<1>3. ASSUME NEW r \in Requests, Announce(r) \/ Proceed(r) \/ Unconfirmed(r) PROVE MInv'
  BY <1>3, RequestStep
<1>4. ASSUME NEW i \in Invitations, GradeAgain(i) PROVE MInv'
  <2>1. UNCHANGED <<tables, pc, call, event, streams, broker, unannounced, saved>>
    BY <1>4 DEF GradeAgain, Regrade
  <2> QED BY <1>1, <2>1, ElsewhereStep
<1>5. ASSUME NEW v \in Viewers, Subscribe(v) \/ ReadSnapshot(v) \/ Show(v) \/ Disconnect(v)
      PROVE  MInv'
  BY <1>5, SubscribeStep, SnapshotStep, ShowStep, DisconnectStep
<1>6. CASE Dispatch
  BY <1>6, DispatchStep
<1> QED BY <1>2, <1>3, <1>4, <1>5, <1>6 DEF MeetingNext

-----------------------------------------------------------------------------
(* Theorems *)

\* Requests, events on their way and streams fit together in every reachable
\* state, in whatever order requests, dispatcher and viewers run
\* (interviews.go:78-341, amqp.go:135-206).
THEOREM MeetingInvariance == MeetingSpec => []MInv
<1> QED BY MeetingInitOK, MeetingNextStep, PTL DEF MeetingSpec

\* No stream holds more than its channel and the snapshot ahead of it, and all
\* that is in it is an event of the program (amqp.go:60, interviews.go:281-341).
THEOREM MeetingTypes == MeetingSpec => []MeetingTypeOK
<1>1. MInv => MeetingTypeOK
  BY DEF MInv
<1> QED BY <1>1, MeetingInvariance, PTL

\* A viewer gets events of the interview they opened and of no other, and
\* candidates get no notes and no attendees (interviews.go:318-341).
THEOREM PrivateStreams == MeetingSpec => []StreamsArePrivate
<1>1. MInv => StreamsArePrivate
  <2> SUFFICES ASSUME MInv, NEW v \in Viewers, streams[v].step # "off",
                      NEW k \in DOMAIN streams[v].queue
               PROVE  /\ streams[v].queue[k].inv = streams[v].inv
                      /\ v \in Candidates =>
                             streams[v].queue[k].type \notin {"note.created", "attendee.updated"}
    BY DEF StreamsArePrivate
  <2>1. StreamOK(v, streams[v])
    BY OffOrNot DEF MInv
  <2> QED BY <2>1 DEF StreamOK
<1> QED BY <1>1, MeetingInvariance, PTL

\* Without tenants, what a viewer is shown was committed before: the event is
\* built from the row that is read back after the write (interviews.go:186-196).
THEOREM ShownSaved == ~TenantTx => (MeetingSpec => []ShownWasSaved)
<1> SUFFICES ASSUME ~TenantTx PROVE MeetingSpec => []ShownWasSaved
  OBVIOUS
<1>1. MInv => ShownWasSaved
  <2> SUFFICES ASSUME MInv, NEW v \in Viewers, streams[v].step = "on",
                      streams[v].shown # "nothing"
               PROVE  <<streams[v].inv, streams[v].shown>> \in saved
    BY DEF ShownWasSaved
  <2>1. StreamOK(v, streams[v])
    BY OffOrNot DEF MInv
  <2> QED BY <2>1 DEF StreamOK
<1> QED BY <1>1, MeetingInvariance, PTL

\* Without tenants, a viewer for whom nothing is under way shows the document
\* that is stored, unless its last save failed to be announced or saves have
\* overtaken one another: what is published after the subscription arrives
\* after the snapshot (interviews.go:304-316), and a stream that has missed an
\* event is closed (amqp.go:178-187).
THEOREM ViewersCurrent == ~TenantTx => (MeetingSpec => []QuietViewersAreCurrent)
<1> SUFFICES ASSUME ~TenantTx PROVE MeetingSpec => []QuietViewersAreCurrent
  OBVIOUS
<1>1. MInv => QuietViewersAreCurrent
  <2> SUFFICES ASSUME MInv, NEW v \in Viewers, streams[v].step = "on", streams[v].registered,
                      streams[v].queue = <<>>, broker = <<>>,
                      streams[v].inv \notin unannounced,
                      \A r \in Requests : EditsDocument(r) => call[r].inv # streams[v].inv
               PROVE  streams[v].shown = interviews[streams[v].inv].document
    BY DEF QuietViewersAreCurrent
  <2>1. StreamOK(v, streams[v])
    BY OffOrNot DEF MInv
  <2>2. Settled(streams[v].inv)
    BY DEF Settled
  <2>3. Informs(broker, streams[v], interviews[streams[v].inv].document)
    BY <2>1, <2>2 DEF StreamOK
  <2> QED BY <2>3, EmptySays DEF Informs
<1> QED BY <1>1, MeetingInvariance, PTL
=============================================================================
