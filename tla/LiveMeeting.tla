---------------------------- MODULE LiveMeeting ----------------------------
(***************************************************************************)
(* Who sees what of an interview while it is edited: interviewers and      *)
(* candidates hold a stream of events open (interviews.go:281-341,         *)
(* handler.go:550-605) and show the document it brings them.  The requests *)
(* are those of InterviewSession.tla; one that publishes hands its event   *)
(* to the broker, which delivers to every open stream in the order of      *)
(* publication as long as the connection lasts (EventBus.tla is about a    *)
(* connection that does not).                                              *)
(***************************************************************************)
EXTENDS InterviewSession, Sequences

CONSTANTS Interviewers,  \* the users who watch
          Candidates,    \* the candidates who watch, by their token
          Buffer,        \* events a stream holds before it is dropped as slow
          MaxUndelivered \* bound: events with the broker at once

ASSUME LiveConstants ==
    Interviewers \subseteq Users /\ Buffer \in Nat \ {0} /\ MaxUndelivered \in Nat

VARIABLES streams,    \* the stream of each viewer
          broker,     \* events published and not yet dispatched
          unannounced,\* history: interviews whose last event, if any, did not
                      \* bring the stored document
          saved       \* history: documents an interview has had

meeting == <<session, streams, broker, unannounced, saved>>

Viewers == Interviewers \cup Candidates

Off == [step |-> "off"]

Streams ==
    [step : {"subscribed", "on"}, inv : Invitations, registered : BOOLEAN,
     queue : UNION {[1 .. n -> Events] : n \in 0 .. Buffer + 1},
     shown : Documents \cup {"nothing"}]

DocumentEvent(i, d) == [type |-> "document.updated", inv |-> i, document |-> d]

-----------------------------------------------------------------------------
(* A viewer's stream *)

\* Subscribe and SubscribeParticipant: the meeting is found and allowed, and a
\* channel is registered with the bus.
Subscribe(v) ==
    /\ streams[v].step = "off"
    /\ \E i \in Invitations :
           /\ Exists(i)
           /\ v \in Interviewers => IsAttendee(i, v)
           /\ streams' = [streams EXCEPT ![v] =
                  [step |-> "subscribed", inv |-> i, registered |-> TRUE,
                   queue |-> <<>>, shown |-> "nothing"]]
    /\ UNCHANGED <<session, broker, unannounced, saved>>

\* The document as it is committed now goes ahead of what has arrived since.
ReadSnapshot(v) ==
    /\ streams[v].step = "subscribed"
    /\ LET i == streams[v].inv
       IN  streams' = [streams EXCEPT ![v].step = "on",
                           ![v].queue = <<DocumentEvent(i, interviews[i].document)>> \o @]
    /\ UNCHANGED <<session, broker, unannounced, saved>>

\* The viewer takes the next event and shows its document.
Show(v) ==
    /\ streams[v].step = "on" /\ streams[v].queue # <<>>
    /\ LET e == Head(streams[v].queue)
       IN  streams' = [streams EXCEPT ![v].queue = Tail(@),
                           ![v].shown = IF e.type = "document.updated" THEN e.document ELSE @]
    /\ UNCHANGED <<session, broker, unannounced, saved>>

\* The stream is over: the client went away, the request timed out, or the
\* bus closed the channel and all that was in it has been written.  The
\* client subscribes again (client.ts:212-214).
Disconnect(v) ==
    /\ streams[v].step # "off"
    /\ streams' = [streams EXCEPT ![v] = Off]
    /\ UNCHANGED <<session, broker, unannounced, saved>>

-----------------------------------------------------------------------------
(* The dispatcher of the bus and the filter behind it *)

Receives(v) == streams[v].step # "off" /\ streams[v].registered

\* Mutant: events of every interview.
ConcernsAny(v, e) ==
    v \in Candidates => e.type \in {"document.updated", "status.updated"}

\* Mutant: no documentsOnly.
ConcernsAll(v, e) == e.inv = streams[v].inv

Concerns(v, e) ==
    /\ e.inv = streams[v].inv
    /\ v \in Candidates => e.type \in {"document.updated", "status.updated"}

\* Mutant: the channel has no bound.
AfterDispatchUnbounded(v, e) ==
    IF Receives(v) /\ Concerns(v, e)
    THEN [streams[v] EXCEPT !.queue = Append(@, e)]
    ELSE streams[v]

\* Mutant: an event that finds the channel full is skipped.
AfterDispatchSkips(v, e) ==
    IF Receives(v) /\ Len(streams[v].queue) < Buffer /\ Concerns(v, e)
    THEN [streams[v] EXCEPT !.queue = Append(@, e)]
    ELSE streams[v]

\* A subscriber that does not keep up is unregistered and its channel closed.
AfterDispatch(v, e) ==
    CASE ~Receives(v) -> streams[v]
      [] Receives(v) /\ Len(streams[v].queue) >= Buffer ->
            [streams[v] EXCEPT !.registered = FALSE]
      [] OTHER ->
            [streams[v] EXCEPT !.queue = IF Concerns(v, e) THEN Append(@, e) ELSE @]

Dispatch ==
    /\ broker # <<>>
    /\ broker' = Tail(broker)
    /\ streams' = [v \in Viewers |-> AfterDispatch(v, Head(broker))]
    /\ UNCHANGED <<session, unannounced, saved>>

-----------------------------------------------------------------------------
(* The requests of InterviewSession.tla, and what they hand to the broker *)

EditsDocument(r) == call[r].op = "document"

\* A save that stops between its write and its publication goes unannounced.
Unpublished(r) ==
    /\ EditsDocument(r)
    /\ pc[r] \in {"reread", "publish"} /\ pc'[r] \notin {"reread", "publish"}

\* Between the row it read back and its publication another save has stored,
\* and may have announced, its own document.  A tenant's transaction holds the
\* row until it commits.
Overtaken(r) ==
    ~TenantTx /\ event[r].document # interviews[call[r].inv].document

Remember ==
    saved' = saved \cup
        {<<i, interviews'[i].document>> : i \in {j \in Invitations : Exists(j)'}}

\* The broker confirms the event.
Announce(r) ==
    /\ Publish(r)
    /\ Len(broker) < MaxUndelivered
    /\ broker' = Append(broker, event[r])
    /\ unannounced' = IF ~EditsDocument(r) THEN unannounced
                      ELSE IF Overtaken(r) THEN unannounced \cup {call[r].inv}
                      ELSE unannounced \ {call[r].inv}
    /\ UNCHANGED streams
    /\ Remember

\* Any other step of a request.
Follow(r) ==
    /\ unannounced' = IF Unpublished(r) THEN unannounced \cup {call[r].inv} ELSE unannounced
    /\ UNCHANGED streams
    /\ Remember

Proceed(r) == Quiet(r) /\ Follow(r) /\ UNCHANGED broker

\* The broker has the event, but its confirmation does not come in time.
Unconfirmed(r) ==
    /\ PublishFails(r)
    /\ Len(broker) < MaxUndelivered
    /\ broker' = Append(broker, event[r])
    /\ Follow(r)

GradeAgain(i) ==
    /\ Regrade(i)
    /\ UNCHANGED <<streams, broker, unannounced, saved>>

MeetingInit ==
    /\ Init
    /\ streams = [v \in Viewers |-> Off]
    /\ broker = <<>>
    /\ unannounced = {}
    /\ saved = {}

MeetingNext ==
    \/ \E r \in Requests : Announce(r) \/ Proceed(r) \/ Unconfirmed(r)
    \/ \E i \in Invitations : GradeAgain(i)
    \/ \E v \in Viewers : Subscribe(v) \/ ReadSnapshot(v) \/ Show(v) \/ Disconnect(v)
    \/ Dispatch

MeetingSpec == MeetingInit /\ [][MeetingNext]_meeting

-----------------------------------------------------------------------------
(* Properties *)

\* Streams hold at most what their channels hold.
MeetingTypeOK ==
    /\ TypeOK
    /\ streams \in [Viewers -> Streams \cup {Off}]
    /\ broker \in UNION {[1 .. n -> Events] : n \in 0 .. MaxUndelivered}
    /\ unannounced \subseteq Invitations
    /\ saved \subseteq Invitations \X Documents

\* A viewer who is connected, has shown all that arrived and waits for nothing
\* shows the document that is stored: nothing falls between the snapshot and
\* the subscription (interviews.go:304-316), and a slow viewer is disconnected
\* rather than left behind (amqp.go:180-185).  Excepted are saves whose
\* publication failed, for which the editor got an error, and saves that
\* overlapped and were announced in the other order (interviews.go:191-194).
QuietViewersAreCurrent ==
    \A v \in Viewers :
        LET s == streams[v]
        IN  s.step = "on" /\ s.registered /\ s.queue = <<>> /\ broker = <<>>
            /\ s.inv \notin unannounced
            /\ (\A r \in Requests : EditsDocument(r) => call[r].inv # s.inv)
            => s.shown = interviews[s.inv].document

\* A stream carries events of the interview it was opened for only, and a
\* candidate's carries neither notes nor attendees (README.md:260-264).
StreamsArePrivate ==
    \A v \in Viewers : streams[v].step # "off" =>
        \A k \in DOMAIN streams[v].queue :
            LET e == streams[v].queue[k]
            IN  /\ e.inv = streams[v].inv
                /\ v \in Candidates => e.type \notin {"note.created", "attendee.updated"}

\* What is shown was stored for that interview: only persisted documents are
\* published (interviews.go:194).
ShownWasSaved ==
    \A v \in Viewers :
        streams[v].step = "on" /\ streams[v].shown # "nothing" =>
            <<streams[v].inv, streams[v].shown>> \in saved
=============================================================================
