------------------------------ MODULE EventBus ------------------------------
(***************************************************************************)
(* AMQPBus, the event bus of one API instance (eventbus/amqp.go): streams  *)
(* subscribe with a channel each, a publication waits for the broker's     *)
(* confirmation and reconnects when it does not come, and every connection *)
(* has a dispatcher that hands its deliveries to the subscribers.  All of  *)
(* them share one mutex.  A publication holds it from beginning to end;    *)
(* every other critical section has no waiting in it and is one action.    *)
(* The broker is external: a fanout exchange to which every connected      *)
(* instance binds an exclusive queue that dies with its connection.        *)
(***************************************************************************)
EXTENDS Naturals, Sequences

CONSTANTS Subscribers, \* calls of SubscribeInterviewEvents
          Buffer,      \* capacity of a subscriber's channel
          MaxEvents,   \* bound: events published, here or elsewhere
          MaxLinks     \* bound: connections made

ASSUME BusConstants == Buffer \in Nat \ {0} /\ MaxEvents \in Nat /\ MaxLinks \in Nat \ {0}

VARIABLES publisher,  \* the publication that holds the mutex, or idle
          count,      \* events the broker has had; each is known by its number
          links,      \* how many connections were made
          up,         \* connections that are open
          arriving,   \* by connection, what its dispatcher has not received
          dispatcher, \* by connection, its goroutine
          registered, \* b.subscribers
          channel,    \* the channel of each subscription
          inbox,      \* what is buffered in it
          cancelled,  \* subscriptions whose context is done
          closed,     \* b.closed and b.done
          owed        \* history: events a registered subscriber is to get

connections == <<links, up, arriving>>
subscriptions == <<registered, channel, inbox, cancelled>>
bus == <<publisher, count, connections, dispatcher, subscriptions, closed, owed>>

-----------------------------------------------------------------------------
(* State *)

Events == 1 .. MaxEvents
Links == 1 .. MaxLinks

Idle == [step |-> "idle"]

\* An event has no number before the broker has it for the first time.
Publishing ==
    [step : {"send", "wait", "connect", "resend", "rewait"}, event : Events \cup {0}]

NoDispatcher == [step |-> "none"]
Waiting == [step |-> "wait"]
Ended == [step |-> "ended"]
Holding == [step : {"lock"}, event : Events]

\* The mutex: nobody but a publication keeps it from one step to the next.
Free == publisher = Idle

AtStep(steps) == publisher.step \in steps

\* A channel that is closed once more panics, and so does a send on it.
Close(c) == IF c = "open" THEN "closed" ELSE "panicked"

\* What a dispatcher may still receive when its connection is gone: the first
\* of the deliveries that had come.
Rest(g) == {SubSeq(arriving[g], 1, n) : n \in 0 .. Len(arriving[g])}

\* A connection is gone, and with it the queue it consumed.
Drop(g) ==
    /\ up' = up \ {g}
    /\ \E rest \in Rest(g) : arriving' = [arriving EXCEPT ![g] = rest]
    /\ owed' = [s \in Subscribers |-> {}]

\* The exchange copies an event to the queue of every open connection.
Fanout(e) ==
    /\ arriving' = [g \in Links |-> IF g \in up THEN Append(arriving[g], e) ELSE arriving[g]]
    /\ owed' = [s \in Subscribers |->
           IF s \in registered /\ up # {} THEN owed[s] \cup {e} ELSE owed[s]]
    /\ UNCHANGED <<links, up>>

-----------------------------------------------------------------------------
(* PublishInterviewEvent *)

\* Mutant: b.closed is not looked at.
BeginAlways ==
    /\ Free
    /\ count < MaxEvents
    /\ publisher' = [step |-> "send", event |-> 0]
    /\ UNCHANGED <<count, connections, dispatcher, subscriptions, closed, owed>>

\* Lock; a closed bus returns ErrClosed.
Begin ==
    /\ Free /\ ~closed
    /\ count < MaxEvents
    /\ publisher' = [step |-> "send", event |-> 0]
    /\ UNCHANGED <<count, connections, dispatcher, subscriptions, closed, owed>>

\* publishConfirmed: the event leaves, if the connection is open, for the
\* first time or once more.
Send ==
    /\ AtStep({"send", "resend"})
    /\ links \in up
    /\ \E e \in Events :
           /\ e = IF publisher.event = 0 THEN count + 1 ELSE publisher.event
           /\ count' = IF publisher.event = 0 THEN e ELSE count
           /\ publisher' = [step |-> IF AtStep({"send"}) THEN "wait" ELSE "rewait", event |-> e]
           /\ Fanout(e)
    /\ UNCHANGED <<dispatcher, subscriptions, closed>>

\* The broker's confirmation: return, and unlock.
Confirmed ==
    /\ AtStep({"wait", "rewait"})
    /\ links \in up
    /\ publisher' = Idle
    /\ UNCHANGED <<count, connections, dispatcher, subscriptions, closed, owed>>

\* Mutant: the mutex is not unlocked on the error after the reconnection.
SendFailsLocked ==
    /\ AtStep({"send", "wait"})
    /\ publisher' = [publisher EXCEPT !.step = "connect"]
    /\ Drop(links)
    /\ UNCHANGED <<count, links, dispatcher, subscriptions, closed>>

\* Mutant: the old connection is left open.
SendFailsKeeps ==
    /\ publisher # Idle /\ ~AtStep({"connect"})
    /\ publisher' =
           IF AtStep({"send", "wait"}) THEN [publisher EXCEPT !.step = "connect"] ELSE Idle
    /\ UNCHANGED <<count, connections, dispatcher, subscriptions, closed, owed>>

\* The channel is closed, the broker rejects, or the context is done: the
\* first time close the connection and make another, the second time return
\* the error.
SendFails ==
    \/ /\ AtStep({"send", "wait"})
       /\ publisher' = [publisher EXCEPT !.step = "connect"]
       /\ Drop(links)
       /\ UNCHANGED <<count, links, dispatcher, subscriptions, closed>>
    \/ /\ AtStep({"resend", "rewait"})
       /\ publisher' = Idle
       /\ UNCHANGED <<count, connections, dispatcher, subscriptions, closed, owed>>

\* A new connection, with a dispatcher of its own.
Reconnect ==
    /\ AtStep({"connect"})
    /\ links < MaxLinks
    /\ links' = links + 1
    /\ up' = up \cup {links + 1}
    /\ publisher' = [publisher EXCEPT !.step = "resend"]
    /\ dispatcher' = [dispatcher EXCEPT ![links + 1] = Waiting]
    /\ UNCHANGED <<count, arriving, subscriptions, closed, owed>>

\* The broker cannot be reached: return the error.
ReconnectFails ==
    /\ AtStep({"connect"})
    /\ publisher' = Idle
    /\ UNCHANGED <<count, connections, dispatcher, subscriptions, closed, owed>>

-----------------------------------------------------------------------------
(* The dispatcher of a connection *)

Receive(g) ==
    /\ dispatcher[g] = Waiting
    /\ arriving[g] # <<>>
    /\ dispatcher' = [dispatcher EXCEPT ![g] = [step |-> "lock", event |-> Head(arriving[g])]]
    /\ arriving' = [arriving EXCEPT ![g] = Tail(@)]
    /\ UNCHANGED <<publisher, count, links, up, subscriptions, closed, owed>>

\* The bus is closed, or the deliveries are.
EndDispatch(g) ==
    /\ dispatcher[g] = Waiting
    /\ closed \/ (g \notin up /\ arriving[g] = <<>>)
    /\ dispatcher' = [dispatcher EXCEPT ![g] = Ended]
    /\ UNCHANGED <<publisher, count, connections, subscriptions, closed, owed>>

\* Mutant: one event more than the channel holds.
SlowLate == {s \in registered : Len(inbox[s]) > Buffer}

\* The subscribers whose channel is full.
Slow == {s \in registered : Len(inbox[s]) >= Buffer}

\* Mutant: what does not fit is skipped, and the subscriber kept.
DroppedNone == {}

Dropped == Slow

\* Mutant: the send blocks until there is room.
DistributeBlocking(g) ==
    /\ dispatcher[g].step = "lock"
    /\ Free /\ Slow = {}
    /\ inbox' = [s \in Subscribers |->
           IF s \in registered THEN Append(inbox[s], dispatcher[g].event) ELSE inbox[s]]
    /\ owed' = [s \in Subscribers |->
           IF s \in registered THEN owed[s] \ {dispatcher[g].event} ELSE owed[s]]
    /\ dispatcher' = [dispatcher EXCEPT ![g] = Waiting]
    /\ UNCHANGED <<publisher, count, connections, registered, channel, cancelled, closed>>

\* Every subscriber gets the event, or loses its subscription.
Distribute(g) ==
    /\ dispatcher[g].step = "lock"
    /\ Free
    /\ LET e == dispatcher[g].event
           reached == registered \ Slow
       IN  /\ registered' = registered \ Dropped
           /\ channel' = [s \in Subscribers |->
                  CASE s \in Dropped -> Close(channel[s])
                    [] s \in reached /\ channel[s] # "open" -> "panicked"
                    [] OTHER -> channel[s]]
           /\ inbox' = [s \in Subscribers |->
                  IF s \in reached THEN Append(inbox[s], e) ELSE inbox[s]]
           /\ owed' = [s \in Subscribers |->
                  IF s \in reached THEN owed[s] \ {e} ELSE owed[s]]
    /\ dispatcher' = [dispatcher EXCEPT ![g] = Waiting]
    /\ UNCHANGED <<publisher, count, connections, cancelled, closed>>

-----------------------------------------------------------------------------
(* SubscribeInterviewEvents, the end of a stream, and Close *)

Subscribe(s) ==
    /\ Free /\ ~closed
    /\ channel[s] = "none"
    /\ channel' = [channel EXCEPT ![s] = "open"]
    /\ registered' = registered \cup {s}
    /\ UNCHANGED <<publisher, count, connections, dispatcher, inbox, cancelled,
                   closed, owed>>

\* The context of the stream is done.
Cancel(s) ==
    /\ channel[s] # "none" /\ s \notin cancelled
    /\ cancelled' = cancelled \cup {s}
    /\ UNCHANGED <<publisher, count, connections, dispatcher, registered, channel, inbox,
                   closed, owed>>

\* Mutant: the channel is closed whoever has closed it before.
UnsubscribeAlways(s) ==
    /\ Free
    /\ s \in cancelled
    /\ registered' = registered \ {s}
    /\ channel' = [channel EXCEPT ![s] = Close(@)]
    /\ UNCHANGED <<publisher, count, connections, dispatcher, inbox, cancelled,
                   closed, owed>>

\* The goroutine that waits for the context, unless another was first.
Unsubscribe(s) ==
    /\ Free
    /\ s \in cancelled \cap registered
    /\ registered' = registered \ {s}
    /\ channel' = [channel EXCEPT ![s] = Close(@)]
    /\ UNCHANGED <<publisher, count, connections, dispatcher, inbox, cancelled,
                   closed, owed>>

\* The stream takes what its channel holds, closed or not.
Take(s) ==
    /\ inbox[s] # <<>>
    /\ inbox' = [inbox EXCEPT ![s] = Tail(@)]
    /\ UNCHANGED <<publisher, count, connections, dispatcher, registered, channel,
                   cancelled, closed, owed>>

\* Mutant: the subscribers are not cleared.
CloseBusKeeps ==
    /\ Free /\ ~closed
    /\ closed' = TRUE
    /\ channel' = [s \in Subscribers |->
           IF s \in registered THEN Close(channel[s]) ELSE channel[s]]
    /\ Drop(links)
    /\ UNCHANGED <<publisher, count, links, dispatcher, registered, inbox, cancelled>>

CloseBus ==
    /\ Free /\ ~closed
    /\ closed' = TRUE
    /\ channel' = [s \in Subscribers |->
           IF s \in registered THEN Close(channel[s]) ELSE channel[s]]
    /\ registered' = {}
    /\ Drop(links)
    /\ UNCHANGED <<publisher, count, links, dispatcher, inbox, cancelled>>

-----------------------------------------------------------------------------
(* The broker and the other instances *)

LinkDies ==
    /\ links \in up
    /\ Drop(links)
    /\ UNCHANGED <<publisher, count, links, dispatcher, subscriptions, closed>>

\* An interviewer served by another instance saves.
PublishedElsewhere ==
    /\ count < MaxEvents
    /\ count' = count + 1
    /\ Fanout(count + 1)
    /\ UNCHANGED <<publisher, dispatcher, subscriptions, closed>>

-----------------------------------------------------------------------------
(* Specification *)

Init ==
    /\ publisher = Idle
    /\ count = 0
    /\ links = 1 /\ up = {1}
    /\ arriving = [g \in Links |-> <<>>]
    /\ dispatcher = [g \in Links |-> IF g = 1 THEN Waiting ELSE NoDispatcher]
    /\ registered = {} /\ cancelled = {}
    /\ channel = [s \in Subscribers |-> "none"]
    /\ inbox = [s \in Subscribers |-> <<>>]
    /\ owed = [s \in Subscribers |-> {}]
    /\ closed = FALSE

Publish == Send \/ Confirmed \/ SendFails \/ Reconnect \/ ReconnectFails

Dispatch(g) == Receive(g) \/ EndDispatch(g) \/ Distribute(g)

Next ==
    \/ Begin \/ Publish
    \/ \E g \in Links : Dispatch(g)
    \/ \E s \in Subscribers : Subscribe(s) \/ Cancel(s) \/ Unsubscribe(s) \/ Take(s)
    \/ CloseBus \/ LinkDies \/ PublishedElsewhere

Spec == Init /\ [][Next]_bus

\* A publication ends: its context does, and so does a dial.  The mutex is
\* granted in turn.  Nobody needs to publish, to read a stream or to close.
FairSpec ==
    /\ Spec
    /\ WF_bus(Publish)
    /\ \A g \in Links :
           WF_bus(Receive(g)) /\ WF_bus(EndDispatch(g)) /\ SF_bus(Distribute(g))
    /\ \A s \in Subscribers : SF_bus(Unsubscribe(s))

-----------------------------------------------------------------------------
(* Properties *)

\* The fields of the bus hold what the code puts there.
TypeOK ==
    /\ publisher \in Publishing \cup {Idle}
    /\ count \in 0 .. MaxEvents
    /\ links \in Links /\ up \subseteq 1 .. links
    /\ arriving \in [Links -> Seq(Events)]
    /\ dispatcher \in [Links -> {NoDispatcher, Waiting, Ended} \cup Holding]
    /\ registered \subseteq Subscribers /\ cancelled \subseteq Subscribers
    /\ channel \in [Subscribers -> {"none", "open", "closed", "panicked"}]
    /\ inbox \in [Subscribers -> Seq(Events)]
    /\ \A s \in Subscribers : Len(inbox[s]) <= Buffer
    /\ closed \in BOOLEAN
    /\ owed \in [Subscribers -> SUBSET Events]

\* A subscriber is registered exactly as long as its channel is open, whoever
\* ends it first: the dispatcher that finds it slow, its context, or Close.
\* So no channel is closed twice and nothing is sent on a closed one.
RegisteredAreOpen ==
    /\ registered = {s \in Subscribers : channel[s] = "open"}
    /\ \A s \in Subscribers : channel[s] # "panicked"

\* A bus that was closed opens no connection and no subscription any more,
\* whatever was waiting for the mutex.
ClosedForGood == closed => up = {} /\ registered = {}

\* No event arrives twice because two connections are open.
OneConnection == up \subseteq {links}

\* As long as the connection lasts a subscriber gets every event published
\* since it subscribed or is closed: what it still has to get is on its way.
NothingSkipped ==
    \A s \in registered : \A e \in owed[s] :
        \/ \E k \in DOMAIN arriving[links] : arriving[links][k] = e
        \/ dispatcher[links] = [step |-> "lock", event |-> e]

\* A publication gives the mutex back.
PublicationsEnd == publisher # Idle ~> publisher = Idle

\* The dispatcher of a connection that is gone, replaced by another or closed
\* with the bus, ends: although it may hold an event and wait for the mutex,
\* and streams may not be read (amqp.go:165-190).
DispatchersEnd ==
    \A g \in Links :
        (dispatcher[g] \notin {NoDispatcher, Ended} /\ g \notin up) ~> dispatcher[g] = Ended

\* The channel of a stream whose context is done is closed.
CancelledAreClosed == \A s \in Subscribers : s \in cancelled ~> channel[s] = "closed"

\* Subscribers are served by a connection, or closed.
SubscribersAreServed == (registered # {} /\ up = {}) ~> (registered = {} \/ up # {})
=============================================================================
