---------------------------- MODULE EventBusProofs ----------------------------
(* What EventBus.tla promises, for any number of subscribers, events and     *)
(* connections, and channels of any capacity.                                *)
EXTENDS EventBus, SequenceTheorems, TLAPS

-----------------------------------------------------------------------------
(* The inductive invariant *)

\* A publication holds the mutex, so the bus is not closed under it, and it
\* makes a connection only when it has dropped the one before.
PublisherOK ==
    /\ publisher # Idle => ~closed
    /\ publisher.step = "connect" => up = {}

\* Nothing is owed without a connection, nor to who has not subscribed.
OwedOK ==
    /\ up = {} => \A s \in Subscribers : owed[s] = {}
    /\ \A s \in Subscribers : channel[s] = "none" => owed[s] = {}

IInv ==
    /\ TypeOK
    /\ RegisteredAreOpen /\ ClosedForGood /\ OneConnection /\ NothingSkipped
    /\ PublisherOK /\ OwedOK

-----------------------------------------------------------------------------
(* Sequences of events *)

LEMMA AppendKeeps ==
    ASSUME NEW S, NEW q \in Seq(S), NEW e \in S
    PROVE  /\ Append(q, e) \in Seq(S)
           /\ Len(Append(q, e)) = Len(q) + 1
           /\ \E k \in DOMAIN Append(q, e) : Append(q, e)[k] = e
           /\ \A k \in DOMAIN q : k \in DOMAIN Append(q, e) /\ Append(q, e)[k] = q[k]
<1>1. /\ Append(q, e) \in Seq(S) /\ Len(Append(q, e)) = Len(q) + 1
      /\ \A i \in 1 .. Len(q) : Append(q, e)[i] = q[i]
      /\ Append(q, e)[Len(q) + 1] = e
  BY AppendProperties
<1>2. DOMAIN q = 1 .. Len(q) /\ DOMAIN Append(q, e) = 1 .. Len(q) + 1 /\ Len(q) \in Nat
  BY <1>1
<1>3. Len(q) + 1 \in DOMAIN Append(q, e)
  BY <1>2
<1> QED BY <1>1, <1>2, <1>3

LEMMA TailKeeps ==
    ASSUME NEW S, NEW q \in Seq(S), q # <<>>
    PROVE  /\ Head(q) \in S /\ Tail(q) \in Seq(S) /\ Len(Tail(q)) = Len(q) - 1
           /\ \A k \in DOMAIN q : \/ q[k] = Head(q)
                                  \/ \E j \in DOMAIN Tail(q) : Tail(q)[j] = q[k]
<1>1. /\ Tail(q) \in Seq(S) /\ Len(Tail(q)) = Len(q) - 1 /\ Len(q) \in Nat
      /\ \A i \in 1 .. Len(Tail(q)) : Tail(q)[i] = q[i + 1]
      /\ Head(q) \in S /\ Head(q) = q[1]
  BY HeadTailProperties
<1>2. ASSUME NEW k \in DOMAIN q, k # 1
      PROVE  \E j \in DOMAIN Tail(q) : Tail(q)[j] = q[k]
  <2>1. k - 1 \in 1 .. Len(Tail(q)) /\ (k - 1) + 1 = k
    BY <1>1, <1>2
  <2>2. k - 1 \in DOMAIN Tail(q) /\ Tail(q)[k - 1] = q[k]
    BY <1>1, <2>1
  <2> QED BY <2>2
<1> QED BY <1>1, <1>2

\* What a connection leaves to its dispatcher is the beginning of what had come.
LEMMA RestKeeps ==
    ASSUME TypeOK, NEW g \in Links, NEW rest \in Rest(g)
    PROVE  rest \in Seq(Events)
<1>1. PICK n \in 0 .. Len(arriving[g]) : rest = SubSeq(arriving[g], 1, n)
  BY DEF Rest
<1>2. arriving[g] \in Seq(Events) /\ Len(arriving[g]) \in Nat
  BY DEF TypeOK
<1>3. ASSUME NEW i \in 1 .. n PROVE arriving[g][i] \in Events
  BY <1>2, <1>3
<1> QED BY <1>1, <1>2, <1>3

-----------------------------------------------------------------------------
(* Types *)

LEMMA DropTypes ==
    ASSUME TypeOK, NEW g \in Links, Drop(g)
    PROVE  /\ up' \subseteq up /\ g \notin up'
           /\ arriving' \in [Links -> Seq(Events)]
           /\ owed' \in [Subscribers -> SUBSET Events]
           /\ \A s \in Subscribers : owed'[s] = {}
<1>1. PICK rest \in Rest(g) : arriving' = [arriving EXCEPT ![g] = rest]
  BY DEF Drop
<1> QED BY <1>1, RestKeeps DEF Drop, TypeOK

LEMMA FanoutTypes ==
    ASSUME TypeOK, NEW e \in Events, Fanout(e)
    PROVE  /\ arriving' \in [Links -> Seq(Events)]
           /\ owed' \in [Subscribers -> SUBSET Events]
<1>1. \A g \in Links : Append(arriving[g], e) \in Seq(Events)
  BY AppendKeeps DEF TypeOK
<1> QED BY <1>1 DEF Fanout, TypeOK

LEMMA PublisherFields ==
    ASSUME TypeOK
    PROVE  /\ publisher # Idle => publisher \in Publishing
           /\ publisher.step # "idle" <=> publisher # Idle
           /\ \A p \in Publishing : \A st \in {"send", "wait", "connect", "resend", "rewait"} :
                  [p EXCEPT !.step = st] \in Publishing
           /\ \A e \in Events \cup {0} : \A st \in {"send", "wait", "connect", "resend", "rewait"} :
                  [step |-> st, event |-> e] \in Publishing
<1>1. publisher \in Publishing \/ publisher = Idle
  BY DEF TypeOK
<1>2. \A p \in Publishing : p.step # "idle"
  BY DEF Publishing
<1>3. Idle.step = "idle"
  BY DEF Idle
<1>4. \A p \in Publishing : \A st \in {"send", "wait", "connect", "resend", "rewait"} :
          [p EXCEPT !.step = st] \in Publishing
  BY DEF Publishing
<1>5. \A e \in Events \cup {0} : \A st \in {"send", "wait", "connect", "resend", "rewait"} :
          [step |-> st, event |-> e] \in Publishing
  BY DEF Publishing
<1> QED BY <1>1, <1>2, <1>3, <1>4, <1>5

LEMMA HoldingFields ==
    ASSUME TypeOK, NEW g \in Links
    PROVE  /\ dispatcher[g].step = "lock" => dispatcher[g].event \in Events
           /\ \A e \in Events : [step |-> "lock", event |-> e] \in Holding
           /\ dispatcher[g].step = "lock" =>
                  dispatcher[g] = [step |-> "lock", event |-> dispatcher[g].event]
<1>1. dispatcher[g] \in {NoDispatcher, Waiting, Ended} \/ dispatcher[g] \in Holding
  BY DEF TypeOK
<1>2. CASE dispatcher[g] \in {NoDispatcher, Waiting, Ended}
  <2>1. dispatcher[g].step # "lock"
    BY <1>2 DEF NoDispatcher, Waiting, Ended
  <2> QED BY <2>1 DEF Holding
<1>3. CASE dispatcher[g] \in Holding
  BY <1>3 DEF Holding
<1> QED BY <1>1, <1>2, <1>3

LEMMA CountIsEvent ==
    ASSUME TypeOK, BusConstants, count < MaxEvents
    PROVE  count + 1 \in Events /\ count + 1 \in 0 .. MaxEvents
BY DEF TypeOK, Events, BusConstants

LEMMA PublishTypes ==
    ASSUME IInv, Begin \/ Publish
    PROVE  TypeOK'
<1> USE DEF connections, subscriptions
<1>1. TypeOK
  BY DEF IInv
<1>2. CASE Begin
  <2>1. [step |-> "send", event |-> 0] \in Publishing
    BY <1>1, PublisherFields
  <2> QED BY <1>1, <1>2, <2>1 DEF Begin, TypeOK
<1>3. CASE Send
  <2>1. PICK e \in Events :
            /\ e = IF publisher.event = 0 THEN count + 1 ELSE publisher.event
            /\ count' = IF publisher.event = 0 THEN e ELSE count
            /\ publisher' = [step |-> IF AtStep({"send"}) THEN "wait" ELSE "rewait", event |-> e]
            /\ Fanout(e)
    BY <1>3 DEF Send
  <2>2. publisher' \in Publishing
    BY <1>1, <2>1, PublisherFields
  <2>3. count' \in 0 .. MaxEvents
    BY <1>1, <2>1 DEF TypeOK, Events
  <2>4. arriving' \in [Links -> Seq(Events)] /\ owed' \in [Subscribers -> SUBSET Events]
    BY <1>1, <2>1, FanoutTypes
  <2> QED BY <1>1, <1>3, <2>1, <2>2, <2>3, <2>4 DEF Send, Fanout, TypeOK
<1>4. CASE Confirmed \/ ReconnectFails
  BY <1>1, <1>4 DEF Confirmed, ReconnectFails, TypeOK
<1>5. CASE SendFails
  <2>1. CASE publisher' = Idle /\ UNCHANGED <<count, connections, dispatcher, subscriptions,
                                             closed, owed>>
    BY <1>1, <2>1 DEF TypeOK
  <2>2. CASE /\ AtStep({"send", "wait"})
             /\ publisher' = [publisher EXCEPT !.step = "connect"]
             /\ Drop(links)
             /\ UNCHANGED <<count, links, dispatcher, subscriptions, closed>>
    <3>1. publisher' \in Publishing
      <4>1. publisher.step # "idle"
        BY <2>2 DEF AtStep
      <4> QED BY <1>1, <2>2, <4>1, PublisherFields
    <3>2. links \in Links
      BY <1>1 DEF TypeOK
    <3> QED BY <1>1, <2>2, <3>1, <3>2, DropTypes DEF TypeOK
  <2> QED BY <1>5, <2>1, <2>2 DEF SendFails
<1>6. CASE Reconnect
  <2>1. publisher' \in Publishing
    <3>1. publisher.step # "idle"
      BY <1>6 DEF Reconnect, AtStep
    <3> QED BY <1>1, <1>6, <3>1, PublisherFields DEF Reconnect
  <2>2. links' \in Links /\ up' \subseteq 1 .. links'
    BY <1>1, <1>6, BusConstants DEF Reconnect, TypeOK, Links
  <2>3. dispatcher' \in [Links -> {NoDispatcher, Waiting, Ended} \cup Holding]
    BY <1>1, <1>6 DEF Reconnect, TypeOK
  <2> QED BY <1>1, <1>6, <2>1, <2>2, <2>3 DEF Reconnect, TypeOK
<1> QED BY <1>2, <1>3, <1>4, <1>5, <1>6 DEF Publish

LEMMA DispatchTypes ==
    ASSUME IInv, NEW g \in Links, Dispatch(g)
    PROVE  TypeOK'
<1> USE DEF connections, subscriptions
<1>1. TypeOK
  BY DEF IInv
<1>2. CASE Receive(g)
  <2>1. arriving[g] \in Seq(Events) /\ arriving[g] # <<>>
    BY <1>1, <1>2 DEF Receive, TypeOK
  <2>2. Head(arriving[g]) \in Events /\ Tail(arriving[g]) \in Seq(Events)
    BY <2>1, TailKeeps
  <2>3. [step |-> "lock", event |-> Head(arriving[g])] \in Holding
    BY <1>1, <2>2, HoldingFields
  <2> QED BY <1>1, <1>2, <2>2, <2>3 DEF Receive, TypeOK
<1>3. CASE EndDispatch(g)
  BY <1>1, <1>3 DEF EndDispatch, TypeOK
<1>4. CASE Distribute(g)
  <2> DEFINE e == dispatcher[g].event
             reached == registered \ Slow
  <2>1. e \in Events
    BY <1>1, <1>4, HoldingFields DEF Distribute
  <2>2. \A s \in Subscribers : inbox'[s] = IF s \in reached THEN Append(inbox[s], e) ELSE inbox[s]
    BY <1>4 DEF Distribute
  <2>3. ASSUME NEW s \in Subscribers
        PROVE  inbox'[s] \in Seq(Events) /\ Len(inbox'[s]) <= Buffer
    <3>1. inbox[s] \in Seq(Events) /\ Len(inbox[s]) \in Nat /\ Len(inbox[s]) <= Buffer
      BY <1>1 DEF TypeOK
    <3>2. CASE s \in reached
      <4>1. Len(inbox[s]) < Buffer
        BY <3>1, <3>2, BusConstants DEF Slow
      <4>2. Append(inbox[s], e) \in Seq(Events) /\ Len(Append(inbox[s], e)) = Len(inbox[s]) + 1
        BY <2>1, <3>1, AppendKeeps
      <4>3. inbox'[s] = Append(inbox[s], e)
        BY <2>2, <3>2
      <4>4. Len(inbox[s]) + 1 <= Buffer
        BY <3>1, <4>1, BusConstants
      <4> QED BY <4>2, <4>3, <4>4
    <3> QED BY <2>2, <3>1, <3>2
  <2>4. inbox' \in [Subscribers -> Seq(Events)]
    BY <1>4, <2>3 DEF Distribute
  <2>5. channel' \in [Subscribers -> {"none", "open", "closed", "panicked"}]
    BY <1>1, <1>4 DEF Distribute, TypeOK, Close
  <2>6. owed' \in [Subscribers -> SUBSET Events]
    BY <1>1, <1>4 DEF Distribute, TypeOK
  <2> QED BY <1>1, <1>4, <2>3, <2>4, <2>5, <2>6 DEF Distribute, TypeOK
<1> QED BY <1>2, <1>3, <1>4 DEF Dispatch

LEMMA SubscriberTypes ==
    ASSUME IInv, NEW s \in Subscribers, Subscribe(s) \/ Cancel(s) \/ Unsubscribe(s) \/ Take(s)
    PROVE  TypeOK'
<1> USE DEF connections, subscriptions
<1>1. TypeOK
  BY DEF IInv
<1>2. CASE Subscribe(s) \/ Cancel(s)
  BY <1>1, <1>2 DEF Subscribe, Cancel, TypeOK
<1>3. CASE Unsubscribe(s)
  BY <1>1, <1>3 DEF Unsubscribe, TypeOK, Close
<1>4. CASE Take(s)
  <2>1. inbox[s] \in Seq(Events) /\ Len(inbox[s]) \in Nat /\ Len(inbox[s]) <= Buffer /\ inbox[s] # <<>>
    BY <1>1, <1>4 DEF Take, TypeOK
  <2>2. Tail(inbox[s]) \in Seq(Events) /\ Len(Tail(inbox[s])) = Len(inbox[s]) - 1
    BY <2>1, TailKeeps
  <2>3. inbox' \in [Subscribers -> Seq(Events)]
    BY <1>1, <1>4, <2>2 DEF Take, TypeOK
  <2>4. ASSUME NEW t \in Subscribers PROVE Len(inbox'[t]) <= Buffer
    BY <1>1, <1>4, <2>1, <2>2, BusConstants DEF Take, TypeOK
  <2> QED BY <1>1, <1>4, <2>3, <2>4 DEF Take, TypeOK
<1> QED BY <1>2, <1>3, <1>4

LEMMA BusTypes ==
    ASSUME IInv, CloseBus \/ LinkDies \/ PublishedElsewhere
    PROVE  TypeOK'
<1> USE DEF connections, subscriptions
<1>1. TypeOK /\ links \in Links
  BY DEF IInv, TypeOK
<1>2. CASE CloseBus
  <2>1. channel' \in [Subscribers -> {"none", "open", "closed", "panicked"}]
    BY <1>1, <1>2 DEF CloseBus, TypeOK, Close
  <2>2. Drop(links)
    BY <1>2 DEF CloseBus
  <2> QED BY <1>1, <1>2, <2>1, <2>2, DropTypes DEF CloseBus, TypeOK
<1>3. CASE LinkDies
  <2>1. Drop(links)
    BY <1>3 DEF LinkDies
  <2> QED BY <1>1, <1>3, <2>1, DropTypes DEF LinkDies, TypeOK
<1>4. CASE PublishedElsewhere
  <2>1. Fanout(count + 1) /\ count + 1 \in Events /\ count' \in 0 .. MaxEvents
    BY <1>1, <1>4, CountIsEvent, BusConstants DEF PublishedElsewhere
  <2> QED BY <1>1, <1>4, <2>1, FanoutTypes DEF PublishedElsewhere, Fanout, TypeOK
<1> QED BY <1>2, <1>3, <1>4

LEMMA TypeStep == IInv /\ [Next]_bus => TypeOK'
<1>1. IInv /\ UNCHANGED bus => TypeOK'
  BY DEF IInv, TypeOK, bus, connections, subscriptions
<1> QED BY <1>1, PublishTypes, DispatchTypes, SubscriberTypes, BusTypes DEF Next

-----------------------------------------------------------------------------
(* Channels: whoever ends a subscription first is the only one *)

LEMMA ChannelStep ==
    ASSUME IInv, [Next]_bus
    PROVE  RegisteredAreOpen'
<1> USE DEF connections, subscriptions
<1>1. /\ RegisteredAreOpen /\ channel \in [Subscribers -> {"none", "open", "closed", "panicked"}]
      /\ registered \subseteq Subscribers
  BY DEF IInv, TypeOK
<1>2. CASE UNCHANGED <<registered, channel>>
  BY <1>1, <1>2 DEF RegisteredAreOpen
<1>3. ASSUME NEW g \in Links, Distribute(g)
      PROVE  RegisteredAreOpen'
  <2>1. registered' = registered \ Slow /\ Slow \subseteq registered
    BY <1>3 DEF Distribute, Dropped, Slow
  <2>2. \A s \in Subscribers :
            channel'[s] = IF s \in Slow THEN Close(channel[s])
                          ELSE IF s \in registered /\ channel[s] # "open" THEN "panicked"
                          ELSE channel[s]
    BY <1>3 DEF Distribute, Dropped
  <2>3. \A s \in Subscribers : s \in registered <=> channel[s] = "open"
    BY <1>1 DEF RegisteredAreOpen
  <2>4. \A s \in Subscribers : channel'[s] = IF s \in Slow THEN "closed" ELSE channel[s]
    BY <2>1, <2>2, <2>3 DEF Close
  <2> QED BY <1>1, <2>1, <2>3, <2>4 DEF RegisteredAreOpen
<1>4. ASSUME NEW s \in Subscribers, Subscribe(s)
      PROVE  RegisteredAreOpen'
  BY <1>1, <1>4 DEF Subscribe, RegisteredAreOpen
<1>5. ASSUME NEW s \in Subscribers, Unsubscribe(s)
      PROVE  RegisteredAreOpen'
  BY <1>1, <1>5 DEF Unsubscribe, RegisteredAreOpen, Close
<1>6. CASE CloseBus
  BY <1>1, <1>6 DEF CloseBus, RegisteredAreOpen, Close
<1>7. CASE Begin \/ Publish \/ LinkDies \/ PublishedElsewhere \/ UNCHANGED bus
  BY <1>2, <1>7 DEF Begin, Publish, Send, Confirmed, SendFails, Reconnect, ReconnectFails,
                    LinkDies, PublishedElsewhere, bus
<1>8. ASSUME NEW g \in Links, Dispatch(g)
      PROVE  RegisteredAreOpen'
  BY <1>2, <1>3, <1>8 DEF Dispatch, Receive, EndDispatch
<1>9. ASSUME NEW s \in Subscribers, Subscribe(s) \/ Cancel(s) \/ Unsubscribe(s) \/ Take(s)
      PROVE  RegisteredAreOpen'
  BY <1>2, <1>4, <1>5, <1>9 DEF Cancel, Take
<1> QED BY <1>6, <1>7, <1>8, <1>9 DEF Next

-----------------------------------------------------------------------------
(* Connections: one at a time, and none of a closed bus *)

LEMMA ConnectionStep ==
    ASSUME IInv, [Next]_bus
    PROVE  OneConnection' /\ ClosedForGood' /\ PublisherOK'
<1> USE DEF connections, subscriptions
<1>1. /\ up \subseteq {links} /\ (closed => up = {} /\ registered = {})
      /\ (publisher # Idle => ~closed) /\ (publisher.step = "connect" => up = {})
  BY DEF IInv, OneConnection, ClosedForGood, PublisherOK
<1>2. Idle.step = "idle" /\ TypeOK
  BY DEF Idle, IInv
<1> USE DEF OneConnection, ClosedForGood, PublisherOK
<1>3. CASE Drop(links) /\ UNCHANGED <<links, closed, registered>>
           /\ (publisher' # Idle => ~closed)
  BY <1>1, <1>3 DEF Drop
<1>4. CASE Begin
  BY <1>1, <1>4 DEF Begin
<1>5. CASE Send
  <2>1. publisher # Idle /\ publisher'.step \in {"wait", "rewait"}
    BY <1>2, <1>5 DEF Send, AtStep
  <2> QED BY <1>1, <1>5, <2>1 DEF Send, Fanout
<1>6. CASE Confirmed \/ ReconnectFails
  BY <1>1, <1>2, <1>6 DEF Confirmed, ReconnectFails
<1>7. CASE SendFails
  <2>1. CASE publisher' = Idle /\ UNCHANGED <<count, connections, dispatcher, subscriptions,
                                             closed, owed>>
    BY <1>1, <1>2, <2>1
  <2>2. CASE AtStep({"send", "wait"}) /\ Drop(links) /\ UNCHANGED <<links, subscriptions, closed>>
    <3>1. publisher # Idle
      BY <1>2, <2>2 DEF AtStep
    <3> QED BY <1>1, <1>3, <2>2, <3>1
  <2> QED BY <1>7, <2>1, <2>2 DEF SendFails
<1>8. CASE Reconnect
  <2>1. publisher # Idle /\ up = {}
    BY <1>1, <1>2, <1>8 DEF Reconnect, AtStep
  <2>2. publisher'.step = "resend"
    <3>1. publisher \in Publishing
      BY <1>2, <2>1, PublisherFields
    <3> QED BY <1>8, <3>1 DEF Reconnect, Publishing
  <2> QED BY <1>1, <1>8, <2>1, <2>2 DEF Reconnect
<1>9. ASSUME NEW g \in Links, Dispatch(g)
      PROVE  OneConnection' /\ ClosedForGood' /\ PublisherOK'
  <2>1. UNCHANGED <<publisher, links, up, closed>> /\ registered' \subseteq registered
    BY <1>9 DEF Dispatch, Receive, EndDispatch, Distribute
  <2> QED BY <1>1, <2>1
<1>10. ASSUME NEW s \in Subscribers, Subscribe(s) \/ Cancel(s) \/ Unsubscribe(s) \/ Take(s)
       PROVE  OneConnection' /\ ClosedForGood' /\ PublisherOK'
  <2>1. UNCHANGED <<publisher, links, up, closed>> /\ (closed => registered' \subseteq registered)
    BY <1>10 DEF Subscribe, Cancel, Unsubscribe, Take
  <2> QED BY <1>1, <2>1
<1>11. CASE CloseBus
  BY <1>1, <1>2, <1>11 DEF CloseBus, Drop, Free
<1>12. CASE LinkDies
  BY <1>1, <1>3, <1>12 DEF LinkDies
<1>13. CASE PublishedElsewhere
  BY <1>1, <1>13 DEF PublishedElsewhere, Fanout
<1>14. CASE UNCHANGED bus
  BY <1>1, <1>14 DEF bus
<1> QED BY <1>4, <1>5, <1>6, <1>7, <1>8, <1>9, <1>10, <1>11, <1>12, <1>13, <1>14
       DEF Next, Publish

-----------------------------------------------------------------------------
(* What subscribers are owed is on its way *)

\* The event is with the connection, or its dispatcher waits for the mutex
\* with it.
Coming(e) ==
    \/ \E k \in DOMAIN arriving[links] : arriving[links][k] = e
    \/ dispatcher[links] = [step |-> "lock", event |-> e]

Nothing == \A s \in Subscribers : owed[s] = {}

\* A connection that is gone takes what was owed with it.
LEMMA DropOwes ==
    ASSUME IInv, Drop(links)
    PROVE  Nothing'
BY DropTypes DEF IInv, TypeOK, Nothing

LEMMA NothingOwed ==
    ASSUME TypeOK', Nothing'
    PROVE  NothingSkipped' /\ OwedOK'
BY DEF TypeOK, Nothing, NothingSkipped, OwedOK

\* The exchange hands the event to the connection of whoever it is owed to.
LEMMA FanoutOwes ==
    ASSUME IInv, NEW e \in Events, Fanout(e), UNCHANGED <<dispatcher, subscriptions>>
    PROVE  NothingSkipped' /\ OwedOK'
<1> USE DEF subscriptions
<1>1. /\ TypeOK /\ links \in Links /\ arriving[links] \in Seq(Events) /\ registered \subseteq Subscribers
      /\ NothingSkipped /\ OwedOK /\ up \subseteq {links} /\ RegisteredAreOpen
  BY DEF IInv, TypeOK, OneConnection
<1>2. UNCHANGED <<links, up>>
  BY DEF Fanout
<1>3. \A s \in Subscribers : owed'[s] = IF s \in registered /\ up # {} THEN owed[s] \cup {e} ELSE owed[s]
  BY DEF Fanout
<1>4. \A x : Coming(x) => Coming(x)'
  <2>1. arriving'[links] = arriving[links] \/ arriving'[links] = Append(arriving[links], e)
    BY <1>1 DEF Fanout
  <2> QED BY <1>1, <1>2, <2>1, AppendKeeps DEF Coming
<1>5. up # {} => Coming(e)'
  <2>1. up # {} => arriving'[links] = Append(arriving[links], e)
    BY <1>1 DEF Fanout
  <2> QED BY <1>1, <1>2, <2>1, AppendKeeps DEF Coming
<1>6. NothingSkipped'
  <2> SUFFICES ASSUME NEW s \in registered, NEW x \in owed'[s]
               PROVE  Coming(x)'
    BY DEF NothingSkipped, Coming
  <2>1. x \in owed[s] => Coming(x)
    BY <1>1 DEF NothingSkipped, Coming
  <2> QED BY <1>1, <1>3, <1>4, <1>5, <2>1
<1>7. OwedOK'
  BY <1>1, <1>2, <1>3 DEF OwedOK, RegisteredAreOpen
<1> QED BY <1>6, <1>7

LEMMA DispatchOwes ==
    ASSUME IInv, NEW g \in Links, Dispatch(g)
    PROVE  NothingSkipped' /\ OwedOK'
<1> USE DEF connections, subscriptions
<1>1. /\ TypeOK /\ links \in Links /\ arriving[g] \in Seq(Events) /\ registered \subseteq Subscribers
      /\ NothingSkipped /\ OwedOK
  BY DEF IInv, TypeOK
<1>2. UNCHANGED <<links, up>>
  BY DEF Dispatch, Receive, EndDispatch, Distribute
<1>3. ASSUME Receive(g) \/ EndDispatch(g), NEW x, Coming(x)
      PROVE  Coming(x)'
  <2>1. CASE g # links
    <3>1. arriving'[links] = arriving[links] /\ dispatcher'[links] = dispatcher[links]
      BY <1>1, <1>3, <2>1 DEF Receive, EndDispatch, TypeOK
    <3> QED BY <1>2, <1>3, <3>1 DEF Coming
  <2>2. CASE g = links
    <3>1. dispatcher[links] = Waiting
      BY <1>3, <2>2 DEF Receive, EndDispatch
    <3>2. PICK k \in DOMAIN arriving[links] : arriving[links][k] = x
      BY <1>3, <3>1 DEF Coming, Waiting
    <3>3. CASE EndDispatch(g)
      BY <1>2, <3>2, <3>3 DEF EndDispatch, Coming
    <3>4. CASE Receive(g)
      <4>1. /\ arriving[links] # <<>> /\ arriving'[links] = Tail(arriving[links])
            /\ dispatcher'[links] = [step |-> "lock", event |-> Head(arriving[links])]
        BY <1>1, <2>2, <3>4 DEF Receive, TypeOK
      <4>2. \/ x = Head(arriving[links])
            \/ \E j \in DOMAIN Tail(arriving[links]) : Tail(arriving[links])[j] = x
        BY <1>1, <2>2, <3>2, <4>1, TailKeeps
      <4> QED BY <1>2, <4>1, <4>2 DEF Coming
    <3> QED BY <1>3, <3>3, <3>4
  <2> QED BY <2>1, <2>2
<1>4. CASE Receive(g) \/ EndDispatch(g)
  <2>1. UNCHANGED <<registered, channel, owed>>
    BY <1>4 DEF Receive, EndDispatch
  <2> QED BY <1>1, <1>2, <1>3, <1>4, <2>1 DEF NothingSkipped, OwedOK, Coming
<1>5. CASE Distribute(g)
  <2> DEFINE e == dispatcher[g].event
  <2>1. /\ registered' = registered \ Slow /\ UNCHANGED arriving
        /\ \A s \in Subscribers :
               owed'[s] = IF s \in registered \ Slow THEN owed[s] \ {e} ELSE owed[s]
        /\ dispatcher' = [dispatcher EXCEPT ![g] = Waiting]
    BY <1>5 DEF Distribute, Dropped
  <2>2. NothingSkipped'
    <3> SUFFICES ASSUME NEW s \in registered', NEW x \in owed'[s]
                 PROVE  Coming(x)'
      BY DEF NothingSkipped, Coming
    <3>1. s \in registered /\ x \in owed[s] /\ x # e
      BY <1>1, <2>1
    <3>2. Coming(x)
      BY <1>1, <3>1 DEF NothingSkipped, Coming
    <3>3. CASE \E k \in DOMAIN arriving[links] : arriving[links][k] = x
      BY <1>2, <2>1, <3>3 DEF Coming
    <3>4. CASE dispatcher[links] = [step |-> "lock", event |-> x]
      <4>1. g # links
        BY <3>1, <3>4
      <4>2. dispatcher'[links] = dispatcher[links]
        BY <1>1, <2>1, <4>1 DEF TypeOK
      <4> QED BY <1>2, <3>4, <4>2 DEF Coming
    <3> QED BY <3>2, <3>3, <3>4 DEF Coming
  <2>3. \A s \in Subscribers : channel'[s] = "none" => channel[s] = "none"
    BY <1>5 DEF Distribute, Close
  <2> QED BY <1>1, <1>2, <2>1, <2>2, <2>3 DEF OwedOK
<1> QED BY <1>4, <1>5 DEF Dispatch

LEMMA OwedStep ==
    ASSUME IInv, [Next]_bus, TypeOK'
    PROVE  NothingSkipped' /\ OwedOK'
<1> USE DEF connections, subscriptions
<1>1. TypeOK /\ NothingSkipped /\ OwedOK /\ registered \subseteq Subscribers /\ links \in Links
  BY DEF IInv, TypeOK
<1>2. CASE UNCHANGED <<links, up, arriving, dispatcher, owed>> /\ registered' \subseteq registered
           /\ \A s \in Subscribers : channel'[s] = "none" => channel[s] = "none"
  BY <1>1, <1>2 DEF NothingSkipped, OwedOK
<1>3. CASE Send
  <2>1. PICK e \in Events : Fanout(e)
    BY <1>3 DEF Send
  <2> QED BY <1>3, <2>1, FanoutOwes DEF Send
<1>4. CASE SendFails
  BY <1>2, <1>4, DropOwes, NothingOwed DEF SendFails
<1>5. CASE Reconnect
  <2>1. up = {} /\ UNCHANGED owed
    BY <1>5 DEF Reconnect, AtStep, IInv, PublisherOK
  <2>2. Nothing'
    BY <1>1, <2>1 DEF OwedOK, Nothing
  <2> QED BY <2>2, NothingOwed
<1>6. ASSUME NEW s \in Subscribers, Subscribe(s)
      PROVE  NothingSkipped' /\ OwedOK'
  <2>1. owed[s] = {} /\ registered' = registered \cup {s}
    BY <1>1, <1>6 DEF Subscribe, OwedOK
  <2>2. UNCHANGED <<links, up, arriving, dispatcher, owed>> /\ channel' = [channel EXCEPT ![s] = "open"]
    BY <1>6 DEF Subscribe
  <2>3. NothingSkipped'
    BY <1>1, <2>1, <2>2 DEF NothingSkipped
  <2>4. OwedOK'
    BY <1>1, <2>2 DEF OwedOK, TypeOK
  <2> QED BY <2>3, <2>4
<1>7. ASSUME NEW s \in Subscribers, Cancel(s) \/ Take(s)
      PROVE  NothingSkipped' /\ OwedOK'
  BY <1>2, <1>7 DEF Cancel, Take
<1>8. ASSUME NEW s \in Subscribers, Unsubscribe(s)
      PROVE  NothingSkipped' /\ OwedOK'
  <2>1. \A t \in Subscribers : channel'[t] = "none" => channel[t] = "none"
    BY <1>1, <1>8 DEF Unsubscribe, Close, TypeOK
  <2> QED BY <1>2, <1>8, <2>1 DEF Unsubscribe
<1>9. CASE CloseBus
  BY <1>9, DropOwes, NothingOwed DEF CloseBus
<1>10. CASE LinkDies
  BY <1>10, DropOwes, NothingOwed DEF LinkDies
<1>11. CASE PublishedElsewhere
  <2>1. Fanout(count + 1) /\ count + 1 \in Events
    BY <1>1, <1>11, CountIsEvent, BusConstants DEF PublishedElsewhere
  <2> QED BY <1>11, <2>1, FanoutOwes DEF PublishedElsewhere
<1>12. CASE Begin \/ Confirmed \/ ReconnectFails \/ UNCHANGED bus
  BY <1>2, <1>12 DEF Begin, Confirmed, ReconnectFails, bus
<1> QED BY <1>3, <1>4, <1>5, <1>6, <1>7, <1>8, <1>9, <1>10, <1>11, <1>12, DispatchOwes
       DEF Next, Publish

-----------------------------------------------------------------------------
(* Theorems *)

LEMMA InitEstablishesIInv == Init => IInv
<1> SUFFICES ASSUME Init PROVE IInv
  OBVIOUS
<1>1. TypeOK
  <2>1. 1 \in Links /\ 0 \in 0 .. MaxEvents /\ up \subseteq 1 .. links
    BY BusConstants DEF Init, Links
  <2>2. /\ arriving \in [Links -> Seq(Events)] /\ inbox \in [Subscribers -> Seq(Events)]
        /\ \A s \in Subscribers : Len(inbox[s]) <= Buffer
    BY BusConstants DEF Init
  <2>3. dispatcher \in [Links -> {NoDispatcher, Waiting, Ended} \cup Holding]
    BY DEF Init
  <2> QED BY <2>1, <2>2, <2>3 DEF Init, TypeOK
<1>2. RegisteredAreOpen /\ ClosedForGood /\ OneConnection /\ NothingSkipped
  BY DEF Init, RegisteredAreOpen, ClosedForGood, OneConnection, NothingSkipped
<1>3. PublisherOK /\ OwedOK
  BY DEF Init, PublisherOK, OwedOK, Idle
<1> QED BY <1>1, <1>2, <1>3 DEF IInv

LEMMA NextStep == IInv /\ [Next]_bus => IInv'
BY TypeStep, ChannelStep, ConnectionStep, OwedStep DEF IInv

\* The mutex, the connection, the channels and what is owed fit together in
\* every reachable state of the bus (amqp.go:26-214).
THEOREM Invariance == Spec => []IInv
<1> QED BY InitEstablishesIInv, NextStep, PTL DEF Spec

\* No channel holds more than its capacity, and the fields of the bus hold
\* what the code puts there, whatever the broker and the streams do.
THEOREM TypeCorrect == Spec => []TypeOK
<1>1. IInv => TypeOK
  BY DEF IInv
<1> QED BY <1>1, Invariance, PTL

\* The slow path of dispatch, the goroutine of a done context and Close never
\* close a channel twice, and dispatch never sends on a closed one
\* (amqp.go:153-161, 178-187, 192-214).
THEOREM NoPanic == Spec => []RegisteredAreOpen
<1>1. IInv => RegisteredAreOpen
  BY DEF IInv
<1> QED BY <1>1, Invariance, PTL

\* A publication that waited for the mutex while the bus was closed does not
\* open it again (amqp.go:92-119).
THEOREM ClosedStaysClosed == Spec => []ClosedForGood
<1>1. IInv => ClosedForGood
  BY DEF IInv
<1> QED BY <1>1, Invariance, PTL

\* A reconnection replaces the connection it found broken (amqp.go:106-119).
THEOREM SingleConnection == Spec => []OneConnection
<1>1. IInv => OneConnection
  BY DEF IInv
<1> QED BY <1>1, Invariance, PTL

\* While a connection lasts every event published since a stream subscribed is
\* on its way to it, or the stream was closed (amqp.go:165-190).
THEOREM NoneSkipped == Spec => []NothingSkipped
<1>1. IInv => NothingSkipped
  BY DEF IInv
<1> QED BY <1>1, Invariance, PTL
=============================================================================
