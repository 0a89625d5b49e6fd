--------------------------- MODULE MCLiveMeeting ---------------------------
(* Instances of LiveMeeting.tla for TLC: one editor or two, one viewer of   *)
(* each kind.                                                               *)
EXTENDS LiveMeeting, TLC

CONSTANT Watched \* the interviews that are watched

\* Documents and requests are only compared for equality.
Texts == Permutations(Documents) \cup Permutations(Requests)

\* Two interviews under way, attended by everybody, in which documents are
\* edited and notes written: a part of the behaviours, small enough for two
\* requests and two interviews.
UnderWayInit ==
    /\ passed = [i \in Invitations |-> TRUE]
    /\ interviews \in
           [Invitations -> [status : {"started"}, document : Documents, creator : Users]]
    /\ attendees = [a \in Invitations \X Users |-> "accepted"]
    /\ notes = {}
    /\ pc = [r \in Requests |-> "idle"]
    /\ call = [r \in Requests |-> NoCall]
    /\ event = [r \in Requests |-> NoEvent]
    /\ streams = [v \in Viewers |-> Off]
    /\ broker = <<>>
    /\ unannounced = {}
    /\ saved = {<<i, interviews[i].document>> : i \in Invitations}

\* Editors of the watched interview overlap; any other request runs alone.
Alone(r) == \A s \in Requests \ {r} : call'[s].op = "none"

Edits ==
    /\ \A r \in Requests :
           \/ call'[r].op = "none"
           \/ call'[r].op = "document" /\ call'[r].inv \in Watched
           \/ call'[r].op = "document" /\ Alone(r)
           \/ call'[r].op = "note" /\ call'[r].inv \in Watched /\ Alone(r)
    /\ \A v \in Viewers : streams'[v].step # "off" => streams'[v].inv \in Watched

UnderWay == UnderWayInit /\ [][MeetingNext /\ Edits]_meeting
=============================================================================
