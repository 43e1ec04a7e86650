---------------------------- MODULE CodexSession ----------------------------
(***************************************************************************)
(* One run of the Codex observer: it tries its sources in order, asks the  *)
(* app server of the first one that initializes for its capabilities, then *)
(* follows what the server sends.  A reader thread turns the child's       *)
(* output into a channel of lines; the session takes the answers it waits  *)
(* for out of their order and keeps the other messages pending.            *)
(***************************************************************************)
EXTENDS Naturals, Sequences

CONSTANTS
  NumSources,    \* sources the factory builds
  NumMethods,    \* capability requests
  MaxEvents,     \* options.max_events
  MaxMessages,   \* bound on the lines one app server writes
  Hazards        \* what the app server may do besides answering

HazardNames == {"death",     \* it exits
                "garbage",   \* it writes a line that is not JSON
                "request"}   \* it sends a request whose id is one of ours

ASSUME BoundsAssumption ==
  /\ NumSources \in Nat \ {0} /\ NumMethods \in Nat
  /\ MaxEvents \in Nat \ {0} /\ MaxMessages \in Nat
ASSUME HazardsAssumption == Hazards \subseteq HazardNames

VARIABLES
  source,       \* the source that is tried
  phase,        \* "connect", "initialize", "ask", "wait", "follow", "done", "failed"
  alive,        \* whether the child runs
  outstanding,  \* ids the server has yet to answer
  serial,       \* lines the server has written
  channel,      \* lines the session has yet to read
  pending,      \* messages read while another one was awaited
  awaiting,     \* the id of the request in hand
  inflight,     \* capability requests without an answer
  events,       \* what collect_capability_events has gathered
  log,          \* the events written to the artifact
  followed      \* events next_event has returned

server == <<alive, outstanding, serial>>
collected == <<events, log, followed>>
vars == <<source, phase, alive, outstanding, serial, channel, pending,
          awaiting, inflight, events, log, followed>>

-----------------------------------------------------------------------------

InitializeId == 1
FirstMethod == 2
LastMethod == NumMethods + 1
NoId == 0

\* A line: its number, what it is, and its "id".
Line(kind, id) == [seq |-> serial + 1, kind |-> kind, id |-> id]

\* An event: the capability it reports (NoId: none), whether it reports the
\* method as unavailable, and the line it was made of (0: none).
CapabilityEvent(id, m) == [of |-> id, unavailable |-> FALSE, seq |-> m.seq]
UnavailableEvent(id, seq) == [of |-> id, unavailable |-> TRUE, seq |-> seq]
ServerEvent(m) == [of |-> NoId, unavailable |-> FALSE, seq |-> m.seq]

Init ==
  /\ source = 1 /\ phase = "connect"
  /\ alive = FALSE /\ outstanding = {} /\ serial = 0
  /\ channel = <<>> /\ pending = <<>>
  /\ awaiting = InitializeId /\ inflight = {}
  /\ events = <<>> /\ log = <<>> /\ followed = 0

-----------------------------------------------------------------------------
(* The app server.                                                         *)

Write(m) ==
  /\ alive /\ serial < MaxMessages
  /\ serial' = serial + 1
  /\ channel' = Append(channel, m)

Answer(id) ==
  /\ id \in outstanding
  /\ \E kind \in {"answer", "error"} : Write(Line(kind, id))
  /\ outstanding' = outstanding \ {id}
  /\ UNCHANGED <<source, phase, alive, pending, awaiting, inflight, collected>>

Notify ==
  /\ Write(Line("notice", NoId))
  /\ UNCHANGED <<source, phase, alive, outstanding, pending, awaiting, inflight, collected>>

\* Requests of the server are numbered by the server; one whose number the
\* session never uses is like a notice.
ServerRequest ==
  /\ "request" \in Hazards
  /\ \E id \in 1..LastMethod : Write(Line("request", id))
  /\ UNCHANGED <<source, phase, alive, outstanding, pending, awaiting, inflight, collected>>

WriteGarbage ==
  /\ "garbage" \in Hazards
  /\ Write(Line("garbage", NoId))
  /\ UNCHANGED <<source, phase, alive, outstanding, pending, awaiting, inflight, collected>>

Die ==
  /\ "death" \in Hazards
  /\ alive
  /\ alive' = FALSE
  /\ outstanding' = {}
  /\ UNCHANGED <<source, phase, serial, channel, pending, awaiting, inflight, collected>>

-----------------------------------------------------------------------------
(* Connecting and initializing.                                            *)

\* A session that failed is dropped, its child with it; the next source is
\* tried with a session of its own.
TryNextSource ==
  /\ source' = source + 1
  /\ phase' = IF source < NumSources THEN "connect" ELSE "failed"
  /\ alive' = FALSE /\ outstanding' = {} /\ serial' = 0
  /\ channel' = <<>> /\ pending' = <<>>
  /\ awaiting' = InitializeId
  /\ UNCHANGED <<inflight, collected>>

Connect ==
  /\ phase = "connect"
  /\ \/ TryNextSource
     \/ /\ alive' = TRUE
        /\ phase' = "initialize"
        /\ UNCHANGED <<source, outstanding, serial, channel, pending, awaiting,
                       inflight, collected>>

\* Sending a request; it fails once the child has gone.
SendRequest(id) ==
  /\ alive
  /\ outstanding' = outstanding \cup {id}
  /\ phase' = "wait"
  /\ UNCHANGED <<source, alive, serial, channel, pending, awaiting, collected>>

Initialize ==
  /\ phase = "initialize"
  /\ \/ SendRequest(InitializeId) /\ UNCHANGED inflight
     \/ ~alive /\ TryNextSource

-----------------------------------------------------------------------------
(* take_response: the awaited answer may be among the pending messages, or *)
(* the next line; any other message becomes pending.                       *)

Matching == {i \in 1..Len(pending) : pending[i].id = awaiting}
First(S) == CHOOSE i \in S : \A j \in S : i <= j
WithoutIndex(q, i) == SubSeq(q, 1, i - 1) \o SubSeq(q, i + 1, Len(q))

\* The response m has been taken: the handshake is complete, or a capability
\* is known.
Take(m) ==
  /\ IF awaiting = InitializeId
       THEN m.kind = "answer" /\ UNCHANGED <<inflight, events>>
       ELSE /\ inflight' = inflight \ {awaiting}
            /\ events' = Append(events, CapabilityEvent(awaiting, m))
  /\ awaiting' = awaiting + 1
  /\ phase' = "ask"
  /\ UNCHANGED <<source, server, log, followed>>

TakePending ==
  /\ phase = "wait" /\ Matching # {}
  /\ Take(pending[First(Matching)])
  /\ pending' = WithoutIndex(pending, First(Matching))
  /\ UNCHANGED channel

TakeNext ==
  /\ phase = "wait" /\ Matching = {} /\ channel # <<>>
  /\ Head(channel).id = awaiting
  /\ Take(Head(channel))
  /\ channel' = Tail(channel)
  /\ UNCHANGED pending

DropNext ==
  /\ phase = "wait" /\ Matching = {} /\ channel # <<>>
  /\ Head(channel).id # awaiting /\ Head(channel).kind # "garbage"
  /\ channel' = Tail(channel)
  /\ UNCHANGED <<source, phase, server, pending, awaiting, inflight, collected>>

PostponeNext ==
  /\ phase = "wait" /\ Matching = {} /\ channel # <<>>
  /\ Head(channel).id # awaiting /\ Head(channel).kind # "garbage"
  /\ pending' = Append(pending, Head(channel))
  /\ channel' = Tail(channel)
  /\ UNCHANGED <<source, phase, server, awaiting, inflight, collected>>

\* The deadline, which may pass between any two lines, the end of the output,
\* an unreadable line or an error response: the next source is tried.
InitializeFails ==
  /\ phase = "wait" /\ awaiting = InitializeId /\ Matching = {}
  /\ TryNextSource

\* The method counts as unavailable for now; its request stays in flight.
MethodFails(seq) ==
  /\ phase = "wait" /\ awaiting # InitializeId /\ Matching = {}
  /\ events' = Append(events, UnavailableEvent(awaiting, seq))
  /\ awaiting' = awaiting + 1
  /\ phase' = "ask"
  /\ UNCHANGED <<source, server, pending, inflight, log, followed>>

ResponseTimesOut == MethodFails(0) /\ UNCHANGED channel

ResponseUnreadable ==
  /\ channel # <<>> /\ Head(channel).kind = "garbage"
  /\ MethodFails(Head(channel).seq)
  /\ channel' = Tail(channel)

-----------------------------------------------------------------------------
(* Capabilities, then the follow loop.                                     *)

Fail ==
  /\ phase' = "failed"
  /\ UNCHANGED <<source, server, channel, pending, awaiting, inflight, collected>>

AskMethod ==
  /\ phase = "ask" /\ awaiting <= LastMethod
  /\ \/ SendRequest(awaiting) /\ inflight' = inflight \cup {awaiting}
     \/ ~alive /\ Fail

\* All methods were asked: what was gathered is written to the artifact.
PublishCapabilities ==
  /\ phase = "ask" /\ awaiting > LastMethod
  /\ log' = log \o events
  /\ events' = <<>>
  /\ phase' = "follow"
  /\ UNCHANGED <<source, server, channel, pending, awaiting, inflight, followed>>

NormalizedWithoutInflight(m) == ServerEvent(m)

\* A late answer still tells what was asked.
Normalized(m) ==
  IF m.id \in inflight THEN CapabilityEvent(m.id, m) ELSE ServerEvent(m)

ReturnEvent(m) ==
  /\ phase = "follow"
  /\ log' = Append(log, Normalized(m))
  /\ inflight' = inflight \ {m.id}
  /\ followed' = followed + 1
  /\ phase' = IF followed + 1 < MaxEvents THEN "follow" ELSE "done"
  /\ UNCHANGED <<source, server, awaiting, events>>

FollowPending ==
  /\ pending # <<>>
  /\ ReturnEvent(Head(pending))
  /\ pending' = Tail(pending)
  /\ UNCHANGED channel

FollowNext ==
  /\ pending = <<>> /\ channel # <<>> /\ Head(channel).kind # "garbage"
  /\ ReturnEvent(Head(channel))
  /\ channel' = Tail(channel)
  /\ UNCHANGED pending

\* A line that is not JSON ends the run with an error.
FollowUnreadable ==
  /\ phase = "follow" /\ pending = <<>>
  /\ channel # <<>> /\ Head(channel).kind = "garbage"
  /\ Fail

IdleTimeoutWhileAlive ==
  /\ phase = "follow" /\ pending = <<>> /\ channel = <<>> /\ alive
  /\ phase' = "done"
  /\ UNCHANGED <<source, server, channel, pending, awaiting, inflight, collected>>

\* Silence, or the end of the output, which looks the same.
IdleTimeout ==
  /\ phase = "follow" /\ pending = <<>> /\ channel = <<>>
  /\ phase' = "done"
  /\ UNCHANGED <<source, server, channel, pending, awaiting, inflight, collected>>

-----------------------------------------------------------------------------

Await ==
  \/ TakePending \/ TakeNext \/ PostponeNext
  \/ InitializeFails \/ ResponseTimesOut \/ ResponseUnreadable

Follow == FollowPending \/ FollowNext \/ FollowUnreadable \/ IdleTimeout

Observer ==
  \/ Connect \/ Initialize \/ Await \/ AskMethod \/ PublishCapabilities \/ Follow

Running == phase \notin {"done", "failed"}

AppServer ==
  /\ Running
  /\ (\E id \in outstanding : Answer(id)) \/ Notify \/ ServerRequest \/ WriteGarbage \/ Die

Next == Observer \/ AppServer

Spec == Init /\ [][Next]_vars

\* The run is a thread of its own and every wait of it has a deadline, so some
\* step of it always comes.
FairSpec == Spec /\ WF_vars(Observer)

-----------------------------------------------------------------------------
(* Properties.                                                             *)

Seqs(q) == {q[i].seq : i \in 1..Len(q)}
Gathered == log \o events

\* Messages of the server reach the artifact in the order they were sent,
\* although answers overtake them.
NoticesInOrder ==
  \A i, j \in 1..Len(log) :
    i < j /\ log[i].of = NoId /\ log[j].of = NoId => log[i].seq < log[j].seq

\* Once the handshake is done, every line read since is in an event or still
\* pending, in one place only: awaiting one response never loses, and never
\* repeats or reorders, another message.
EveryLineReadIsKept ==
  phase \in {"ask", "wait", "follow", "done"} /\ awaiting > InitializeId =>
    LET read == serial - Len(channel)
    IN  /\ \E handshake \in 1..read :
             (Seqs(Gathered) \ {0}) \cup Seqs(pending) = (1..read) \ {handshake}
        /\ Seqs(Gathered) \cap Seqs(pending) = {}
        /\ \A i, j \in 1..Len(Gathered) :
             Gathered[i].seq = Gathered[j].seq => i = j \/ Gathered[i].seq = 0
        /\ \A i, j \in 1..Len(pending) : i < j => pending[i].seq < pending[j].seq
        /\ NoticesInOrder

\* Every method asked is reported while capabilities are collected, and an
\* answer is reported as the capability it answers however late it comes,
\* once, and not before the method was reported as unavailable.
EveryMethodIsReported ==
  phase \in {"follow", "done"} =>
    \A id \in FirstMethod..LastMethod :
      LET about == {i \in 1..Len(log) : log[i].of = id}
          known == {i \in about : ~log[i].unavailable}
      IN  /\ about # {}
          /\ known = {} => id \in inflight
          /\ \A i \in about, k \in known : i <= k

\* The run ends, whatever the server writes or leaves out.
RunEnds == <>(phase \in {"done", "failed"})
=============================================================================
