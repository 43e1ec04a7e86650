--------------------------- MODULE OpencodeObserver ---------------------------
(***************************************************************************)
(* A run of the opencode observer: it asks a server that goes on working   *)
(* for its capabilities, sessions and messages, one request at a time, of  *)
(* which any may fail, within a budget of sessions and message parts; then *)
(* it writes the events it has collected, and a few global ones.           *)
(***************************************************************************)
EXTENDS Naturals, Sequences, FiniteSets, SequencesExt

CONSTANTS
  Sessions,          \* the sessions of the server
  Endpoints,         \* the capability endpoints
  SessionLimit,      \* options.session_limit
  MessageLimit,      \* options.message_limit
  GlobalEventLimit,  \* DEFAULT_GLOBAL_EVENT_LIMIT
  MaxParts,          \* bound on the message parts of a session
  MaxBatch           \* bound on the global events one request brings

\* The names of sessions and endpoints are text; 0 stands for neither.
ASSUME SetsAssumption ==
  /\ IsFiniteSet(Sessions) /\ IsFiniteSet(Endpoints) /\ Endpoints # {}
  /\ 0 \notin Sessions \cup Endpoints
ASSUME LimitsAssumption ==
  /\ SessionLimit \in Nat /\ MessageLimit \in Nat /\ GlobalEventLimit \in Nat
  /\ MaxParts \in Nat /\ MaxBatch \in Nat

VARIABLES
  parts,      \* session -> the kinds of its message parts, on the server
  pc,         \* where the run is
  listed,     \* the sessions still to be collected
  remaining,  \* remaining_message_events
  events,     \* the events collected, and then those to be written
  emitted,    \* emitted_messages
  polled,     \* how often next_event was called
  pending,    \* global events that were fetched and not yet returned
  artifact,   \* the events in the artifact
  asked,      \* history: the sessions the run was to collect
  collected   \* history: the events collected, before any was cut

vars == <<parts, pc, listed, remaining, events, emitted, polled, pending, artifact, asked, collected>>

PartKinds == {"item", "tool"}
Event(kind, of) == [kind |-> kind, of |-> of]

Init ==
  /\ parts = [s \in Sessions |-> <<>>]
  /\ pc = "initialize"
  /\ listed = <<>> /\ remaining = MessageLimit
  /\ events = <<>> /\ emitted = 0
  /\ polled = 0 /\ pending = <<>>
  /\ artifact = <<>> /\ asked = <<>> /\ collected = <<>>

-----------------------------------------------------------------------------
(* The server works on.                                                    *)

AddPart(s) ==
  /\ pc \in {"initialize", "list", "capabilities", "sessions"}
  /\ Len(parts[s]) < MaxParts
  /\ \E k \in PartKinds : parts' = [parts EXCEPT ![s] = Append(@, k)]
  /\ UNCHANGED <<pc, listed, remaining, events, emitted, polled, pending, artifact, asked, collected>>

-----------------------------------------------------------------------------
(* Collecting.                                                             *)

Fails == pc' = "failed" /\ UNCHANGED <<parts, listed, remaining, events, emitted, polled,
                                      pending, artifact, asked, collected>>

\* The health of the server, and the artifact with the handshake.
Initialize ==
  /\ pc = "initialize"
  /\ \/ Fails
     \/ /\ pc' = "list"
        /\ UNCHANGED <<parts, listed, remaining, events, emitted, polled, pending,
                       artifact, asked, collected>>

\* Which sessions there are, in the order the server lists them.
ListSessions ==
  /\ pc = "list"
  /\ \/ Fails
     \/ /\ \E all \in UNION {SetToSeqs(S) : S \in SUBSET Sessions} :
             listed' = SubSeq(all, 1, IF Len(all) < SessionLimit THEN Len(all) ELSE SessionLimit)
        /\ asked' = listed'
        /\ pc' = "capabilities"
        /\ UNCHANGED <<parts, remaining, events, emitted, polled, pending, artifact, collected>>

\* An endpoint that cannot be read counts as an event too.
AskCapability ==
  /\ pc = "capabilities"
  /\ \E e \in Endpoints :
       /\ \A n \in DOMAIN events : events[n].of # e
       /\ \E kind \in {"capability", "unknown"} : events' = Append(events, Event(kind, e))
  /\ pc' = IF Endpoints = {events'[n].of : n \in DOMAIN events'} THEN "sessions" ELSE pc
  /\ UNCHANGED <<parts, listed, remaining, emitted, polled, pending, artifact, asked, collected>>

PartEventsFromEnd(s) ==
  LET n == IF Len(parts[s]) < remaining THEN Len(parts[s]) ELSE remaining
  IN  [i \in 1..n |-> Event(parts[s][Len(parts[s]) - n + i], s)]

\* The first parts of a session, as many as the budget has left.
PartEvents(s) ==
  LET n == IF Len(parts[s]) < remaining THEN Len(parts[s]) ELSE remaining
  IN  [i \in 1..n |-> Event(parts[s][i], s)]

LeftOfBudget(got) == remaining - Len(got)

TakeUp(s, more) ==
  /\ events' = Append(events, Event("thread", s)) \o more
  /\ listed' = Tail(listed)

CollectSessionUntilFailure ==
  /\ pc = "sessions" /\ listed # <<>>
  /\ \/ /\ TakeUp(Head(listed), PartEvents(Head(listed)))
        /\ remaining' = LeftOfBudget(PartEvents(Head(listed)))
     \/ /\ remaining # 0
        /\ events' = events \o <<Event("thread", Head(listed)), Event("unknown", Head(listed))>>
        /\ listed' = <<>> /\ UNCHANGED remaining
  /\ UNCHANGED <<parts, pc, emitted, polled, pending, artifact, asked, collected>>

\* Without a budget the messages are not asked for; a session whose messages
\* cannot be read leaves the others alone.
CollectSession ==
  /\ pc = "sessions" /\ listed # <<>>
  /\ \/ /\ TakeUp(Head(listed), PartEvents(Head(listed)))
        /\ remaining' = LeftOfBudget(PartEvents(Head(listed)))
     \/ /\ remaining # 0
        /\ TakeUp(Head(listed), <<Event("unknown", Head(listed))>>)
        /\ UNCHANGED remaining
  /\ UNCHANGED <<parts, pc, emitted, polled, pending, artifact, asked, collected>>

\* The budget of sessions and messages is applied to all events.
Truncated(q) ==
  LET most == SessionLimit + MessageLimit
  IN  IF Len(q) > most THEN SubSeq(q, 1, most) ELSE q

Truncate ==
  /\ pc = "sessions" /\ listed = <<>>
  /\ events' = Truncated(events)
  /\ collected' = events
  /\ pc' = "write"
  /\ UNCHANGED <<parts, listed, remaining, emitted, polled, pending, artifact, asked>>

-----------------------------------------------------------------------------
(* Writing.                                                                *)

\* append_event, then a line of output; a failure of either ends the run.
Write(e) ==
  \/ artifact' = Append(artifact, e) /\ UNCHANGED pc
  \/ artifact' \in {artifact, Append(artifact, e)} /\ pc' = "failed"

WriteEvent ==
  /\ pc = "write" /\ events # <<>>
  /\ events' = Tail(events)
  /\ IF Head(events).kind = "item" /\ emitted >= MessageLimit
       THEN UNCHANGED <<emitted, artifact, pc>>
       ELSE /\ emitted' = IF Head(events).kind = "item" THEN emitted + 1 ELSE emitted
            /\ Write(Head(events))
  /\ UNCHANGED <<parts, listed, remaining, polled, pending, asked, collected>>

StartFollowing ==
  /\ pc = "write" /\ events = <<>>
  /\ pc' = "follow"
  /\ UNCHANGED <<parts, listed, remaining, events, emitted, polled, pending, artifact, asked, collected>>

\* They are written as they come, whatever kind and session the code reads off
\* them: those of a message count in no limit.
GlobalEvents(n) == [i \in 1..n |-> Event("global", i)]

\* What a request for global events may bring.
GlobalAnswers == {GlobalEvents(n) : n \in 0..MaxBatch} \cup {<<Event("unknown", 0)>>}

Fetched == IF pending # <<>> THEN {pending} ELSE GlobalAnswers

\* A request that fails is an event; without one the run is over.
NextEvent ==
  /\ pc = "follow" /\ polled < GlobalEventLimit
  /\ polled' = polled + 1
  /\ \E q \in Fetched :
       IF q = <<>> THEN pc' = "done" /\ UNCHANGED <<pending, artifact>>
                   ELSE pending' = Tail(q) /\ Write(Head(q))
  /\ UNCHANGED <<parts, listed, remaining, events, emitted, asked, collected>>

Stop ==
  /\ pc = "follow" /\ polled = GlobalEventLimit
  /\ pc' = "done"
  /\ UNCHANGED <<parts, listed, remaining, events, emitted, polled, pending, artifact, asked, collected>>

-----------------------------------------------------------------------------

Next ==
  \/ \E s \in Sessions : AddPart(s)
  \/ Initialize \/ ListSessions \/ AskCapability \/ CollectSession \/ Truncate
  \/ WriteEvent \/ StartFollowing \/ NextEvent \/ Stop

Spec == Init /\ [][Next]_vars

-----------------------------------------------------------------------------
(* Properties.                                                             *)

Collected == pc \in {"write", "follow", "done"}

\* The message budget is kept while collecting, so the second count, of items
\* written, drops nothing: of the events collected only the end is ever cut,
\* and only beyond the limits together; what the artifact has after them is
\* none of them.
OnlyTheEndIsCut ==
  Collected =>
    \E n \in 0 .. Len(artifact) :
      LET written == SubSeq(artifact, 1, n) \o events
      IN  /\ \A i \in n + 1 .. Len(artifact) : artifact[i] \notin ToSet(collected)
          /\ IsPrefix(written, collected)
          /\ Len(written) < SessionLimit + MessageLimit => written = collected

\* After its entry at place at, q has the first k parts of s, and no others.
HoldsParts(q, s, at, k) ==
  /\ k > 0 => at > 0 /\ q[at] = Event("thread", s)
  /\ {n \in DOMAIN q : q[n].of = s /\ q[n].kind \in PartKinds} = at + 1 .. at + k
  /\ \A i \in 1 .. k : q[at + i].kind = parts[s][i]

\* While the server adds parts, requests and writes fail and budgets run out in
\* the middle, what is recorded of a session is a beginning of its messages and
\* comes right after the session itself, and what is recorded of all sessions is
\* a beginning of what was collected (collect_capability_events, and the limits
\* that run_opencode_observer counts once more).
RecordedIsABeginning ==
  /\ OnlyTheEndIsCut
  /\ \A s \in Sessions : \E at \in 0 .. Len(artifact), k \in 0 .. Len(parts[s]) :
       HoldsParts(artifact, s, at, k)

\* The entries of endpoints, read or not, and of messages that could not be read.
NeitherSessionNorPart ==
  {n \in DOMAIN collected : collected[n].kind \in {"capability", "unknown"}}

\* An endpoint or a session that cannot be read does not end the run for the others:
\* there is an event of each endpoint, and the sessions have theirs in the order
\* in which the server lists them (collect_capability_events). What it leaves
\* behind is an event too, which counts where run_opencode_observer cuts the list:
\* it may push another's event off the end, but never more than one, so all but
\* the last of what was collected, one for each of these, gets into the artifact.
FailuresLeaveOthersAlone ==
  Collected =>
    /\ \A e \in Endpoints : \E n \in DOMAIN collected : collected[n].of = e
    /\ \E at \in [DOMAIN asked -> DOMAIN collected] :
         /\ \A i, j \in DOMAIN asked : i < j => at[i] < at[j]
         /\ \A i \in DOMAIN asked : collected[at[i]] = Event("thread", asked[i])
         /\ \A n \in DOMAIN collected :
              collected[n].kind = "thread" => \E i \in DOMAIN asked : at[i] = n
    /\ pc \in {"follow", "done"} =>
         \A i \in DOMAIN collected :
           i + Cardinality(NeitherSessionNorPart) <= Len(collected) =>
             i <= Len(artifact) /\ artifact[i] = collected[i]
=============================================================================
