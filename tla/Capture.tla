------------------------------- MODULE Capture -------------------------------
(***************************************************************************)
(* From a call in the target process to the files of the capture: the      *)
(* probe's hooks write lines to a stream, a listener thread reads them and *)
(* keeps a heartbeat clock, and the consuming loop takes the events from a *)
(* channel, writes the files of requests, tools and responses one by one,  *)
(* and decides when the capture is over.                                   *)
(***************************************************************************)
EXTENDS Naturals, Sequences, FiniteSets, SequencesExt, CapturedSessions

CONSTANTS
  Exchanges,         \* the calls the target may make
  ByHost,            \* those whose host names the provider, in both messages
  ByBody,            \* those that only the request's headers and body name
  WithTools,         \* those whose request lists tools
  MaxTime,           \* bound on the time stamps
  MaxLines,          \* bound on the lines the target sends
  MaxBacklog,        \* bound on the lines that wait in the stream
  MayFail            \* whether writing a file or the output may fail

ASSUME ExchangesAssumption ==
  /\ IsFiniteSet(Exchanges)
  /\ ByHost \subseteq Exchanges /\ ByBody \subseteq Exchanges
  /\ WithTools \subseteq Exchanges
ASSUME TimesAssumption ==
  /\ MaxTime \in Nat /\ MaxLines \in Nat /\ MaxBacklog \in Nat \ {0} /\ MayFail \in BOOLEAN

VARIABLES
  now, heartbeatLate, waitLate,   \* the clock, and whether a timeout has passed
  calls, hooked, lines,                       \* the target
  stream, closed,                                        \* the bridge
  listener, channel,                                     \* the listener thread
  hasShutdown, shutdown,        \* whether the reader can be shut down, and was
  consumer, held, sequence, hints, exit,                 \* the consuming loop
  requests, responses, visibility,                       \* the files
  unseen,                       \* history: calls whose request line was never read whole
  named                         \* history: ids listed before the files changed

clock == <<now, heartbeatLate, waitLate>>
target == <<calls, hooked, lines>>
bridge == <<stream, closed>>
loopState == <<consumer, held, sequence, hints, exit, shutdown>>
files == <<requests, responses, visibility, named>>
vars == <<now, heartbeatLate, waitLate, calls, hooked, lines, stream,
          closed, listener, channel, hasShutdown, shutdown, consumer, held,
          sequence, hints, exit, requests, responses, visibility, unseen, named>>

\* What the console lists, whenever it is asked.
Listed == Sessions(requests, responses, visibility)
ListedIds == {s.id : s \in Listed}
\* Between two messages nothing is half written, so that whatever could be
\* listed is remembered when the next message changes the files.
Remember == named' = named \cup ListedIds

-----------------------------------------------------------------------------

Message(type, e) == [type |-> type, exchange |-> e, at |-> now]
Plain(type) == [type |-> type]

\* A request file that the capture of another process has left.
Earlier ==
  [id |-> [at |-> 0, pid |-> 1, sequence |-> 1], exchange |-> Plain("other"),
   pid |-> 1, at |-> 0, whole |-> TRUE]

\* Its exchange is none of this capture's.
ASSUME EarlierAssumption == Earlier.exchange \notin Exchanges

Init ==
  /\ now = 0 /\ heartbeatLate = FALSE /\ waitLate = FALSE
  /\ calls = [e \in Exchanges |-> "none"]
  /\ hooked = TRUE /\ lines = 0
  /\ stream = <<>> /\ closed = FALSE
  /\ listener = "check" /\ channel = <<>>
  /\ hasShutdown \in BOOLEAN /\ shutdown = FALSE
  /\ consumer = "loop" /\ held = Plain("none") /\ sequence = 1 /\ hints = {}
  /\ exit = "none"
  /\ requests = {Earlier}
  /\ responses = {} /\ visibility = {}
  /\ unseen = {} /\ named = {}

Tick ==
  /\ now < MaxTime
  /\ now' = now + 1
  /\ UNCHANGED <<heartbeatLate, waitLate, target, bridge, listener, channel, hasShutdown,
                 loopState, files, unseen>>

\* The heartbeat timeout has passed since the last heartbeat that was read.
HeartbeatIsLate ==
  /\ listener # "ended" /\ ~heartbeatLate
  /\ heartbeatLate' = TRUE
  /\ UNCHANGED <<now, waitLate, target, bridge, listener, channel, hasShutdown,
                 loopState, files, unseen>>

\* The wait deadline has passed: that is looked at only between messages.
WaitIsLate ==
  /\ consumer = "loop" /\ ~waitLate
  /\ waitLate' = TRUE
  /\ UNCHANGED <<now, heartbeatLate, target, bridge, listener, channel, hasShutdown,
                 loopState, files, unseen>>

-----------------------------------------------------------------------------
(* The probe in the target, which is followed while the capture runs.      *)
(* Observation never fails a call.                                         *)

Watched == consumer # "done" /\ ~closed

Emits(line) ==
  /\ Len(stream) < MaxBacklog /\ lines < MaxLines
  /\ stream' = Append(stream, line)
  /\ lines' = lines + 1
  /\ UNCHANGED closed
NotTarget == UNCHANGED <<clock, listener, channel, hasShutdown, loopState, files>>

\* A hooked call; what is observed of it may throw and is then not sent.
Call(e) ==
  /\ Watched /\ hooked /\ calls[e] = "none"
  /\ calls' = [calls EXCEPT ![e] = "open"]
  /\ \/ Emits(Message("request", e)) /\ UNCHANGED unseen
     \/ UNCHANGED <<bridge, lines>> /\ unseen' = unseen \cup {e}
  /\ UNCHANGED hooked /\ NotTarget

\* The wrapper stays around a call that is under way when hooks are removed.
Answered(e) ==
  /\ Watched /\ calls[e] = "open"
  /\ calls' = [calls EXCEPT ![e] = "answered"]
  /\ Emits(Message("response", e))
  /\ UNCHANGED <<hooked, unseen>> /\ NotTarget

Heartbeat ==
  /\ Watched /\ hooked
  /\ Emits(Plain("heartbeat"))
  /\ UNCHANGED <<calls, hooked, unseen>> /\ NotTarget

\* triggerDetach and dispose.
TriggerDetach ==
  /\ Watched /\ hooked
  /\ hooked' = FALSE
  /\ Emits(Plain("detach_ack"))
  /\ UNCHANGED <<calls, unseen>> /\ NotTarget

ProcessExits ==
  /\ Watched
  /\ closed' = TRUE
  /\ UNCHANGED <<stream, target, unseen>> /\ NotTarget

-----------------------------------------------------------------------------
(* The listener thread: IpcListener::next_event in a loop.                 *)

NotListener == UNCHANGED <<now, waitLate, target, closed, hasShutdown, consumer,
                           held, sequence, hints, exit, shutdown, files>>

\* The thread ends when the event is terminal, or nobody takes it any more.
Send(event, terminal) ==
  IF consumer = "done"
    THEN listener' = "ended" /\ UNCHANGED channel
    ELSE /\ channel' = Append(channel, event)
         /\ listener' = IF terminal THEN "ended" ELSE "check"

CheckHeartbeat ==
  /\ listener = "check"
  /\ IF heartbeatLate THEN Send(Plain("timeout"), TRUE)
                 ELSE listener' = "read" /\ UNCHANGED channel
  /\ UNCHANGED <<stream, heartbeatLate, unseen>> /\ NotListener

ReadLine ==
  /\ listener = "read" /\ ~shutdown /\ stream # <<>>
  /\ stream' = Tail(stream)
  /\ IF Head(stream).type = "rest"
       THEN listener' = "check" /\ UNCHANGED <<channel, heartbeatLate>>
       ELSE /\ Send(Head(stream), Head(stream).type = "detach_ack")
            /\ heartbeatLate' = (heartbeatLate /\ Head(stream).type # "heartbeat")
  /\ UNCHANGED unseen /\ NotListener

\* The read times out while nothing comes, or in the middle of a line: what
\* was read of that line is dropped with the buffer.
ReadTimesOut ==
  /\ listener = "read" /\ ~shutdown /\ ~hasShutdown
  /\ \/ stream = <<>> /\ ~closed /\ UNCHANGED <<stream, unseen>>
     \/ /\ stream # <<>> /\ Head(stream).type # "rest"
        /\ stream' = <<Plain("rest")>> \o Tail(stream)
        /\ unseen' = IF Head(stream).type = "request"
                       THEN unseen \cup {Head(stream).exchange} ELSE unseen
  /\ IF heartbeatLate THEN Send(Plain("timeout"), TRUE)
                 ELSE listener' = "check" /\ UNCHANGED channel
  /\ UNCHANGED heartbeatLate /\ NotListener

EndOfFile ==
  /\ listener = "read"
  /\ shutdown \/ (stream = <<>> /\ closed)
  /\ Send(Plain("disconnected"), TRUE)
  /\ UNCHANGED <<stream, heartbeatLate, unseen>> /\ NotListener

Listener == CheckHeartbeat \/ ReadLine \/ ReadTimesOut \/ EndOfFile

-----------------------------------------------------------------------------
(* The consuming loop: consume_probe_events and the capture of a message.  *)

NotLoop == UNCHANGED <<now, heartbeatLate, target, bridge, listener, hasShutdown, unseen>>

RecognizedAnyResponse(m) ==
  \/ m.type = "request"  /\ m.exchange \in ByHost \cup ByBody
  \/ m.type = "response"

\* detect_provider_hint; a response is also given the hint of its request.
Recognized(m) ==
  \/ m.type = "request"  /\ m.exchange \in ByHost \cup ByBody
  \/ m.type = "response" /\ m.exchange \in ByHost \cup hints

Put(dir, file) == {f \in dir : f.id # file.id} \cup {file}
FileId(m) == [at |-> m.at, pid |-> 0, sequence |-> sequence]

RequestFile(m, whole) ==
  [id |-> FileId(m), exchange |-> m.exchange, pid |-> 0, at |-> m.at, whole |-> whole]
ResponseFile(m, whole) ==
  [id |-> FileId(m), exchange |-> m.exchange, completed |-> m.at, whole |-> whole]
ToolsFile(m, whole) ==
  [id |-> FileId(m), request |-> FileId(m), exchange |-> m.exchange, whole |-> whole]

\* fs::write creates a file, empty, before it fills it.
WriteFile(m, whole) ==
  /\ requests' = IF m.type = "request" THEN Put(requests, RequestFile(m, whole)) ELSE requests
  /\ responses' = IF m.type = "response" THEN Put(responses, ResponseFile(m, whole)) ELSE responses

\* A message is taken; one that names no provider is only a sign of life, for
\* another its file is created.
Take ==
  /\ consumer = "loop" /\ ~waitLate /\ channel # <<>>
  /\ Head(channel).type \notin {"detach_ack", "disconnected", "timeout"}
  /\ channel' = Tail(channel)
  /\ waitLate' = FALSE
  /\ IF Recognized(Head(channel))
       THEN /\ held' = Head(channel) /\ consumer' = "fill"
            /\ WriteFile(Head(channel), FALSE) /\ Remember
       ELSE UNCHANGED <<held, consumer, requests, responses, named>>
  /\ UNCHANGED <<sequence, hints, exit, shutdown, visibility>> /\ NotLoop

\* The file is filled, and the one of the tools that a request lists created.
FillFile ==
  /\ consumer = "fill"
  /\ WriteFile(held, TRUE)
  /\ IF held.type = "request" /\ held.exchange \in WithTools
       THEN consumer' = "fill tools" /\ visibility' = Put(visibility, ToolsFile(held, FALSE))
       ELSE consumer' = "report" /\ UNCHANGED visibility
  /\ UNCHANGED <<channel, held, sequence, hints, exit, shutdown, waitLate, named>> /\ NotLoop

FillTools ==
  /\ consumer = "fill tools"
  /\ consumer' = "report"
  /\ visibility' = Put(visibility, ToolsFile(held, TRUE))
  /\ UNCHANGED <<channel, held, sequence, hints, exit, shutdown, waitLate, requests, responses,
                 named>>
  /\ NotLoop

ReportWithoutCounting ==
  /\ consumer = "report"
  /\ consumer' = "loop" /\ held' = Plain("none")
  /\ hints' = IF held.type = "request" THEN hints \cup {held.exchange}
                                       ELSE hints \ {held.exchange}
  /\ UNCHANGED <<channel, sequence, exit, shutdown, waitLate, files>> /\ NotLoop

\* The hint is kept from the request to its response; every capture counts.
Report ==
  /\ consumer = "report"
  /\ consumer' = "loop" /\ held' = Plain("none")
  /\ hints' = IF held.type = "request" THEN hints \cup {held.exchange}
                                       ELSE hints \ {held.exchange}
  /\ sequence' = sequence + 1
  /\ UNCHANGED <<channel, exit, shutdown, waitLate, files>> /\ NotLoop

\* A file or the output cannot be written: the loop ends with the error, the
\* listener thread is left to itself.
WriteFails ==
  /\ MayFail
  /\ consumer \in {"fill", "fill tools", "report"}
  /\ consumer' = "done" /\ exit' = "error"
  /\ UNCHANGED <<channel, held, sequence, hints, shutdown, waitLate, files>> /\ NotLoop

Ends(reason, requestShutdown) ==
  /\ exit' = reason /\ consumer' = "join"
  /\ shutdown' = (requestShutdown /\ hasShutdown)
  /\ UNCHANGED <<held, sequence, hints, waitLate, files>> /\ NotLoop

TakeLast ==
  /\ consumer = "loop" /\ ~waitLate /\ channel # <<>>
  /\ channel' = Tail(channel)
  /\ \/ Head(channel).type = "detach_ack" /\ Ends("DetachAck", FALSE)
     \/ Head(channel).type = "disconnected" /\ Ends("ChannelDisconnected", FALSE)
     \/ Head(channel).type = "timeout" /\ Ends("HeartbeatTimeout", TRUE)

PassDeadlineAfterMessage ==
  /\ consumer = "loop" /\ waitLate /\ channel # <<>>
  /\ Ends("HeartbeatTimeout", TRUE)
  /\ UNCHANGED channel

\* The deadline is looked at first, whatever waits in the channel.
PassDeadline ==
  /\ consumer = "loop" /\ waitLate
  /\ Ends("HeartbeatTimeout", TRUE)
  /\ UNCHANGED channel

\* cleanup_worker: the thread is joined, or after a timeout without a way to
\* shut its reader down, left behind when the grace has passed.
Join ==
  /\ consumer = "join"
  /\ listener = "ended" \/ (exit = "HeartbeatTimeout" /\ ~hasShutdown)
  /\ consumer' = "done"
  /\ \/ UNCHANGED exit
     \/ MayFail /\ exit = "HeartbeatTimeout" /\ exit' = "error"
  /\ UNCHANGED <<channel, held, sequence, hints, shutdown, waitLate, files>> /\ NotLoop

Loop ==
  \/ Take \/ FillFile \/ FillTools \/ Report \/ WriteFails
  \/ TakeLast \/ PassDeadline \/ Join

-----------------------------------------------------------------------------

Next ==
  \/ Tick \/ HeartbeatIsLate \/ WaitIsLate
  \/ \E e \in Exchanges : Call(e) \/ Answered(e)
  \/ Heartbeat \/ TriggerDetach \/ ProcessExits
  \/ Listener \/ Loop

\* Time passes, and both threads are scheduled.
Spec == Init /\ [][Next]_vars
        /\ WF_vars(HeartbeatIsLate) /\ WF_vars(WaitIsLate)
        /\ WF_vars(Listener) /\ WF_vars(Loop)

-----------------------------------------------------------------------------
(* Properties.                                                             *)

Captured(dir) == {f.exchange : f \in {g \in dir : g.whole}}

\* When the capture ends with the acknowledgement of a detach, every call that
\* names a provider and whose line was not lost has its file, and so have its
\* tools: nothing was still on the way, and no file has replaced another.
AcknowledgedMeansCaptured ==
  exit = "DetachAck" =>
    \A e \in (ByHost \cup ByBody) \ unseen :
      calls[e] # "none" =>
        /\ e \in Captured(requests)
        /\ e \in WithTools => e \in Captured(visibility)

\* A response that does not name its provider is captured only after the
\* request it answers, from which it has the provider; and between messages
\* just the captured requests without a response have left a hint.
ResponsesAreAttributed ==
  /\ \A r \in responses : r.exchange \in ByHost \/ r.exchange \in Captured(requests)
  /\ consumer = "loop" => hints = (Exchanges \cap Captured(requests)) \ Captured(responses)

\* The sessions divide the captured exchanges of each process at the pauses
\* that are longer than the window, and nowhere else.
SessionsFollowPauses ==
  Readable(responses) /\ Readable(visibility) =>
    GroupedByPauses(Listed, ExchangeRecords(requests, responses, visibility))

\* A session keeps its id while the capture goes on: an id that was ever listed
\* is listed whenever the files can be read, however many later calls, late
\* responses and tool files have been written since, and whether or not anything
\* could be listed meanwhile (build_session_details).
SessionIdsAreStable ==
  Readable(responses) /\ Readable(visibility) => named \subseteq ListedIds

\* When the target falls silent the capture ends, even when the reader blocks,
\* and leaves no listener thread behind, but where a failed write ends the loop
\* and the reader blocks.
CaptureEnds ==
  /\ <>(consumer = "done")
  /\ consumer = "done" /\ (exit = "error" => ~hasShutdown) ~> listener = "ended"

\* "One damaged file does not make the entire console unusable", as the
\* specification says: a response or tool file that is being written, or was cut
\* off, takes away no more than what it holds itself.
OneDamagedFileHidesOnlyItself ==
  LET Whole(dir) == {f \in dir : f.whole}
  IN  Listed = Sessions(requests, Whole(responses), Whole(visibility))
=============================================================================
