-------------------------- MODULE InspectorAttach --------------------------
(***************************************************************************)
(* One call of inject_probe up to its worker: the target is signalled, the *)
(* ports it listens on are asked for a debugger url until one names one or *)
(* the deadline passes, a session is opened there, and four expressions    *)
(* are evaluated in it one after the other, each awaited among whatever    *)
(* else the session says.  Lines of the probe among that go to the bridge, *)
(* whose reader the caller gets only at the end.  InspectorControl takes   *)
(* over where this module ends, with several calls.                        *)
(***************************************************************************)
EXTENDS Integers, Sequences

CONSTANTS
  MaxPort,    \* ports are 1..MaxPort
  MaxLines,   \* bound on the lines the probe emits
  MaxQueue,   \* bound on the unread messages of the session
  Room,       \* lines that fit into the bridge while nobody reads it
  AttachHazards
              \* what may go wrong: "failing", a command, a connection or an
              \* evaluation; "moving", ports open and close while they are asked

VARIABLES
  served,     \* port -> who listens on it, and what it says to /json/list
  at,         \* what the call does next
  untried,    \* the ports of this round that are still to be asked
  url,        \* the port named by the debugger url, or none
  peer,       \* the process the session leads to, or none
  expression, \* what is evaluated now
  pending,    \* whether the peer has yet to evaluate it
  inbox,      \* messages of the session that are not yet read
  bridge,     \* lines in the bridge
  overdue,    \* whether the deadline of the discovery, or of the evaluation, has passed
  retryLate,  \* whether the deadline for the pid to be defined has passed
  emitted,    \* history: how many lines the peer emitted
  consumed,   \* history: the last line that was read from the bridge
  ran,        \* history: which process evaluated which expression
  steady      \* history: ports that would have named a url since they were listed

session == <<peer, expression, pending, inbox, bridge, retryLate, emitted, consumed, ran>>
search == <<served, untried, url, steady>>
attachVars == <<served, at, untried, url, peer, expression, pending, inbox, bridge,
                overdue, retryLate, emitted, consumed, ran, steady>>

Ports == 1..MaxPort
Processes == {"target", "other"}
Nobody == "nobody"
NoPort == 0
Free == [owner |-> Nobody, says |-> NoPort]
Silent == -1      \* no answer, or none that can be read

\* A listener either names no debugger url, does not answer in time, or names
\* one: its own, if it is an inspector, or another's that it passes on.
Listeners == {Free} \cup [owner : Processes, says : Ports \cup {NoPort, Silent}]
Inspects(p) == served[p].owner # Nobody /\ served[p].says = p

Steps == <<"enable", "pid", "bridge", "script">>
Message(kind, value) == [kind |-> kind, value |-> value]
Lines == {i \in DOMAIN inbox : inbox[i].kind = "line"}

AttachInit ==
  /\ served \in [Ports -> Listeners]
  /\ at = "signal" /\ untried = {} /\ url = NoPort
  /\ peer = Nobody /\ expression = "enable" /\ pending = FALSE
  /\ inbox = <<>> /\ bridge = <<>>
  /\ overdue = FALSE /\ retryLate = FALSE
  /\ emitted = 0 /\ consumed = 0 /\ ran = {} /\ steady = {}

\* The call returns an error, and with it the session and the bridge are gone.
Fail ==
  /\ at' = "failed"
  /\ peer' = Nobody /\ pending' = FALSE /\ inbox' = <<>> /\ bridge' = <<>>
  /\ untried' = {} /\ url' = NoPort /\ steady' = {}
  /\ UNCHANGED <<served, expression, overdue, retryLate, emitted, consumed, ran>>

-----------------------------------------------------------------------------
(* Finding the inspector.                                                  *)

\* activate_node_inspector; the deadline of the discovery is set after it.
Signal ==
  /\ at = "signal"
  /\ \/ at' = "query" /\ UNCHANGED <<search, session, overdue>>
     \/ "failing" \in AttachHazards /\ Fail

\* lsof lists the ports of this process in an order of its own, each once, and
\* possibly none; any other result ends the discovery at once.
QueryPorts ==
  /\ at = "query"
  /\ \/ /\ untried' = {p \in Ports : served[p].owner = "target"}
        /\ steady' = {p \in Ports : served[p].owner = "target" /\ served[p].says \in Ports}
        /\ at' = "fetch"
        /\ UNCHANGED <<served, url, session, overdue>>
     \/ "failing" \in AttachHazards /\ Fail

\* An error ends the round, although other ports are left to be asked.
FetchUntilError ==
  /\ at = "fetch"
  /\ \E p \in untried :
       IF served[p].says \in Ports
         THEN url' = served[p].says /\ at' = "connect" /\ UNCHANGED untried
         ELSE /\ untried' = IF served[p].says = Silent THEN {} ELSE untried \ {p}
              /\ UNCHANGED <<url, at>>
  /\ UNCHANGED <<served, steady, session, overdue>>

\* A port that fails or names no url is passed over; the first url is taken.
Fetch ==
  /\ at = "fetch"
  /\ \E p \in untried :
       IF served[p].says \in Ports
         THEN url' = served[p].says /\ at' = "connect" /\ UNCHANGED untried
         ELSE untried' = untried \ {p} /\ UNCHANGED <<url, at>>
  /\ UNCHANGED <<served, steady, session, overdue>>

\* The deadline is looked at after each round, so there is always one.
EndRound ==
  /\ at = "fetch" /\ untried = {}
  /\ IF overdue THEN Fail
             ELSE at' = "query" /\ UNCHANGED <<search, session, overdue>>

\* The url is that of the moment it was read; who listens there is decided now.
Connect ==
  /\ at = "connect"
  /\ \/ /\ Inspects(url)
        /\ peer' = served[url].owner
        /\ at' = "call"
        /\ UNCHANGED <<search, expression, pending, inbox, bridge, overdue, retryLate,
                       emitted, consumed, ran>>
     \/ (~Inspects(url) \/ "failing" \in AttachHazards) /\ Fail

-----------------------------------------------------------------------------
(* The session.                                                            *)

\* call_method sends the request and sets its deadline; that of the retries
\* is set with the first evaluation of the pid.
CallMethod ==
  /\ at = "call"
  /\ at' = "wait" /\ pending' = TRUE /\ overdue' = FALSE
  /\ UNCHANGED <<search, peer, expression, inbox, bridge, retryLate, emitted, consumed, ran>>

Proceed ==
  LET step == CHOOSE i \in 1..Len(Steps) : Steps[i] = expression
  IN IF step = Len(Steps) THEN at' = "attached" /\ UNCHANGED expression
                          ELSE at' = "call" /\ expression' = Steps[step + 1]

\* Any pid will do.
VerifyDefined(result) == result \notin {"failed", "undefined"}

\* The pid is asked for again while it is undefined, and must then be that of
\* the target; every other result need only not be an error.
Verify(result) ==
  IF expression # "pid" THEN result = "ok" ELSE result = "target"

UseReply(result) ==
  /\ inbox' = Tail(inbox)
  /\ Proceed
  /\ UNCHANGED <<search, overdue, peer, pending, bridge, retryLate, emitted, consumed, ran>>

RetryPid ==
  /\ inbox' = Tail(inbox) /\ at' = "call"
  /\ UNCHANGED <<search, overdue, peer, expression, pending, bridge, retryLate,
                 emitted, consumed, ran>>

Answered(result) ==
  IF Verify(result) THEN UseReply(result)
  ELSE IF expression = "pid" /\ result = "undefined" /\ ~retryLate THEN RetryPid
  ELSE Fail

\* What arrives before the worker reads is dropped.
PassOnWhenAttached(message) ==
  /\ IF message.kind = "line" /\ at = "attached"
       THEN Len(bridge) < Room /\ bridge' = Append(bridge, message.value)
       ELSE UNCHANGED bridge
  /\ inbox' = Tail(inbox)
  /\ UNCHANGED <<search, overdue, at, peer, expression, pending, retryLate, emitted, consumed, ran>>

\* Whatever is not the answer is looked through for a line of the probe.
PassOn(message) ==
  /\ IF message.kind = "line"
       THEN Len(bridge) < Room /\ bridge' = Append(bridge, message.value)
       ELSE UNCHANGED bridge
  /\ inbox' = Tail(inbox)
  /\ UNCHANGED <<search, overdue, at, peer, expression, pending, retryLate, emitted, consumed, ran>>

\* Writing to the bridge has no deadline, and before the call returns nobody
\* reads from it: into a full one the call writes for ever.
Block == at' = "blocked" /\ UNCHANGED <<search, overdue, session>>

Use(message) ==
  IF message.kind = "reply" THEN Answered(message.value)
  ELSE IF message.kind = "line" /\ Len(bridge) = Room THEN Block
  ELSE PassOn(message)

\* The deadline is looked at only when there is nothing to read.
WaitForSilence ==
  /\ at = "wait"
  /\ IF inbox # <<>>
       THEN Use(Head(inbox))
       ELSE overdue /\ Fail

\* wait_for_response looks at its deadline before each message.
WaitForResponse ==
  /\ at = "wait"
  /\ IF overdue THEN Fail
     ELSE inbox # <<>> /\ Use(Head(inbox))

\* The worker goes on reading the same session for the caller.
WorkerReads ==
  /\ at = "attached" /\ inbox # <<>>
  /\ PassOn(Head(inbox))

\* A message cannot be read, the line cannot be written, or the peer has gone.
AttachBreaks ==
  /\ "failing" \in AttachHazards
  /\ at \in {"call", "wait"}
  /\ Fail

-----------------------------------------------------------------------------
(* The target and its surroundings.                                        *)

Say(message) ==
  /\ peer # Nobody /\ Len(inbox) < MaxQueue
  /\ inbox' = Append(inbox, message)

\* Console output of the target, pings, notifications of the runtime.
MakeNoise ==
  /\ Say(Message("noise", 0))
  /\ UNCHANGED <<search, at, overdue, peer, expression, pending, bridge, retryLate,
                 emitted, consumed, ran>>

\* The console is reported once the runtime is enabled; an earlier probe may
\* be at work before this call has evaluated its own.
EmitLine ==
  /\ <<peer, "enable">> \in ran /\ emitted < MaxLines
  /\ emitted' = emitted + 1
  /\ Say(Message("line", emitted'))
  /\ UNCHANGED <<search, at, overdue, peer, expression, pending, bridge, retryLate,
                 consumed, ran>>

Results == IF expression = "pid" THEN {"undefined", peer} ELSE {"ok"}

Evaluate ==
  /\ pending
  /\ \E result \in Results \cup (IF "failing" \in AttachHazards THEN {"failed"} ELSE {}) :
       inbox' = Append(inbox, Message("reply", result))
  /\ pending' = FALSE
  /\ ran' = ran \cup {<<peer, expression>>}
  /\ UNCHANGED <<search, at, overdue, peer, expression, bridge, retryLate, emitted, consumed>>

\* The ports are not looked at any more once the session is open.
MovePort(p) ==
  /\ at \in {"query", "fetch", "connect"}
  /\ "moving" \in AttachHazards
  /\ IF served[p] = Free THEN \E l \in Listeners \ {Free} : served' = [served EXCEPT ![p] = l]
                         ELSE served' = [served EXCEPT ![p] = Free]
  /\ steady' = steady \ {p}
  /\ UNCHANGED <<at, untried, url, session, overdue>>

PassDeadline ==
  /\ at \in {"query", "fetch", "wait"} /\ ~overdue
  /\ overdue' = TRUE
  /\ UNCHANGED <<search, at, session>>

PassRetryDeadline ==
  /\ expression = "pid" /\ at \in {"call", "wait"} /\ ~retryLate
  /\ retryLate' = TRUE
  /\ UNCHANGED <<search, at, overdue, peer, expression, pending, inbox, bridge,
                 emitted, consumed, ran>>

\* The caller reads the bridge once it has been given its reader.
ReadBridge ==
  /\ at = "attached" /\ bridge # <<>>
  /\ consumed' = Head(bridge) /\ bridge' = Tail(bridge)
  /\ UNCHANGED <<search, at, overdue, peer, expression, pending, inbox, retryLate, emitted, ran>>

Attach == Signal \/ QueryPorts \/ Fetch \/ EndRound \/ Connect \/ CallMethod \/ WaitForResponse

AttachNext ==
  \/ Attach \/ WorkerReads \/ AttachBreaks \/ ReadBridge
  \/ MakeNoise \/ EmitLine \/ Evaluate
  \/ PassDeadline \/ PassRetryDeadline
  \/ \E p \in Ports : MovePort(p)

AttachSpec == AttachInit /\ [][AttachNext]_attachVars

\* The call runs in a plain thread, and time passes.  Nothing is assumed of
\* the target, of who else listens, or of the caller.
FairAttachSpec ==
  /\ AttachSpec
  /\ WF_attachVars(Attach)
  /\ WF_attachVars(PassDeadline)
  /\ WF_attachVars(PassRetryDeadline)

-----------------------------------------------------------------------------

\* Whoever has come to listen on a port since lsof listed it, and whatever url
\* a listener of the target names: neither the bridge nor the probe is
\* evaluated in another process (inject_probe; design.md 7.2).
ScriptOnlyInTarget == {<<"other", "bridge">>, <<"other", "script">>} \cap ran = {}

\* While evaluations are awaited and their answers picked out, no line of the
\* probe is lost, repeated or moved: the caller gets all of them, in order
\* (wait_for_response, forward_console_ipc, run_worker_loop).
LinesArriveInOrder ==
  LET passedOn == consumed + Len(bridge)
  IN peer # Nobody =>
       /\ passedOn <= emitted
       /\ \A i \in DOMAIN bridge : bridge[i] = consumed + i
       /\ {inbox[i].value : i \in Lines} = (passedOn + 1)..emitted
       /\ \A i, j \in Lines : i < j => inbox[i].value < inbox[j].value

\* A round over the ports ends without a url only if none of the listed ports
\* had one to offer the whole time: a port that hangs or answers something
\* else hides no other (pick_debugger_url_from_candidates).
OnePortHidesNoOther ==
  [][at = "fetch" /\ at' \in {"query", "failed"} => steady = {}]_attachVars

\* The call ends, whatever the ports answer and however much the session says
\* without answering (discover_websocket_debugger_url, wait_for_response,
\* resolve_process_pid_with_retry): it gives its caller the bridge, or an error.
\* Only the probe's own lines can keep it, once they have filled the bridge that
\* nobody reads before the call has returned (write_line has no deadline).
AttachEnds ==
  <>(\/ at \in {"attached", "failed"}
     \/ at = "blocked" /\ Len(bridge) = Room /\ Room < emitted)
=============================================================================
