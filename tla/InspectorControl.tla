-------------------------- MODULE InspectorControl --------------------------
(***************************************************************************)
(* The inspector runtime: threads of the host inject the probe into one    *)
(* target process and detach it again.  Each injection leaves a worker     *)
(* thread that owns the inspector session; the newest is in the map of     *)
(* active controls.  Workers are commanded through a channel, answer each  *)
(* detach request through a channel of its own, and end when told to, when *)
(* their channel is closed, when the target acknowledges a detach, or when *)
(* the session breaks.                                                     *)
(***************************************************************************)
EXTENDS ProbeHooks, Sequences, FiniteSets

CONSTANTS
  Callers,      \* threads that call inject_probe and send_detach_signal
  MaxDetaches,  \* bound on the detach requests
  Hazards       \* what may go wrong

HazardNames == {"lost",     \* a session breaks
                "slow",     \* the target answers after the deadline
                "overlap"}  \* a detach call overlaps an injection

ASSUME MaxDetachesAssumption == MaxDetaches \in Nat
ASSUME HazardsAssumption == Hazards \subseteq HazardNames

VARIABLES
  control,   \* active_controls()[pid]: a worker, or none
  loop,      \* worker -> "none", "running", "evaluating", "leaving", "gone"
  commands,  \* worker -> its command channel
  grace,     \* worker -> whether its detach deadline is set
  acked,     \* workers with an unread detach_ack in their session
  blocked,   \* workers that write to a bridge which is full
  late,      \* evaluations given up that the target has yet to run
  requests,  \* how many detach requests were sent
  reply,     \* request -> "none", "ok", "failed"
  pc,        \* caller -> what it does next
  holds,     \* caller -> the worker it holds
  joins,     \* caller -> the worker it has replaced
  awaits     \* caller -> the request it waits for

workers == <<loop, commands, grace, acked, blocked, late>>
callers == <<pc, holds, joins, awaits>>
vars == <<injected, fetch, original, installed, detach, floor,
          control, loop, commands, grace, acked, blocked, late, requests, reply,
          pc, holds, joins, awaits>>

Workers == Probes     \* injection n leaves worker n
NoWorker == 0
Requests == 1..MaxDetaches
Stop == 0             \* a command; the others are requests

Serving == {w \in Workers : loop[w] \in {"running", "evaluating"}}
Injecting == {"insert", "stop", "join"}
Detaching == {"send", "reply", "remove"}

\* The Arc of a worker is held by the map and by the calls that use it.
Referenced(w) == control = w \/ \E c \in Callers : holds[c] = w \/ joins[c] = w

MayBegin(other) == "overlap" \in Hazards \/ \A c \in Callers : pc[c] \notin other

Init ==
  /\ InitTarget
  /\ control = NoWorker
  /\ loop = [w \in Workers |-> "none"]
  /\ commands = [w \in Workers |-> <<>>]
  /\ grace = [w \in Workers |-> FALSE]
  /\ acked = {} /\ blocked = {} /\ late = 0
  /\ requests = 0 /\ reply = [r \in Requests |-> "none"]
  /\ pc = [c \in Callers |-> "idle"]
  /\ holds = [c \in Callers |-> NoWorker]
  /\ joins = [c \in Callers |-> NoWorker]
  /\ awaits = [c \in Callers |-> 0]

-----------------------------------------------------------------------------
(* inject_probe.                                                           *)

Goto(c, label) == pc' = [pc EXCEPT ![c] = label]

Return(c) ==
  /\ Goto(c, "idle")
  /\ holds' = [holds EXCEPT ![c] = NoWorker]
  /\ joins' = [joins EXCEPT ![c] = NoWorker]

\* The session is open and the script has run: a worker is spawned that is
\* not in the map yet.
Inject(c) ==
  /\ pc[c] = "idle" /\ MayBegin(Detaching)
  /\ Bootstrap
  /\ loop' = [loop EXCEPT ![injected'] = "running"]
  /\ holds' = [holds EXCEPT ![c] = injected']
  /\ Goto(c, "insert")
  /\ UNCHANGED <<control, commands, grace, acked, late, requests, reply, joins, awaits>>

\* The answer to the script comes too late, or not at all: there is a probe,
\* and no worker.
InjectionFails(c) ==
  /\ "slow" \in Hazards \/ "lost" \in Hazards
  /\ pc[c] = "idle" /\ MayBegin(Detaching)
  /\ Bootstrap
  /\ loop' = [loop EXCEPT ![injected'] = "gone"]
  /\ UNCHANGED <<control, commands, grace, acked, late, requests, reply, callers>>

Insert(c) ==
  /\ pc[c] = "insert"
  /\ control' = holds[c]
  /\ IF control = NoWorker
       THEN Return(c)
       ELSE Goto(c, "stop") /\ joins' = [joins EXCEPT ![c] = control] /\ UNCHANGED holds
  /\ UNCHANGED <<target, workers, requests, reply, awaits>>

Send(w, command) ==
  commands' = IF w \in Serving THEN [commands EXCEPT ![w] = Append(@, command)]
                               ELSE commands

StopUnsent(c) ==
  /\ pc[c] = "stop"
  /\ Goto(c, "join")
  /\ UNCHANGED <<target, control, workers, requests, reply, holds, joins, awaits>>

StopReplaced(c) ==
  /\ pc[c] = "stop"
  /\ Send(joins[c], Stop)
  /\ Goto(c, "join")
  /\ UNCHANGED <<target, control, loop, grace, acked, late, requests, reply,
                 holds, joins, awaits>>

Join(c) ==
  /\ pc[c] = "join"
  /\ loop[joins[c]] = "gone"
  /\ Return(c)
  /\ UNCHANGED <<target, control, workers, requests, reply, awaits>>

-----------------------------------------------------------------------------
(* send_detach_signal.                                                     *)

Detach(c) ==
  /\ pc[c] = "idle" /\ MayBegin(Injecting)
  /\ control # NoWorker /\ requests < MaxDetaches
  /\ holds' = [holds EXCEPT ![c] = control]
  /\ requests' = requests + 1
  /\ awaits' = [awaits EXCEPT ![c] = requests']
  /\ Goto(c, "send")
  /\ UNCHANGED <<target, control, workers, reply, joins>>

\* A channel whose worker has left its loop refuses the command.
RequestDetach(c) ==
  /\ pc[c] = "send"
  /\ IF holds[c] \in Serving
       THEN Send(holds[c], awaits[c]) /\ Goto(c, "reply") /\ UNCHANGED <<holds, joins>>
       ELSE Return(c) /\ UNCHANGED commands
  /\ UNCHANGED <<target, control, loop, grace, acked, late, requests, reply, awaits>>

GetReply(c) ==
  /\ pc[c] = "reply"
  /\ \/ reply[awaits[c]] = "ok" /\ Goto(c, "remove") /\ UNCHANGED <<holds, joins>>
     \/ reply[awaits[c]] = "failed" /\ Return(c)
     \/ /\ "slow" \in Hazards \/ holds[c] \in blocked
        /\ reply[awaits[c]] = "none"
        /\ Return(c)
  /\ UNCHANGED <<target, control, workers, requests, reply, awaits>>

\* Whatever the map holds by now is removed.
RemoveControl(c) ==
  /\ pc[c] = "remove"
  /\ control' = NoWorker
  /\ Return(c)
  /\ UNCHANGED <<target, workers, requests, reply, awaits>>

-----------------------------------------------------------------------------
(* run_worker_loop.                                                        *)

\* The loop is left; the commands still in the channel are dropped with the
\* channels their answers were to come through.
Leave(w) ==
  /\ loop' = [loop EXCEPT ![w] = "leaving"]
  /\ commands' = [commands EXCEPT ![w] = <<>>]
  /\ reply' = [r \in Requests |->
                 IF \E i \in 1..Len(commands[w]) : commands[w][i] = r
                   THEN "failed" ELSE reply[r]]
  /\ acked' = acked \ {w}
  /\ UNCHANGED <<target, control, grace, late, requests, callers>>

TakeStop(w) ==
  /\ loop[w] = "running" /\ commands[w] # <<>> /\ Head(commands[w]) = Stop
  /\ Leave(w)

TakeDetach(w) ==
  /\ loop[w] = "running" /\ commands[w] # <<>> /\ Head(commands[w]) # Stop
  /\ loop' = [loop EXCEPT ![w] = "evaluating"]
  /\ UNCHANGED <<target, control, commands, grace, acked, late, requests, reply, callers>>

\* The evaluation has ended; its request is still at the head of commands.
Evaluated(w, outcome) ==
  /\ loop[w] = "evaluating"
  /\ loop' = [loop EXCEPT ![w] = "running"]
  /\ commands' = [commands EXCEPT ![w] = Tail(@)]
  /\ reply' = [reply EXCEPT ![Head(commands[w])] = outcome]
  /\ UNCHANGED <<control, requests, callers>>

\* The acknowledgement is logged to the console of the target, so that every
\* open session gets it; one that waits for a response forwards and forgets it.
Acknowledge == acked' = acked \cup {w \in Workers : loop[w] = "running"}

EvaluateDetach(w) ==
  /\ IF detach # NoFunction
       THEN /\ TriggerDetach /\ Acknowledge
            /\ Evaluated(w, "ok")
            /\ grace' = [grace EXCEPT ![w] = TRUE]
       ELSE Evaluated(w, "failed") /\ UNCHANGED <<target, acked, grace>>
  /\ UNCHANGED late

EvaluationFails(w) ==
  /\ \/ "slow" \in Hazards /\ late' = late + 1
     \/ "lost" \in Hazards /\ late' = late
  /\ Evaluated(w, "failed")
  /\ UNCHANGED <<target, grace, acked>>

\* A detach line reaches the target's stdin, if it still reads it.
ListenersDetach ==
  /\ StdinDetach /\ Acknowledge
  /\ UNCHANGED <<control, loop, commands, grace, late, requests, reply, callers>>

LateEvaluation ==
  /\ late > 0
  /\ late' = late - 1
  /\ IF detach # NoFunction
       THEN TriggerDetach /\ Acknowledge
       ELSE UNCHANGED <<target, acked>>
  /\ UNCHANGED <<control, loop, commands, grace, requests, reply, callers>>

GraceEnds(w) == loop[w] = "running" /\ grace[w] /\ Leave(w)

ReadAck(w) == loop[w] = "running" /\ w \in acked /\ Leave(w)

SessionBreaks(w) == "lost" \in Hazards /\ loop[w] = "running" /\ Leave(w)

\* Nobody holds the sender, and its channel is empty.
ChannelCloses(w) ==
  /\ loop[w] = "running" /\ commands[w] = <<>> /\ ~Referenced(w)
  /\ Leave(w)

CleanUpAny(w) ==
  /\ loop[w] = "leaving"
  /\ loop' = [loop EXCEPT ![w] = "gone"]
  /\ control' = NoWorker
  /\ UNCHANGED <<target, commands, grace, acked, late, requests, reply, callers>>

\* remove_active_control_if_matches, and the end of the thread.
CleanUp(w) ==
  /\ loop[w] = "leaving"
  /\ loop' = [loop EXCEPT ![w] = "gone"]
  /\ control' = IF control = w THEN NoWorker ELSE control
  /\ UNCHANGED <<target, commands, grace, acked, late, requests, reply, callers>>

\* A line is written to a bridge that nobody reads: there is no deadline.
WriteBlocks(w) ==
  /\ w \in Serving \ blocked
  /\ blocked' = blocked \cup {w}
  /\ UNCHANGED <<target, control, loop, commands, grace, acked, late, requests, reply, callers>>

\* The reader goes on, or is dropped and the write fails.
WriteGoesOn(w) ==
  /\ w \in blocked
  /\ blocked' = blocked \ {w}
  /\ UNCHANGED <<target, control, loop, commands, grace, acked, late, requests, reply, callers>>

-----------------------------------------------------------------------------

Call(c) ==
  /\ UNCHANGED blocked
  /\ \/ Insert(c) \/ StopReplaced(c) \/ Join(c)
     \/ RequestDetach(c) \/ GetReply(c) \/ RemoveControl(c)

WorkUntilAck(w) ==
  /\ w \notin blocked /\ UNCHANGED blocked
  /\ \/ TakeStop(w) \/ TakeDetach(w) \/ EvaluateDetach(w) \/ EvaluationFails(w)
     \/ ReadAck(w) \/ ChannelCloses(w) \/ CleanUp(w)

\* The steps of a worker that is not held up by its bridge.
Work(w) ==
  /\ w \notin blocked /\ UNCHANGED blocked
  /\ \/ TakeStop(w) \/ TakeDetach(w) \/ EvaluateDetach(w) \/ EvaluationFails(w)
     \/ GraceEnds(w) \/ ReadAck(w) \/ ChannelCloses(w) \/ CleanUp(w)

Begin(c) == UNCHANGED blocked /\ (Inject(c) \/ InjectionFails(c) \/ Detach(c))

Breaks(w) == w \notin blocked /\ UNCHANGED blocked /\ SessionBreaks(w)

Target == UNCHANGED blocked /\ (LateEvaluation \/ ListenersDetach)

Next ==
  \/ \E c \in Callers : Begin(c) \/ Call(c)
  \/ \E w \in Workers : Work(w) \/ Breaks(w) \/ WriteBlocks(w) \/ WriteGoesOn(w)
  \/ Target

Spec == Init /\ [][Next]_vars

\* Threads run.  A worker that is not blocked comes back to the head of its
\* loop, where commands and deadlines are looked at, before it can write again,
\* so it acts in the end even if its bridge holds it up again and again.  A
\* bridge may stay full, a session may stay open and an evaluation given up may
\* never be run.
FairSpec ==
  /\ Spec
  /\ \A c \in Callers : WF_vars(Call(c))
  /\ \A w \in Workers : SF_vars(Work(w))

-----------------------------------------------------------------------------
(* Properties.                                                             *)

Dismissed(w) ==
  \/ grace[w] \/ w \in acked
  \/ \E i \in 1..Len(commands[w]) : commands[w][i] = Stop
  \/ \E c \in Callers : joins[c] = w

\* A worker that serves, that no detach and no newer injection has dismissed
\* and whose injection has returned is the one in the map, so that a detach
\* which failed can be tried again.
LiveControlIsReachable ==
  \A w \in Serving :
    Dismissed(w) \/ control = w \/ \E c \in Callers : pc[c] = "insert" /\ holds[c] = w

BridgeIsRead(w) == []<>(w \notin blocked)

\* Every detach call returns, also from a worker that writes to a full bridge
\* for ever (recv_timeout).  An injection waits for the worker it has replaced
\* without a deadline (request_stop_and_join): it returns if no bridge stays
\* full.
CallsReturn ==
  \A c \in Callers :
    /\ pc[c] \in Detaching ~> pc[c] = "idle"
    /\ (\A w \in Workers : BridgeIsRead(w)) => (pc[c] # "idle" ~> pc[c] = "idle")

\* A worker whose detach the target has confirmed ends, though the
\* acknowledgement was read, and forgotten, while the response was awaited,
\* and though the caller may have given up and left it in the map; only a
\* bridge that stays full can keep it (run_worker_loop, write_line).
DetachedWorkerEnds ==
  \A w \in Workers : BridgeIsRead(w) => (grace[w] ~> loop[w] = "gone")
=============================================================================
