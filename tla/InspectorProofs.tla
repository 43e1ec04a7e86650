-------------------------- MODULE InspectorProofs --------------------------
(***************************************************************************)
(* What holds of the hooks in a target, and of the map through which its   *)
(* workers are reached, for any number of injections, detach requests and  *)
(* callers, and whatever goes wrong with sessions and evaluations; where   *)
(* an injection evaluates its expressions, what becomes of the lines that  *)
(* the probe emits meanwhile, and when a port is given up, for any number  *)
(* of ports, lines and messages, and whatever moves or fails.              *)
(***************************************************************************)
EXTENDS MCInspector, TLAPS

TargetOK ==
  /\ injected \in 0..MaxProbes
  /\ installed \subseteq 1..injected
  /\ original \in [Probes -> 0..injected]
  /\ fetch \in installed \cup {floor}
  /\ detach # NoFunction => detach = fetch /\ fetch \in installed
  /\ floor \in 0..injected
  /\ \A p \in installed : floor < p

\* The newest wrapper is the outermost, and each one wraps the next older.
NewestOutermost == \A p \in installed : p <= fetch
WrapsNextOlder == \A p, q \in installed : q < p => q <= original[p]

ChainInv == TargetOK /\ NewestOutermost /\ WrapsNextOlder /\ HookChainIntact

Wrapped == {original[p] : p \in installed}

LEMMA BootstrapChain == ChainInv /\ Bootstrap => ChainInv'
<1> SUFFICES ASSUME ChainInv, Bootstrap PROVE ChainInv'
  OBVIOUS
<1> USE MaxProbesAssumption DEF Probes, Native, NoFunction
<1> DEFINE n == injected + 1
<1>1. /\ injected \in Nat /\ n \in Probes /\ n \notin installed /\ n > fetch
      /\ injected' = n /\ fetch' = n /\ detach' = n
      /\ installed' = installed \cup {n}
      /\ original' = [original EXCEPT ![n] = fetch]
      /\ floor' = floor /\ floor \in 0..injected
  BY DEF ChainInv, TargetOK, Bootstrap
<1>2. /\ original \in [Probes -> 0..injected]
      /\ original'[n] = fetch
      /\ \A p \in installed : p \in Probes /\ original'[p] = original[p]
  BY <1>1 DEF ChainInv, TargetOK
<1>3. TargetOK'
  <2>1. fetch \in 0..n /\ \A p \in Probes : original[p] \in 0..n
    BY <1>1, <1>2 DEF ChainInv, TargetOK
  <2>2. original' \in [Probes -> 0..injected']
    BY <1>1, <1>2, <2>1
  <2>3. injected' \in 0..MaxProbes /\ installed' \subseteq 1..injected'
    BY <1>1 DEF ChainInv, TargetOK
  <2>4. floor' \in 0..injected' /\ \A p \in installed' : floor' < p
    BY <1>1 DEF ChainInv, TargetOK
  <2> QED
    BY <1>1, <2>2, <2>3, <2>4 DEF TargetOK
<1>4. NewestOutermost' /\ WrapsNextOlder'
  <2>1. \A p \in installed : p < n /\ p <= fetch
    BY <1>1 DEF ChainInv, TargetOK, NewestOutermost
  <2> QED
    BY <1>1, <1>2, <2>1 DEF ChainInv, TargetOK, NewestOutermost, WrapsNextOlder
<1>5. HookChainIntact'
  <2>1. Wrapped' = Wrapped \cup {fetch}
    BY <1>1, <1>2 DEF Wrapped
  <2>2. Wrapped' = installed \cup {floor}
    BY <2>1 DEF ChainInv, HookChainIntact, Wrapped
  <2>3. {fetch'} \cup Wrapped' = installed' \cup {floor'} /\ floor' \notin installed'
    BY <1>1, <2>2 DEF ChainInv, HookChainIntact
  <2>4. \A p \in installed' : original'[p] < p
    BY <1>1, <1>2 DEF ChainInv, HookChainIntact
  <2> QED
    BY <2>3, <2>4 DEF HookChainIntact, Wrapped
<1> QED
  BY <1>3, <1>4, <1>5 DEF ChainInv

LEMMA TriggerDetachChain ==
  ChainInv /\ detach # NoFunction /\ TriggerDetach => ChainInv'
<1> SUFFICES ASSUME ChainInv, detach # NoFunction, TriggerDetach PROVE ChainInv'
  OBVIOUS
<1> USE MaxProbesAssumption DEF Probes, Native, NoFunction
<1>1. /\ detach = fetch /\ fetch \in installed /\ fetch \in Probes /\ fetch # floor
      /\ floor' = floor /\ injected' = injected /\ fetch' = original[fetch] /\ detach' = NoFunction
      /\ installed' = installed \ {fetch}
      /\ original' = [original EXCEPT ![fetch] = Native]
  <2>1. detach = fetch /\ fetch \in installed
    BY DEF ChainInv, TargetOK
  <2>2. fetch \in Probes /\ fetch # floor
    BY <2>1 DEF ChainInv, TargetOK, HookChainIntact
  <2> QED
    BY <2>1, <2>2 DEF TriggerDetach
<1>2. /\ original \in [Probes -> 0..injected]
      /\ \A p \in installed' : p \in Probes /\ original'[p] = original[p]
  BY <1>1 DEF ChainInv, TargetOK
<1>3. fetch \notin Wrapped
  <2>1. \A p \in installed : p \in Nat /\ original[p] \in Nat /\ p <= fetch /\ original[p] < p
    BY <1>2 DEF ChainInv, TargetOK, NewestOutermost, HookChainIntact
  <2> QED
    BY <1>1, <2>1 DEF Wrapped
<1>4. Wrapped = (installed \cup {floor}) \ {fetch}
  BY <1>1, <1>3 DEF ChainInv, HookChainIntact, Wrapped
<1>5. TargetOK'
  <2>1. original[fetch] \in Wrapped
    BY <1>1 DEF Wrapped
  <2>2. fetch' \in installed' \cup {floor'}
    BY <1>1, <1>4, <2>1
  <2>3. original' \in [Probes -> 0..injected']
    BY <1>1, <1>2 DEF ChainInv, TargetOK
  <2> QED
    BY <1>1, <2>2, <2>3 DEF ChainInv, TargetOK
<1>6. NewestOutermost' /\ WrapsNextOlder'
  <2>1. \A p \in installed' : p \in installed /\ p < fetch
    BY <1>1 DEF ChainInv, TargetOK, NewestOutermost
  <2> QED
    BY <1>1, <1>2, <2>1 DEF ChainInv, NewestOutermost, WrapsNextOlder
<1>7. HookChainIntact'
  <2>1. {fetch'} \cup Wrapped' = Wrapped
    BY <1>1, <1>2 DEF Wrapped
  <2>2. {fetch'} \cup Wrapped' = installed' \cup {floor'} /\ floor' \notin installed'
    BY <1>1, <1>4, <2>1 DEF ChainInv, HookChainIntact
  <2>3. \A p \in installed' : original'[p] < p
    BY <1>1, <1>2 DEF ChainInv, HookChainIntact
  <2> QED
    BY <2>2, <2>3 DEF HookChainIntact, Wrapped
<1> QED
  BY <1>5, <1>6, <1>7 DEF ChainInv

\* The newest hook is removed last, and what it had wrapped becomes the floor.
LEMMA StdinDetachChain == ChainInv /\ StdinDetach => ChainInv'
<1> SUFFICES ASSUME ChainInv, StdinDetach PROVE ChainInv'
  OBVIOUS
<1> USE MaxProbesAssumption DEF Probes, Native, NoFunction
<1> DEFINE newest == CHOOSE p \in installed : \A q \in installed : q <= p
<1>1. /\ injected' = injected /\ installed' = {} /\ detach' = NoFunction
      /\ original' = [p \in Probes |-> Native]
      /\ fetch' = IF installed = {} THEN fetch ELSE original[newest]
      /\ floor' = IF \E p, q \in installed : p # q THEN fetch' ELSE floor
  BY DEF StdinDetach
<1>2. \A p \in installed : /\ p \in Probes /\ p <= fetch /\ floor < p
                         /\ original[p] \in 0..injected /\ original[p] < p
  BY DEF ChainInv, TargetOK, NewestOutermost, HookChainIntact
<1>3. floor \in 0..injected /\ fetch \in installed \cup {floor} /\ injected \in Nat
  BY DEF ChainInv, TargetOK
<1>4. installed # {} => fetch \in installed /\ newest = fetch
  <2> SUFFICES ASSUME NEW p \in installed PROVE fetch \in installed /\ newest = fetch
    OBVIOUS
  <2>1. fetch # floor
    BY <1>2, <1>3
  <2>2. fetch \in installed /\ \A q \in installed : q <= fetch
    BY <1>2, <1>3, <2>1
  <2>3. newest \in installed /\ \A q \in installed : q <= newest
    BY <2>2
  <2>4. newest <= fetch /\ fetch <= newest /\ newest \in Nat /\ fetch \in Nat
    BY <1>2, <2>2, <2>3
  <2> QED
    BY <2>2, <2>4
<1> HIDE DEF newest
<1>5. fetch' = floor' /\ floor' \in 0..injected
  <2>1. CASE installed = {}
    BY <1>1, <1>3, <2>1
  <2>2. CASE \E p, q \in installed : p # q
    BY <1>1, <1>2, <1>4, <2>2
  <2>3. CASE installed # {} /\ ~ \E p, q \in installed : p # q
    <3>1. installed = {fetch} /\ fetch' = original[fetch] /\ floor' = floor
      BY <1>1, <1>4, <2>3
    <3>2. {fetch} \cup {original[p] : p \in installed} = installed \cup {floor} /\ floor # fetch
      BY <1>2, <1>4, <2>3 DEF ChainInv, HookChainIntact
    <3>3. {original[p] : p \in installed} = {original[fetch]}
      BY <3>1
    <3>4. original[fetch] = floor
      BY <3>1, <3>2, <3>3
    <3> QED
      BY <1>3, <3>1, <3>4
  <2> QED
    BY <2>1, <2>2, <2>3
<1>6. TargetOK'
  <2>1. original' \in [Probes -> 0..injected']
    BY <1>1, <1>3
  <2>2. injected' \in 0..MaxProbes
    BY <1>1 DEF ChainInv, TargetOK
  <2> QED
    BY <1>1, <1>5, <2>1, <2>2 DEF TargetOK
<1>7. HookChainIntact'
  <2>1. {original'[p] : p \in installed'} = {}
    BY <1>1
  <2> QED
    BY <1>1, <1>5, <2>1 DEF HookChainIntact
<1> QED
  BY <1>1, <1>6, <1>7 DEF ChainInv, NewestOutermost, WrapsNextOlder

LEMMA SameTarget == ChainInv /\ UNCHANGED target => ChainInv'
  BY DEF ChainInv, TargetOK, NewestOutermost, WrapsNextOlder, HookChainIntact, target

\* The hooks of a target form one chain in every state of every run, from the
\* newest wrapper installed down to the floor: however callers, workers, broken
\* sessions, late evaluations and detach lines on stdin interleave, a detach
\* through the global function unhooks exactly the newest probe, and only a line
\* on stdin that meets several probes leaves a wrapper behind as the floor.
THEOREM HookChain == Spec => []HookChainIntact
<1>1. Init => ChainInv
  BY MaxProbesAssumption
     DEF Init, InitTarget, ChainInv, TargetOK, NewestOutermost, WrapsNextOlder,
         HookChainIntact, Probes, Native, NoFunction
<1>2. ChainInv /\ [Next]_vars => ChainInv'
  <2> SUFFICES ASSUME ChainInv, [Next]_vars PROVE ChainInv'
    OBVIOUS
  <2>1. ASSUME NEW c \in Callers, Inject(c) \/ InjectionFails(c) PROVE ChainInv'
    BY <2>1, BootstrapChain DEF Inject, InjectionFails
  <2>2. ASSUME NEW c \in Callers, Detach(c) \/ Call(c) PROVE ChainInv'
    BY <2>2, SameTarget
       DEF Detach, Call, Insert, StopReplaced, Join, RequestDetach, GetReply, RemoveControl
  <2>3. ASSUME NEW w \in Workers, EvaluateDetach(w) PROVE ChainInv'
    BY <2>3, TriggerDetachChain, SameTarget DEF EvaluateDetach
  <2>4. ASSUME NEW w \in Workers,
               Work(w) \/ Breaks(w) \/ WriteBlocks(w) \/ WriteGoesOn(w), ~EvaluateDetach(w)
        PROVE ChainInv'
    BY <2>4, SameTarget
       DEF Work, Breaks, WriteBlocks, WriteGoesOn, SessionBreaks, TakeStop, TakeDetach,
           EvaluationFails, GraceEnds, ReadAck, ChannelCloses, CleanUp, Leave
  <2>5. CASE Target
    BY <2>5, TriggerDetachChain, StdinDetachChain, SameTarget
       DEF Target, LateEvaluation, ListenersDetach
  <2>6. CASE UNCHANGED vars
    BY <2>6, SameTarget DEF vars, target
  <2> QED
    BY <2>1, <2>2, <2>3, <2>4, <2>5, <2>6 DEF Next, Begin
<1>3. ChainInv => HookChainIntact
  BY DEF ChainInv
<1> QED
  BY <1>1, <1>2, <1>3, PTL DEF Spec

-----------------------------------------------------------------------------
(* The map of active controls, as long as detach calls and injections do   *)
(* not overlap.                                                            *)

InChannel(w) == {commands[w][i] : i \in 1..Len(commands[w])}

ControlOK ==
  /\ injected \in 0..MaxProbes
  /\ control \in Workers \cup {NoWorker}
  /\ loop \in [Workers -> {"none", "running", "evaluating", "leaving", "gone"}]
  /\ grace \in [Workers -> BOOLEAN]
  /\ commands \in [Workers -> Seq(Nat)]
  /\ requests \in 0..MaxDetaches /\ reply \in [Requests -> {"none", "ok", "failed"}]
  /\ pc \in [Callers -> {"idle"} \cup Injecting \cup Detaching]
  /\ holds \in [Callers -> Workers \cup {NoWorker}]
  /\ joins \in [Callers -> Workers \cup {NoWorker}]
  /\ awaits \in [Callers -> 0..MaxDetaches]

OneAtATime == \A c, d \in Callers : pc[c] \in Injecting => pc[d] \notin Detaching

JoinsOnlyReplaced == \A c \in Callers : pc[c] \notin {"stop", "join"} => joins[c] = NoWorker

\* Nothing takes the place of a worker while it is asked to detach, and each
\* request is that of one call.
DetachesOK ==
  /\ \A c \in Callers : pc[c] \in Detaching =>
       awaits[c] \in 1..requests /\ holds[c] \in Workers /\ control \in {holds[c], NoWorker}
  /\ \A c, d \in Callers :
       pc[c] \in Detaching /\ pc[d] \in Detaching /\ awaits[c] = awaits[d] => c = d
  /\ \A r \in Requests : r > requests => reply[r] = "none"

\* A request is in the channel of the worker that its call holds, and it is at
\* the head of the channel while it is evaluated.
CommandsOK ==
  \A w \in Workers :
    /\ \A x \in InChannel(w) :
         /\ x \in 0..requests
         /\ \A c \in Callers : pc[c] \in Detaching /\ x = awaits[c] => holds[c] = w
    /\ loop[w] = "evaluating" => commands[w] # <<>> /\ Head(commands[w]) # Stop

\* A call that got its confirmation has dismissed the worker it holds.
ConfirmedIsDismissed ==
  \A c \in Callers :
    pc[c] \in Detaching /\ (pc[c] = "remove" \/ reply[awaits[c]] = "ok") => grace[holds[c]]

ControlInv ==
  /\ ControlOK /\ OneAtATime /\ JoinsOnlyReplaced /\ DetachesOK /\ CommandsOK
  /\ ConfirmedIsDismissed /\ LiveControlIsReachable

\* A request that is sent is the last in its channel.
LEMMA Appended ==
  ASSUME commands \in [Workers -> Seq(Nat)], NEW w \in Workers, NEW x \in Nat,
         commands' = [commands EXCEPT ![w] = Append(@, x)]
  PROVE  /\ commands' \in [Workers -> Seq(Nat)]
         /\ InChannel(w)' = InChannel(w) \cup {x}
         /\ \A v \in Workers \ {w} : commands'[v] = commands[v]
         /\ commands[w] # <<>> => commands'[w] # <<>> /\ Head(commands'[w]) = Head(commands[w])
<1>1. /\ commands[w] \in Seq(Nat) /\ commands'[w] = Append(commands[w], x)
      /\ \A v \in Workers \ {w} : commands'[v] = commands[v]
  OBVIOUS
<1>2. /\ commands'[w] \in Seq(Nat) /\ commands'[w] # <<>>
      /\ Len(commands'[w]) = Len(commands[w]) + 1 /\ Len(commands[w]) \in Nat
      /\ \A i \in 1..Len(commands[w]) : commands'[w][i] = commands[w][i]
      /\ commands'[w][Len(commands[w]) + 1] = x
  BY <1>1
<1>3. commands[w] # <<>> => Head(commands'[w]) = Head(commands[w])
  BY <1>1, <1>2
<1>4. InChannel(w)' = InChannel(w) \cup {x}
  <2>1. InChannel(w)' = {commands'[w][i] : i \in 1..(Len(commands[w]) + 1)}
    BY <1>2 DEF InChannel
  <2>2. 1..(Len(commands[w]) + 1) = 1..Len(commands[w]) \cup {Len(commands[w]) + 1}
    BY <1>2
  <2> QED
    BY <1>2, <2>1, <2>2 DEF InChannel
<1>5. commands' \in [Workers -> Seq(Nat)]
  BY <1>1, <1>2
<1> QED
  BY <1>1, <1>2, <1>3, <1>4, <1>5

\* A request that has been evaluated leaves its channel.
LEMMA Shortened ==
  ASSUME commands \in [Workers -> Seq(Nat)], NEW w \in Workers, commands[w] # <<>>,
         commands' = [commands EXCEPT ![w] = Tail(@)]
  PROVE  /\ commands' \in [Workers -> Seq(Nat)]
         /\ InChannel(w)' \subseteq InChannel(w)
         /\ InChannel(w) \subseteq InChannel(w)' \cup {Head(commands[w])}
         /\ Head(commands[w]) \in InChannel(w)
         /\ \A v \in Workers \ {w} : commands'[v] = commands[v]
<1>1. /\ commands[w] \in Seq(Nat) /\ commands'[w] = Tail(commands[w])
      /\ \A v \in Workers \ {w} : commands'[v] = commands[v]
  OBVIOUS
<1>2. /\ commands'[w] \in Seq(Nat) /\ Len(commands[w]) \in Nat \ {0}
      /\ Len(commands'[w]) = Len(commands[w]) - 1
      /\ \A i \in 1..Len(commands'[w]) : commands'[w][i] = commands[w][i + 1]
      /\ Head(commands[w]) = commands[w][1]
  BY <1>1
<1>3. ASSUME NEW i \in 1..Len(commands'[w]) PROVE commands'[w][i] \in InChannel(w)
  <2>1. i + 1 \in 1..Len(commands[w])
    BY <1>2
  <2> QED
    BY <1>2, <2>1 DEF InChannel
<1>4. ASSUME NEW i \in 1..Len(commands[w])
      PROVE  commands[w][i] \in InChannel(w)' \cup {Head(commands[w])}
  <2>1. CASE i = 1
    BY <1>2, <2>1
  <2>2. CASE i # 1
    <3>1. i - 1 \in 1..Len(commands'[w]) /\ (i - 1) + 1 = i
      BY <1>2, <2>2
    <3>2. commands'[w][i - 1] = commands[w][i]
      BY <1>2, <3>1
    <3> QED
      BY <3>1, <3>2 DEF InChannel
  <2> QED
    BY <2>1, <2>2
<1>5. commands' \in [Workers -> Seq(Nat)]
  BY <1>1, <1>2
<1>6. Head(commands[w]) \in InChannel(w)
  <2>1. 1 \in 1..Len(commands[w])
    BY <1>2
  <2> QED
    BY <1>2, <2>1 DEF InChannel
<1>7. InChannel(w)' = {commands'[w][i] : i \in 1..Len(commands'[w])}
  BY DEF InChannel
<1> QED
  BY <1>1, <1>3, <1>4, <1>5, <1>6, <1>7 DEF InChannel

\* A worker stays dismissed as long as nothing is taken from what dismisses it.
LEMMA StaysDismissed ==
  ASSUME NEW w, Dismissed(w), grace[w] => grace'[w], w \in acked => w \in acked',
         Stop \in InChannel(w) => Stop \in InChannel(w)',
         \A c \in Callers : joins[c] = w => joins'[c] = w
  PROVE  Dismissed(w)'
  BY DEF Dismissed, InChannel

\* Channels keep their requests while the calls that still wait hold the same.
LEMMA SameChannels ==
  ASSUME CommandsOK, UNCHANGED commands, requests \in Nat,
         requests' = requests \/ requests' = requests + 1,
         \A w \in Workers : loop'[w] = "evaluating" => loop[w] = "evaluating",
         \A d \in Callers : pc'[d] \in Detaching =>
           \/ pc[d] \in Detaching /\ holds'[d] = holds[d] /\ awaits'[d] = awaits[d]
           \/ awaits'[d] \notin 0..requests
  PROVE  CommandsOK'
<1> SUFFICES ASSUME NEW w \in Workers
             PROVE  /\ \A x \in InChannel(w)' :
                         /\ x \in 0..requests'
                         /\ \A c \in Callers :
                              pc'[c] \in Detaching /\ x = awaits'[c] => holds'[c] = w
                    /\ loop'[w] = "evaluating" => commands'[w] # <<>> /\ Head(commands'[w]) # Stop
  BY DEF CommandsOK, Stop
<1>1. InChannel(w)' = InChannel(w)
  BY DEF InChannel
<1>2. \A x \in 0..requests : x \in 0..requests'
  OBVIOUS
<1> QED
  BY <1>1, <1>2 DEF CommandsOK

\* The steps of a call that move no worker and send nothing.
CallOnly == UNCHANGED <<injected, loop, commands, grace, acked, requests, reply, awaits>>

LEMMA ReturnKeeps ==
  ASSUME ControlInv, NEW c \in Callers, CallOnly, Return(c), pc[c] # "insert",
         \/ control' = control
         \/ control' = NoWorker /\ pc[c] = "remove",
         joins[c] = NoWorker \/ joins[c] \notin Serving
  PROVE  ControlInv'
<1> USE MaxProbesAssumption, MaxDetachesAssumption
<1>1. /\ pc' = [pc EXCEPT ![c] = "idle"]
      /\ holds' = [holds EXCEPT ![c] = NoWorker] /\ joins' = [joins EXCEPT ![c] = NoWorker]
      /\ UNCHANGED <<injected, loop, commands, grace, acked, requests, reply, awaits>>
  BY DEF Return, Goto, CallOnly
<1>2. ControlOK'
  BY <1>1 DEF ControlInv, ControlOK
<1>3. OneAtATime' /\ JoinsOnlyReplaced'
  BY <1>1 DEF ControlInv, ControlOK, OneAtATime, JoinsOnlyReplaced, Injecting, Detaching
<1>4. \A d \in Callers : pc'[d] \in Detaching => d # c /\ pc[d] \in Detaching /\ holds'[d] = holds[d]
  BY <1>1 DEF ControlInv, ControlOK, Detaching
<1>5. DetachesOK'
  <2>1. control' \in {control, NoWorker}
    OBVIOUS
  <2>2. \A d \in Callers : pc'[d] \in Detaching =>
          awaits[d] \in 1..requests /\ holds'[d] \in Workers /\ control' \in {holds'[d], NoWorker}
    BY <1>4, <2>1 DEF ControlInv, DetachesOK
  <2>3. \A d, e \in Callers :
          pc'[d] \in Detaching /\ pc'[e] \in Detaching /\ awaits[d] = awaits[e] => d = e
    BY <1>4 DEF ControlInv, DetachesOK
  <2> QED
    BY <1>1, <2>2, <2>3 DEF ControlInv, DetachesOK
<1>6. CommandsOK'
  BY <1>1, <1>4, SameChannels DEF ControlInv, ControlOK
<1>7. ConfirmedIsDismissed'
  BY <1>1, <1>4 DEF ControlInv, ConfirmedIsDismissed, ControlOK
<1>8. LiveControlIsReachable'
  <2> SUFFICES ASSUME NEW w \in Serving
               PROVE  Dismissed(w)' \/ control' = w
                      \/ \E d \in Callers : pc'[d] = "insert" /\ holds'[d] = w
    BY <1>1 DEF LiveControlIsReachable, Serving
  <2>0. w \in Workers /\ w # NoWorker
    BY DEF Serving, Workers, Probes, NoWorker
  <2>1. CASE Dismissed(w)
    <3>1. \A d \in Callers : joins[d] = w => joins'[d] = w
      BY <1>1, <2>0 DEF ControlInv, ControlOK
    <3>2. InChannel(w)' = InChannel(w)
      BY <1>1 DEF InChannel
    <3> QED
      BY <1>1, <2>1, <3>1, <3>2, StaysDismissed
  <2>2. CASE control = w
    <3>1. CASE control' = control
      BY <2>2, <3>1
    <3>2. CASE control' = NoWorker /\ pc[c] = "remove"
      <4>1. holds[c] = w /\ grace[holds[c]]
        BY <2>0, <2>2, <3>2 DEF ControlInv, DetachesOK, ConfirmedIsDismissed, Detaching
      <4> QED
        BY <1>1, <4>1 DEF Dismissed
    <3> QED
      BY <3>1, <3>2
  <2>3. ASSUME NEW d \in Callers, pc[d] = "insert", holds[d] = w
        PROVE  pc'[d] = "insert" /\ holds'[d] = w
    BY <1>1, <2>3 DEF ControlInv, ControlOK
  <2> QED
    BY <2>1, <2>2, <2>3 DEF ControlInv, LiveControlIsReachable
<1> QED
  BY <1>2, <1>3, <1>5, <1>6, <1>7, <1>8 DEF ControlInv

\* A worker in a map that no call takes it from stays where it is.
LEMMA StaysReachable ==
  ASSUME LiveControlIsReachable, Serving' \subseteq Serving,
         \A w \in Serving' :
           /\ Dismissed(w) => Dismissed(w)'
           /\ control = w => control' = w \/ Dismissed(w)'
           /\ \A d \in Callers : pc[d] = "insert" /\ holds[d] = w =>
                (pc'[d] = "insert" /\ holds'[d] = w) \/ control' = w
  PROVE  LiveControlIsReachable'
  BY DEF LiveControlIsReachable

LEMMA InjectKeeps ==
  ASSUME ControlInv, "overlap" \notin Hazards, NEW c \in Callers, Inject(c)
  PROVE  ControlInv'
<1> USE MaxProbesAssumption, MaxDetachesAssumption
<1> DEFINE n == injected + 1
<1>1. /\ n \in Workers /\ injected' = n /\ injected' \in 0..MaxProbes
      /\ pc[c] = "idle" /\ \A d \in Callers : pc[d] \notin Detaching
      /\ loop' = [loop EXCEPT ![n] = "running"]
      /\ holds' = [holds EXCEPT ![c] = n] /\ pc' = [pc EXCEPT ![c] = "insert"]
      /\ UNCHANGED <<control, commands, grace, acked, requests, reply, joins, awaits>>
  BY DEF Inject, MayBegin, Bootstrap, Goto, ControlInv, ControlOK, Workers, Probes
<1> HIDE DEF n
<1>2. ControlOK'
  BY <1>1 DEF ControlInv, ControlOK, Injecting
<1>3. \A d \in Callers : pc'[d] \notin Detaching
  BY <1>1 DEF ControlInv, ControlOK, Detaching
<1>4. OneAtATime' /\ JoinsOnlyReplaced' /\ ConfirmedIsDismissed'
  BY <1>1, <1>3 DEF ControlInv, ControlOK, OneAtATime, JoinsOnlyReplaced, ConfirmedIsDismissed
<1>5. DetachesOK'
  BY <1>1, <1>3 DEF ControlInv, DetachesOK
<1>6. CommandsOK'
  BY <1>1, <1>3, SameChannels DEF ControlInv, ControlOK
<1>7. LiveControlIsReachable'
  <2>1. pc'[c] = "insert" /\ holds'[c] = n
    BY <1>1 DEF ControlInv, ControlOK
  <2>2. \A w \in Serving' : w = n \/ w \in Serving
    BY <1>1 DEF Serving, ControlInv, ControlOK
  <2>3. \A w \in Serving : InChannel(w)' = InChannel(w)
    BY <1>1 DEF InChannel
  <2>4. \A w \in Serving : Dismissed(w) => Dismissed(w)'
    BY <1>1, <2>3, StaysDismissed
  <2>5. \A d \in Callers : pc[d] = "insert" => pc'[d] = "insert" /\ holds'[d] = holds[d]
    BY <1>1 DEF ControlInv, ControlOK
  <2> QED
    BY <1>1, <2>1, <2>2, <2>4, <2>5 DEF ControlInv, LiveControlIsReachable
<1> QED
  BY <1>2, <1>4, <1>5, <1>6, <1>7 DEF ControlInv

LEMMA InjectionFailsKeeps ==
  ASSUME ControlInv, NEW c \in Callers, InjectionFails(c)
  PROVE  ControlInv'
<1> USE MaxProbesAssumption, MaxDetachesAssumption
<1>1. /\ injected' \in Workers /\ injected' \in 0..MaxProbes
      /\ loop' = [loop EXCEPT ![injected'] = "gone"]
      /\ UNCHANGED <<control, commands, grace, acked, requests, reply, pc, holds, joins, awaits>>
  BY DEF InjectionFails, Bootstrap, ControlInv, ControlOK, Workers, Probes, callers
<1>2. ControlOK' /\ OneAtATime' /\ JoinsOnlyReplaced' /\ ConfirmedIsDismissed' /\ DetachesOK'
  BY <1>1 DEF ControlInv, ControlOK, OneAtATime, JoinsOnlyReplaced, ConfirmedIsDismissed, DetachesOK
<1>3. CommandsOK'
  BY <1>1, SameChannels DEF ControlInv, ControlOK
<1>4. LiveControlIsReachable'
  <2>1. Serving' \subseteq Serving
    BY <1>1 DEF Serving, ControlInv, ControlOK
  <2>2. \A w \in Serving : Dismissed(w) => Dismissed(w)'
    BY <1>1 DEF Dismissed
  <2> QED
    BY <1>1, <2>1, <2>2, StaysReachable DEF ControlInv
<1> QED
  BY <1>2, <1>3, <1>4 DEF ControlInv

LEMMA InsertKeeps ==
  ASSUME ControlInv, NEW c \in Callers, Insert(c)
  PROVE  ControlInv'
<1> USE MaxProbesAssumption, MaxDetachesAssumption
<1>1. /\ pc[c] = "insert" /\ control' = holds[c]
      /\ UNCHANGED <<injected, loop, commands, grace, acked, requests, reply, awaits>>
  BY DEF Insert, target, workers
<1>2. \/ /\ control = NoWorker
         /\ pc' = [pc EXCEPT ![c] = "idle"]
         /\ holds' = [holds EXCEPT ![c] = NoWorker] /\ joins' = [joins EXCEPT ![c] = NoWorker]
      \/ /\ control # NoWorker
         /\ pc' = [pc EXCEPT ![c] = "stop"]
         /\ holds' = holds /\ joins' = [joins EXCEPT ![c] = control]
  BY DEF Insert, Return, Goto
<1>3. /\ \A d \in Callers : pc[d] \notin Detaching
      /\ joins[c] = NoWorker /\ holds[c] \in Workers \cup {NoWorker}
  BY <1>1 DEF ControlInv, OneAtATime, JoinsOnlyReplaced, ControlOK, Injecting
<1>4. ControlOK'
  BY <1>1, <1>2, <1>3 DEF ControlInv, ControlOK, Injecting
<1>5. \A d \in Callers : pc'[d] \notin Detaching
  BY <1>2, <1>3 DEF ControlInv, ControlOK, Detaching
<1>6. OneAtATime' /\ JoinsOnlyReplaced' /\ ConfirmedIsDismissed'
  BY <1>2, <1>5 DEF ControlInv, ControlOK, OneAtATime, JoinsOnlyReplaced, ConfirmedIsDismissed
<1>7. DetachesOK' /\ CommandsOK'
  BY <1>1, <1>5, SameChannels DEF ControlInv, ControlOK, DetachesOK
<1>8. LiveControlIsReachable'
  <2>1. Serving' = Serving
    BY <1>1 DEF Serving
  <2> SUFFICES ASSUME NEW w \in Serving
               PROVE  /\ Dismissed(w) => Dismissed(w)'
                      /\ control = w => control' = w \/ Dismissed(w)'
                      /\ \A d \in Callers : pc[d] = "insert" /\ holds[d] = w =>
                           (pc'[d] = "insert" /\ holds'[d] = w) \/ control' = w
    BY <2>1, StaysReachable DEF ControlInv
  <2>2. w # NoWorker /\ InChannel(w)' = InChannel(w)
    BY <1>1 DEF Serving, Workers, Probes, NoWorker, InChannel
  <2>3. Dismissed(w) => Dismissed(w)'
    <3>1. \A d \in Callers : joins[d] = w => joins'[d] = w
      BY <1>2, <1>3, <2>2 DEF ControlInv, ControlOK
    <3> QED
      BY <1>1, <2>2, <3>1, StaysDismissed
  <2>4. control = w => Dismissed(w)'
    <3>1. control = w => joins'[c] = w
      BY <1>2, <2>2 DEF ControlInv, ControlOK
    <3> QED
      BY <3>1 DEF Dismissed
  <2>5. \A d \in Callers : pc[d] = "insert" /\ holds[d] = w =>
          (pc'[d] = "insert" /\ holds'[d] = w) \/ control' = w
    BY <1>1, <1>2 DEF ControlInv, ControlOK
  <2> QED
    BY <2>3, <2>4, <2>5
<1> QED
  BY <1>4, <1>6, <1>7, <1>8 DEF ControlInv

\* What a channel gets is a command to stop or the request of the call that
\* holds its worker.
LEMMA SendKeepsCommands ==
  ASSUME ControlInv, NEW w, NEW x \in 0..requests, Send(w, x),
         \A d \in Callers : pc[d] \in Detaching /\ x = awaits[d] => holds[d] = w,
         UNCHANGED <<loop, requests, awaits>>,
         \A d \in Callers : pc'[d] \in Detaching => pc[d] \in Detaching /\ holds'[d] = holds[d]
  PROVE  /\ CommandsOK' /\ commands' \in [Workers -> Seq(Nat)]
         /\ \A v \in Workers : InChannel(v) \subseteq InChannel(v)'
<1> USE MaxProbesAssumption, MaxDetachesAssumption
<1>1. commands \in [Workers -> Seq(Nat)] /\ requests \in Nat
  BY DEF ControlInv, ControlOK
<1>2. CASE w \notin Serving
  <2>1. commands' = commands
    BY <1>2 DEF Send
  <2>2. \A v \in Workers : InChannel(v)' = InChannel(v)
    BY <2>1 DEF InChannel
  <2> QED
    BY <1>1, <2>1, <2>2, SameChannels DEF ControlInv
<1>3. CASE w \in Serving
  <2>1. w \in Workers /\ x \in Nat /\ commands' = [commands EXCEPT ![w] = Append(@, x)]
    BY <1>1, <1>3 DEF Send, Serving
  <2>2. /\ commands' \in [Workers -> Seq(Nat)]
        /\ InChannel(w)' = InChannel(w) \cup {x}
        /\ \A v \in Workers \ {w} : commands'[v] = commands[v]
        /\ commands[w] # <<>> => commands'[w] # <<>> /\ Head(commands'[w]) = Head(commands[w])
    BY <1>1, <2>1, Appended
  <2>3. ASSUME NEW v \in Workers \ {w} PROVE InChannel(v)' = InChannel(v)
    <3>1. commands'[v] = commands[v]
      BY <2>2
    <3> QED
      BY <3>1 DEF InChannel
  <2>4. ASSUME NEW v \in Workers
        PROVE  /\ \A y \in InChannel(v)' :
                    /\ y \in 0..requests
                    /\ \A d \in Callers : pc'[d] \in Detaching /\ y = awaits[d] => holds'[d] = v
               /\ loop[v] = "evaluating" => commands'[v] # <<>> /\ Head(commands'[v]) # Stop
    <3>1. CASE v = w
      <4>1. \A y \in InChannel(w) :
              /\ y \in 0..requests
              /\ \A d \in Callers : pc[d] \in Detaching /\ y = awaits[d] => holds[d] = w
        BY <2>1 DEF ControlInv, CommandsOK
      <4>2. loop[w] = "evaluating" => commands[w] # <<>> /\ Head(commands[w]) # Stop
        BY <2>1 DEF ControlInv, CommandsOK
      <4> QED
        BY <2>2, <3>1, <4>1, <4>2
    <3>2. CASE v # w
      BY <2>2, <2>3, <3>2 DEF ControlInv, CommandsOK
    <3> QED
      BY <3>1, <3>2
  <2>5. CommandsOK'
    BY <2>4 DEF CommandsOK, Stop
  <2> QED
    BY <2>2, <2>3, <2>5
<1> QED
  BY <1>2, <1>3

LEMMA StopReplacedKeeps ==
  ASSUME ControlInv, NEW c \in Callers, StopReplaced(c)
  PROVE  ControlInv'
<1> USE MaxProbesAssumption, MaxDetachesAssumption
<1>1. /\ pc[c] = "stop" /\ pc' = [pc EXCEPT ![c] = "join"] /\ Send(joins[c], Stop)
      /\ UNCHANGED <<injected, control, loop, grace, acked, requests, reply, holds, joins, awaits>>
  BY DEF StopReplaced, Goto, target
<1>2. \A d \in Callers : (pc'[d] \in Detaching <=> pc[d] \in Detaching)
                      /\ (pc'[d] = "remove" <=> pc[d] = "remove")
                      /\ (pc'[d] = "insert" <=> pc[d] = "insert")
                      /\ (pc'[d] \in Injecting <=> pc[d] \in Injecting)
                      /\ (pc'[d] \in {"stop", "join"} <=> pc[d] \in {"stop", "join"})
  BY <1>1 DEF ControlInv, ControlOK, Detaching, Injecting
<1>3. \A d \in Callers : pc[d] \notin Detaching
  BY <1>1 DEF ControlInv, OneAtATime, Injecting
<1>4. /\ CommandsOK' /\ commands' \in [Workers -> Seq(Nat)]
      /\ \A v \in Workers : InChannel(v) \subseteq InChannel(v)'
  <2>1. Stop \in 0..requests
    BY DEF ControlInv, ControlOK, Stop
  <2> QED
    BY <1>1, <1>2, <1>3, <2>1, SendKeepsCommands
<1>5. ControlOK'
  BY <1>1, <1>4 DEF ControlInv, ControlOK, Injecting
<1>6. OneAtATime' /\ JoinsOnlyReplaced' /\ ConfirmedIsDismissed' /\ DetachesOK'
  BY <1>1, <1>2, <1>3 DEF ControlInv, OneAtATime, JoinsOnlyReplaced, ConfirmedIsDismissed, DetachesOK
<1>7. LiveControlIsReachable'
  <2>1. \A w \in Serving : Dismissed(w) => Dismissed(w)'
    BY <1>1, <1>4, StaysDismissed DEF Serving
  <2>2. Serving' = Serving
    BY <1>1 DEF Serving
  <2> QED
    BY <1>1, <1>2, <2>1, <2>2, StaysReachable DEF ControlInv
<1> QED
  BY <1>4, <1>5, <1>6, <1>7 DEF ControlInv

LEMMA DetachKeeps ==
  ASSUME ControlInv, "overlap" \notin Hazards, NEW c \in Callers, Detach(c)
  PROVE  ControlInv'
<1> USE MaxProbesAssumption, MaxDetachesAssumption
<1>1. /\ pc[c] = "idle" /\ \A d \in Callers : pc[d] \notin Injecting
      /\ control # NoWorker /\ requests < MaxDetaches
      /\ holds' = [holds EXCEPT ![c] = control] /\ requests' = requests + 1
      /\ awaits' = [awaits EXCEPT ![c] = requests + 1] /\ pc' = [pc EXCEPT ![c] = "send"]
      /\ UNCHANGED <<injected, control, loop, commands, grace, acked, reply, joins>>
  BY DEF Detach, MayBegin, Goto, target, workers
<1>2. control \in Workers /\ requests + 1 \in Requests /\ requests \in Nat
  BY <1>1 DEF ControlInv, ControlOK, Requests
<1>3. ControlOK'
  BY <1>1, <1>2 DEF ControlInv, ControlOK, Detaching, Requests
<1>4. /\ pc'[c] = "send" /\ awaits'[c] = requests + 1 /\ holds'[c] = control
      /\ \A d \in Callers \ {c} : pc'[d] = pc[d] /\ awaits'[d] = awaits[d] /\ holds'[d] = holds[d]
  BY <1>1 DEF ControlInv, ControlOK
<1>5. OneAtATime' /\ JoinsOnlyReplaced'
  BY <1>1, <1>4 DEF ControlInv, OneAtATime, JoinsOnlyReplaced, Injecting
<1>6. DetachesOK'
  <2>1. \A d \in Callers \ {c} : pc'[d] \in Detaching =>
          /\ pc[d] \in Detaching /\ awaits[d] \in 1..requests /\ awaits'[d] = awaits[d]
          /\ holds'[d] \in Workers /\ control' \in {holds'[d], NoWorker}
    BY <1>1, <1>4 DEF ControlInv, DetachesOK
  <2>2. \A r \in 1..requests : r \in 1..requests' /\ r # requests + 1
    BY <1>1, <1>2
  <2>3. awaits'[c] \in 1..requests' /\ holds'[c] \in Workers /\ control' = holds'[c]
    BY <1>1, <1>2, <1>4
  <2>4. \A d, e \in Callers :
          pc'[d] \in Detaching /\ pc'[e] \in Detaching /\ awaits'[d] = awaits'[e] => d = e
    BY <1>4, <2>1, <2>2 DEF ControlInv, DetachesOK
  <2>5. \A r \in Requests : r > requests' => reply'[r] = "none"
    BY <1>1, <1>2 DEF ControlInv, DetachesOK, Requests
  <2>6. \A d \in Callers : pc'[d] \in Detaching =>
          awaits'[d] \in 1..requests' /\ holds'[d] \in Workers /\ control' \in {holds'[d], NoWorker}
    BY <2>1, <2>2, <2>3
  <2> QED
    BY <2>4, <2>5, <2>6 DEF DetachesOK
<1>7. CommandsOK'
  <2>1. requests + 1 \notin 0..requests
    BY <1>2
  <2> QED
    BY <1>1, <1>2, <1>4, <2>1, SameChannels DEF ControlInv
<1>8. ConfirmedIsDismissed'
  <2>1. reply[requests + 1] = "none"
    BY <1>2 DEF ControlInv, DetachesOK
  <2> QED
    BY <1>1, <1>4, <2>1 DEF ControlInv, ConfirmedIsDismissed
<1>9. LiveControlIsReachable'
  <2>1. Serving' = Serving /\ \A w \in Serving : InChannel(w)' = InChannel(w)
    BY <1>1 DEF Serving, InChannel
  <2>2. \A w \in Serving : Dismissed(w) => Dismissed(w)'
    BY <1>1, <2>1, StaysDismissed
  <2>3. \A d \in Callers : pc[d] = "insert" => pc'[d] = "insert" /\ holds'[d] = holds[d]
    BY <1>1, <1>4
  <2> QED
    BY <1>1, <2>1, <2>2, <2>3, StaysReachable DEF ControlInv
<1> QED
  BY <1>3, <1>5, <1>6, <1>7, <1>8, <1>9 DEF ControlInv

LEMMA RequestDetachKeeps ==
  ASSUME ControlInv, NEW c \in Callers, RequestDetach(c)
  PROVE  ControlInv'
<1> USE MaxProbesAssumption, MaxDetachesAssumption
<1>1. CASE holds[c] \notin Serving
  BY <1>1, ReturnKeeps DEF RequestDetach, CallOnly, target, ControlInv, JoinsOnlyReplaced
<1>2. CASE holds[c] \in Serving
  <2>1. /\ pc[c] = "send" /\ pc' = [pc EXCEPT ![c] = "reply"] /\ Send(holds[c], awaits[c])
        /\ UNCHANGED <<injected, control, loop, grace, acked, requests, reply, holds, joins, awaits>>
    BY <1>2 DEF RequestDetach, Goto, target
  <2>2. \A d \in Callers : (pc'[d] \in Detaching <=> pc[d] \in Detaching)
                        /\ (pc'[d] = "remove" <=> pc[d] = "remove")
                        /\ (pc'[d] = "insert" <=> pc[d] = "insert")
                        /\ (pc'[d] \in Injecting <=> pc[d] \in Injecting)
                        /\ (pc'[d] \in {"stop", "join"} <=> pc[d] \in {"stop", "join"})
    BY <2>1 DEF ControlInv, ControlOK, Detaching, Injecting
  <2>3. /\ CommandsOK' /\ commands' \in [Workers -> Seq(Nat)]
        /\ \A v \in Workers : InChannel(v) \subseteq InChannel(v)'
    <3>1. pc[c] \in Detaching /\ awaits[c] \in 0..requests
      BY <2>1 DEF ControlInv, DetachesOK, Detaching
    <3>2. \A d \in Callers : pc[d] \in Detaching /\ awaits[c] = awaits[d] => holds[d] = holds[c]
      BY <3>1 DEF ControlInv, DetachesOK
    <3> QED
      BY <2>1, <2>2, <3>1, <3>2, SendKeepsCommands
  <2>4. ControlOK'
    BY <2>1, <2>3 DEF ControlInv, ControlOK, Detaching
  <2>5. OneAtATime' /\ JoinsOnlyReplaced' /\ ConfirmedIsDismissed' /\ DetachesOK'
    BY <2>1, <2>2 DEF ControlInv, OneAtATime, JoinsOnlyReplaced, ConfirmedIsDismissed, DetachesOK
  <2>6. LiveControlIsReachable'
    <3>1. \A w \in Serving : Dismissed(w) => Dismissed(w)'
      BY <2>1, <2>3, StaysDismissed DEF Serving
    <3>2. Serving' = Serving
      BY <2>1 DEF Serving
    <3> QED
      BY <2>1, <2>2, <3>1, <3>2, StaysReachable DEF ControlInv
  <2> QED
    BY <2>3, <2>4, <2>5, <2>6 DEF ControlInv
<1> QED
  BY <1>1, <1>2

LEMMA GetReplyKeeps ==
  ASSUME ControlInv, NEW c \in Callers, GetReply(c)
  PROVE  ControlInv'
<1> USE MaxProbesAssumption, MaxDetachesAssumption
<1>1. pc[c] = "reply" /\ CallOnly /\ control' = control
  BY DEF GetReply, CallOnly, target, workers
<1>2. CASE Return(c)
  BY <1>1, <1>2, ReturnKeeps DEF ControlInv, JoinsOnlyReplaced
<1>3. CASE reply[awaits[c]] = "ok" /\ Goto(c, "remove") /\ UNCHANGED <<holds, joins>>
  <2>1. /\ pc' = [pc EXCEPT ![c] = "remove"]
        /\ UNCHANGED <<injected, loop, commands, grace, acked, requests, reply, awaits, holds, joins>>
    BY <1>1, <1>3 DEF Goto, CallOnly
  <2>2. \A d \in Callers : (pc'[d] \in Detaching <=> pc[d] \in Detaching)
                        /\ (pc'[d] = "insert" <=> pc[d] = "insert")
                        /\ (pc'[d] = "remove" => d = c \/ pc[d] = "remove")
                        /\ (pc'[d] \in Injecting <=> pc[d] \in Injecting)
                        /\ (pc'[d] \in {"stop", "join"} <=> pc[d] \in {"stop", "join"})
    BY <1>1, <2>1 DEF ControlInv, ControlOK, Detaching, Injecting
  <2>3. ControlOK'
    BY <1>1, <2>1 DEF ControlInv, ControlOK, Detaching
  <2>4. OneAtATime' /\ JoinsOnlyReplaced' /\ DetachesOK'
    BY <1>1, <2>1, <2>2 DEF ControlInv, OneAtATime, JoinsOnlyReplaced, DetachesOK
  <2>5. CommandsOK'
    BY <2>1, <2>2, SameChannels DEF ControlInv, ControlOK
  <2>6. ConfirmedIsDismissed'
    BY <1>1, <1>3, <2>1, <2>2 DEF ControlInv, ConfirmedIsDismissed
  <2>7. LiveControlIsReachable'
    BY <1>1, <2>1, <2>2 DEF ControlInv, LiveControlIsReachable, Serving, Dismissed
  <2> QED
    BY <2>3, <2>4, <2>5, <2>6, <2>7 DEF ControlInv
<1> QED
  BY <1>2, <1>3 DEF GetReply

LEMMA CallKeeps ==
  ASSUME ControlInv, NEW c \in Callers, Call(c)
  PROVE  ControlInv'
<1>1. CASE Join(c)
  <2>1. CallOnly /\ Return(c) /\ control' = control /\ pc[c] = "join" /\ joins[c] \notin Serving
    BY <1>1 DEF Join, CallOnly, Serving, target, workers
  <2> QED
    BY <2>1, ReturnKeeps
<1>2. CASE RemoveControl(c)
  <2>1. CallOnly /\ Return(c) /\ control' = NoWorker /\ pc[c] = "remove" /\ joins[c] = NoWorker
    BY <1>2 DEF RemoveControl, CallOnly, target, workers, ControlInv, JoinsOnlyReplaced
  <2> QED
    BY <2>1, ReturnKeeps
<1> QED
  BY <1>1, <1>2, InsertKeeps, StopReplacedKeeps, RequestDetachKeeps, GetReplyKeeps DEF Call

\* What a worker does leaves the calls as they are; the workers that go on
\* serving stay dismissed.
LEMMA WorkerSteps ==
  ASSUME ControlInv, UNCHANGED <<requests, callers>>, injected' = injected,
         loop' \in [Workers -> {"none", "running", "evaluating", "leaving", "gone"}],
         grace' \in [Workers -> BOOLEAN], commands' \in [Workers -> Seq(Nat)],
         reply' \in [Requests -> {"none", "ok", "failed"}],
         control' = control \/ (control' = NoWorker /\ control \notin Serving),
         Serving' \subseteq Serving,
         \A w \in Workers : grace[w] => grace'[w],
         \A w \in Serving' : w \in acked => w \in acked',
         \A w \in Workers : InChannel(w)' \subseteq InChannel(w),
         \A w \in Serving' : Stop \in InChannel(w) => Stop \in InChannel(w)',
         \A w \in Workers : loop'[w] = "evaluating" =>
           commands'[w] # <<>> /\ Head(commands'[w]) # Stop,
         \A r \in Requests : r > requests => reply'[r] = reply[r],
         \A c \in Callers : pc[c] \in Detaching /\ reply'[awaits[c]] = "ok" =>
           reply[awaits[c]] = "ok" \/ grace'[holds[c]]
  PROVE  ControlInv'
<1>1. UNCHANGED <<pc, holds, joins, awaits, requests>>
  BY DEF callers
<1>2. ControlOK'
  BY <1>1 DEF ControlInv, ControlOK
<1>3. OneAtATime' /\ JoinsOnlyReplaced'
  BY <1>1 DEF ControlInv, OneAtATime, JoinsOnlyReplaced
<1>4. DetachesOK'
  BY <1>1 DEF ControlInv, DetachesOK
<1>5. CommandsOK'
  BY <1>1 DEF ControlInv, CommandsOK, Stop
<1>6. ConfirmedIsDismissed'
  BY <1>1 DEF ControlInv, ConfirmedIsDismissed, DetachesOK
<1>7. LiveControlIsReachable'
  <2>1. \A w \in Serving' : w \in Workers
    BY DEF Serving
  <2>2. \A w \in Serving' : Dismissed(w) => Dismissed(w)'
    BY <1>1, <2>1, StaysDismissed
  <2> QED
    BY <1>1, <2>2, StaysReachable DEF ControlInv
<1> QED
  BY <1>2, <1>3, <1>4, <1>5, <1>6, <1>7 DEF ControlInv

LEMMA LeaveKeeps ==
  ASSUME ControlInv, NEW w \in Workers, loop[w] = "running", Leave(w)
  PROVE  ControlInv'
<1>1. /\ loop' = [loop EXCEPT ![w] = "leaving"]
      /\ commands' = [commands EXCEPT ![w] = <<>>]
      /\ reply' = [r \in Requests |->
                     IF \E i \in 1..Len(commands[w]) : commands[w][i] = r
                       THEN "failed" ELSE reply[r]]
      /\ acked' = acked \ {w}
      /\ UNCHANGED <<injected, control, grace, requests, callers>>
  BY DEF Leave, target
<1>2. /\ loop' \in [Workers -> {"none", "running", "evaluating", "leaving", "gone"}]
      /\ grace' \in [Workers -> BOOLEAN] /\ commands' \in [Workers -> Seq(Nat)]
      /\ reply' \in [Requests -> {"none", "ok", "failed"}]
  BY <1>1 DEF ControlInv, ControlOK
<1>3. Serving' \subseteq Serving \ {w}
  BY <1>1 DEF Serving, ControlInv, ControlOK
<1>4. InChannel(w)' = {} /\ \A v \in Workers \ {w} : commands'[v] = commands[v]
  BY <1>1 DEF InChannel, ControlInv, ControlOK
<1>5. \A v \in Workers \ {w} : InChannel(v)' = InChannel(v)
  BY <1>4 DEF InChannel
<1>6. \A v \in Workers : loop'[v] = "evaluating" => v # w /\ loop[v] = "evaluating"
  BY <1>1 DEF ControlInv, ControlOK
<1>7. \A r \in Requests : reply'[r] = reply[r] \/ (r \in InChannel(w) /\ reply'[r] = "failed")
  BY <1>1 DEF InChannel
<1>8. \A r \in Requests : r > requests => reply'[r] = reply[r]
  <2>1. \A r \in InChannel(w) : r \in 0..requests
    BY DEF ControlInv, CommandsOK
  <2>2. \A r \in InChannel(w) : ~(r > requests)
    BY <2>1 DEF ControlInv, ControlOK
  <2> QED
    BY <1>7, <2>2
<1>9. \A c \in Callers : pc[c] \in Detaching => awaits[c] \in Requests
  BY DEF ControlInv, ControlOK, DetachesOK, Requests
<1>10. \A v \in Workers : loop'[v] = "evaluating" =>
           commands'[v] # <<>> /\ Head(commands'[v]) # Stop
  BY <1>4, <1>6 DEF ControlInv, CommandsOK
<1> QED
  BY <1>1, <1>2, <1>3, <1>4, <1>5, <1>7, <1>8, <1>9, <1>10, WorkerSteps DEF Serving

LEMMA EvaluatedKeeps ==
  ASSUME ControlInv, NEW w \in Workers, NEW outcome \in {"ok", "failed"}, Evaluated(w, outcome),
         injected' = injected, acked \subseteq acked',
         grace' \in [Workers -> BOOLEAN], \A v \in Workers : grace[v] => grace'[v],
         outcome = "ok" => grace'[w]
  PROVE  ControlInv'
<1> DEFINE request == Head(commands[w])
<1>1. /\ loop[w] = "evaluating" /\ loop' = [loop EXCEPT ![w] = "running"]
      /\ commands' = [commands EXCEPT ![w] = Tail(@)]
      /\ reply' = [reply EXCEPT ![request] = outcome]
      /\ UNCHANGED <<control, requests, callers>>
  BY DEF Evaluated
<1>2. commands[w] # <<>> /\ request # Stop
  BY <1>1 DEF ControlInv, CommandsOK
<1> HIDE DEF request
<1>3. /\ commands' \in [Workers -> Seq(Nat)]
      /\ InChannel(w)' \subseteq InChannel(w) /\ InChannel(w) \subseteq InChannel(w)' \cup {request}
      /\ request \in InChannel(w)
      /\ \A v \in Workers \ {w} : commands'[v] = commands[v]
  BY <1>1, <1>2, Shortened DEF ControlInv, ControlOK, request
<1>4. \A v \in Workers \ {w} : InChannel(v)' = InChannel(v)
  BY <1>3 DEF InChannel
<1>5. /\ request \in 0..requests
      /\ \A c \in Callers : pc[c] \in Detaching /\ request = awaits[c] => holds[c] = w
  BY <1>3 DEF ControlInv, CommandsOK
<1>6. /\ loop' \in [Workers -> {"none", "running", "evaluating", "leaving", "gone"}]
      /\ reply' \in [Requests -> {"none", "ok", "failed"}]
  BY <1>1 DEF ControlInv, ControlOK
<1>7. Serving' = Serving
  BY <1>1 DEF Serving, ControlInv, ControlOK
<1>8. \A r \in Requests : r > requests => reply'[r] = reply[r]
  <2>1. ~(request > requests)
    BY <1>5 DEF ControlInv, ControlOK
  <2> QED
    BY <1>1, <2>1 DEF ControlInv, ControlOK
<1>9. \A c \in Callers : pc[c] \in Detaching /\ reply'[awaits[c]] = "ok" =>
        reply[awaits[c]] = "ok" \/ grace'[holds[c]]
  <2> SUFFICES ASSUME NEW c \in Callers, pc[c] \in Detaching, reply'[awaits[c]] = "ok"
               PROVE  reply[awaits[c]] = "ok" \/ grace'[holds[c]]
    OBVIOUS
  <2>1. awaits[c] \in Requests
    BY DEF ControlInv, ControlOK, DetachesOK, Requests
  <2>2. CASE awaits[c] # request
    BY <1>1, <2>1, <2>2 DEF ControlInv, ControlOK
  <2>3. CASE awaits[c] = request
    <3>1. holds[c] = w /\ outcome = "ok"
      BY <1>1, <1>5, <2>1, <2>3 DEF ControlInv, ControlOK
    <3> QED
      BY <3>1
  <2> QED
    BY <2>2, <2>3
<1>10. \A v \in Workers : loop'[v] = "evaluating" =>
         commands'[v] # <<>> /\ Head(commands'[v]) # Stop
  <2>1. \A v \in Workers : loop'[v] = "evaluating" => v # w /\ loop[v] = "evaluating"
    BY <1>1 DEF ControlInv, ControlOK
  <2> QED
    BY <1>3, <2>1 DEF ControlInv, CommandsOK
<1>11. \A v \in Serving' : Stop \in InChannel(v) => Stop \in InChannel(v)'
  BY <1>2, <1>3, <1>4 DEF Serving
<1>12. \A v \in Workers : InChannel(v)' \subseteq InChannel(v)
  BY <1>3, <1>4
<1>13. \A v \in Serving' : v \in acked => v \in acked'
  OBVIOUS
<1>14. commands' \in [Workers -> Seq(Nat)] /\ Serving' \subseteq Serving
  BY <1>3, <1>7
<1> QED
  BY <1>1, <1>6, <1>8, <1>9, <1>10, <1>11, <1>12, <1>13, <1>14, WorkerSteps

LEMMA RestKeeps ==
  ASSUME ControlInv, UNCHANGED <<injected, commands, requests, reply, callers, grace>>,
         control' = control \/ (control' = NoWorker /\ control \notin Serving),
         loop' \in [Workers -> {"none", "running", "evaluating", "leaving", "gone"}],
         acked \subseteq acked', Serving' \subseteq Serving,
         \A w \in Workers : loop'[w] = "evaluating" =>
           loop[w] = "evaluating" \/ (commands[w] # <<>> /\ Head(commands[w]) # Stop)
  PROVE  ControlInv'
<1>1. \A w \in Workers : InChannel(w)' = InChannel(w)
  BY DEF InChannel
<1>2. \A w \in Workers : loop'[w] = "evaluating" =>
        commands'[w] # <<>> /\ Head(commands'[w]) # Stop
  BY DEF ControlInv, CommandsOK
<1>3. /\ grace' \in [Workers -> BOOLEAN] /\ commands' \in [Workers -> Seq(Nat)]
      /\ reply' \in [Requests -> {"none", "ok", "failed"}]
  BY DEF ControlInv, ControlOK
<1>4. /\ \A w \in Workers : InChannel(w)' \subseteq InChannel(w)
      /\ \A w \in Serving' : Stop \in InChannel(w) => Stop \in InChannel(w)'
  BY <1>1 DEF Serving
<1>5. \A w \in Serving' : w \in acked => w \in acked'
  OBVIOUS
<1>6. injected' = injected /\ UNCHANGED <<requests, callers>> /\ reply' = reply /\ grace' = grace
  OBVIOUS
<1> QED
  BY <1>2, <1>3, <1>4, <1>5, <1>6, WorkerSteps

LEMMA WorkKeeps ==
  ASSUME ControlInv, NEW w \in Workers, Work(w) \/ SessionBreaks(w)
  PROVE  ControlInv'
<1>1. CASE TakeStop(w) \/ GraceEnds(w) \/ ReadAck(w) \/ SessionBreaks(w) \/ ChannelCloses(w)
  BY <1>1, LeaveKeeps DEF TakeStop, GraceEnds, ReadAck, SessionBreaks, ChannelCloses
<1>2. CASE TakeDetach(w)
  <2>1. /\ loop[w] = "running" /\ commands[w] # <<>> /\ Head(commands[w]) # Stop
        /\ loop' = [loop EXCEPT ![w] = "evaluating"]
        /\ UNCHANGED <<injected, control, commands, grace, acked, requests, reply, callers>>
    BY <1>2 DEF TakeDetach, target
  <2>2. /\ loop' \in [Workers -> {"none", "running", "evaluating", "leaving", "gone"}]
        /\ Serving' = Serving
        /\ \A v \in Workers : loop'[v] = "evaluating" => v = w \/ loop[v] = "evaluating"
    BY <2>1 DEF Serving, ControlInv, ControlOK
  <2> QED
    BY <2>1, <2>2, RestKeeps
<1>3. CASE EvaluateDetach(w)
  <2>1. CASE detach # NoFunction
    <3>1. /\ Evaluated(w, "ok") /\ grace' = [grace EXCEPT ![w] = TRUE]
          /\ acked \subseteq acked' /\ injected' = injected
      BY <1>3, <2>1 DEF EvaluateDetach, Acknowledge, TriggerDetach
    <3>2. /\ grace' \in [Workers -> BOOLEAN] /\ grace'[w]
          /\ \A v \in Workers : grace[v] => grace'[v]
      BY <3>1 DEF ControlInv, ControlOK
    <3> QED
      BY <3>1, <3>2, EvaluatedKeeps
  <2>2. CASE detach = NoFunction
    BY <1>3, <2>2, EvaluatedKeeps DEF EvaluateDetach, target, ControlInv, ControlOK
  <2> QED
    BY <2>1, <2>2
<1>4. CASE EvaluationFails(w)
  BY <1>4, EvaluatedKeeps DEF EvaluationFails, target, ControlInv, ControlOK
<1>5. CASE CleanUp(w)
  <2>1. /\ loop[w] = "leaving" /\ loop' = [loop EXCEPT ![w] = "gone"]
        /\ control' = control \/ (control' = NoWorker /\ control = w)
        /\ UNCHANGED <<injected, commands, grace, acked, requests, reply, callers>>
    BY <1>5 DEF CleanUp, target
  <2>2. /\ loop' \in [Workers -> {"none", "running", "evaluating", "leaving", "gone"}]
        /\ Serving' = Serving /\ w \notin Serving
        /\ \A v \in Workers : loop'[v] = "evaluating" => loop[v] = "evaluating"
    BY <2>1 DEF Serving, ControlInv, ControlOK
  <2> QED
    BY <2>1, <2>2, RestKeeps
<1> QED
  BY <1>1, <1>2, <1>3, <1>4, <1>5 DEF Work

\* What the target does by itself reaches the workers as acknowledgements only,
\* and a bridge that is full or read again changes nothing else.
LEMMA OutsideKeeps ==
  ASSUME ControlInv, Target \/ \E w \in Workers : WriteBlocks(w) \/ WriteGoesOn(w)
  PROVE  ControlInv'
<1>1. /\ UNCHANGED <<injected, control, loop, commands, grace, requests, reply, callers>>
      /\ acked \subseteq acked'
  BY DEF Target, LateEvaluation, ListenersDetach, TriggerDetach, StdinDetach, Acknowledge,
         WriteBlocks, WriteGoesOn, target
<1>2. /\ loop' \in [Workers -> {"none", "running", "evaluating", "leaving", "gone"}]
      /\ Serving' = Serving
  BY <1>1 DEF Serving, ControlInv, ControlOK
<1> QED
  BY <1>1, <1>2, RestKeeps

\* However injections and detach calls follow each other, whatever breaks and
\* whatever comes too late: a worker that serves and that neither a detach nor a
\* newer injection has dismissed can be reached through the map of active
\* controls (inject_probe, send_detach_signal, remove_active_control_if_matches).
\* A detach that overlaps an injection is left out: send_detach_signal then
\* removes the control of the new worker.
THEOREM ServingWorkerIsInMap ==
  ASSUME "overlap" \notin Hazards
  PROVE  Spec => []LiveControlIsReachable
<1>1. Init => ControlInv
  <2> SUFFICES ASSUME Init PROVE ControlInv
    OBVIOUS
  <2>1. ControlOK
    BY MaxProbesAssumption, MaxDetachesAssumption DEF Init, InitTarget, ControlOK
  <2>2. OneAtATime /\ JoinsOnlyReplaced /\ DetachesOK /\ ConfirmedIsDismissed
    BY DEF Init, OneAtATime, JoinsOnlyReplaced, DetachesOK, ConfirmedIsDismissed, Injecting,
           Detaching
  <2>3. CommandsOK
    <3>1. \A w \in Workers : InChannel(w) = {}
      BY DEF Init, InChannel
    <3> QED
      BY <3>1 DEF Init, CommandsOK
  <2>4. LiveControlIsReachable
    BY DEF Init, LiveControlIsReachable, Serving
  <2> QED
    BY <2>1, <2>2, <2>3, <2>4 DEF ControlInv
<1>2. ControlInv /\ [Next]_vars => ControlInv'
  <2> SUFFICES ASSUME ControlInv, [Next]_vars PROVE ControlInv'
    OBVIOUS
  <2>1. ASSUME NEW c \in Callers, Begin(c) \/ Call(c) PROVE ControlInv'
    BY <2>1, InjectKeeps, InjectionFailsKeeps, DetachKeeps, CallKeeps DEF Begin
  <2>2. ASSUME NEW w \in Workers, Work(w) \/ Breaks(w) PROVE ControlInv'
    BY <2>2, WorkKeeps DEF Breaks
  <2>3. CASE Target \/ \E w \in Workers : WriteBlocks(w) \/ WriteGoesOn(w)
    BY <2>3, OutsideKeeps
  <2>4. CASE UNCHANGED vars
    <3>1. /\ UNCHANGED <<injected, control, loop, commands, grace, requests, reply, callers>>
          /\ acked \subseteq acked'
      BY <2>4 DEF vars, callers
    <3>2. /\ loop' \in [Workers -> {"none", "running", "evaluating", "leaving", "gone"}]
          /\ Serving' = Serving
      BY <3>1 DEF Serving, ControlInv, ControlOK
    <3> QED
      BY <3>1, <3>2, RestKeeps
  <2> QED
    BY <2>1, <2>2, <2>3, <2>4 DEF Next
<1>3. ControlInv => LiveControlIsReachable
  BY DEF ControlInv
<1> QED
  BY <1>1, <1>2, <1>3, PTL DEF Spec

-----------------------------------------------------------------------------
(* Where an injection evaluates its expressions.                            *)


Connected == {"call", "wait", "attached", "blocked"}
Searching == {"signal", "query", "fetch", "connect"}

\* A session leads somewhere exactly while the call is past its search.
SessionFollowsCall ==
  /\ at \in Searching => peer = Nobody /\ expression = "enable"
  /\ at \in Connected => peer # Nobody
  /\ at \in Searching \cup Connected \cup {"failed"}
  /\ peer = Nobody => inbox = <<>> /\ pending = FALSE

Replies == {"ok", "failed", "undefined", "target", "other"}
Messages == [kind : {"reply", "line", "noise"}, value : Replies \cup Int]

MessagesOK ==
  /\ inbox \in Seq(Messages)
  /\ expression \in {"enable", "pid", "bridge", "script"}

\* Only the target says that it is the target.
AnswersAreTrue ==
  \A i \in 1..Len(inbox) :
    inbox[i].kind = "reply" /\ inbox[i].value = "target" => peer = "target"

\* Nothing is asked of a session past the pid before its pid was the target's.
VerifiedBeforeBridge ==
  expression \in {"bridge", "script"} /\ peer # Nobody => peer = "target"

TargetInv ==
  /\ SessionFollowsCall /\ MessagesOK /\ AnswersAreTrue /\ VerifiedBeforeBridge
  /\ peer \in {Nobody, "target", "other"} /\ emitted \in Nat
  /\ served \in [Ports -> [owner : {Nobody, "target", "other"}, says : Int]]
  /\ ScriptOnlyInTarget

LEMMA AttachInitTarget == AttachInit => TargetInv
<1> SUFFICES ASSUME AttachInit PROVE TargetInv
  OBVIOUS
<1>1. \A l \in Listeners : l \in [owner : {Nobody, "target", "other"}, says : Int]
  BY DEF Listeners, Free, Processes, Ports, NoPort, Silent
<1>2. served \in [Ports -> [owner : {Nobody, "target", "other"}, says : Int]]
  BY <1>1 DEF AttachInit
<1>3. SessionFollowsCall /\ VerifiedBeforeBridge /\ ScriptOnlyInTarget
  BY DEF AttachInit, SessionFollowsCall, VerifiedBeforeBridge, ScriptOnlyInTarget, Searching,
         Connected, Nobody
<1>4. MessagesOK /\ AnswersAreTrue
  BY DEF AttachInit, MessagesOK, AnswersAreTrue
<1> QED
  BY <1>2, <1>3, <1>4 DEF AttachInit, TargetInv, Nobody

\* The parts of the state that TargetInv speaks of and the search leaves alone.
LEMMA SearchKeeps ==
  ASSUME TargetInv, UNCHANGED <<peer, expression, pending, inbox, emitted, ran, served>>,
         \/ at' = at
         \/ at \in Searching /\ at' \in Searching
         \/ at \in Connected /\ at' \in Connected
  PROVE  TargetInv'
<1>1. SessionFollowsCall'
  BY DEF TargetInv, SessionFollowsCall, Searching, Connected
<1>2. MessagesOK' /\ AnswersAreTrue' /\ VerifiedBeforeBridge' /\ ScriptOnlyInTarget'
  BY DEF TargetInv, MessagesOK, AnswersAreTrue, VerifiedBeforeBridge, ScriptOnlyInTarget
<1> QED
  BY <1>1, <1>2 DEF TargetInv

\* An error closes the session, and no other is opened by this call.
LEMMA FailKeeps == TargetInv /\ Fail => TargetInv'
<1> SUFFICES ASSUME TargetInv, Fail PROVE TargetInv'
  OBVIOUS
<1>1. SessionFollowsCall'
  BY DEF Fail, SessionFollowsCall, Searching, Connected
<1>2. MessagesOK' /\ AnswersAreTrue' /\ VerifiedBeforeBridge' /\ ScriptOnlyInTarget'
  BY DEF TargetInv, Fail, MessagesOK, AnswersAreTrue, VerifiedBeforeBridge, ScriptOnlyInTarget
<1> QED
  BY <1>1, <1>2 DEF TargetInv, Fail

\* Taking a message away leaves the others as they are.
LEMMA TailTrue ==
  ASSUME TargetInv, inbox # <<>>, inbox' = Tail(inbox), peer' = peer
  PROVE  /\ inbox' \in Seq(Messages)
         /\ AnswersAreTrue'
<1>1. inbox \in Seq(Messages)
  BY DEF TargetInv, MessagesOK
<1>2. /\ inbox' \in Seq(Messages)
      /\ \A i \in 1..Len(inbox') : inbox'[i] = inbox[i + 1] /\ i + 1 \in 1..Len(inbox)
  BY <1>1
<1> QED
  BY <1>2 DEF TargetInv, AnswersAreTrue

\* A message is true if it does not claim what the peer is not.
LEMMA AppendTrue ==
  ASSUME TargetInv, NEW m \in Messages, inbox' = Append(inbox, m), peer' = peer,
         m.kind = "reply" /\ m.value = "target" => peer = "target"
  PROVE  inbox' \in Seq(Messages) /\ AnswersAreTrue'
<1>1. inbox \in Seq(Messages)
  BY DEF TargetInv, MessagesOK
<1>2. inbox' \in Seq(Messages)
  BY <1>1
<1>3. \A i \in 1..Len(inbox') :
        (i \in 1..Len(inbox) /\ inbox'[i] = inbox[i]) \/ inbox'[i] = m
  BY <1>1, <1>2
<1> QED
  BY <1>2, <1>3 DEF TargetInv, AnswersAreTrue

\* Which expression comes next.
LEMMA Order ==
  ASSUME MessagesOK, Proceed
  PROVE  \/ at' = "attached" /\ expression' = expression
         \/ at' = "call" /\ expression = "enable" /\ expression' = "pid"
         \/ at' = "call" /\ expression = "pid" /\ expression' = "bridge"
         \/ at' = "call" /\ expression = "bridge" /\ expression' = "script"
<1> DEFINE step == CHOOSE i \in 1..Len(Steps) : Steps[i] = expression
<1>1. Len(Steps) = 4 /\ 1..Len(Steps) = {1, 2, 3, 4}
  BY DEF Steps
<1>2. /\ Steps[1] = "enable" /\ Steps[2] = "pid"
      /\ Steps[3] = "bridge" /\ Steps[4] = "script"
  BY DEF Steps
<1>3. \E i \in 1..Len(Steps) : Steps[i] = expression
  BY <1>1, <1>2 DEF MessagesOK
<1>4. step \in {1, 2, 3, 4} /\ Steps[step] = expression
  BY <1>1, <1>3
<1>5. IF step = 4 THEN at' = "attached" /\ expression' = expression
                  ELSE at' = "call" /\ expression' = Steps[step + 1]
  BY <1>1 DEF Proceed
<1> HIDE DEF step
<1>6. CASE step = 4
  BY <1>5, <1>6
<1>7. CASE step = 1
  BY <1>2, <1>4, <1>5, <1>7
<1>8. CASE step = 2
  BY <1>2, <1>4, <1>5, <1>8
<1>9. CASE step = 3
  BY <1>2, <1>4, <1>5, <1>9
<1> QED
  BY <1>4, <1>6, <1>7, <1>8, <1>9

LEMMA AnsweredKeeps ==
  ASSUME TargetInv, at = "wait", inbox # <<>>,
         Head(inbox).kind = "reply", Answered(Head(inbox).value)
  PROVE  TargetInv'
<1> DEFINE result == Head(inbox).value
<1>1. CASE Fail
  BY <1>1, FailKeeps
<1>2. CASE RetryPid
  <2>1. MessagesOK' /\ AnswersAreTrue'
    BY <1>2, TailTrue DEF RetryPid, TargetInv, MessagesOK
  <2>2. SessionFollowsCall' /\ VerifiedBeforeBridge' /\ ScriptOnlyInTarget'
    BY <1>2 DEF RetryPid, TargetInv, SessionFollowsCall, VerifiedBeforeBridge,
                ScriptOnlyInTarget, Searching, Connected
  <2> QED
    BY <1>2, <2>1, <2>2 DEF RetryPid, TargetInv, search
<1>3. CASE Verify(result) /\ UseReply(result)
  <2>1. /\ inbox' = Tail(inbox) /\ Proceed
        /\ UNCHANGED <<served, peer, pending, emitted, ran>>
    BY <1>3 DEF UseReply, search
  <2>2. inbox' \in Seq(Messages) /\ AnswersAreTrue'
    BY <2>1, TailTrue
  <2>3. peer # Nobody
    BY DEF TargetInv, SessionFollowsCall, Connected
  <2>4. expression = "pid" => peer = "target"
    <3>1. SUFFICES ASSUME expression = "pid" PROVE peer = "target"
      OBVIOUS
    <3>2. result = "target"
      BY <1>3, <3>1 DEF Verify
    <3>3. inbox[1] = Head(inbox) /\ 1 \in 1..Len(inbox)
      BY DEF TargetInv, MessagesOK
    <3> QED
      BY <3>2, <3>3 DEF TargetInv, AnswersAreTrue
  <2>5. \/ at' = "attached" /\ expression' = expression
        \/ at' = "call" /\ expression = "enable" /\ expression' = "pid"
        \/ at' = "call" /\ expression = "pid" /\ expression' = "bridge"
        \/ at' = "call" /\ expression = "bridge" /\ expression' = "script"
    BY <2>1, Order DEF TargetInv
  <2>6. SessionFollowsCall'
    BY <2>1, <2>3, <2>5 DEF SessionFollowsCall, Searching, Connected
  <2>7. MessagesOK' /\ VerifiedBeforeBridge' /\ ScriptOnlyInTarget'
    BY <2>1, <2>2, <2>3, <2>4, <2>5
       DEF TargetInv, MessagesOK, VerifiedBeforeBridge, ScriptOnlyInTarget
  <2> QED
    BY <2>1, <2>2, <2>6, <2>7 DEF TargetInv
<1> QED
  BY <1>1, <1>2, <1>3 DEF Answered

LEMMA PassOnKeeps ==
  ASSUME TargetInv, at \in Connected, inbox # <<>>, PassOn(Head(inbox))
  PROVE  TargetInv'
<1>1. /\ inbox' = Tail(inbox)
      /\ UNCHANGED <<served, at, peer, expression, pending, emitted, ran>>
  BY DEF PassOn, search
<1>2. inbox' \in Seq(Messages) /\ AnswersAreTrue'
  BY <1>1, TailTrue
<1>3. SessionFollowsCall' /\ VerifiedBeforeBridge' /\ ScriptOnlyInTarget' /\ MessagesOK'
  BY <1>1, <1>2 DEF TargetInv, SessionFollowsCall, VerifiedBeforeBridge, MessagesOK,
                    ScriptOnlyInTarget, Searching, Connected
<1> QED
  BY <1>1, <1>2, <1>3 DEF TargetInv

\* Something the target says of its own accord.
LEMMA SayKeeps ==
  ASSUME TargetInv, NEW m \in Messages, m.kind # "reply",
         Say(m), emitted' \in Nat,
         UNCHANGED <<served, at, peer, expression, pending, ran>>
  PROVE  TargetInv'
<1>1. inbox' = Append(inbox, m) /\ peer # Nobody
  BY DEF Say
<1>2. inbox' \in Seq(Messages) /\ AnswersAreTrue'
  BY <1>1, AppendTrue
<1>3. SessionFollowsCall' /\ VerifiedBeforeBridge' /\ ScriptOnlyInTarget' /\ MessagesOK'
  BY <1>1, <1>2 DEF TargetInv, SessionFollowsCall, VerifiedBeforeBridge, MessagesOK,
                    ScriptOnlyInTarget
<1> QED
  BY <1>2, <1>3 DEF TargetInv

LEMMA EvaluateKeeps == TargetInv /\ Evaluate => TargetInv'
<1> SUFFICES ASSUME TargetInv, Evaluate PROVE TargetInv'
  OBVIOUS
<1>1. peer # Nobody /\ peer \in {"target", "other"}
  BY DEF TargetInv, SessionFollowsCall, Evaluate
<1>2. PICK result \in Results \cup {"failed"} :
        inbox' = Append(inbox, Message("reply", result))
  BY DEF Evaluate
<1>3. result \in {"undefined", peer, "ok", "failed"}
  BY <1>2 DEF Results
<1>4. result \in Replies /\ (result = "target" => peer = "target")
  BY <1>1, <1>3 DEF Replies
<1>5. PICK m \in Messages : m = Message("reply", result) /\ m.value = result
  <2>1. Message("reply", result) \in Messages /\ Message("reply", result).value = result
    BY <1>4 DEF Message, Messages
  <2> QED
    BY <2>1
<1>6. UNCHANGED <<served, at, peer, expression, emitted>> /\ pending' = FALSE
      /\ ran' = ran \cup {<<peer, expression>>}
  BY DEF Evaluate, search
<1>7. inbox' \in Seq(Messages) /\ AnswersAreTrue'
  BY <1>2, <1>4, <1>5, <1>6, AppendTrue
<1>8. SessionFollowsCall' /\ VerifiedBeforeBridge' /\ MessagesOK'
  BY <1>1, <1>6, <1>7 DEF TargetInv, SessionFollowsCall, VerifiedBeforeBridge, MessagesOK
<1>9. ScriptOnlyInTarget'
  BY <1>1, <1>6 DEF TargetInv, VerifiedBeforeBridge, ScriptOnlyInTarget
<1> QED
  BY <1>6, <1>7, <1>8, <1>9 DEF TargetInv

\* The url that is connected to is that of a port.
UrlOfPort == at = "connect" => url \in Ports

LEMMA UrlStep == UrlOfPort /\ [AttachNext]_attachVars => UrlOfPort'
<1> SUFFICES ASSUME UrlOfPort, [AttachNext]_attachVars PROVE UrlOfPort'
  OBVIOUS
<1>1. CASE Signal \/ QueryPorts \/ EndRound \/ Connect \/ AttachBreaks
  BY <1>1 DEF UrlOfPort, Signal, QueryPorts, EndRound, Connect, AttachBreaks, Fail
<1>2. CASE Fetch
  BY <1>2 DEF UrlOfPort, Fetch
<1>3. CASE CallMethod \/ WorkerReads \/ ReadBridge \/ MakeNoise \/ EmitLine \/ Evaluate
  BY <1>3 DEF UrlOfPort, CallMethod, WorkerReads, ReadBridge, MakeNoise, EmitLine, Evaluate,
              PassOn, search
<1>4. CASE WaitForResponse
  BY <1>4 DEF UrlOfPort, WaitForResponse, Use, Block, PassOn, Answered, UseReply, RetryPid,
              Proceed, Fail
<1>5. CASE PassDeadline \/ PassRetryDeadline \/ (\E p \in Ports : MovePort(p)) \/ UNCHANGED attachVars
  BY <1>5 DEF UrlOfPort, PassDeadline, PassRetryDeadline, MovePort, attachVars, search
<1> QED
  BY <1>1, <1>2, <1>3, <1>4, <1>5 DEF AttachNext, Attach

LEMMA TargetStep == TargetInv /\ UrlOfPort /\ [AttachNext]_attachVars => TargetInv'
<1> SUFFICES ASSUME TargetInv, UrlOfPort, [AttachNext]_attachVars PROVE TargetInv'
  OBVIOUS
<1>1. CASE Signal
  BY <1>1, FailKeeps, SearchKeeps DEF Signal, search, session, Searching
<1>2. CASE QueryPorts
  BY <1>2, FailKeeps, SearchKeeps DEF QueryPorts, session, Searching
<1>3. CASE Fetch
  BY <1>3, SearchKeeps DEF Fetch, session, Searching
<1>4. CASE EndRound
  BY <1>4, FailKeeps, SearchKeeps DEF EndRound, search, session, Searching
<1>5. CASE Connect
  <2>1. CASE Fail
    BY <2>1, FailKeeps
  <2>2. CASE Inspects(url) /\ peer' = served[url].owner /\ at' = "call"
             /\ UNCHANGED <<search, expression, pending, inbox, emitted, ran>>
    <3>1. peer = Nobody /\ expression = "enable" /\ inbox = <<>>
      BY <1>5 DEF Connect, TargetInv, SessionFollowsCall, Searching
    <3>2. peer' \in {"target", "other"} /\ peer' # Nobody
      <4>1. served[url].owner # Nobody
        BY <2>2 DEF Inspects
      <4>2. served[url].owner \in {Nobody, "target", "other"}
        <5>1. url \in Ports
          BY <1>5 DEF Connect, UrlOfPort
        <5> QED
          BY <5>1 DEF TargetInv
      <4> QED
        BY <2>2, <4>1, <4>2
    <3>3. SessionFollowsCall' /\ VerifiedBeforeBridge' /\ MessagesOK' /\ AnswersAreTrue'
      BY <2>2, <3>1, <3>2 DEF SessionFollowsCall, VerifiedBeforeBridge, MessagesOK,
                              AnswersAreTrue, Searching, Connected
    <3> QED
      BY <2>2, <3>2, <3>3 DEF TargetInv, ScriptOnlyInTarget, search
  <2> QED
    BY <1>5, <2>1, <2>2 DEF Connect
<1>6. CASE CallMethod
  <2>1. SessionFollowsCall'
    BY <1>6 DEF CallMethod, TargetInv, SessionFollowsCall, Searching, Connected
  <2>2. MessagesOK' /\ AnswersAreTrue' /\ VerifiedBeforeBridge' /\ ScriptOnlyInTarget'
    BY <1>6 DEF CallMethod, TargetInv, MessagesOK, AnswersAreTrue, VerifiedBeforeBridge,
                ScriptOnlyInTarget
  <2> QED
    BY <1>6, <2>1, <2>2 DEF CallMethod, TargetInv, search
<1>7. CASE WaitForResponse
  <2>1. CASE Fail
    BY <2>1, FailKeeps
  <2>2. CASE Block
    BY <1>7, <2>2, SearchKeeps DEF Block, WaitForResponse, search, session, Connected
  <2>3. CASE inbox # <<>> /\ PassOn(Head(inbox))
    BY <1>7, <2>3, PassOnKeeps DEF WaitForResponse, Connected
  <2>4. CASE inbox # <<>> /\ Head(inbox).kind = "reply" /\ Answered(Head(inbox).value)
    BY <1>7, <2>4, AnsweredKeeps DEF WaitForResponse
  <2> QED
    BY <1>7, <2>1, <2>2, <2>3, <2>4 DEF WaitForResponse, Use
<1>8. CASE WorkerReads
  BY <1>8, PassOnKeeps DEF WorkerReads, Connected
<1>9. CASE AttachBreaks
  BY <1>9, FailKeeps DEF AttachBreaks
<1>10. CASE ReadBridge
  BY <1>10, SearchKeeps DEF ReadBridge, search
<1>11. CASE MakeNoise
  <2>1. PICK m \in Messages : m = Message("noise", 0) /\ m.kind # "reply"
    <3>1. Message("noise", 0) \in Messages /\ Message("noise", 0).kind # "reply"
      BY DEF Message, Messages
    <3> QED
      BY <3>1
  <2>2. Say(m) /\ UNCHANGED <<served, at, peer, expression, pending, ran>> /\ emitted' = emitted
    BY <1>11, <2>1 DEF MakeNoise, search
  <2>3. emitted' \in Nat
    BY <2>2 DEF TargetInv
  <2> QED
    BY <2>1, <2>2, <2>3, SayKeeps
<1>12. CASE EmitLine
  <2>1. emitted' \in Nat
    BY <1>12 DEF EmitLine, TargetInv
  <2>2. PICK m \in Messages : m = Message("line", emitted') /\ m.kind # "reply"
    <3>1. Message("line", emitted') \in Messages /\ Message("line", emitted').kind # "reply"
      BY <2>1 DEF Message, Messages
    <3> QED
      BY <3>1
  <2>3. Say(m) /\ UNCHANGED <<served, at, peer, expression, pending, ran>>
    BY <1>12, <2>2 DEF EmitLine, search
  <2> QED
    BY <2>1, <2>2, <2>3, SayKeeps
<1>13. CASE Evaluate
  BY <1>13, EvaluateKeeps
<1>14. CASE PassDeadline
  BY <1>14, SearchKeeps DEF PassDeadline, search, session
<1>15. CASE PassRetryDeadline
  BY <1>15, SearchKeeps DEF PassRetryDeadline, search
<1>16. CASE \E p \in Ports : MovePort(p)
  <2>1. PICK p \in Ports : MovePort(p)
    BY <1>16
  <2>2. UNCHANGED <<at, peer, expression, pending, inbox, emitted, ran>>
    BY <2>1 DEF MovePort, session
  <2>3. \A l \in Listeners : l \in [owner : {Nobody, "target", "other"}, says : Int]
    BY DEF Listeners, Free, Processes, Ports, NoPort, Silent
  <2>4. PICK l \in Listeners : served' = [served EXCEPT ![p] = l]
    BY <2>1 DEF MovePort, Listeners
  <2>5. served' \in [Ports -> [owner : {Nobody, "target", "other"}, says : Int]]
    BY <2>3, <2>4 DEF TargetInv
  <2>6. SessionFollowsCall' /\ VerifiedBeforeBridge' /\ MessagesOK' /\ AnswersAreTrue'
    BY <2>2 DEF TargetInv, SessionFollowsCall, VerifiedBeforeBridge, MessagesOK, AnswersAreTrue
  <2> QED
    BY <2>2, <2>5, <2>6 DEF TargetInv, ScriptOnlyInTarget
<1>17. CASE UNCHANGED attachVars
  BY <1>17, SearchKeeps DEF attachVars
<1> QED
  BY <1>1, <1>2, <1>3, <1>4, <1>5, <1>6, <1>7, <1>8, <1>9, <1>10, <1>11, <1>12, <1>13,
     <1>14, <1>15, <1>16, <1>17 DEF AttachNext, Attach

\* Whoever takes over a port meanwhile and whatever its urls lead to: bridge and
\* probe are evaluated in the target or nowhere (inject_probe verifies the pid
\* that the session itself gives before it evaluates either).
THEOREM BridgeAndScriptInTarget == AttachSpec => []ScriptOnlyInTarget
<1>1. AttachInit => TargetInv /\ UrlOfPort
  BY AttachInitTarget DEF AttachInit, UrlOfPort
<1>2. TargetInv /\ UrlOfPort /\ [AttachNext]_attachVars => TargetInv' /\ UrlOfPort'
  BY TargetStep, UrlStep
<1>3. TargetInv => ScriptOnlyInTarget
  BY DEF TargetInv
<1> QED
  BY <1>1, <1>2, <1>3, PTL DEF AttachSpec

-----------------------------------------------------------------------------
(* The lines of the probe.                                                 *)

\* Before there is a session there is nothing to pass on.
LinesInv ==
  /\ LinesArriveInOrder
  /\ consumed \in Nat /\ bridge \in Seq(Nat)
  /\ at \in Searching => emitted = 0 /\ consumed = 0 /\ bridge = <<>>

\* How the messages move up when the first one is taken.
LEMMA MovingUp ==
  ASSUME inbox \in Seq(Messages), inbox # <<>>, inbox' = Tail(inbox)
  PROVE  /\ 1 \in DOMAIN inbox /\ Head(inbox) = inbox[1]
         /\ \A i \in DOMAIN inbox : i \in Nat /\ (i = 1 \/ i - 1 \in DOMAIN inbox')
         /\ \A i \in DOMAIN inbox' : i \in Nat \ {0} /\ i + 1 \in DOMAIN inbox
                                     /\ inbox'[i] = inbox[i + 1]
<1>1. /\ Len(inbox) \in Nat \ {0} /\ DOMAIN inbox = 1..Len(inbox)
      /\ inbox' \in Seq(Messages) /\ Len(inbox') = Len(inbox) - 1
      /\ DOMAIN inbox' = 1..Len(inbox')
      /\ \A i \in 1..Len(inbox') : inbox'[i] = inbox[i + 1]
      /\ Head(inbox) = inbox[1]
  OBVIOUS
<1> QED
  BY <1>1

\* The lines that are left when the first message is taken are those of the
\* rest, one place further up.
LEMMA LinesMoveUp ==
  ASSUME inbox \in Seq(Messages), inbox # <<>>, inbox' = Tail(inbox)
  PROVE  /\ \A i \in Lines' : i \in Nat \ {0} /\ i + 1 \in Lines /\ inbox'[i] = inbox[i + 1]
         /\ \A i \in Lines : i \in Nat /\ (i = 1 \/ (i - 1 \in Lines' /\ inbox'[i - 1] = inbox[i]))
         /\ 1 \in Lines <=> Head(inbox).kind = "line"
<1>1. \A i \in Lines' : i \in Nat \ {0} /\ i + 1 \in Lines /\ inbox'[i] = inbox[i + 1]
  BY MovingUp DEF Lines
<1>2. \A i \in Lines : i \in Nat /\ (i = 1 \/ (i - 1 \in Lines' /\ inbox'[i - 1] = inbox[i]))
  <2> SUFFICES ASSUME NEW i \in Lines, i # 1
               PROVE  i \in Nat /\ i - 1 \in Lines' /\ inbox'[i - 1] = inbox[i]
    BY MovingUp DEF Lines
  <2>1. i \in Nat /\ i - 1 \in DOMAIN inbox'
    BY MovingUp DEF Lines
  <2>2. inbox'[i - 1] = inbox[(i - 1) + 1] /\ (i - 1) + 1 = i
    BY <2>1, MovingUp
  <2> QED
    BY <2>1, <2>2 DEF Lines
<1>3. 1 \in Lines <=> Head(inbox).kind = "line"
  BY MovingUp DEF Lines
<1> QED
  BY <1>1, <1>2, <1>3

LEMMA DropKeepsLines ==
  ASSUME inbox \in Seq(Messages), LinesInv, inbox # <<>>, inbox' = Tail(inbox),
         Head(inbox).kind # "line", UNCHANGED <<peer, bridge, consumed, emitted>>
  PROVE  LinesArriveInOrder'
<1>1. /\ \A i \in Lines' : i \in Nat \ {0} /\ i + 1 \in Lines /\ inbox'[i] = inbox[i + 1]
      /\ \A i \in Lines : i \in Nat /\ i - 1 \in Lines' /\ inbox'[i - 1] = inbox[i]
  BY LinesMoveUp
<1>2. {inbox'[i].value : i \in Lines'} = {inbox[i].value : i \in Lines}
  <2>1. ASSUME NEW i \in Lines' PROVE inbox'[i].value \in {inbox[j].value : j \in Lines}
    BY <1>1
  <2>2. ASSUME NEW i \in Lines PROVE inbox[i].value \in {inbox'[j].value : j \in Lines'}
    BY <1>1
  <2> QED
    BY <2>1, <2>2
<1>3. ASSUME \A i, j \in Lines : i < j => inbox[i].value < inbox[j].value,
             NEW i \in Lines', NEW j \in Lines', i < j
      PROVE  inbox'[i].value < inbox'[j].value
  <2>1. i + 1 < j + 1
    BY <1>1, <1>3
  <2> QED
    BY <1>1, <1>3, <2>1
<1> QED
  BY <1>2, <1>3 DEF LinesInv, LinesArriveInOrder

LEMMA TakeKeepsLines ==
  ASSUME inbox \in Seq(Messages), LinesInv, emitted \in Nat, peer # Nobody,
         inbox # <<>>, inbox' = Tail(inbox), Head(inbox).kind = "line",
         bridge' = Append(bridge, Head(inbox).value), UNCHANGED <<peer, consumed, emitted>>
  PROVE  LinesArriveInOrder' /\ bridge' \in Seq(Nat)
<1> DEFINE next == consumed + Len(bridge) + 1
<1>1. /\ \A i \in Lines' : i \in Nat \ {0} /\ i + 1 \in Lines /\ inbox'[i] = inbox[i + 1]
      /\ \A i \in Lines : i \in Nat /\ (i = 1 \/ (i - 1 \in Lines' /\ inbox'[i - 1] = inbox[i]))
      /\ 1 \in Lines /\ Head(inbox) = inbox[1]
  BY LinesMoveUp, MovingUp
<1>2. /\ next \in Nat /\ next - 1 <= emitted
      /\ \A i \in DOMAIN bridge : bridge[i] = consumed + i
      /\ {inbox[i].value : i \in Lines} = next..emitted
      /\ \A i, j \in Lines : i < j => inbox[i].value < inbox[j].value
  BY DEF LinesInv, LinesArriveInOrder
<1> HIDE DEF next
<1>3. inbox[1].value = next /\ next <= emitted
  <2>1. inbox[1].value \in next..emitted
    BY <1>1, <1>2
  <2>2. next \in next..emitted
    BY <1>2, <2>1
  <2>3. PICK i \in Lines : inbox[i].value = next
    BY <1>2, <2>2
  <2>4. i \in Nat /\ (i = 1 \/ 1 < i)
    <3>1. i \in DOMAIN inbox
      BY DEF Lines
    <3> QED
      BY <3>1
  <2> QED
    BY <1>1, <1>2, <2>1, <2>3, <2>4
<1>4. /\ bridge' \in Seq(Nat) /\ Len(bridge') = Len(bridge) + 1
      /\ \A i \in DOMAIN bridge' : bridge'[i] = consumed + i
  <2>1. bridge \in Seq(Nat) /\ consumed \in Nat /\ bridge' = Append(bridge, next)
    BY <1>1, <1>3 DEF LinesInv
  <2>2. /\ bridge' \in Seq(Nat) /\ Len(bridge') = Len(bridge) + 1
        /\ DOMAIN bridge' = 1..(Len(bridge) + 1) /\ DOMAIN bridge = 1..Len(bridge)
        /\ bridge'[Len(bridge) + 1] = next
        /\ \A i \in 1..Len(bridge) : bridge'[i] = bridge[i]
    BY <2>1, <1>2
  <2>3. next = consumed + (Len(bridge) + 1)
    BY <2>1 DEF next
  <2>4. ASSUME NEW i \in 1..(Len(bridge) + 1) PROVE bridge'[i] = consumed + i
    <3>1. CASE i = Len(bridge) + 1
      BY <2>2, <2>3, <3>1
    <3>2. CASE i # Len(bridge) + 1
      <4>1. i \in 1..Len(bridge)
        BY <2>1, <3>2
      <4> QED
        BY <1>2, <2>2, <4>1
    <3> QED
      BY <3>1, <3>2
  <2> QED
    BY <2>2, <2>4
<1>5. consumed' + Len(bridge') = next
  BY <1>4 DEF LinesInv, next
<1>6. {inbox'[i].value : i \in Lines'} = (next + 1)..emitted
  <2>1. ASSUME NEW i \in Lines' PROVE inbox'[i].value \in (next + 1)..emitted
    <3>1. i \in Nat \ {0} /\ i + 1 \in Lines /\ inbox'[i] = inbox[i + 1]
      BY <1>1
    <3>5. 1 < i + 1
      BY <3>1
    <3>2. inbox[i + 1].value \in next..emitted
      <4>1. inbox[i + 1].value \in {inbox[j].value : j \in Lines}
        BY <3>1
      <4> QED
        BY <1>2, <4>1
    <3>3. next < inbox[i + 1].value
      BY <1>1, <1>2, <1>3, <3>1, <3>5
    <3>4. inbox[i + 1].value \in (next + 1)..emitted
      <4>1. next \in Nat /\ emitted \in Nat
        BY <1>2
      <4> QED
        BY <3>2, <3>3, <4>1
    <3> QED
      BY <3>1, <3>4
  <2>2. ASSUME NEW n \in (next + 1)..emitted PROVE \E i \in Lines' : inbox'[i].value = n
    <3>1. n \in next..emitted /\ n # next
      BY <1>2
    <3>2. PICK i \in Lines : inbox[i].value = n
      BY <1>2, <3>1
    <3>3. i # 1
      BY <1>3, <3>1, <3>2
    <3> QED
      BY <1>1, <3>2, <3>3
  <2> QED
    BY <2>1, <2>2
<1>7. ASSUME NEW i \in Lines', NEW j \in Lines', i < j
      PROVE  inbox'[i].value < inbox'[j].value
  <2>1. i + 1 < j + 1
    BY <1>1, <1>7
  <2> QED
    BY <1>1, <1>2, <2>1
<1>8. consumed' + Len(bridge') <= emitted'
  BY <1>3, <1>5
<1> QED
  BY <1>4, <1>5, <1>6, <1>7, <1>8 DEF LinesArriveInOrder

\* A message that is added is the last one, and the lines stay where they are.
LEMMA LinesStay ==
  ASSUME inbox \in Seq(Messages), NEW m \in Messages, inbox' = Append(inbox, m)
  PROVE  /\ \A i \in Lines : i \in Lines' /\ inbox'[i] = inbox[i] /\ i < Len(inbox) + 1
         /\ \A i \in Lines' : i \in Lines \/ (i = Len(inbox) + 1 /\ m.kind = "line")
         /\ inbox'[Len(inbox) + 1] = m /\ (m.kind = "line" => Len(inbox) + 1 \in Lines')
<1>1. /\ Len(inbox) \in Nat /\ DOMAIN inbox = 1..Len(inbox)
      /\ DOMAIN inbox' = 1..(Len(inbox) + 1)
      /\ inbox'[Len(inbox) + 1] = m
      /\ \A i \in 1..Len(inbox) : inbox'[i] = inbox[i]
  OBVIOUS
<1>2. \A i \in 1..Len(inbox) : i \in 1..(Len(inbox) + 1) /\ i < Len(inbox) + 1
  BY <1>1
<1>3. \A i \in 1..(Len(inbox) + 1) : i \in 1..Len(inbox) \/ i = Len(inbox) + 1
  BY <1>1
<1>4. Len(inbox) + 1 \in 1..(Len(inbox) + 1)
  BY <1>1
<1> QED
  BY <1>1, <1>2, <1>3, <1>4 DEF Lines

LEMMA AddKeepsLines ==
  ASSUME inbox \in Seq(Messages), NEW m \in Messages, inbox' = Append(inbox, m),
         m.kind # "line", LinesInv, UNCHANGED <<peer, bridge, consumed, emitted>>
  PROVE  LinesArriveInOrder'
<1>1. Lines' = Lines /\ \A i \in Lines : inbox'[i] = inbox[i]
  BY LinesStay
<1>2. {inbox'[i].value : i \in Lines'} = {inbox[i].value : i \in Lines}
  BY <1>1
<1>3. (\A i, j \in Lines : i < j => inbox[i].value < inbox[j].value)
      => \A i, j \in Lines' : i < j => inbox'[i].value < inbox'[j].value
  BY <1>1
<1> QED
  BY <1>2, <1>3 DEF LinesInv, LinesArriveInOrder

LEMMA EmitKeepsLines ==
  ASSUME inbox \in Seq(Messages), emitted \in Nat, emitted' = emitted + 1,
         NEW m \in Messages, m.kind = "line", m.value = emitted + 1,
         inbox' = Append(inbox, m), peer # Nobody,
         LinesInv, UNCHANGED <<peer, bridge, consumed>>
  PROVE  LinesArriveInOrder'
<1> DEFINE next == consumed + Len(bridge) + 1
           last == Len(inbox) + 1
<1>1. /\ \A i \in Lines : i \in Lines' /\ inbox'[i] = inbox[i] /\ i < last
      /\ \A i \in Lines' : i \in Lines \/ (i = last /\ m.kind = "line")
      /\ inbox'[last] = m /\ last \in Lines'
  BY LinesStay
<1>2. /\ next \in Nat /\ next - 1 <= emitted
      /\ {inbox[i].value : i \in Lines} = next..emitted
      /\ \A i, j \in Lines : i < j => inbox[i].value < inbox[j].value
  BY DEF LinesInv, LinesArriveInOrder
<1>3. \A i \in Lines : i \in Nat
  BY DEF Lines
<1>4. last \in Nat
  OBVIOUS
<1> HIDE DEF next, last
<1>5. \A i \in Lines : inbox[i].value \in next..emitted
  BY <1>2
<1>9. /\ emitted + 1 \in next..(emitted + 1)
      /\ \A n \in next..emitted : n \in next..(emitted + 1) /\ n < emitted + 1
      /\ \A n \in next..(emitted + 1) : n = emitted + 1 \/ n \in next..emitted
  <2>1. next \in Nat /\ next - 1 <= emitted /\ emitted \in Nat
    BY <1>2
  <2> QED
    BY <2>1
<1>6. {inbox'[i].value : i \in Lines'} = next..(emitted + 1)
  <2>1. ASSUME NEW i \in Lines' PROVE inbox'[i].value \in next..(emitted + 1)
    BY <1>1, <1>5, <1>9
  <2>2. ASSUME NEW n \in next..(emitted + 1) PROVE \E i \in Lines' : inbox'[i].value = n
    <3>1. CASE n = emitted + 1
      BY <1>1, <3>1
    <3>2. CASE n # emitted + 1
      <4>1. n \in {inbox[i].value : i \in Lines}
        BY <1>2, <1>9, <3>2
      <4> QED
        BY <1>1, <4>1
    <3> QED
      BY <3>1, <3>2
  <2> QED
    BY <2>1, <2>2
<1>7. ASSUME NEW i \in Lines', NEW j \in Lines', i < j
      PROVE  inbox'[i].value < inbox'[j].value
  <2>1. i \in Lines
    BY <1>1, <1>3, <1>4, <1>7
  <2>2. inbox'[i] = inbox[i] /\ inbox[i].value \in next..emitted
    BY <1>1, <1>5, <2>1
  <2>3. CASE j \in Lines
    BY <1>1, <1>2, <1>7, <2>1, <2>2, <2>3
  <2>4. CASE j = last
    BY <1>1, <1>9, <2>2, <2>4
  <2> QED
    BY <1>1, <2>3, <2>4
<1>8. consumed' + Len(bridge') <= emitted' /\ consumed' + Len(bridge') + 1 = next
  BY DEF LinesInv, LinesArriveInOrder, next
<1> QED
  BY <1>6, <1>7, <1>8 DEF LinesInv, LinesArriveInOrder

LEMMA ReadKeepsLines ==
  ASSUME LinesInv, bridge # <<>>, consumed' = Head(bridge), bridge' = Tail(bridge),
         UNCHANGED <<peer, inbox, emitted>>, peer # Nobody
  PROVE  LinesArriveInOrder' /\ consumed' \in Nat /\ bridge' \in Seq(Nat)
<1>1. /\ bridge \in Seq(Nat) /\ consumed \in Nat
      /\ \A i \in DOMAIN bridge : bridge[i] = consumed + i
  BY DEF LinesInv, LinesArriveInOrder
<1>2. /\ Len(bridge) \in Nat \ {0} /\ DOMAIN bridge = 1..Len(bridge)
      /\ bridge' \in Seq(Nat) /\ Len(bridge') = Len(bridge) - 1
      /\ DOMAIN bridge' = 1..Len(bridge') /\ Head(bridge) = bridge[1]
      /\ \A i \in 1..Len(bridge') : bridge'[i] = bridge[i + 1]
  BY <1>1
<1>3. consumed' = consumed + 1
  BY <1>1, <1>2
<1>4. ASSUME NEW i \in DOMAIN bridge' PROVE bridge'[i] = consumed' + i
  <2>1. i \in Nat /\ i + 1 \in DOMAIN bridge /\ bridge'[i] = bridge[i + 1]
    BY <1>2
  <2>2. bridge[i + 1] = consumed + (i + 1)
    BY <1>1, <2>1
  <2> QED
    BY <1>1, <1>3, <2>1, <2>2
<1>5. consumed' + Len(bridge') = consumed + Len(bridge)
  BY <1>1, <1>2, <1>3
<1>6. Lines' = Lines
  BY DEF Lines
<1>7. LinesArriveInOrder'
  BY <1>4, <1>5, <1>6 DEF LinesInv, LinesArriveInOrder
<1> QED
  BY <1>1, <1>2, <1>3, <1>7

\* Nothing is lost by an error: there is no caller who would read the lines.
LEMMA FailKeepsLines == LinesInv /\ Fail => LinesInv'
  BY DEF Fail, LinesInv, LinesArriveInOrder, Searching

LEMMA RestKeepsLines ==
  ASSUME LinesInv, UNCHANGED <<peer, inbox, bridge, consumed, emitted>>,
         at' \in Searching => at \in Searching
  PROVE  LinesInv'
  BY DEF LinesInv, LinesArriveInOrder, Lines

LEMMA LinesStep ==
  TargetInv /\ LinesInv /\ [AttachNext]_attachVars => LinesInv'
<1> SUFFICES ASSUME TargetInv, LinesInv, [AttachNext]_attachVars PROVE LinesInv'
  OBVIOUS
<1>a. inbox \in Seq(Messages) /\ emitted \in Nat
  BY DEF TargetInv, MessagesOK
<1>b. at \in Connected => at \notin Searching /\ peer # Nobody
  BY DEF TargetInv, SessionFollowsCall, Connected, Searching
<1>c. peer # Nobody => at \notin Searching
  BY DEF TargetInv, SessionFollowsCall
<1>1. CASE Fail
  BY <1>1, FailKeepsLines
<1>2. CASE (Signal \/ QueryPorts \/ Fetch \/ EndRound) /\ ~Fail
  BY <1>2, RestKeepsLines DEF Signal, QueryPorts, Fetch, EndRound, search, session, Searching
<1>3. CASE Connect /\ ~Fail
  <2>1. bridge' = <<>> /\ emitted' = 0 /\ consumed' = 0 /\ inbox' = <<>> /\ at' = "call"
    BY <1>3 DEF Connect, LinesInv, TargetInv, SessionFollowsCall, Searching
  <2>2. Lines' = {}
    BY <2>1 DEF Lines
  <2> QED
    BY <2>1, <2>2 DEF LinesInv, LinesArriveInOrder, Searching
<1>4. CASE CallMethod \/ PassDeadline \/ PassRetryDeadline \/ (\E p \in Ports : MovePort(p))
           \/ UNCHANGED attachVars
  <2>1. UNCHANGED <<peer, inbox, bridge, consumed, emitted>>
    BY <1>4 DEF CallMethod, PassDeadline, PassRetryDeadline, MovePort, attachVars, search, session
  <2>2. at' = at \/ at' = "wait"
    BY <1>4 DEF CallMethod, PassDeadline, PassRetryDeadline, MovePort, attachVars, search, session
  <2> QED
    BY <2>1, <2>2, RestKeepsLines DEF Searching
<1>5. CASE inbox # <<>> /\ PassOn(Head(inbox)) /\ at \in Connected
  <2>1. inbox' = Tail(inbox) /\ UNCHANGED <<at, peer, consumed, emitted>>
    BY <1>5 DEF PassOn, search
  <2>2. CASE Head(inbox).kind = "line"
    <3>1. LinesArriveInOrder' /\ bridge' \in Seq(Nat)
      BY <1>5, <1>a, <1>b, <2>1, <2>2, TakeKeepsLines DEF PassOn
    <3> QED
      BY <1>5, <1>b, <2>1, <3>1 DEF LinesInv
  <2>3. CASE Head(inbox).kind # "line"
    <3>1. bridge' = bridge
      BY <1>5, <2>3 DEF PassOn
    <3>2. LinesArriveInOrder'
      BY <1>5, <1>a, <2>1, <2>3, <3>1, DropKeepsLines
    <3> QED
      BY <2>1, <3>1, <3>2 DEF LinesInv
  <2> QED
    BY <2>2, <2>3
<1>6. CASE WaitForResponse /\ ~Fail
  <2>1. at = "wait" /\ inbox # <<>> /\ Use(Head(inbox))
    BY <1>6 DEF WaitForResponse
  <2>2. CASE Head(inbox).kind = "reply" /\ Answered(Head(inbox).value)
    <3>1. /\ inbox' = Tail(inbox) /\ UNCHANGED <<peer, bridge, consumed, emitted>>
          /\ at' \in {"attached", "call"}
      BY <1>6, <2>2 DEF Answered, UseReply, RetryPid, Proceed
    <3>2. LinesArriveInOrder'
      BY <1>a, <2>1, <2>2, <3>1, DropKeepsLines
    <3> QED
      BY <3>1, <3>2 DEF LinesInv, Searching
  <2>3. CASE Block
    BY <2>3, RestKeepsLines DEF Block, session, Searching
  <2>4. CASE PassOn(Head(inbox))
    BY <1>5, <2>1, <2>4 DEF Connected
  <2> QED
    BY <2>1, <2>2, <2>3, <2>4 DEF Use
<1>7. CASE WorkerReads
  BY <1>5, <1>7 DEF WorkerReads, Connected
<1>8. CASE ReadBridge
  <2>1. LinesArriveInOrder' /\ consumed' \in Nat /\ bridge' \in Seq(Nat)
    BY <1>8, <1>b, ReadKeepsLines DEF ReadBridge, Connected
  <2>2. at' \notin Searching
    BY <1>8 DEF ReadBridge, Searching
  <2> QED
    BY <2>1, <2>2 DEF LinesInv
<1>9. CASE MakeNoise
  <2>1. PICK m \in Messages : m = Message("noise", 0) /\ m.kind # "line"
    <3>1. Message("noise", 0) \in Messages /\ Message("noise", 0).kind # "line"
      BY DEF Message, Messages
    <3> QED
      BY <3>1
  <2>2. /\ inbox' = Append(inbox, m) /\ UNCHANGED <<at, peer, bridge, consumed, emitted>>
    BY <1>9, <2>1 DEF MakeNoise, Say
  <2>3. LinesArriveInOrder'
    BY <1>a, <2>1, <2>2, AddKeepsLines
  <2> QED
    BY <2>2, <2>3 DEF LinesInv
<1>10. CASE EmitLine
  <2>1. emitted' = emitted + 1 /\ peer # Nobody
    BY <1>10 DEF EmitLine, Say
  <2>2. PICK m \in Messages : m = Message("line", emitted') /\ m.kind = "line" /\ m.value = emitted'
    <3>1. /\ Message("line", emitted') \in Messages /\ Message("line", emitted').kind = "line"
          /\ Message("line", emitted').value = emitted'
      BY <1>a, <2>1 DEF Message, Messages
    <3> QED
      BY <3>1
  <2>3. inbox' = Append(inbox, m) /\ UNCHANGED <<at, peer, bridge, consumed>>
    BY <1>10, <2>2 DEF EmitLine, Say
  <2>4. LinesArriveInOrder'
    BY <1>a, <2>1, <2>2, <2>3, EmitKeepsLines
  <2> QED
    BY <1>c, <2>1, <2>3, <2>4 DEF LinesInv
<1>11. CASE Evaluate
  <2>1. PICK result \in Results \cup {"failed"} :
          inbox' = Append(inbox, Message("reply", result))
    BY <1>11 DEF Evaluate
  <2>2. result \in Replies
    <3>1. peer \in {"target", "other"}
      BY <1>11 DEF Evaluate, TargetInv, SessionFollowsCall
    <3> QED
      BY <2>1, <3>1 DEF Results, Replies
  <2>3. PICK m \in Messages : m = Message("reply", result) /\ m.kind # "line"
    <3>1. Message("reply", result) \in Messages /\ Message("reply", result).kind # "line"
      BY <2>2 DEF Message, Messages
    <3> QED
      BY <3>1
  <2>4. inbox' = Append(inbox, m) /\ UNCHANGED <<at, peer, bridge, consumed, emitted>>
    BY <1>11, <2>1, <2>3 DEF Evaluate
  <2>5. LinesArriveInOrder'
    BY <1>a, <2>3, <2>4, AddKeepsLines
  <2> QED
    BY <2>4, <2>5 DEF LinesInv
<1> QED
  BY <1>1, <1>2, <1>3, <1>4, <1>6, <1>7, <1>8, <1>9, <1>10, <1>11
     DEF AttachNext, Attach, AttachBreaks

\* However the answers of the attach, the lines of an earlier probe and those of
\* the new one are mixed in the session: the caller of inject_probe gets every
\* line, once, in the order in which it was emitted (wait_for_response passes on
\* what it does not await, run_worker_loop goes on with the same session).
THEOREM NoLineIsLost == AttachSpec => []LinesArriveInOrder
<1>1. AttachInit => TargetInv /\ UrlOfPort /\ LinesInv
  <2>1. AttachInit => TargetInv /\ UrlOfPort
    BY AttachInitTarget DEF AttachInit, UrlOfPort
  <2>2. AttachInit => LinesInv
    BY DEF AttachInit, LinesInv, LinesArriveInOrder
  <2> QED
    BY <2>1, <2>2
<1>2. TargetInv /\ UrlOfPort /\ LinesInv /\ [AttachNext]_attachVars
      => TargetInv' /\ UrlOfPort' /\ LinesInv'
  BY TargetStep, UrlStep, LinesStep
<1>3. LinesInv => LinesArriveInOrder
  BY DEF LinesInv
<1> QED
  BY <1>1, <1>2, <1>3, PTL DEF AttachSpec

-----------------------------------------------------------------------------
(* The search for a port.                                                  *)

\* A port that has named a url all along is still to be asked.
SteadyAreUntried ==
  at = "fetch" => \A p \in steady : p \in untried \cap Ports /\ served[p].says \in Ports

LEMMA SteadyStep ==
  TargetInv /\ SteadyAreUntried /\ [AttachNext]_attachVars => SteadyAreUntried'
<1> SUFFICES ASSUME TargetInv, SteadyAreUntried, [AttachNext]_attachVars PROVE SteadyAreUntried'
  OBVIOUS
<1>1. CASE Fail
  BY <1>1 DEF Fail, SteadyAreUntried
<1>2. CASE Signal /\ ~Fail
  BY <1>2 DEF Signal, SteadyAreUntried
<1>3. CASE QueryPorts /\ ~Fail
  BY <1>3 DEF QueryPorts, SteadyAreUntried
<1>4. CASE Fetch
  BY <1>4 DEF Fetch, SteadyAreUntried
<1>5. CASE (EndRound \/ Connect) /\ ~Fail
  BY <1>5 DEF EndRound, Connect, SteadyAreUntried
<1>6. CASE CallMethod \/ PassDeadline \/ PassRetryDeadline \/ UNCHANGED attachVars
  BY <1>6 DEF CallMethod, PassDeadline, PassRetryDeadline, attachVars, search, SteadyAreUntried
<1>7. CASE WaitForResponse /\ ~Fail
  BY <1>7 DEF WaitForResponse, Use, Block, PassOn, Answered, UseReply, RetryPid, Proceed,
              search, SteadyAreUntried
<1>8. CASE WorkerReads \/ ReadBridge
  BY <1>8 DEF WorkerReads, PassOn, ReadBridge, SteadyAreUntried
<1>9. CASE MakeNoise \/ EmitLine \/ Evaluate
  BY <1>9 DEF MakeNoise, EmitLine, Evaluate, search, SteadyAreUntried
<1>10. ASSUME NEW p \in Ports, MovePort(p) PROVE SteadyAreUntried'
  <2>1. UNCHANGED <<at, untried>> /\ steady' = steady \ {p}
    BY <1>10 DEF MovePort
  <2>2. ASSUME NEW q \in steady' \cap Ports PROVE served'[q] = served[q]
    BY <1>10, <2>1, <2>2 DEF MovePort, TargetInv
  <2> QED
    BY <2>1, <2>2 DEF SteadyAreUntried
<1> QED
  BY <1>1, <1>2, <1>3, <1>4, <1>5, <1>6, <1>7, <1>8, <1>9, <1>10
     DEF AttachNext, Attach, AttachBreaks

\* A round of the discovery ends without a url only when no listed port had one
\* to offer for its whole length, whatever the other ports answer, in whatever
\* order lsof lists them (pick_debugger_url_from_candidates goes on after an
\* error and remembers it for the end).
THEOREM NoPortHidesAnother == AttachSpec => OnePortHidesNoOther
<1>1. AttachInit => TargetInv /\ UrlOfPort /\ SteadyAreUntried
  BY AttachInitTarget DEF AttachInit, UrlOfPort, SteadyAreUntried
<1>2. ASSUME SteadyAreUntried, [AttachNext]_attachVars,
             at = "fetch", at' \in {"query", "failed"}
      PROVE  steady = {}
  <2>1. at \notin {"signal", "query", "connect", "call", "wait", "attached"}
    BY <1>2
  <2>2. EndRound
    BY <1>2, <2>1 DEF AttachNext, Attach, Signal, QueryPorts, Fetch, Connect, CallMethod,
       WaitForResponse, WorkerReads, AttachBreaks, ReadBridge, MakeNoise, EmitLine, Evaluate,
       PassDeadline, PassRetryDeadline, MovePort, attachVars
  <2> QED
    BY <1>2, <2>2 DEF EndRound, SteadyAreUntried
<1>3. SteadyAreUntried /\ [AttachNext]_attachVars
      => [at = "fetch" /\ at' \in {"query", "failed"} => steady = {}]_attachVars
  BY <1>2
<1> QED
  BY <1>1, <1>3, TargetStep, UrlStep, SteadyStep, PTL DEF AttachSpec, OnePortHidesNoOther
=============================================================================
