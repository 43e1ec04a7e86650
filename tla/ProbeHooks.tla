----------------------------- MODULE ProbeHooks -----------------------------
(***************************************************************************)
(* The bootstrap probe inside a target process.  Every injection runs the  *)
(* script again: it wraps whatever the hook point holds, replaces the      *)
(* global detach function, and adds a listener for a detach line on stdin. *)
(* The target is single-threaded, so each of its steps is atomic.          *)
(*                                                                         *)
(* The hook points (fetch, undici, http, https) are patched and restored   *)
(* alike; fetch stands for all of them.                                    *)
(***************************************************************************)
EXTENDS Naturals

CONSTANT MaxProbes   \* bound on the injections into the target

ASSUME MaxProbesAssumption == MaxProbes \in Nat

VARIABLES
  injected,   \* how often the script has run
  fetch,      \* whose wrapper globalThis.fetch is
  original,   \* probe -> what it restores on detach
  installed,  \* the probes with a hook and a heartbeat
  detach,     \* whose triggerDetach globalThis.__prismtraceDetach is
  floor       \* history: what the oldest installed wrapper stands on

target == <<injected, fetch, original, installed, detach, floor>>

Probes == 1..MaxProbes
Native == 0       \* the runtime's own function
NoFunction == 0

InitTarget ==
  /\ injected = 0
  /\ fetch = Native
  /\ original = [p \in Probes |-> Native]
  /\ installed = {}
  /\ detach = NoFunction
  /\ floor = Native

\* The script runs to its end.
Bootstrap ==
  /\ injected < MaxProbes
  /\ injected' = injected + 1
  /\ detach' = injected'
  /\ original' = [original EXCEPT ![injected'] = fetch]
  /\ fetch' = injected'
  /\ installed' = installed \cup {injected'}
  /\ UNCHANGED floor

TriggerDetachToNative ==
  /\ detach' = NoFunction
  /\ fetch' = Native
  /\ original' = [original EXCEPT ![detach] = Native]
  /\ installed' = installed \ {detach}
  /\ UNCHANGED <<injected, floor>>

\* globalThis.__prismtraceDetach(), which is there: dispose removes the hooks
\* of that probe and the function itself.
TriggerDetach ==
  /\ detach' = NoFunction
  /\ fetch' = original[detach]
  /\ original' = [original EXCEPT ![detach] = Native]
  /\ installed' = installed \ {detach}
  /\ UNCHANGED <<injected, floor>>

\* A detach line on stdin: the listener of every probe that was ever injected
\* runs its own triggerDetach, the oldest first, so that what the newest one
\* had wrapped is restored last.  With several hooks in place that is the
\* wrapper of a probe just disposed of.
StdinDetach ==
  /\ injected > 0
  /\ detach' = NoFunction
  /\ fetch' = IF installed = {} THEN fetch
              ELSE original[CHOOSE p \in installed : \A q \in installed : q <= p]
  /\ original' = [p \in Probes |-> Native]
  /\ installed' = {}
  /\ floor' = IF \E p, q \in installed : p # q THEN fetch' ELSE floor
  /\ UNCHANGED injected

\* A request of the target passes through every installed wrapper, the newest
\* first, and then leaves the probe: detaching one probe through the global
\* function never unhooks, or revives, another, and what lies below the oldest
\* hook is the runtime's own function until a line on stdin has disposed of
\* several probes at once, which leaves one of their wrappers there (bootstrap.js
\* installHooks, removeAllHooks, triggerDetach).
HookChainIntact ==
  /\ {fetch} \cup {original[p] : p \in installed} = installed \cup {floor}
  /\ floor \notin installed
  /\ \A p \in installed : original[p] < p
=============================================================================
