---------------------------- MODULE MCInspector ----------------------------
(***************************************************************************)
(* Model checking of the inspector runtime: one call of inject_probe up to *)
(* its worker (InspectorAttach), and what calls and workers do after that  *)
(* (InspectorControl, where an injection is one step).  A behaviour looks  *)
(* at one of the two.                                                      *)
(***************************************************************************)
EXTENDS InspectorControl, InspectorAttach

VARIABLE part    \* the part of the runtime that is looked at

MCInit ==
  /\ part \in {"attach", "control"}
  /\ Init
  /\ AttachInit
  /\ part = "control" => \A p \in Ports : served[p] = Free

\* Each part runs while the other one rests.
ControlOnly == part = "control" /\ UNCHANGED <<part, attachVars>>
AttachOnly == part = "attach" /\ UNCHANGED <<part, vars>>

MCNext ==
  \/ ControlOnly /\ Next
  \/ AttachOnly /\ AttachNext

MCvars == <<part, vars, attachVars>>

\* Each part with the fairness of its own specification.
MCSpec ==
  /\ MCInit /\ [][MCNext]_MCvars
  /\ \A c \in Callers : WF_MCvars(ControlOnly /\ Call(c))
  /\ \A w \in Workers : SF_MCvars(ControlOnly /\ Work(w))
  /\ WF_MCvars(AttachOnly /\ Attach)
  /\ WF_MCvars(AttachOnly /\ PassDeadline)
  /\ WF_MCvars(AttachOnly /\ PassRetryDeadline)

\* Every call ends: the injection with its discovery and its four evaluations,
\* whatever ports and target say, unless it writes into a bridge that is full;
\* a detach always; and a call that replaces a worker if no bridge stays full
\* (inject_probe, send_detach_signal).
EveryCallReturns ==
  /\ part = "control" => CallsReturn
  /\ part = "attach" => AttachEnds
=============================================================================
