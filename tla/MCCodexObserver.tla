-------------------------- MODULE MCCodexObserver --------------------------
(***************************************************************************)
(* Model checking of a run of the Codex observer: how it comes to its      *)
(* sources (CodexSources) and what it does with them (CodexSession).  The  *)
(* session knows nothing of a source but whether it connects, so a         *)
(* behaviour looks at one of the two.                                      *)
(***************************************************************************)
EXTENDS CodexSession

CONSTANTS
  MaxSocket,      \* sockets the directory may hold
  SourceHazards   \* what may go wrong while the sources are found and tried

VARIABLES
  part,           \* the part of the run that is looked at
  present, owner, answers, named, pc, listed, found, sources, current, written,
  steady, tried

\* Every kind of first line, whole or in two pieces, and silence.
Answers ==
  {<<>>, <<"answer">>, <<"blank", "head", "tail">>, <<"notice", "answer">>,
   <<"error">>, <<"garbage">>}

sourceVars == <<present, owner, answers, named, pc, listed, found, sources,
                current, written, steady, tried>>

S == INSTANCE CodexSources WITH Hazards <- SourceHazards

MCInit ==
  /\ part \in {"sources", "session"}
  /\ Init
  /\ S!Init
  /\ part = "session" =>
       /\ present = {} /\ named = S!NoSocket
       /\ \A s \in S!Sockets : owner[s] = "other" /\ answers[s] = <<>>

\* Each part runs while the other one rests.
SessionOnly == part = "session" /\ UNCHANGED <<part, sourceVars>>
SourcesOnly == part = "sources" /\ UNCHANGED <<part, vars>>

MCNext ==
  \/ SessionOnly /\ Next
  \/ SourcesOnly /\ S!Next

MCvars == <<part, vars, sourceVars>>

\* Each part with the fairness of its FairSpec.
MCSpec ==
  /\ MCInit /\ [][MCNext]_MCvars
  /\ WF_MCvars(SessionOnly /\ Observer)
  /\ WF_MCvars(SourcesOnly /\ S!Observer)

\* The properties of CodexSources.
NewestDesktopSocketIsChosen == S!NewestDesktopSocketIsChosen

\* Neither finding a source nor the session with it goes on for ever, whatever
\* servers and sockets do (run_codex_observer).
RunsEnd ==
  /\ part = "session" => RunEnds
  /\ part = "sources" => S!StartEnds
=============================================================================
