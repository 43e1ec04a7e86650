------------------------- MODULE MCClaudeTranscript -------------------------
(***************************************************************************)
(* Model checking of ClaudeTranscript, and its refinement of               *)
(* TranscriptTail.  A behaviour either rewrites one transcript while the   *)
(* others stay empty, or appends to all of them.                           *)
(***************************************************************************)
EXTENDS ClaudeTranscript

CONSTANT Rewritten    \* the transcript that may be rewritten

VARIABLE rewriting

Others == Transcripts \ {Rewritten}

MCInit ==
  /\ Init /\ rewriting \in BOOLEAN
  /\ rewriting => \A f \in Others : size[f] = 0

MCNext ==
  /\ Next
  /\ IF rewriting THEN \A f \in Others : size'[f] = 0 /\ readable'[f]
                  ELSE gen' = gen
  /\ UNCHANGED rewriting

\* With the fairness of FairSpec: the observer changes no file.
MCSpec ==
  /\ MCInit /\ [][MCNext]_<<vars, rewriting>>
  /\ WF_vars(Observer /\ UNCHANGED rewriting)
  /\ SF_vars(IdleTimeout /\ UNCHANGED rewriting)

Promise == INSTANCE TranscriptTail WITH
  complete <- [f \in Transcripts |-> IF rewriting THEN 0 ELSE LinesIn(size[f])],
  joined <- IF rewriting THEN {} ELSE scanned,
  given <- [f \in Transcripts |->
              IF rewriting \/ f \notin scanned THEN 0
              ELSE IF log[f] = <<>> THEN skipped[f]
              ELSE log[f][Len(log[f])].rec]

\* Transcripts that are only appended to are handed over as promised: from
\* the end found when the history was read, each complete line once, in order.
FollowsAsPromised == Promise!Spec
=============================================================================
