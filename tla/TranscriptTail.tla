--------------------------- MODULE TranscriptTail ---------------------------
(***************************************************************************)
(* What following transcripts promises: an observer joins a transcript at  *)
(* its present end and from then on hands over each further line once, in  *)
(* order, and only when the line is complete.                              *)
(***************************************************************************)
EXTENDS Naturals

CONSTANT Transcripts

VARIABLES complete,   \* transcript -> complete lines it holds
          joined,     \* the transcripts being, or having been, followed
          given       \* transcript -> the last line handed over

vars == <<complete, joined, given>>

Init ==
  /\ complete \in [Transcripts -> Nat]
  /\ joined = {}
  /\ given = [f \in Transcripts |-> 0]

CompleteLine(f) ==
  /\ complete' = [complete EXCEPT ![f] = @ + 1]
  /\ UNCHANGED <<joined, given>>

Join(f) ==
  /\ f \notin joined
  /\ joined' = joined \cup {f}
  /\ given' = [given EXCEPT ![f] = complete[f]]
  /\ UNCHANGED complete

HandOver(f) ==
  /\ f \in joined /\ given[f] < complete[f]
  /\ given' = [given EXCEPT ![f] = @ + 1]
  /\ UNCHANGED <<complete, joined>>

Next == \E f \in Transcripts : CompleteLine(f) \/ Join(f) \/ HandOver(f)

Spec == Init /\ [][Next]_vars
=============================================================================
