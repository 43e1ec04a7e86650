----------------------- MODULE MCObservabilityIndex -----------------------
(***************************************************************************)
(* ObservabilityIndex on three small instances, of which a behaviour is of *)
(* one: a reader alone whose sources rest while it is served, a reader     *)
(* alone whose sources grow, and several threads with everything that can  *)
(* go wrong.                                                               *)
(***************************************************************************)
EXTENDS IndexEnvironment, TLC

CONSTANTS
  Reader,      \* the only thread of the first two instances
  OneSource    \* the only source of the third

VARIABLES
  part,        \* which instance this is
  lines, present, manifest, disk, pc, asked, cursor, snap, prev, changed, plan,
  caps, base, answer, due

indexVars == <<lines, present, manifest, disk, pc, asked, cursor, snap, prev,
               changed, plan, caps, base, answer, due>>

Quiet == INSTANCE ObservabilityIndex WITH Threads <- {Reader}, Hazards <- {"archive"}
Live == INSTANCE ObservabilityIndex WITH Threads <- {Reader}, Hazards <- {"live"}
Faults == INSTANCE ObservabilityIndex WITH Sources <- {OneSource}, MaxLines <- 1

MCInit ==
  \/ part = "quiet" /\ Quiet!Init
  \/ part = "live" /\ Live!Init
  \/ part = "faults" /\ Faults!Init

MCNext ==
  /\ \/ part = "quiet" /\ Quiet!Next
     \/ part = "live" /\ Live!Next
     \/ part = "faults" /\ Faults!Next
  /\ UNCHANGED part

MCSpec == MCInit /\ [][MCNext]_<<part, indexVars>>

Symmetry == Permutations(Threads)

TypeOK == part = "quiet" => Quiet!TypeOK
FreshManifestMeansFreshIndex == part = "quiet" => Quiet!FreshManifestMeansFreshIndex
ExistingDetailIsFound == part = "live" => Live!ExistingDetailIsFound
IndexNeverAhead == part = "faults" => Faults!IndexNeverAhead

\* Where the build is not undisturbed nothing is asked of it: the abstract index
\* of the other instances rests.
Seen(current, otherwise) == IF part = "quiet" THEN current ELSE otherwise

Atomic == INSTANCE AtomicIndex WITH
  Parts <- Quiet!Files,
  facts <- Seen(lines, Quiet!None),
  readable <- Seen(present, [s \in Sources |-> TRUE]),
  index <- Seen(Quiet!Published, Quiet!NoIndex)

RefinesAtomicIndex == Atomic!Spec
===========================================================================
