-------------------------- MODULE IndexEnvironment --------------------------
(***************************************************************************)
(* Who works on the persisted index, what it is projected from, and what   *)
(* may happen meanwhile: the parameters of ObservabilityIndex.             *)
(***************************************************************************)
EXTENDS Naturals

CONSTANTS
  Threads,      \* connection threads of the console
  Sources,      \* artifact sources: (path, kind) keys
  MaxLines,     \* bound on the event lines of one source
  Hazards       \* which hazards of the environment may occur

HazardNames == {"live",         \* sources change while a request is served
                "archive",      \* a source file leaves its directory, or returns
                "crash",        \* the console process dies
                "write_error"}  \* a write to state/index fails half-way

ASSUME MaxLinesAssumption == MaxLines \in Nat \ {0}
ASSUME HazardsAssumption == Hazards \subseteq HazardNames
=============================================================================
