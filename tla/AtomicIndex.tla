---------------------------- MODULE AtomicIndex ----------------------------
(***************************************************************************)
(* What the persisted index promises: a copy of the facts that can be read *)
(* now, replaced as a whole by each rebuild and never seen half-way.       *)
(***************************************************************************)
EXTENDS Naturals

CONSTANTS Sources, Parts

VARIABLES
  facts,     \* source -> facts recorded
  readable,  \* source -> whether it can be read
  index      \* part -> source -> facts the part covers

vars == <<facts, readable, index>>

Readable == [s \in Sources |-> IF readable[s] THEN facts[s] ELSE 0]

Init ==
  /\ facts = [s \in Sources |-> 0]
  /\ readable = [s \in Sources |-> TRUE]
  /\ index = [p \in Parts |-> [s \in Sources |-> 0]]

Record(s) ==
  /\ readable[s]
  /\ facts' = [facts EXCEPT ![s] = @ + 1]
  /\ UNCHANGED <<readable, index>>

Toggle(s) ==
  /\ readable' = [readable EXCEPT ![s] = ~@]
  /\ UNCHANGED <<facts, index>>

Rebuild ==
  /\ index' = [p \in Parts |-> Readable]
  /\ UNCHANGED <<facts, readable>>

Next == Rebuild \/ \E s \in Sources : Record(s) \/ Toggle(s)

Spec == Init /\ [][Next]_vars
=============================================================================
