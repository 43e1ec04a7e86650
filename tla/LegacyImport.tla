----------------------------- MODULE LegacyImport -----------------------------
(***************************************************************************)
(* Every command starts by creating the directories of the store and by    *)
(* copying into it the artifacts of an old workspace that it lacks.        *)
(* Several commands may start at once, one may die at any point, and an    *)
(* older version may still record into the workspace.  The content of a    *)
(* file is the set of the lines it holds; line 0 stands for content that   *)
(* is not of the workspace.  fs::copy is taken in its general form: it     *)
(* creates or empties the file and then copies to the end of the source.   *)
(***************************************************************************)
EXTENDS Naturals, FiniteSets

CONSTANTS
  Hosts,        \* the processes
  Files,        \* names of artifacts
  MaxLines,     \* bound on the lines of an artifact of the workspace
  MaxStarts     \* bound on the starts

VARIABLES
  legacy,   \* artifact -> its lines in the workspace, 0 if it is not there
  present,  \* the artifacts that are in the store
  data,     \* artifact -> the lines it holds in the store
  pc,       \* process -> where it is
  todo,     \* process -> the artifacts it still looks at
  file,     \* process -> the set of the artifact it is copying
  pos,      \* process -> the lines it has copied of it
  starts,   \* the starts so far
  cut,      \* history: the artifacts of which a copy was given up
  least     \* history: artifact -> its lines when it was first copied

vars == <<legacy, present, data, pc, todo, file, pos, starts, cut, least>>
store == <<present, data>>

Own == {0}
InImport == {"import", "open", "copy"}
Copying(h, f) == pc[h] \in {"open", "copy"} /\ f \in file[h]

Init ==
  /\ legacy \in [Files -> 0 .. 1]
  /\ present \in SUBSET Files
  /\ data = [f \in Files |-> IF f \in present THEN Own ELSE {}]
  /\ pc = [h \in Hosts |-> "off"]
  /\ todo = [h \in Hosts |-> {}] /\ file = [h \in Hosts |-> {}] /\ pos = [h \in Hosts |-> 0]
  /\ starts = 0 /\ cut = {} /\ least = [f \in Files |-> 0]

-----------------------------------------------------------------------------
\* An older version, started in the workspace, appends to an artifact.
Record(f) ==
  /\ legacy[f] < MaxLines
  /\ legacy' = [legacy EXCEPT ![f] = @ + 1]
  /\ UNCHANGED <<store, pc, todo, file, pos, starts, cut, least>>

\* bootstrap_for_invocation: the directories are created, or the command ends.
Start(h) ==
  /\ pc[h] \in {"off", "crashed"} /\ starts < MaxStarts
  /\ starts' = starts + 1
  /\ \/ /\ pc' = [pc EXCEPT ![h] = "import"]
        /\ todo' = [todo EXCEPT ![h] = {f \in Files : legacy[f] > 0}]
     \/ pc' = [pc EXCEPT ![h] = "off"] /\ UNCHANGED todo
  /\ UNCHANGED <<legacy, store, file, pos, cut, least>>

Missing(f) == f \notin present

\* copy_missing_files_recursively, of which the order in a directory is any.
Look(h, f) ==
  /\ pc[h] = "import" /\ f \in todo[h]
  /\ todo' = [todo EXCEPT ![h] = @ \ {f}]
  /\ IF Missing(f)
     THEN pc' = [pc EXCEPT ![h] = "open"] /\ file' = [file EXCEPT ![h] = {f}]
     ELSE UNCHANGED <<pc, file>>
  /\ UNCHANGED <<legacy, store, pos, starts, cut, least>>

\* The destination is created, or emptied if it has come up meanwhile.
Open(h, f) ==
  /\ pc[h] = "open" /\ file[h] = {f}
  /\ present' = present \cup {f}
  /\ data' = [data EXCEPT ![f] = {}]
  /\ least' = [least EXCEPT ![f] = IF f \in present THEN @ ELSE legacy[f]]
  /\ pc' = [pc EXCEPT ![h] = "copy"] /\ pos' = [pos EXCEPT ![h] = 0]
  /\ UNCHANGED <<legacy, todo, file, starts, cut>>

CopyLine(h, f) ==
  /\ pc[h] = "copy" /\ file[h] = {f} /\ pos[h] < legacy[f]
  /\ data' = [data EXCEPT ![f] = @ \cup {pos[h] + 1}]
  /\ pos' = [pos EXCEPT ![h] = @ + 1]
  /\ UNCHANGED <<legacy, present, pc, todo, file, starts, cut, least>>

AfterFirstRead(h, f) == pos[h] > 0
AtEnd(h, f) == pos[h] = legacy[f]

CopyEnds(h, f) ==
  /\ pc[h] = "copy" /\ file[h] = {f} /\ AtEnd(h, f)
  /\ pc' = [pc EXCEPT ![h] = "import"]
  /\ file' = [file EXCEPT ![h] = {}] /\ pos' = [pos EXCEPT ![h] = 0]
  /\ UNCHANGED <<legacy, store, todo, starts, cut, least>>

CutByStop(h) == IF pc[h] = "copy" THEN cut \cup file[h] ELSE cut

\* The process goes to where p is, with nothing more to import.
Leave(h, p) ==
  /\ pc' = [pc EXCEPT ![h] = p]
  /\ todo' = [todo EXCEPT ![h] = {}]
  /\ file' = [file EXCEPT ![h] = {}] /\ pos' = [pos EXCEPT ![h] = 0]
  /\ cut' = CutByStop(h)
  /\ UNCHANGED <<legacy, store, starts, least>>

ImportEnds(h) == pc[h] = "import" /\ todo[h] = {} /\ Leave(h, "running")

\* The first error ends the import; the caller drops it.
Fail(h) == pc[h] \in InImport /\ Leave(h, "running")

Crash(h) == pc[h] \in InImport \cup {"running"} /\ Leave(h, "crashed")

Import(h) ==
  \/ ImportEnds(h)
  \/ \E f \in Files : Look(h, f) \/ Open(h, f) \/ CopyLine(h, f) \/ CopyEnds(h, f)

Next ==
  \/ \E f \in Files : Record(f)
  \/ \E h \in Hosts : Start(h) \/ Import(h) \/ Fail(h) \/ Crash(h)

Spec == Init /\ [][Next]_vars

-----------------------------------------------------------------------------
\* However many copies of an artifact overlapped, once all have ended it holds
\* the lines of the workspace from the first on, without a gap, and none that
\* was there when it was first copied is missing (copy_missing_files_recursively).
EndedCopiesAreWhole ==
  \A f \in present \ cut :
    (data[f] # Own /\ \A h \in Hosts : ~Copying(h, f)) =>
      \E n \in least[f] .. legacy[f] : data[f] = 1 .. n
=============================================================================
