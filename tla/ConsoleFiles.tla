---------------------------- MODULE ConsoleFiles ----------------------------
(***************************************************************************)
(* What a console does with files from its start to its answers: the       *)
(* import of an old workspace (LegacyImport), the reading of rollouts and  *)
(* artifacts (ReadModel) and the lists under a filter (ConsoleViews).      *)
(* Each takes what the one before it leaves as files or events, in any     *)
(* form these can have, so that a behaviour looks at one of them.          *)
(***************************************************************************)
EXTENDS ConsoleViews

CONSTANTS
  Hosts, LegacyFiles, LegacyLines, MaxStarts,       \* LegacyImport
  Threads, Artifacts, Window, MaxLines, MaxWritten  \* ReadModel

\* Codex names its threads by UUIDs, the observers their artifacts by their own
\* names; "unknown" stands for the thread that no line has told yet.
ASSUME ConsoleFilesAssumption ==
  /\ Threads \cap Artifacts = {} /\ "unknown" \notin Threads
  /\ Window \in Nat \ {0}

VARIABLES
  part,                                             \* what is looked at
  legacy, present, data, pc, todo, copied, pos, starts, cut, least,
  file, place, row, db, indexed, index, page

importVars == <<legacy, present, data, pc, todo, copied, pos, starts, cut, least>>
readVars == <<file, place, row, db, indexed, index, page>>
filesVars == <<part, vars, importVars, readVars>>

I == INSTANCE LegacyImport WITH Files <- LegacyFiles, MaxLines <- LegacyLines, file <- copied
R == INSTANCE ReadModel WITH Rollouts <- Threads

\* What is not looked at is in one of its initial states, and rests.
FilesInit ==
  /\ part \in {"import", "read", "views", "analysis"}
  /\ Init /\ I!Init /\ R!Init
  /\ part # "import" => present = {} /\ legacy = [f \in LegacyFiles |-> 0]
  /\ part # "read" => ~db
  /\ part # "views" => ~stateDb /\ \A t \in Rollouts : ~cwd[t]

FilesNext ==
  \/ part = "import" /\ I!Next /\ UNCHANGED <<part, vars, readVars>>
  \/ part = "read" /\ R!Next /\ UNCHANGED <<part, vars, importVars>>
  \/ part = "views" /\ Next /\ UNCHANGED <<part, importVars, readVars>>

FilesSpec == FilesInit /\ [][FilesNext]_filesVars

\* The properties of the other parts; a part at rest satisfies its own.
EndedCopiesAreWhole == part = "import" => I!EndedCopiesAreWhole
RoutesFollowTheFiles == part = "read" => R!RoutesFollowTheFiles
EventIdsAreStable == R!EventIdsAreStable
=============================================================================
