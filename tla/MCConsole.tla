----------------------------- MODULE MCConsole -----------------------------
(***************************************************************************)
(* Model checking of what a console does from its start to its answers:    *)
(* what it does with files (ConsoleFiles), and the diagnostics of a        *)
(* session (CapabilityAnalysis), of which a behaviour looks at one part.   *)
(***************************************************************************)
EXTENDS ConsoleFiles

CONSTANTS Preview, Radix, MaxEvents, MaxTime          \* CapabilityAnalysis

VARIABLES source, clock, told

analysisVars == <<source, clock, told>>

\* Small catalogues: none, one skill, a skill in two cwds and in two cases, and
\* one more than the observer keeps.
Catalogs ==
  {<<>>, << <<"a", "b">>, <<"a">> >>, << <<"A">> >>, << <<"d">>, <<"a", "b">> >>,
   << <<"c", "a", "b", "d">> >>}
ServerSets == {{}, {"s"}, {"s", "u"}}
ToolSets == {{}, {"x"}, {"x", "y"}}
Texts == {<<"k">>, <<"k", "", "l">>, <<"l", "m", "l">>}
Lower == [n \in {"a", "b", "c", "d", "A", "*"} |-> IF n = "A" THEN "a" ELSE n]

D == INSTANCE CapabilityAnalysis WITH log <- told

MCInit == FilesInit /\ D!Init /\ (part # "analysis" => source = "codex")

MCNext ==
  \/ FilesNext /\ UNCHANGED analysisVars
  \/ part = "analysis" /\ D!Next /\ UNCHANGED filesVars

MCSpec == MCInit /\ [][MCNext]_<<filesVars, analysisVars>>

DiffsTellTheChanges == part = "analysis" => D!DiffsTellTheChanges
PromptDiffsAreOfNeighbours == part = "analysis" => D!PromptDiffsAreOfNeighbours
DiagnosisIsFounded == part = "analysis" => D!DiagnosisIsFounded
=============================================================================
