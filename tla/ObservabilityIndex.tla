------------------------- MODULE ObservabilityIndex -------------------------
(***************************************************************************)
(* The persisted session/event/capability index of PrismTrace: what the    *)
(* console's connection threads do to `state/index` while observers append *)
(* to the artifacts it is projected from.                                  *)
(*                                                                         *)
(* An artifact source (path, kind) is append-only: it is modelled by the   *)
(* number of event lines it holds.  An index file is modelled by, for each *)
(* source, how many of that source's leading event lines it covers (0: no  *)
(* entry), and a manifest by the length each source had when it was        *)
(* fingerprinted (size and mtime grow with every line).  There is no lock: *)
(* every connection is served by a thread of its own.                      *)
(***************************************************************************)
EXTENDS IndexEnvironment, Sequences

VARIABLES
  lines,     \* source -> event lines written to it so far
  present,   \* source -> whether its file is where the readers look
  manifest,  \* state/index/manifest.json
  disk,      \* the three JSONL index files, by name
  pc,        \* thread -> what it does next
  asked,     \* thread -> the request it serves, or served last
  cursor,    \* thread -> which index file it is at
  snap,      \* thread -> the sessions its build parsed
  prev,      \* thread -> the manifest its build loaded
  changed,   \* thread -> sources its build will project again
  plan,      \* thread -> the manifest its build writes
  caps,      \* thread -> events whose detail its build could load
  base,      \* thread -> the index it loaded, then the one it writes
  answer,    \* thread -> sources shown by its last answer
  due        \* history: sources that answer has to show

world   == <<lines, present>>
store   == <<manifest, disk>>
build   == <<snap, prev, changed, plan, caps>>
request == <<asked, answer, due>>
vars == <<lines, present, manifest, disk, pc, asked, cursor, snap, prev,
          changed, plan, caps, base, answer, due>>

-----------------------------------------------------------------------------
(* Files.                                                                  *)

Files == {"sessions", "events", "capabilities"}
FileOrder == <<"sessions", "events", "capabilities">>

NextCursorPastEnd(i) == i + 1
NextCursor(i) == IF i = 3 THEN 1 ELSE i + 1

Counts == [Sources -> Nat]
None == [s \in Sources |-> 0]
NoIndex == [f \in Files |-> None]

File == [state : {"missing", "damaged", "ok"}, entries : Counts]
Missing == [state |-> "missing", entries |-> None]
Damaged == [state |-> "damaged", entries |-> None]
Holding(counts) == [state |-> "ok", entries |-> counts]

\* fs::write opens with truncation first.  An empty file is a valid, empty
\* JSONL index, but it is not a JSON manifest.
Truncated == Holding(None)

AnyMissing == \E f \in Files : disk[f].state = "missing"

-----------------------------------------------------------------------------
(* Requests.  A list route asks for every session; a detail route for one  *)
(* session, or for one event, named by its source and line.                *)

ListRequest == <<>>
SessionRequests == Sources \X {0}
EventRequests == Sources \X (1..MaxLines)
DetailRequests == SessionRequests \cup EventRequests
Requests == {ListRequest} \cup DetailRequests

Visible == [s \in Sources |-> IF present[s] THEN lines[s] ELSE 0]
SessionsOf(counts) == {s \in Sources : counts[s] > 0}

\* The sessions among counts that the request r is about.
Selected(r, counts) ==
  {s \in SessionsOf(counts) : r # ListRequest => s = r[1] /\ counts[s] >= r[2]}

Init ==
  /\ lines = None
  /\ present = [s \in Sources |-> TRUE]
  /\ manifest = Missing
  /\ disk = [f \in Files |-> Missing]
  /\ pc = [t \in Threads |-> "idle"]
  /\ asked = [t \in Threads |-> ListRequest]
  /\ cursor = [t \in Threads |-> 1]
  /\ snap = [t \in Threads |-> None]
  /\ prev = [t \in Threads |-> None]
  /\ changed = [t \in Threads |-> {}]
  /\ plan = [t \in Threads |-> None]
  /\ caps = [t \in Threads |-> None]
  /\ base = [t \in Threads |-> NoIndex]
  /\ answer = [t \in Threads |-> {}]
  /\ due = [t \in Threads |-> {}]

Goto(t, label) == pc' = [pc EXCEPT ![t] = label]

\* The thread writes its response; what it holds in memory is dropped.
Respond(t, shown) ==
  /\ Goto(t, "idle")
  /\ answer' = [answer EXCEPT ![t] = shown]
  /\ cursor' = [cursor EXCEPT ![t] = 1]
  /\ snap' = [snap EXCEPT ![t] = None]
  /\ prev' = [prev EXCEPT ![t] = None]
  /\ changed' = [changed EXCEPT ![t] = {}]
  /\ plan' = [plan EXCEPT ![t] = None]
  /\ caps' = [caps EXCEPT ![t] = None]
  /\ base' = [base EXCEPT ![t] = NoIndex]
  /\ UNCHANGED <<asked, due>>

\* A failed build is answered with an empty list, or as not found.
FailBuild(t) == Respond(t, {})

-----------------------------------------------------------------------------
(* The environment: observers, the archiving of Codex rollouts.            *)

SourcesMayMove == "live" \in Hazards \/ \A t \in Threads : pc[t] = "idle"

AppendLine(s) ==
  /\ SourcesMayMove
  /\ present[s] /\ lines[s] < MaxLines
  /\ lines' = [lines EXCEPT ![s] = @ + 1]
  /\ UNCHANGED <<present, store, pc, cursor, build, base, request>>

Archive(s) ==
  /\ SourcesMayMove /\ "archive" \in Hazards
  /\ present[s] /\ lines[s] > 0
  /\ present' = [present EXCEPT ![s] = FALSE]
  /\ due' = [t \in Threads |-> due[t] \ {s}]
  /\ UNCHANGED <<lines, store, pc, cursor, build, base, asked, answer>>

Unarchive(s) ==
  /\ SourcesMayMove
  /\ ~present[s]
  /\ present' = [present EXCEPT ![s] = TRUE]
  /\ UNCHANGED <<lines, store, pc, cursor, build, base, request>>

-----------------------------------------------------------------------------
(* Serving a request from the persisted index.                             *)

Request(t, r) ==
  /\ pc[t] = "idle"
  /\ Goto(t, "open")
  /\ asked' = [asked EXCEPT ![t] = r]
  /\ answer' = [answer EXCEPT ![t] = {}]
  /\ due' = [due EXCEPT ![t] = Selected(r, Visible)]
  /\ UNCHANGED <<world, store, cursor, build, base>>

\* IndexReadStore::load first wants all three files to exist.
OpenStore(t) ==
  /\ pc[t] = "open"
  /\ Goto(t, IF AnyMissing THEN "scan" ELSE "load")
  /\ UNCHANGED <<world, store, cursor, build, base, request>>

\* load_jsonl reads the three files one after the other; one unreadable line
\* fails the load, and the route builds the read model instead.
LoadFile(t) ==
  LET f == FileOrder[cursor[t]] IN
  /\ pc[t] = "load"
  /\ IF disk[f].state = "damaged"
       THEN /\ Goto(t, "scan")
            /\ cursor' = [cursor EXCEPT ![t] = 1]
            /\ base' = [base EXCEPT ![t] = NoIndex]
       ELSE /\ base' = [base EXCEPT ![t][f] = disk[f].entries]
            /\ Goto(t, IF cursor[t] = 3 THEN "answer" ELSE "load")
            /\ cursor' = [cursor EXCEPT ![t] = NextCursor(@)]
  /\ UNCHANGED <<world, store, build, request>>

\* A list route reads the artifact of every indexed session again; one that
\* cannot be opened fails the list, and the route answers with the default.
AnswerList(t) ==
  LET indexed == SessionsOf(base[t]["sessions"]) IN
  /\ pc[t] = "answer" /\ asked[t] = ListRequest
  /\ Respond(t, IF \A s \in indexed : present[s] THEN indexed ELSE {})
  /\ UNCHANGED <<world, store>>

\* The session is in the sessions index, and the event, if one is asked for, in
\* the events index.
InIndex(t) ==
  LET s == asked[t][1] IN
  base[t]["sessions"][s] > 0 /\ base[t]["events"][s] >= asked[t][2]

\* The artifact can be read again as well.
InStore(t) == InIndex(t) /\ present[asked[t][1]]

AnswerDetail(t) ==
  /\ pc[t] = "answer" /\ asked[t] # ListRequest
  /\ InStore(t)
  /\ Respond(t, {asked[t][1]})
  /\ UNCHANGED <<world, store>>

\* Anything but Ok(Some(_)) from the store falls through to a full build.
FallBackToBuild(t) ==
  /\ pc[t] = "answer" /\ asked[t] # ListRequest
  /\ ~InStore(t)
  /\ Goto(t, "scan")
  /\ base' = [base EXCEPT ![t] = NoIndex]
  /\ UNCHANGED <<world, store, cursor, build, request>>

-----------------------------------------------------------------------------
(* ObservabilityReadModel::build.                                          *)

\* Parse every artifact below the observer and Codex roots.
Scan(t) ==
  /\ pc[t] = "scan"
  /\ snap' = [snap EXCEPT ![t] = Visible]
  /\ Goto(t, "load_manifest")
  /\ UNCHANGED <<world, store, cursor, prev, changed, plan, caps, base, request>>

LoadManifest(t) ==
  /\ pc[t] = "load_manifest"
  /\ IF manifest.state = "damaged"
       THEN FailBuild(t)
       ELSE /\ prev' = [prev EXCEPT ![t] = manifest.entries]
            /\ Goto(t, "fingerprint")
            /\ UNCHANGED <<cursor, snap, changed, plan, caps, base, request>>
  /\ UNCHANGED <<world, store>>

\* reusable_source and from_file look at the files as they are now, not as
\* they were parsed; a source that has gone fails the build.
Fingerprint(t) ==
  LET parsed == SessionsOf(snap[t]) IN
  /\ pc[t] = "fingerprint"
  /\ IF \E s \in parsed : ~present[s]
       THEN FailBuild(t)
       ELSE /\ changed' = [changed EXCEPT ![t] = {s \in parsed : prev[t][s] # lines[s]}]
            /\ plan' = [plan EXCEPT ![t] =
                          [s \in Sources |-> IF s \in parsed THEN lines[s] ELSE 0]]
            /\ Goto(t, "create_manifest")
            /\ UNCHANGED <<cursor, snap, prev, caps, base, request>>
  /\ UNCHANGED <<world, store>>

\* File::create truncates, and the pretty writer then writes piece by piece.
CreateManifest(t) ==
  /\ pc[t] = "create_manifest"
  /\ manifest' = Damaged
  /\ Goto(t, "save_manifest")
  /\ UNCHANGED <<world, disk, cursor, build, base, request>>

\* If others have the file open too, their pieces and these lie over each other.
Pieces(t) ==
  {Holding(plan[t])}
    \cup {Damaged : u \in {u \in Threads \ {t} : pc[u] = "save_manifest" \/ manifest # Damaged}}

SaveManifest(t) ==
  /\ pc[t] = "save_manifest"
  /\ manifest' \in Pieces(t)
  /\ Goto(t, "check_files")
  /\ UNCHANGED <<world, disk, cursor, build, base, request>>

CheckFiles(t) ==
  /\ pc[t] = "check_files"
  /\ changed' = [changed EXCEPT ![t] =
                   IF AnyMissing THEN SessionsOf(snap[t]) ELSE @]
  /\ Goto(t, "project")
  /\ UNCHANGED <<world, store, cursor, snap, prev, plan, caps, base, request>>

\* load_event_detail opens each artifact again; an event whose artifact has
\* gone is left out of the capabilities and of the event details.
Project(t) ==
  /\ pc[t] = "project"
  /\ caps' = [caps EXCEPT ![t] =
                [s \in Sources |-> IF present[s] THEN snap[t][s] ELSE 0]]
  /\ Goto(t, "merge")
  /\ UNCHANGED <<world, store, cursor, snap, prev, changed, plan, base, request>>

MergedKeepingOld(t, f, loaded) ==
  [s \in Sources |-> IF snap[t][s] = 0 THEN 0
                     ELSE IF loaded[s] > 0 THEN loaded[s] ELSE snap[t][s]]

MergedWithoutRetain(t, f, loaded) ==
  [s \in Sources |-> IF s \in changed[t] THEN snap[t][s] ELSE loaded[s]]

MergedByInserting(t, f, loaded) ==
  [s \in Sources |-> loaded[s] + IF s \in changed[t] THEN snap[t][s] ELSE 0]

\* retain_source_projections, then replace_source_projection for each changed
\* source: what file f holds once the build has merged its projection.
Merged(t, f, loaded) ==
  [s \in Sources |->
     IF snap[t][s] = 0 THEN 0
     ELSE IF s \notin changed[t] THEN loaded[s]
     ELSE IF f = "capabilities" THEN caps[t][s] ELSE snap[t][s]]

MergeFile(t) ==
  LET f == FileOrder[cursor[t]] IN
  /\ pc[t] = "merge"
  /\ IF disk[f].state = "damaged"
       THEN FailBuild(t)
       ELSE /\ base' = [base EXCEPT ![t][f] = Merged(t, f, disk[f].entries)]
            /\ Goto(t, IF cursor[t] = 3 THEN "truncate" ELSE "merge")
            /\ cursor' = [cursor EXCEPT ![t] = NextCursor(@)]
            /\ UNCHANGED <<build, request>>
  /\ UNCHANGED <<world, store>>

TruncateFile(t) ==
  /\ pc[t] = "truncate"
  /\ disk' = [disk EXCEPT ![FileOrder[cursor[t]]] = Truncated]
  /\ Goto(t, "write")
  /\ UNCHANGED <<world, manifest, cursor, build, base, request>>

\* If another thread has written since the file was cut, the end of what it wrote
\* stays behind this text, from the middle of a line or from a whole one on.
Overlays(old, counts) ==
  {Damaged} \cup {Holding([s \in Sources |-> IF s \in kept THEN old.entries[s] ELSE counts[s]]) :
                    kept \in SUBSET Sources}

Texts(t, f) ==
  IF Threads = {t} \/ disk[f] = Truncated
    THEN {Holding(base[t][f])}
    ELSE Overlays(disk[f], base[t][f])

WriteFile(t) ==
  LET f == FileOrder[cursor[t]] IN
  /\ pc[t] = "write"
  /\ \E text \in Texts(t, f) : disk' = [disk EXCEPT ![f] = text]
  /\ Goto(t, IF cursor[t] = 3 THEN "reply" ELSE "truncate")
  /\ cursor' = [cursor EXCEPT ![t] = NextCursor(@)]
  /\ UNCHANGED <<world, manifest, build, base, request>>

ReplyFromIndex(t) ==
  /\ pc[t] = "reply"
  /\ Respond(t, Selected(asked[t], base[t]["events"]))
  /\ UNCHANGED <<world, store>>

\* The build succeeded: answer from the model in memory.
Reply(t) ==
  /\ pc[t] = "reply"
  /\ Respond(t, Selected(asked[t],
                         IF asked[t] \in EventRequests THEN caps[t] ELSE snap[t]))
  /\ UNCHANGED <<world, store>>

-----------------------------------------------------------------------------
(* Failures.                                                               *)

\* A write to state/index cannot start, or fails part-way: the file keeps what
\* was written so far.
WriteError(t) ==
  /\ "write_error" \in Hazards
  /\ \/ /\ pc[t] \in {"create_manifest", "save_manifest", "truncate", "write"}
        /\ UNCHANGED disk
     \/ /\ pc[t] = "write"
        /\ disk' = [disk EXCEPT ![FileOrder[cursor[t]]] = Damaged]
  /\ FailBuild(t)
  /\ UNCHANGED <<world, manifest>>

\* The process dies with all its threads and is started again.
Crash ==
  /\ "crash" \in Hazards
  /\ \E t \in Threads : pc[t] # "idle"
  /\ pc' = [t \in Threads |-> "idle"]
  /\ asked' = [t \in Threads |-> ListRequest]
  /\ cursor' = [t \in Threads |-> 1]
  /\ snap' = [t \in Threads |-> None]
  /\ prev' = [t \in Threads |-> None]
  /\ changed' = [t \in Threads |-> {}]
  /\ plan' = [t \in Threads |-> None]
  /\ caps' = [t \in Threads |-> None]
  /\ base' = [t \in Threads |-> NoIndex]
  /\ answer' = [t \in Threads |-> {}]
  /\ due' = [t \in Threads |-> {}]
  /\ UNCHANGED <<world, store>>

-----------------------------------------------------------------------------

Serve(t) ==
  \/ OpenStore(t) \/ LoadFile(t)
  \/ AnswerList(t) \/ AnswerDetail(t) \/ FallBackToBuild(t)
  \/ Scan(t) \/ LoadManifest(t) \/ Fingerprint(t)
  \/ CreateManifest(t) \/ SaveManifest(t) \/ CheckFiles(t) \/ Project(t)
  \/ MergeFile(t) \/ TruncateFile(t) \/ WriteFile(t) \/ Reply(t)

Next ==
  \/ \E s \in Sources : AppendLine(s) \/ Archive(s) \/ Unarchive(s)
  \/ \E t \in Threads : \/ \E r \in Requests : Request(t, r)
                        \/ Serve(t)
                        \/ WriteError(t)
  \/ Crash

Spec == Init /\ [][Next]_vars

-----------------------------------------------------------------------------
(* Properties.                                                             *)

Labels == {"idle", "open", "load", "answer", "scan", "load_manifest",
           "fingerprint", "create_manifest", "save_manifest", "check_files",
           "project", "merge", "truncate", "write", "reply"}

\* Every variable keeps its type: what the threads of the console hold and
\* what is on disk.
TypeOK ==
  /\ lines \in Counts
  /\ present \in [Sources -> BOOLEAN]
  /\ manifest \in File
  /\ disk \in [Files -> File]
  /\ pc \in [Threads -> Labels]
  /\ asked \in [Threads -> Requests]
  /\ cursor \in [Threads -> 1..3]
  /\ snap \in [Threads -> Counts]
  /\ prev \in [Threads -> Counts]
  /\ changed \in [Threads -> SUBSET Sources]
  /\ plan \in [Threads -> Counts]
  /\ caps \in [Threads -> Counts]
  /\ base \in [Threads -> [Files -> Counts]]
  /\ answer \in [Threads -> SUBSET Sources]
  /\ due \in [Threads -> SUBSET Sources]

\* However builds, crashes and failed writes interleave, no index file names
\* an event its artifact does not hold: an id the index resolves can be read
\* at the path and line it gives (IndexReadStore::event_detail relies on it).
IndexNeverAhead ==
  \A f \in Files, s \in Sources : disk[f].entries[s] <= lines[s]

\* When no request is being served, a source the manifest vouches for (its
\* fingerprint is that of the file and no index file is missing, so no build
\* will project it again) is covered to its last event by all three files.
FreshManifestMeansFreshIndex ==
  ~AnyMissing /\ (\A t \in Threads : pc[t] = "idle") =>
    \A s \in Sources :
      manifest.entries[s] = lines[s] /\ present[s] =>
        \A f \in Files : disk[f].entries[s] = lines[s]

\* A detail route finds a session or event that was in its artifact when the
\* request came, whether the index knows it, is behind, or is missing: of an
\* older index by a build, even if the manifest vouches for lines that no file
\* of the index has (load_read_model_event_detail_payload).
ExistingDetailIsFound ==
  \A t \in Threads :
    pc[t] = "idle" /\ asked[t] # ListRequest => due[t] \subseteq answer[t]

\* What openspec/specs/observability-read-model/spec.md:66-68 asks of the detail
\* routes instead: an id that the index does not have is not found, without a scan.
MissingDetailIsNotFound ==
  [][\A t \in Threads :
       pc[t] = "answer" /\ asked[t] # ListRequest /\ ~InIndex(t) => pc'[t] # "scan"]_vars

-----------------------------------------------------------------------------
(* Refinement: a build takes effect when it truncates the first file.      *)

\* A thread that has begun to replace the index files.
Publishing(t) == pc[t] = "write" \/ (pc[t] = "truncate" /\ cursor[t] > 1)

Published ==
  IF \E t \in Threads : Publishing(t)
    THEN base[CHOOSE t \in Threads : Publishing(t)]
    ELSE [f \in Files |-> disk[f].entries]

Atomic == INSTANCE AtomicIndex WITH
  Parts <- Files, facts <- lines, readable <- present, index <- Published

\* With one thread, no failure and sources that keep still while a request is
\* served, the incremental build with its manifest, its three files and their
\* truncation is an atomic full rebuild.
RefinesAtomicIndex == Atomic!Spec
=============================================================================
