---------------------- MODULE ObservabilityIndexProofs ----------------------
(***************************************************************************)
(* Theorems about the persisted index, for any number of sources and       *)
(* lines: types and that the index is never ahead for any number of        *)
(* threads and every set of hazards, the rest for one thread that is       *)
(* not interrupted.                                                        *)
(***************************************************************************)
EXTENDS ObservabilityIndex, TLAPS

\* A count that no source exceeds.
Within(counts) == \A s \in Sources : counts[s] <= lines[s]

\* What a thread holds in memory is behind the artifacts as well.
MemoryBehind ==
  \A t \in Threads :
    /\ Within(snap[t])
    /\ Within(caps[t])
    /\ \A f \in Files : Within(base[t][f])

DiskBehind == \A f \in Files : Within(disk[f].entries)

IInv == TypeOK /\ MemoryBehind /\ DiskBehind

-----------------------------------------------------------------------------

LEMMA FileValues ==
  /\ None \in Counts
  /\ NoIndex \in [Files -> Counts]
  /\ Missing \in File /\ Damaged \in File /\ Truncated \in File
  /\ \A c \in Counts : Holding(c) \in File /\ Holding(c).entries = c
  /\ Missing.entries = None /\ Damaged.entries = None /\ Truncated.entries = None
BY DEF None, Counts, NoIndex, Missing, Damaged, Truncated, Holding, File

\* The name of the index file a thread is at.
LEMMA CursorFile ==
  ASSUME NEW i \in 1..3
  PROVE  FileOrder[i] \in Files /\ NextCursor(i) \in 1..3
BY DEF FileOrder, Files, NextCursor

LEMMA VisibleCounts ==
  ASSUME TypeOK
  PROVE  Visible \in Counts /\ Within(Visible)
BY DEF TypeOK, Visible, Counts, Within

\* What a merge puts into a file is taken from the build's own parse or from
\* the file it loaded.
LEMMA MergedCounts ==
  ASSUME IInv, NEW t \in Threads, NEW f \in Files
  PROVE  /\ Merged(t, f, disk[f].entries) \in Counts
         /\ Within(Merged(t, f, disk[f].entries))
BY DEF IInv, TypeOK, MemoryBehind, DiskBehind, Within, Merged, Counts, File

\* Every response, of whatever step, leaves the thread with an empty memory.
LEMMA RespondKeeps ==
  ASSUME IInv, NEW t \in Threads, NEW shown \in SUBSET Sources,
         Respond(t, shown), lines' = lines
  PROVE  /\ pc' \in [Threads -> Labels]
         /\ asked' \in [Threads -> Requests]
         /\ cursor' \in [Threads -> 1..3]
         /\ snap' \in [Threads -> Counts]
         /\ prev' \in [Threads -> Counts]
         /\ changed' \in [Threads -> SUBSET Sources]
         /\ plan' \in [Threads -> Counts]
         /\ caps' \in [Threads -> Counts]
         /\ base' \in [Threads -> [Files -> Counts]]
         /\ answer' \in [Threads -> SUBSET Sources]
         /\ due' \in [Threads -> SUBSET Sources]
         /\ MemoryBehind'
<1> USE DEF IInv, TypeOK, Respond, Goto
<1>1. None \in Counts /\ NoIndex \in [Files -> Counts]
  BY FileValues
<1>2. pc' \in [Threads -> Labels]
  BY DEF Labels
<1>3. /\ asked' \in [Threads -> Requests]
      /\ due' \in [Threads -> SUBSET Sources]
      /\ answer' \in [Threads -> SUBSET Sources]
      /\ changed' \in [Threads -> SUBSET Sources]
  OBVIOUS
<1>4. cursor' \in [Threads -> 1..3]
  OBVIOUS
<1>5. /\ snap' \in [Threads -> Counts]
      /\ prev' \in [Threads -> Counts]
      /\ plan' \in [Threads -> Counts]
      /\ caps' \in [Threads -> Counts]
      /\ base' \in [Threads -> [Files -> Counts]]
  BY <1>1
<1>6. MemoryBehind'
  BY DEF MemoryBehind, Within, None, NoIndex, Counts
<1> QED BY <1>2, <1>3, <1>4, <1>5, <1>6

-----------------------------------------------------------------------------

LEMMA InitIInv == Init => IInv
<1> SUFFICES ASSUME Init PROVE IInv
  OBVIOUS
<1> USE FileValues
<1>1. TypeOK
  BY DEF Init, TypeOK, Labels, Requests, ListRequest, Counts, None, Files
<1>2. MemoryBehind /\ DiskBehind
  BY DEF Init, MemoryBehind, DiskBehind, Within, None, NoIndex, Files
<1> QED BY <1>1, <1>2 DEF IInv

\* The sources only grow, so whatever was behind them stays behind them.
LEMMA WorldKeeps ==
  ASSUME IInv, NEW s \in Sources, AppendLine(s) \/ Archive(s) \/ Unarchive(s)
  PROVE  IInv'
<1> USE DEF IInv
<1>1. /\ UNCHANGED <<manifest, disk, pc, asked, cursor, snap, prev, changed>>
      /\ UNCHANGED <<plan, caps, base, answer>>
      /\ lines' = lines \/ (s \in Sources /\ lines' = [lines EXCEPT ![s] = @ + 1])
      /\ present' = present \/ present' = [present EXCEPT ![s] = TRUE]
                            \/ present' = [present EXCEPT ![s] = FALSE]
      /\ due' = due \/ due' = [t \in Threads |-> due[t] \ {s}]
  BY DEF AppendLine, Archive, Unarchive, store, build, request
<1>2. lines \in Counts /\ lines' \in Counts /\ \A q \in Sources : lines[q] <= lines'[q]
  <2>1. lines \in [Sources -> Nat]
    BY DEF TypeOK, Counts
  <2>2. CASE lines' = lines
    BY <2>1, <2>2 DEF Counts
  <2>3. CASE lines' = [lines EXCEPT ![s] = @ + 1]
    BY <2>1, <2>3 DEF Counts
  <2> QED BY <1>1, <2>2, <2>3
<1>3. present' \in [Sources -> BOOLEAN]
  <2>1. present \in [Sources -> BOOLEAN]
    BY DEF TypeOK
  <2> QED BY <1>1, <2>1
<1>4. due' \in [Threads -> SUBSET Sources]
  <2>1. due \in [Threads -> SUBSET Sources]
    BY DEF TypeOK
  <2> QED BY <1>1, <2>1
<1>5. TypeOK'
  BY <1>1, <1>2, <1>3, <1>4 DEF TypeOK
<1>6. \A c \in Counts : Within(c) => \A q \in Sources : c[q] <= lines'[q]
  <2> SUFFICES ASSUME NEW c \in Counts, Within(c), NEW q \in Sources
               PROVE  c[q] <= lines'[q]
    OBVIOUS
  <2>1. c[q] \in Nat /\ lines[q] \in Nat /\ lines'[q] \in Nat
    BY <1>2 DEF Counts
  <2> QED BY <1>2, <2>1 DEF Within
<1>7. MemoryBehind' /\ DiskBehind'
  <2>2. \A t \in Threads : Within(snap[t])' /\ Within(caps[t])'
    BY <1>1, <1>6 DEF TypeOK, MemoryBehind, Within
  <2>3. \A t \in Threads, f \in Files : Within(base[t][f])'
    <3> SUFFICES ASSUME NEW t \in Threads, NEW f \in Files PROVE Within(base[t][f])'
      OBVIOUS
    <3>1. base[t][f] \in Counts /\ Within(base[t][f]) /\ base' = base
      BY <1>1 DEF TypeOK, MemoryBehind
    <3> QED BY <3>1, <1>6 DEF Within
  <2>4. \A f \in Files : Within(disk[f].entries)'
    <3> SUFFICES ASSUME NEW f \in Files PROVE Within(disk[f].entries)'
      OBVIOUS
    <3>1. disk[f].entries \in Counts /\ Within(disk[f].entries) /\ disk' = disk
      BY <1>1 DEF TypeOK, DiskBehind, File
    <3> QED BY <3>1, <1>6 DEF Within
  <2> QED BY <2>2, <2>3, <2>4 DEF MemoryBehind, DiskBehind
<1> QED BY <1>5, <1>7

\* Steps that serve a request from the index and do not answer it yet.
LEMMA OpenKeeps ==
  ASSUME IInv, NEW t \in Threads,
         \/ \E r \in Requests : Request(t, r)
         \/ OpenStore(t) \/ LoadFile(t) \/ FallBackToBuild(t)
  PROVE  IInv'
<1> USE DEF IInv, Goto
<1>1. ASSUME NEW r \in Requests, Request(t, r) PROVE IInv'
  <2>1. Selected(r, Visible) \in SUBSET Sources
    BY DEF Selected, SessionsOf
  <2>2. TypeOK'
    BY <1>1, <2>1 DEF Request, TypeOK, Labels, world, store, build
  <2>3. MemoryBehind' /\ DiskBehind'
    BY <1>1 DEF Request, MemoryBehind, DiskBehind, Within, world, store, build
  <2> QED BY <2>2, <2>3
<1>2. CASE OpenStore(t)
  <2>1. TypeOK'
    BY <1>2 DEF OpenStore, TypeOK, Labels, world, store, build, request
  <2>2. MemoryBehind' /\ DiskBehind'
    BY <1>2 DEF OpenStore, MemoryBehind, DiskBehind, Within, world, store, build
  <2> QED BY <2>1, <2>2
<1>3. CASE LoadFile(t)
  <2> DEFINE f == FileOrder[cursor[t]]
  <2>1. f \in Files /\ cursor[t] \in 1..3 /\ NextCursor(cursor[t]) \in 1..3
    BY CursorFile DEF TypeOK
  <2>2. disk[f].entries \in Counts /\ Within(disk[f].entries)
    BY <2>1 DEF TypeOK, DiskBehind, File
  <2>3. \/ base' = [base EXCEPT ![t] = NoIndex]
        \/ base' = [base EXCEPT ![t][f] = disk[f].entries]
    BY <1>3 DEF LoadFile
  <2>4. base' \in [Threads -> [Files -> Counts]]
    <3>1. base \in [Threads -> [Files -> Counts]] /\ NoIndex \in [Files -> Counts]
      BY FileValues DEF TypeOK
    <3> HIDE DEF f
    <3> QED BY <2>1, <2>2, <2>3, <3>1
  <2>5. cursor' \in [Threads -> 1..3]
    BY <1>3, <2>1 DEF LoadFile, TypeOK
  <2>6. pc' \in [Threads -> Labels]
    BY <1>3 DEF LoadFile, TypeOK, Labels
  <2>7. UNCHANGED <<lines, present, manifest, disk, asked, snap, prev, changed,
                    plan, caps, answer, due>>
    BY <1>3 DEF LoadFile, world, store, build, request
  <2>8. TypeOK'
    BY <2>4, <2>5, <2>6, <2>7 DEF TypeOK
  <2>9. \A q \in Threads, g \in Files : Within(base'[q][g])
    <3>1. CASE base' = [base EXCEPT ![t] = NoIndex]
      BY <3>1 DEF MemoryBehind, Within, TypeOK, NoIndex, None, Counts
    <3>2. CASE base' = [base EXCEPT ![t][f] = disk[f].entries]
      <4> SUFFICES ASSUME NEW q \in Threads, NEW g \in Files PROVE Within(base'[q][g])
        OBVIOUS
      <4>1. base'[q][g] = base[q][g] \/ base'[q][g] = disk[f].entries
        BY <3>2 DEF TypeOK
      <4> QED BY <4>1, <2>2 DEF MemoryBehind
    <3> QED BY <2>3, <3>1, <3>2
  <2>10. MemoryBehind' /\ DiskBehind'
    BY <2>7, <2>9 DEF MemoryBehind, DiskBehind, Within
  <2> QED BY <2>8, <2>10
<1>4. CASE FallBackToBuild(t)
  <2>1. TypeOK'
    BY <1>4, FileValues DEF FallBackToBuild, TypeOK, Labels, world, store, build, request
  <2>2. \A q \in Threads, g \in Files : Within(base'[q][g])
    BY <1>4 DEF FallBackToBuild, MemoryBehind, Within, TypeOK, NoIndex, None, Counts
  <2>3. MemoryBehind' /\ DiskBehind'
    BY <1>4, <2>2 DEF FallBackToBuild, MemoryBehind, DiskBehind, Within, world, store, build
  <2> QED BY <2>1, <2>3
<1> QED BY <1>1, <1>2, <1>3, <1>4

\* Steps that end in a response and leave the disk and the sources alone.
LEMMA ResponseKeeps ==
  ASSUME IInv, NEW t \in Threads, NEW shown \in SUBSET Sources,
         Respond(t, shown), UNCHANGED <<world, store>>
  PROVE  IInv'
<1>1. UNCHANGED <<lines, present, manifest, disk>>
  BY DEF world, store
<1>2. TypeOK'
  BY <1>1, RespondKeeps DEF IInv, TypeOK
<1>3. DiskBehind'
  BY <1>1 DEF IInv, DiskBehind, Within
<1> QED BY <1>1, <1>2, <1>3, RespondKeeps DEF IInv

LEMMA AnswerKeeps ==
  ASSUME IInv, NEW t \in Threads, AnswerList(t) \/ AnswerDetail(t) \/ Reply(t)
  PROVE  IInv'
<1>1. asked[t] \in Requests
  BY DEF IInv, TypeOK
<1>2. CASE AnswerList(t)
  BY <1>2, ResponseKeeps DEF AnswerList, SessionsOf
<1>3. CASE AnswerDetail(t)
  <2>1. {asked[t][1]} \in SUBSET Sources
    BY <1>1, <1>3 DEF AnswerDetail, Requests, DetailRequests, SessionRequests, EventRequests
  <2> QED BY <1>3, <2>1, ResponseKeeps DEF AnswerDetail
<1>4. CASE Reply(t)
  <2> DEFINE shown == Selected(asked[t], IF asked[t] \in EventRequests THEN caps[t] ELSE snap[t])
  <2>1. shown \in SUBSET Sources
    BY DEF SessionsOf, Selected
  <2> QED BY <1>4, <2>1, ResponseKeeps DEF Reply
<1> QED BY <1>2, <1>3, <1>4

-----------------------------------------------------------------------------

\* The steps of a build up to the merge: only the parse and the projection
\* take something from the sources, and both take at most what is there.
LEMMA PrepareKeeps ==
  ASSUME IInv, NEW t \in Threads,
         \/ Scan(t) \/ LoadManifest(t) \/ Fingerprint(t) \/ CreateManifest(t)
         \/ SaveManifest(t) \/ CheckFiles(t) \/ Project(t)
  PROVE  IInv'
<1> USE DEF IInv, Goto
<1>1. CASE Scan(t)
  <2>1. TypeOK'
    BY <1>1, VisibleCounts DEF Scan, TypeOK, Labels, world, store, request
  <2>2. MemoryBehind' /\ DiskBehind'
    BY <1>1, VisibleCounts DEF Scan, TypeOK, MemoryBehind, DiskBehind, Within, world, store
  <2> QED BY <2>1, <2>2
<1>2. CASE LoadManifest(t)
  <2>1. CASE manifest.state = "damaged"
    BY <1>2, <2>1, ResponseKeeps DEF LoadManifest, FailBuild
  <2>2. CASE manifest.state # "damaged"
    <3>1. manifest.entries \in Counts
      BY DEF TypeOK, File
    <3>2. TypeOK'
      BY <1>2, <2>2, <3>1 DEF LoadManifest, TypeOK, Labels, world, store, request
    <3>3. MemoryBehind' /\ DiskBehind'
      BY <1>2, <2>2 DEF LoadManifest, MemoryBehind, DiskBehind, Within, world, store
    <3> QED BY <3>2, <3>3
  <2> QED BY <2>1, <2>2
<1>3. CASE Fingerprint(t)
  <2> DEFINE parsed == SessionsOf(snap[t])
             gone == \E s \in parsed : ~present[s]
             lengths == [s \in Sources |-> IF s \in parsed THEN lines[s] ELSE 0]
  <2>1. CASE gone
    BY <1>3, <2>1, ResponseKeeps DEF Fingerprint, FailBuild
  <2>2. CASE ~gone
    <3>1. lengths \in Counts
      BY DEF TypeOK, Counts
    <3>2. {s \in parsed : prev[t][s] # lines[s]} \in SUBSET Sources
      BY DEF SessionsOf
    <3>3. TypeOK'
      BY <1>3, <2>2, <3>1, <3>2 DEF Fingerprint, TypeOK, Labels, world, store, request
    <3>4. MemoryBehind' /\ DiskBehind'
      BY <1>3, <2>2 DEF Fingerprint, MemoryBehind, DiskBehind, Within, world, store
    <3> QED BY <3>3, <3>4
  <2> QED BY <2>1, <2>2
<1>4. CASE CreateManifest(t)
  <2>1. TypeOK'
    BY <1>4, FileValues DEF CreateManifest, TypeOK, Labels, world, build, request
  <2>2. MemoryBehind' /\ DiskBehind'
    BY <1>4 DEF CreateManifest, MemoryBehind, DiskBehind, Within, world, build
  <2> QED BY <2>1, <2>2
<1>5. CASE SaveManifest(t)
  <2>0. manifest' \in File
    <3>1. plan[t] \in Counts
      BY DEF TypeOK
    <3> QED BY <1>5, <3>1, FileValues DEF SaveManifest, Pieces
  <2>1. TypeOK'
    BY <1>5, <2>0 DEF SaveManifest, TypeOK, Labels, world, build, request
  <2>2. MemoryBehind' /\ DiskBehind'
    BY <1>5 DEF SaveManifest, MemoryBehind, DiskBehind, Within, world, build
  <2> QED BY <2>1, <2>2
<1>6. CASE CheckFiles(t)
  <2>1. SessionsOf(snap[t]) \in SUBSET Sources
    BY DEF SessionsOf
  <2>2. TypeOK'
    BY <1>6, <2>1 DEF CheckFiles, TypeOK, Labels, world, store, request
  <2>3. MemoryBehind' /\ DiskBehind'
    BY <1>6 DEF CheckFiles, MemoryBehind, DiskBehind, Within, world, store
  <2> QED BY <2>2, <2>3
<1>7. CASE Project(t)
  <2> DEFINE kept == [s \in Sources |-> IF present[s] THEN snap[t][s] ELSE 0]
  <2>1. kept \in Counts /\ Within(kept)
    BY DEF TypeOK, MemoryBehind, Within, Counts
  <2>2. /\ caps' = [caps EXCEPT ![t] = kept]
        /\ pc' = [pc EXCEPT ![t] = "merge"]
        /\ UNCHANGED <<world, store, cursor, snap, prev, changed, plan, base, request>>
    BY <1>7 DEF Project
  <2> HIDE DEF kept
  <2>3. TypeOK'
    BY <2>1, <2>2 DEF TypeOK, Labels, world, store, request
  <2>4. MemoryBehind' /\ DiskBehind'
    BY <2>1, <2>2 DEF TypeOK, MemoryBehind, DiskBehind, Within, world, store
  <2> QED BY <2>3, <2>4
<1> QED BY <1>1, <1>2, <1>3, <1>4, <1>5, <1>6, <1>7

LEMMA MergeKeeps ==
  ASSUME IInv, NEW t \in Threads, MergeFile(t)
  PROVE  IInv'
<1> USE DEF IInv, Goto
<1> DEFINE f == FileOrder[cursor[t]]
           merged == Merged(t, f, disk[f].entries)
<1>1. f \in Files /\ cursor[t] \in 1..3 /\ NextCursor(cursor[t]) \in 1..3
  BY CursorFile DEF TypeOK
<1>2. merged \in Counts /\ Within(merged)
  BY <1>1, MergedCounts
<1>3. CASE disk[f].state = "damaged"
  BY <1>3, ResponseKeeps DEF MergeFile, FailBuild
<1>4. CASE disk[f].state # "damaged"
  <2>1. /\ base' = [base EXCEPT ![t][f] = merged]
        /\ pc' = [pc EXCEPT ![t] = IF cursor[t] = 3 THEN "truncate" ELSE "merge"]
        /\ cursor' = [cursor EXCEPT ![t] = NextCursor(@)]
        /\ UNCHANGED <<lines, present, manifest, disk, asked, snap, prev, changed,
                       plan, caps, answer, due>>
    BY <1>4 DEF MergeFile, world, store, build, request
  <2> HIDE DEF f, merged
  <2>2. base' \in [Threads -> [Files -> Counts]]
    BY <1>1, <1>2, <2>1 DEF TypeOK
  <2>3. cursor' \in [Threads -> 1..3]
    BY <1>1, <2>1 DEF TypeOK
  <2>4. pc' \in [Threads -> Labels]
    BY <2>1 DEF TypeOK, Labels
  <2>5. TypeOK'
    BY <2>1, <2>2, <2>3, <2>4 DEF TypeOK
  <2>6. \A q \in Threads, g \in Files : Within(base'[q][g])
    <3> SUFFICES ASSUME NEW q \in Threads, NEW g \in Files PROVE Within(base'[q][g])
      OBVIOUS
    <3>1. base'[q][g] = base[q][g] \/ base'[q][g] = merged
      BY <1>1, <2>1 DEF TypeOK
    <3> QED BY <3>1, <1>2 DEF MemoryBehind
  <2>7. MemoryBehind' /\ DiskBehind'
    BY <2>1, <2>6 DEF MemoryBehind, DiskBehind, Within
  <2> QED BY <2>5, <2>7
<1> QED BY <1>3, <1>4

\* Writing a file, emptying it or leaving it damaged: none puts more into it
\* than the build holds.
LEMMA FileWriteKeeps ==
  ASSUME IInv, NEW f \in Files, NEW content \in File, Within(content.entries),
         \/ disk' = [disk EXCEPT ![f] = content]
         \/ disk' = disk,
         lines' = lines
  PROVE  disk' \in [Files -> File] /\ DiskBehind'
<1>1. disk' \in [Files -> File]
  BY DEF IInv, TypeOK
<1>2. DiskBehind'
  <2> SUFFICES ASSUME NEW g \in Files PROVE Within(disk'[g].entries)
    BY DEF DiskBehind, Within
  <2>1. disk'[g] = disk[g] \/ disk'[g] = content
    BY DEF IInv, TypeOK
  <2> QED BY <2>1 DEF IInv, DiskBehind
<1> QED BY <1>1, <1>2

LEMMA WithinNone == ASSUME IInv PROVE Within(None)
BY DEF IInv, TypeOK, Within, None, Counts

\* Of two texts that lie over each other every line is behind the artifacts.
LEMMA TextsAreBehind ==
  ASSUME IInv, NEW t \in Threads, NEW f \in Files, NEW text \in Texts(t, f)
  PROVE  text \in File /\ Within(text.entries)
<1>1. base[t][f] \in Counts /\ Within(base[t][f])
  BY DEF IInv, TypeOK, MemoryBehind
<1>2. disk[f].entries \in Counts /\ Within(disk[f].entries)
  BY DEF IInv, TypeOK, DiskBehind, File
<1>3. CASE text = Holding(base[t][f])
  BY <1>1, <1>3, FileValues
<1>4. CASE text = Damaged
  BY <1>4, FileValues, WithinNone
<1>5. ASSUME NEW kept \in SUBSET Sources,
             text = Holding([s \in Sources |-> IF s \in kept THEN disk[f].entries[s] ELSE base[t][f][s]])
      PROVE  text \in File /\ Within(text.entries)
  <2> DEFINE mixed == [s \in Sources |-> IF s \in kept THEN disk[f].entries[s] ELSE base[t][f][s]]
  <2>1. mixed \in Counts /\ Within(mixed)
    BY <1>1, <1>2 DEF Counts, Within
  <2>2. text = Holding(mixed)
    BY <1>5
  <2> HIDE DEF mixed
  <2> QED BY <2>1, <2>2, FileValues
<1> QED BY <1>3, <1>4, <1>5 DEF Texts, Overlays

LEMMA SaveKeeps ==
  ASSUME IInv, NEW t \in Threads, TruncateFile(t) \/ WriteFile(t)
  PROVE  IInv'
<1> USE DEF IInv, Goto
<1> DEFINE f == FileOrder[cursor[t]]
<1>1. f \in Files /\ cursor[t] \in 1..3 /\ NextCursor(cursor[t]) \in 1..3
  BY CursorFile DEF TypeOK
<1>2. /\ UNCHANGED <<lines, present, manifest, asked, snap, prev, changed, plan,
                     caps, base, answer, due>>
  BY DEF TruncateFile, WriteFile, world, build, request
<1>3. pc' \in [Threads -> Labels] /\ cursor' \in [Threads -> 1..3]
  <2>1. CASE TruncateFile(t)
    BY <2>1 DEF TruncateFile, TypeOK, Labels
  <2>2. CASE WriteFile(t)
    <3>1. \/ pc' = [pc EXCEPT ![t] = "reply"]
          \/ pc' = [pc EXCEPT ![t] = "truncate"]
      BY <2>2 DEF WriteFile
    <3>2. pc' \in [Threads -> Labels]
      BY <3>1 DEF TypeOK, Labels
    <3>3. cursor' = [cursor EXCEPT ![t] = NextCursor(@)]
      BY <2>2 DEF WriteFile
    <3> HIDE DEF f
    <3>4. cursor' \in [Threads -> 1..3]
      BY <1>1, <3>3 DEF TypeOK
    <3> QED BY <3>2, <3>4
  <2> QED BY <2>1, <2>2
<1>4. disk' \in [Files -> File] /\ DiskBehind'
  <2>1. CASE TruncateFile(t)
    <3>1. disk' = [disk EXCEPT ![f] = Truncated]
      BY <2>1 DEF TruncateFile
    <3> HIDE DEF f
    <3> QED BY <1>1, <1>2, <3>1, FileValues, WithinNone, FileWriteKeeps
  <2>2. CASE WriteFile(t)
    <3>1. PICK text \in Texts(t, f) : disk' = [disk EXCEPT ![f] = text]
      BY <2>2 DEF WriteFile
    <3> HIDE DEF f
    <3>2. text \in File /\ Within(text.entries)
      BY <1>1, TextsAreBehind
    <3> QED BY <1>1, <1>2, <3>1, <3>2, FileWriteKeeps
  <2> QED BY <2>1, <2>2
<1>5. TypeOK'
  BY <1>2, <1>3, <1>4 DEF TypeOK
<1>6. MemoryBehind'
  BY <1>2 DEF MemoryBehind, Within
<1> QED BY <1>4, <1>5, <1>6

LEMMA FailureKeeps ==
  ASSUME IInv, Crash \/ \E t \in Threads : WriteError(t)
  PROVE  IInv'
<1> USE DEF IInv
<1>1. CASE Crash
  <2>1. None \in Counts /\ NoIndex \in [Files -> Counts]
    BY FileValues
  <2>2. UNCHANGED <<lines, present, manifest, disk>>
    BY <1>1 DEF Crash, world, store
  <2>3. TypeOK'
    BY <1>1, <2>1, <2>2 DEF Crash, TypeOK, Labels, Requests
  <2>4. MemoryBehind'
    BY <1>1, <2>2, WithinNone DEF Crash, MemoryBehind, Within, NoIndex
  <2>5. DiskBehind'
    BY <2>2 DEF DiskBehind, Within
  <2> QED BY <2>3, <2>4, <2>5
<1>2. ASSUME NEW t \in Threads, WriteError(t) PROVE IInv'
  <2> DEFINE f == FileOrder[cursor[t]]
  <2>1. f \in Files
    BY CursorFile DEF TypeOK
  <2>2. /\ Respond(t, {})
        /\ UNCHANGED <<lines, present, manifest>>
        /\ disk' = disk \/ disk' = [disk EXCEPT ![f] = Damaged]
    BY <1>2 DEF WriteError, FailBuild, world
  <2> HIDE DEF f
  <2>3. disk' \in [Files -> File] /\ DiskBehind'
    BY <2>1, <2>2, FileValues, WithinNone, FileWriteKeeps
  <2>4. TypeOK' /\ MemoryBehind'
    BY <2>2, <2>3, RespondKeeps DEF TypeOK
  <2> QED BY <2>3, <2>4
<1> QED BY <1>1, <1>2

LEMMA StepIInv == IInv /\ [Next]_vars => IInv'
<1> SUFFICES ASSUME IInv, [Next]_vars PROVE IInv'
  OBVIOUS
<1>1. CASE UNCHANGED vars
  BY <1>1 DEF IInv, TypeOK, MemoryBehind, DiskBehind, Within, vars
<1>2. ASSUME NEW s \in Sources, AppendLine(s) \/ Archive(s) \/ Unarchive(s)
      PROVE  IInv'
  BY <1>2, WorldKeeps
<1>3. ASSUME NEW t \in Threads, (\E r \in Requests : Request(t, r)) \/ Serve(t)
      PROVE  IInv'
  BY <1>3, OpenKeeps, AnswerKeeps, PrepareKeeps, MergeKeeps, SaveKeeps DEF Serve
<1>4. CASE Crash \/ \E t \in Threads : WriteError(t)
  BY <1>4, FailureKeeps
<1> QED BY <1>1, <1>2, <1>3, <1>4 DEF Next

\* The console's threads and the files of state/index keep their types.
THEOREM TypeCorrect == Spec => []TypeOK
<1>1. IInv => TypeOK
  BY DEF IInv
<1> QED BY <1>1, InitIInv, StepIInv, PTL DEF Spec

\* For any number of threads and sources, and whatever crashes, failed writes
\* and concurrent builds do to state/index: no index file names an event that
\* its artifact does not hold.
THEOREM NeverAhead == Spec => []IndexNeverAhead
<1>1. IInv => IndexNeverAhead
  BY DEF IInv, DiskBehind, Within, IndexNeverAhead
<1> QED BY <1>1, InitIInv, StepIInv, PTL DEF Spec

-----------------------------------------------------------------------------
(* One request at a time.  The manifest is written before the files it      *)
(* vouches for, so what follows needs that nothing comes in between: one    *)
(* thread, no crash and no failed write.                                    *)

\* The files a pass over all three is done with.
Passed(t) == {FileOrder[i] : i \in 1..(cursor[t] - 1)}

\* Nothing is ever found cut short, since nobody looks while the manifest is
\* being written, and every pass over the files begins with the first.
Intact(t) ==
  /\ \A f \in Files : disk[f].state # "damaged"
  /\ manifest.state = "damaged" => pc[t] = "save_manifest"
  /\ pc[t] \notin {"load", "merge", "truncate", "write"} => cursor[t] = 1

BeforeManifest == {"idle", "open", "load", "answer", "scan", "load_manifest",
                   "fingerprint", "create_manifest"}
AfterScan == {"load_manifest", "fingerprint", "create_manifest", "save_manifest",
              "check_files", "project", "merge", "truncate", "write", "reply"}
Deciding == {"create_manifest", "save_manifest", "check_files", "project", "merge"}
AfterManifest == {"check_files", "project", "merge", "truncate", "write", "reply"}
AfterProject == {"merge", "truncate", "write", "reply"}

\* A source whose length is the one the manifest has is fully indexed.
Vouched ==
  \A s \in Sources : manifest.entries[s] = lines[s] =>
    \A f \in Files : disk[f].entries[s] = lines[s]

\* What the build will not project again need not be.
RestIsIndexed(t) ==
  \A s \in Sources : Visible[s] > 0 /\ s \notin changed[t] =>
    \A f \in Files : disk[f].entries[s] = lines[s]

\* What a build has read, decided and written while the sources keep still.
FreshInv(t) ==
  /\ Within(manifest.entries)
  /\ pc[t] \in BeforeManifest => Vouched
  /\ pc[t] \in AfterScan => snap[t] = Visible
  /\ pc[t] = "fingerprint" => prev[t] = manifest.entries
  /\ pc[t] \in {"create_manifest", "save_manifest"} => plan[t] = Visible
  /\ pc[t] \in Deciding => RestIsIndexed(t)
  /\ pc[t] \in AfterManifest => manifest.entries = Visible
  /\ pc[t] \in AfterProject => caps[t] = Visible
  /\ pc[t] = "merge" => \A f \in Passed(t) : base[t][f] = Visible
  /\ pc[t] \in {"truncate", "write"} =>
       /\ \A f \in Files : base[t][f] = Visible
       /\ \A f \in Passed(t) : disk[f].entries = Visible
  /\ pc[t] = "reply" => \A f \in Files : disk[f].entries = Visible

\* What a detail request was about stays in the artifact until it is answered,
\* and every way to an answer comes upon it.
Held(t, counts) ==
  \A s \in due[t] : counts[s] > 0 /\ counts[s] >= asked[t][2]

FoundInv(t) ==
  /\ pc[t] \in AfterScan => \A s \in Sources : snap[t][s] > 0 => present[s]
  /\ pc[t] \in AfterProject => caps[t] = snap[t]
  /\ asked[t] # ListRequest =>
       /\ pc[t] = "idle" => due[t] \subseteq answer[t]
       /\ pc[t] # "idle" => /\ due[t] \subseteq {asked[t][1]}
                            /\ Held(t, Visible)
       /\ pc[t] \in AfterScan => Held(t, snap[t])

-----------------------------------------------------------------------------

LEMMA FileStates ==
  /\ Missing.state = "missing" /\ Damaged.state = "damaged" /\ Truncated.state = "ok"
  /\ \A c : Holding(c).state = "ok" /\ Holding(c).entries = c
BY DEF Missing, Damaged, Truncated, Holding

\* A thread that is alone has the files to itself.
LEMMA WritesAlone ==
  ASSUME NEW t, Threads = {t}
  PROVE  Pieces(t) = {Holding(plan[t])} /\ \A f : Texts(t, f) = {Holding(base[t][f])}
<1>1. Threads \ {t} = {}
  OBVIOUS
<1> QED BY <1>1 DEF Pieces, Texts

\* What the passes over the files are made of.
LEMMA Passing ==
  ASSUME TypeOK, NEW t \in Threads
  PROVE  /\ cursor[t] \in 1..3 /\ FileOrder[cursor[t]] \in Files
         /\ cursor[t] = 1 => Passed(t) = {}
         /\ cursor[t] = 3 => Files = Passed(t) \cup {FileOrder[cursor[t]]}
         /\ cursor'[t] = NextCursor(cursor[t]) /\ cursor[t] # 3 =>
              Passed(t)' = Passed(t) \cup {FileOrder[cursor[t]]}
         /\ Passed(t) \subseteq Files
         /\ FileOrder[cursor[t]] \notin Passed(t)
<1>1. cursor[t] \in {1, 2, 3}
  BY DEF TypeOK
<1>2. 1..0 = {} /\ 1..1 = {1} /\ 1..2 = {1, 2} /\ 1..(1 - 1) = {} /\ 1..(2 - 1) = {1}
      /\ 1..(3 - 1) = {1, 2}
  OBVIOUS
<1>3. /\ FileOrder[1] = "sessions" /\ FileOrder[2] = "events"
      /\ FileOrder[3] = "capabilities"
  BY DEF FileOrder
<1>4. CASE cursor[t] = 1
  <2>1. Passed(t) = {}
    BY <1>2, <1>4 DEF Passed
  <2>2. cursor'[t] = NextCursor(cursor[t]) => Passed(t)' = {"sessions"}
    <3> SUFFICES ASSUME cursor'[t] = NextCursor(cursor[t]) PROVE Passed(t)' = {"sessions"}
      OBVIOUS
    <3>1. cursor'[t] = 2
      BY <1>4 DEF NextCursor
    <3> QED BY <3>1, <1>2, <1>3 DEF Passed
  <2> QED BY <1>3, <1>4, <2>1, <2>2 DEF Files
<1>5. CASE cursor[t] = 2
  <2>1. Passed(t) = {"sessions"}
    BY <1>2, <1>3, <1>5 DEF Passed
  <2>2. cursor'[t] = NextCursor(cursor[t]) => Passed(t)' = {"sessions", "events"}
    <3> SUFFICES ASSUME cursor'[t] = NextCursor(cursor[t])
                 PROVE  Passed(t)' = {"sessions", "events"}
      OBVIOUS
    <3>1. cursor'[t] = 3
      BY <1>5 DEF NextCursor
    <3> QED BY <3>1, <1>2, <1>3 DEF Passed
  <2> QED BY <1>3, <1>5, <2>1, <2>2 DEF Files
<1>6. CASE cursor[t] = 3
  <2>1. Passed(t) = {"sessions", "events"}
    BY <1>2, <1>3, <1>6 DEF Passed
  <2> QED BY <1>3, <1>6, <2>1 DEF Files
<1> QED BY <1>1, <1>4, <1>5, <1>6

\* With one thread that neither dies nor fails to write, a step is the
\* thread's or the sources'.
LEMMA OneAtATime ==
  ASSUME NEW t, Threads = {t}, Hazards \cap {"crash", "write_error"} = {}, [Next]_vars
  PROVE  \/ UNCHANGED vars
         \/ \E s \in Sources : AppendLine(s) \/ Archive(s) \/ Unarchive(s)
         \/ \E r \in Requests : Request(t, r)
         \/ Serve(t)
BY DEF Next, Crash, WriteError

\* A response, pointwise.
LEMMA Responded ==
  ASSUME TypeOK, NEW t \in Threads, NEW shown, Respond(t, shown)
  PROVE  /\ pc'[t] = "idle" /\ cursor'[t] = 1 /\ answer'[t] = shown
         /\ asked'[t] = asked[t] /\ due'[t] = due[t]
BY DEF TypeOK, Respond, Goto

LEMMA InitIntact ==
  ASSUME Init, NEW t, Threads = {t}
  PROVE  Intact(t) /\ FreshInv(t) /\ FoundInv(t)
<1>1. /\ pc[t] = "idle" /\ cursor[t] = 1 /\ asked[t] = ListRequest
      /\ manifest.state = "missing" /\ manifest.entries = None
      /\ \A f \in Files : disk[f].state = "missing" /\ disk[f].entries = None
  BY FileStates, FileValues DEF Init
<1>2. Intact(t)
  BY <1>1 DEF Intact
<1>3. FreshInv(t)
  <2>1. Within(manifest.entries) /\ Vouched
    BY <1>1 DEF Within, Vouched, Init, None
  <2> QED BY <1>1, <2>1 DEF FreshInv, BeforeManifest, AfterScan, Deciding, AfterManifest,
                            AfterProject
<1>4. FoundInv(t)
  BY <1>1 DEF FoundInv, AfterScan, AfterProject
<1> QED BY <1>2, <1>3, <1>4

LEMMA StepIntact ==
  ASSUME IInv, NEW t, Threads = {t}, Hazards \cap {"crash", "write_error"} = {},
         Intact(t), [Next]_vars
  PROVE  Intact(t)'
<1> USE DEF Goto
<1>1. t \in Threads /\ TypeOK
  BY DEF IInv
<1>2. /\ pc \in [Threads -> Labels] /\ cursor \in [Threads -> 1..3]
      /\ disk \in [Files -> File]
  BY <1>1 DEF TypeOK
<1>3. ASSUME NEW shown, Respond(t, shown), UNCHANGED <<world, store>>,
             pc[t] # "save_manifest"
      PROVE  Intact(t)'
  <2>1. pc'[t] = "idle" /\ cursor'[t] = 1 /\ UNCHANGED <<manifest, disk>>
    BY <1>1, <1>3, Responded DEF store
  <2> QED BY <1>3, <2>1 DEF Intact
\* Steps between two passes, which leave the files alone.
<1>4. ASSUME UNCHANGED disk, pc[t] \notin {"load", "merge", "truncate", "write"},
             cursor' = cursor,
             manifest'.state = "damaged" => pc'[t] = "save_manifest"
      PROVE  Intact(t)'
  BY <1>4 DEF Intact
\* Steps of a pass.
<1>5. ASSUME cursor' = [cursor EXCEPT ![t] = NextCursor(@)],
             pc[t] \in {"load", "merge", "write"},
             pc'[t] \notin {"load", "merge", "truncate", "write"} => cursor[t] = 3,
             manifest' = manifest,
             \A f \in Files : disk'[f].state # "damaged"
      PROVE  Intact(t)'
  <2>1. cursor'[t] = NextCursor(cursor[t])
    BY <1>1, <1>2, <1>5
  <2> QED BY <1>5, <2>1 DEF Intact, NextCursor
<1>6. CASE UNCHANGED vars
  BY <1>6 DEF vars, Intact
<1>7. ASSUME NEW s \in Sources, AppendLine(s) \/ Archive(s) \/ Unarchive(s)
      PROVE  Intact(t)'
  BY <1>7 DEF AppendLine, Archive, Unarchive, store, Intact
<1>8. ASSUME NEW r \in Requests, Request(t, r)
      PROVE  Intact(t)'
  <2>1. pc[t] = "idle" /\ UNCHANGED <<manifest, disk, cursor>>
    BY <1>8 DEF Request, store
  <2> QED BY <1>4, <2>1 DEF Intact
<1>9. CASE OpenStore(t)
  <2>1. pc[t] = "open" /\ UNCHANGED <<manifest, disk, cursor>>
    BY <1>9 DEF OpenStore, store
  <2> QED BY <1>4, <2>1 DEF Intact
<1>10. CASE LoadFile(t)
  <2> DEFINE f == FileOrder[cursor[t]]
  <2>1. f \in Files
    BY <1>1, Passing
  <2>2. disk[f].state # "damaged"
    BY <2>1 DEF Intact
  <2>3. /\ pc[t] = "load" /\ UNCHANGED <<manifest, disk>>
        /\ pc' = [pc EXCEPT ![t] = IF cursor[t] = 3 THEN "answer" ELSE "load"]
        /\ cursor' = [cursor EXCEPT ![t] = NextCursor(@)]
    BY <1>10, <2>2 DEF LoadFile, store
  <2>4. pc'[t] \notin {"load", "merge", "truncate", "write"} => cursor[t] = 3
    BY <1>1, <1>2, <2>3
  <2> QED BY <1>5, <2>3, <2>4 DEF Intact
<1>11. CASE AnswerList(t)
  BY <1>3, <1>11 DEF AnswerList
<1>12. CASE AnswerDetail(t)
  BY <1>3, <1>12 DEF AnswerDetail
<1>13. CASE FallBackToBuild(t)
  <2>1. pc[t] = "answer" /\ UNCHANGED <<manifest, disk, cursor>>
    BY <1>13 DEF FallBackToBuild, store
  <2> QED BY <1>4, <2>1 DEF Intact
<1>14. CASE Scan(t)
  <2>1. pc[t] = "scan" /\ UNCHANGED <<manifest, disk, cursor>>
    BY <1>14 DEF Scan, store
  <2> QED BY <1>4, <2>1 DEF Intact
<1>15. CASE LoadManifest(t)
  <2>1. pc[t] = "load_manifest" /\ manifest.state # "damaged"
    BY <1>15 DEF LoadManifest, Intact
  <2>2. UNCHANGED <<manifest, disk, cursor>>
    BY <1>15, <2>1 DEF LoadManifest, store
  <2> QED BY <1>4, <2>1, <2>2
<1>16. CASE Fingerprint(t)
  <2>1. CASE \E s \in SessionsOf(snap[t]) : ~present[s]
    BY <1>3, <1>16, <2>1 DEF Fingerprint, FailBuild
  <2>2. CASE ~ \E s \in SessionsOf(snap[t]) : ~present[s]
    <3>1. pc[t] = "fingerprint" /\ UNCHANGED <<manifest, disk, cursor>>
      BY <1>16, <2>2 DEF Fingerprint, store
    <3> QED BY <1>4, <3>1 DEF Intact
  <2> QED BY <2>1, <2>2
<1>17. CASE CreateManifest(t)
  <2>1. pc[t] = "create_manifest" /\ pc'[t] = "save_manifest" /\ UNCHANGED <<disk, cursor>>
    BY <1>1, <1>2, <1>17 DEF CreateManifest
  <2> QED BY <1>4, <2>1
<1>18. CASE SaveManifest(t)
  <2>1. /\ pc[t] = "save_manifest" /\ UNCHANGED <<disk, cursor>>
        /\ manifest' = Holding(plan[t])
    BY <1>18, WritesAlone DEF SaveManifest
  <2>2. manifest'.state = "ok"
    BY <2>1, FileStates
  <2> QED BY <1>4, <2>1, <2>2
<1>19. CASE CheckFiles(t)
  <2>1. pc[t] = "check_files" /\ UNCHANGED <<manifest, disk, cursor>>
    BY <1>19 DEF CheckFiles, store
  <2> QED BY <1>4, <2>1 DEF Intact
<1>20. CASE Project(t)
  <2>1. pc[t] = "project" /\ UNCHANGED <<manifest, disk, cursor>>
    BY <1>20 DEF Project, store
  <2> QED BY <1>4, <2>1 DEF Intact
<1>21. CASE MergeFile(t)
  <2> DEFINE f == FileOrder[cursor[t]]
  <2>1. disk[f].state # "damaged"
    BY <1>1, Passing DEF Intact
  <2>2. /\ pc[t] = "merge" /\ UNCHANGED <<manifest, disk>>
        /\ pc' = [pc EXCEPT ![t] = IF cursor[t] = 3 THEN "truncate" ELSE "merge"]
        /\ cursor' = [cursor EXCEPT ![t] = NextCursor(@)]
    BY <1>21, <2>1 DEF MergeFile, store
  <2>3. pc'[t] \in {"merge", "truncate"}
    BY <1>1, <1>2, <2>2
  <2> QED BY <1>5, <2>2, <2>3 DEF Intact
<1>22. CASE TruncateFile(t)
  <2>1. /\ pc[t] = "truncate" /\ pc'[t] = "write" /\ manifest' = manifest
        /\ disk' = [disk EXCEPT ![FileOrder[cursor[t]]] = Truncated]
    BY <1>1, <1>2, <1>22 DEF TruncateFile
  <2>2. \A f \in Files : disk'[f] = disk[f] \/ disk'[f] = Truncated
    BY <1>2, <2>1
  <2> QED BY <2>1, <2>2, FileStates DEF Intact
<1>23. CASE WriteFile(t)
  <2> DEFINE f == FileOrder[cursor[t]]
  <2>0. disk' = [disk EXCEPT ![f] = Holding(base[t][f])]
    <3>1. PICK text \in Texts(t, f) : disk' = [disk EXCEPT ![f] = text]
      BY <1>23 DEF WriteFile
    <3>2. text = Holding(base[t][f])
      BY WritesAlone
    <3> QED BY <3>1, <3>2
  <2>1. /\ pc[t] = "write" /\ manifest' = manifest
        /\ pc' = [pc EXCEPT ![t] = IF cursor[t] = 3 THEN "reply" ELSE "truncate"]
        /\ disk' = [disk EXCEPT ![f] = Holding(base[t][f])]
        /\ cursor' = [cursor EXCEPT ![t] = NextCursor(@)]
    BY <1>23, <2>0 DEF WriteFile
  <2>2. \A g \in Files : disk'[g] = disk[g] \/ disk'[g] = Holding(base[t][f])
    BY <1>2, <2>1
  <2>3. \A g \in Files : disk'[g].state # "damaged"
    BY <2>2, FileStates DEF Intact
  <2>4. pc'[t] \notin {"load", "merge", "truncate", "write"} => cursor[t] = 3
    BY <1>1, <1>2, <2>1
  <2> QED BY <1>5, <2>1, <2>3, <2>4
<1>24. CASE Reply(t)
  BY <1>3, <1>24 DEF Reply
<1>25. CASE Serve(t)
  BY <1>9, <1>10, <1>11, <1>12, <1>13, <1>14, <1>15, <1>16, <1>17, <1>18, <1>19, <1>20,
     <1>21, <1>22, <1>23, <1>24, <1>25 DEF Serve
<1> QED BY <1>6, <1>7, <1>8, <1>25, OneAtATime

-----------------------------------------------------------------------------
(* A fresh manifest means a fresh index.                                    *)

LEMMA VisibleBelow ==
  ASSUME TypeOK, NEW s \in Sources
  PROVE  /\ Visible[s] \in Nat /\ lines[s] \in Nat /\ Visible[s] <= lines[s]
         /\ Visible[s] # 0 => Visible[s] = lines[s] /\ present[s]
         /\ present[s] => Visible[s] = lines[s]
BY DEF TypeOK, Counts, Visible

\* A manifest and files that show what can be read vouch for no more than is there.
LEMMA RebuiltIsVouched ==
  ASSUME TypeOK, manifest.entries = Visible, \A f \in Files : disk[f].entries = Visible
  PROVE  Vouched
BY VisibleBelow DEF Vouched

LEMMA VisibleIsWithin ==
  ASSUME TypeOK
  PROVE  Within(Visible)
BY VisibleBelow DEF Within

\* The sources move between requests only: one that grows is no longer vouched
\* for, one that goes or returns keeps its lines.
LEMMA WorldKeepsFresh ==
  ASSUME IInv, NEW t, Threads = {t}, Hazards \subseteq {"archive"}, FreshInv(t),
         NEW s \in Sources, AppendLine(s) \/ Archive(s) \/ Unarchive(s)
  PROVE  FreshInv(t)'
<1>1. t \in Threads /\ TypeOK
  BY DEF IInv
<1>2. pc[t] = "idle" /\ pc' = pc /\ UNCHANGED <<manifest, disk>>
  BY <1>1 DEF AppendLine, Archive, Unarchive, SourcesMayMove, store
<1>3. Within(manifest.entries) /\ Vouched
  BY <1>2 DEF FreshInv, BeforeManifest
<1>4. lines' = lines \/ lines' = [lines EXCEPT ![s] = @ + 1]
  BY DEF AppendLine, Archive, Unarchive
<1>5. lines \in [Sources -> Nat] /\ manifest.entries \in [Sources -> Nat]
  BY <1>1 DEF TypeOK, Counts, File
<1>6. \A q \in Sources : /\ manifest.entries[q] <= lines'[q]
                         /\ manifest.entries[q] = lines'[q] => lines'[q] = lines[q]
  BY <1>3, <1>4, <1>5 DEF Within
<1>7. Within(manifest.entries)' /\ Vouched'
  BY <1>2, <1>3, <1>6 DEF Within, Vouched
<1> QED BY <1>2, <1>7 DEF FreshInv, BeforeManifest, AfterScan, Deciding, AfterManifest,
                          AfterProject

\* A response that comes before the manifest is written, or after the files.
LEMMA ResponseKeepsFresh ==
  ASSUME IInv, NEW t, Threads = {t}, FreshInv(t),
         pc[t] \in BeforeManifest \/ pc[t] = "reply",
         NEW shown, Respond(t, shown), UNCHANGED <<world, store>>
  PROVE  FreshInv(t)'
<1>1. t \in Threads /\ TypeOK
  BY DEF IInv
<1>2. pc'[t] = "idle" /\ UNCHANGED <<lines, present, manifest, disk>>
  BY <1>1, Responded DEF world, store
<1>3. Vouched
  <2>1. CASE pc[t] = "reply"
    BY <1>1, <2>1, RebuiltIsVouched DEF FreshInv, AfterManifest
  <2> QED BY <2>1 DEF FreshInv
<1>4. Vouched' /\ Within(manifest.entries)'
  BY <1>2, <1>3 DEF Vouched, FreshInv, Within
<1> QED BY <1>2, <1>4 DEF FreshInv, BeforeManifest, AfterScan, Deciding, AfterManifest,
                          AfterProject

\* What the steps of a request leave alone.
LEMMA FrameFresh ==
  ASSUME NEW t, UNCHANGED <<lines, present, disk>>
  PROVE  /\ Visible' = Visible
         /\ manifest' = manifest => /\ Vouched' = Vouched
                                    /\ Within(manifest.entries)' = Within(manifest.entries)
         /\ changed' = changed => RestIsIndexed(t)' = RestIsIndexed(t)
         /\ cursor' = cursor => Passed(t)' = Passed(t)
<1>1. Visible' = Visible
  BY DEF Visible
<1>2. manifest' = manifest => /\ Vouched' = Vouched
                              /\ Within(manifest.entries)' = Within(manifest.entries)
  BY DEF Vouched, Within
<1>3. changed' = changed => RestIsIndexed(t)' = RestIsIndexed(t)
  BY <1>1 DEF RestIsIndexed
<1> QED BY <1>1, <1>2, <1>3 DEF Passed

\* Serving from the index, and reading for a build.
LEMMA ReadingKeepsFresh ==
  ASSUME IInv, NEW t, Threads = {t}, Intact(t), FreshInv(t),
         \/ \E r \in Requests : Request(t, r)
         \/ OpenStore(t) \/ LoadFile(t) \/ FallBackToBuild(t)
         \/ Scan(t) \/ LoadManifest(t)
  PROVE  FreshInv(t)'
<1> USE DEF Goto
<1>1. t \in Threads /\ TypeOK
  BY DEF IInv
<1>2. pc \in [Threads -> Labels] /\ snap \in [Threads -> Counts] /\ prev \in [Threads -> Counts]
  BY <1>1 DEF TypeOK
<1>3. ASSUME UNCHANGED <<lines, present, manifest, disk>>,
             pc[t] \in BeforeManifest,
             pc'[t] \in {"open", "load", "answer", "scan"}
      PROVE  FreshInv(t)'
  BY <1>3, FrameFresh DEF FreshInv, BeforeManifest, AfterScan, Deciding, AfterManifest,
                          AfterProject
<1>4. ASSUME NEW r \in Requests, Request(t, r) PROVE FreshInv(t)'
  <2>1. /\ pc[t] = "idle" /\ pc'[t] = "open"
        /\ UNCHANGED <<lines, present, manifest, disk>>
    BY <1>1, <1>2, <1>4 DEF Request, world, store
  <2> QED BY <1>3, <2>1 DEF BeforeManifest
<1>5. CASE OpenStore(t)
  <2>1. /\ pc[t] = "open" /\ pc'[t] \in {"scan", "load"}
        /\ UNCHANGED <<lines, present, manifest, disk>>
    BY <1>1, <1>2, <1>5 DEF OpenStore, world, store
  <2> QED BY <1>3, <2>1 DEF BeforeManifest
<1>6. CASE LoadFile(t)
  <2>1. /\ pc[t] = "load" /\ pc'[t] \in {"scan", "answer", "load"}
        /\ UNCHANGED <<lines, present, manifest, disk>>
    BY <1>1, <1>2, <1>6 DEF LoadFile, world, store
  <2> QED BY <1>3, <2>1 DEF BeforeManifest
<1>7. CASE FallBackToBuild(t)
  <2>1. /\ pc[t] = "answer" /\ pc'[t] = "scan"
        /\ UNCHANGED <<lines, present, manifest, disk>>
    BY <1>1, <1>2, <1>7 DEF FallBackToBuild, world, store
  <2> QED BY <1>3, <2>1 DEF BeforeManifest
<1>8. CASE Scan(t)
  <2>1. /\ pc[t] = "scan" /\ pc'[t] = "load_manifest" /\ snap'[t] = Visible
        /\ UNCHANGED <<lines, present, manifest, disk>>
    BY <1>1, <1>2, <1>8 DEF Scan, world, store
  <2> QED BY <2>1, FrameFresh DEF FreshInv, BeforeManifest, AfterScan, Deciding,
                                  AfterManifest, AfterProject
<1>9. CASE LoadManifest(t)
  <2>1. pc[t] = "load_manifest" /\ manifest.state # "damaged"
    BY <1>9 DEF LoadManifest, Intact
  <2>2. /\ pc'[t] = "fingerprint" /\ prev'[t] = manifest.entries /\ snap' = snap
        /\ UNCHANGED <<lines, present, manifest, disk>>
    BY <1>1, <1>2, <1>9, <2>1 DEF LoadManifest, world, store
  <2> QED BY <2>1, <2>2, FrameFresh DEF FreshInv, BeforeManifest, AfterScan, Deciding,
                                        AfterManifest, AfterProject
<1> QED BY <1>4, <1>5, <1>6, <1>7, <1>8, <1>9

\* What the build finds changed is all that the manifest does not vouch for.
LEMMA FingerprintKeepsFresh ==
  ASSUME IInv, NEW t, Threads = {t}, FreshInv(t), Fingerprint(t)
  PROVE  FreshInv(t)'
<1> USE DEF Goto
<1> DEFINE parsed == SessionsOf(snap[t])
           gone == \E s \in parsed : ~present[s]
           again == {s \in parsed : prev[t][s] # lines[s]}
           lengths == [s \in Sources |-> IF s \in parsed THEN lines[s] ELSE 0]
<1>1. t \in Threads /\ TypeOK /\ pc[t] = "fingerprint"
  BY DEF IInv, Fingerprint
<1>2. snap[t] = Visible /\ prev[t] = manifest.entries /\ Vouched
  BY <1>1 DEF FreshInv, AfterScan, BeforeManifest
<1>3. parsed = {s \in Sources : Visible[s] > 0}
  BY <1>2 DEF SessionsOf
<1>4. lengths = Visible
  BY <1>1, <1>3, VisibleBelow DEF Visible
<1>5. CASE gone
  BY <1>1, <1>5, ResponseKeepsFresh DEF Fingerprint, FailBuild, BeforeManifest
<1>6. CASE ~gone
  <2>1. /\ pc' = [pc EXCEPT ![t] = "create_manifest"]
        /\ changed' = [changed EXCEPT ![t] = again]
        /\ plan' = [plan EXCEPT ![t] = lengths]
        /\ UNCHANGED <<lines, present, manifest, disk, snap>>
    BY <1>6 DEF Fingerprint, world, store
  <2> HIDE DEF again, lengths, parsed
  <2>2. pc'[t] = "create_manifest" /\ changed'[t] = again /\ plan'[t] = Visible
    BY <1>1, <1>4, <2>1 DEF TypeOK
  <2>3. RestIsIndexed(t)'
    <3>1. ASSUME NEW s \in Sources, Visible[s] > 0, s \notin again, NEW f \in Files
          PROVE  disk[f].entries[s] = lines[s]
      <4>1. manifest.entries[s] = lines[s]
        BY <1>2, <1>3, <3>1 DEF again
      <4> QED BY <1>2, <4>1 DEF Vouched
    <3> QED BY <2>1, <2>2, <3>1, FrameFresh DEF RestIsIndexed
  <2> QED BY <1>1, <1>2, <2>1, <2>2, <2>3, FrameFresh
          DEF FreshInv, BeforeManifest, AfterScan, Deciding, AfterManifest, AfterProject
<1> QED BY <1>5, <1>6

LEMMA ManifestKeepsFresh ==
  ASSUME IInv, NEW t, Threads = {t}, FreshInv(t), CreateManifest(t) \/ SaveManifest(t)
  PROVE  FreshInv(t)'
<1> USE DEF Goto, FreshInv, BeforeManifest, AfterScan, Deciding, AfterManifest, AfterProject
<1>1. t \in Threads /\ TypeOK
  BY DEF IInv
<1>2. UNCHANGED <<lines, present, disk, changed, snap, plan>>
  BY DEF CreateManifest, SaveManifest, world, build
<1>3. Within(None) /\ Within(Visible)
  BY <1>1, WithinNone, VisibleIsWithin
<1>4. CASE CreateManifest(t)
  <2>1. /\ pc[t] = "create_manifest" /\ pc'[t] = "save_manifest"
        /\ manifest'.entries = None
    BY <1>1, <1>4, FileValues DEF CreateManifest, TypeOK
  <2>2. Within(manifest.entries)'
    BY <1>2, <1>3, <2>1 DEF Within
  <2> QED BY <1>2, <2>1, <2>2, FrameFresh
<1>5. CASE SaveManifest(t)
  <2>1. /\ pc[t] = "save_manifest" /\ pc'[t] = "check_files"
        /\ manifest'.entries = plan[t]
    BY <1>1, <1>5, FileStates, WritesAlone DEF SaveManifest, TypeOK
  <2>2. manifest'.entries = Visible
    BY <2>1
  <2>3. Within(manifest.entries)'
    BY <1>2, <1>3, <2>2 DEF Within
  <2> QED BY <1>2, <2>1, <2>2, <2>3, FrameFresh
<1> QED BY <1>4, <1>5

\* The build projects all it has parsed when a file is missing, and otherwise
\* what has changed; every artifact it has parsed is still there.
LEMMA ProjectKeepsFresh ==
  ASSUME IInv, NEW t, Threads = {t}, Intact(t), FreshInv(t), CheckFiles(t) \/ Project(t)
  PROVE  FreshInv(t)'
<1> USE DEF Goto, BeforeManifest, AfterScan, Deciding, AfterManifest, AfterProject
<1>1. t \in Threads /\ TypeOK
  BY DEF IInv
<1>2. UNCHANGED <<lines, present, manifest, disk, snap, cursor, base>>
  BY DEF CheckFiles, Project, world, store
<1>3. CASE CheckFiles(t)
  <2>1. /\ pc[t] = "check_files" /\ pc'[t] = "project"
        /\ \/ changed'[t] = changed[t]
           \/ changed'[t] = SessionsOf(snap[t])
    BY <1>1, <1>3 DEF CheckFiles, TypeOK
  <2>2. snap[t] = Visible /\ RestIsIndexed(t) /\ manifest.entries = Visible
    BY <2>1 DEF FreshInv
  <2>3. RestIsIndexed(t)'
    <3>1. \A s \in Sources : Visible[s] > 0 => s \in SessionsOf(snap[t])
      BY <2>2 DEF SessionsOf
    <3> QED BY <1>2, <2>1, <2>2, <3>1, FrameFresh DEF RestIsIndexed
  <2> QED BY <1>2, <2>1, <2>2, <2>3, FrameFresh DEF FreshInv
<1>4. CASE Project(t)
  <2> DEFINE there == [s \in Sources |-> IF present[s] THEN snap[t][s] ELSE 0]
  <2>1. /\ pc[t] = "project" /\ pc'[t] = "merge" /\ changed' = changed
        /\ caps'[t] = there
    BY <1>1, <1>4 DEF Project, TypeOK
  <2>2. snap[t] = Visible /\ RestIsIndexed(t) /\ manifest.entries = Visible
    BY <2>1 DEF FreshInv
  <2>3. there = Visible
    BY <2>2 DEF Visible
  <2>4. Passed(t)' = {}
    BY <1>1, <1>2, <2>1, Passing, FrameFresh DEF Intact
  <2> HIDE DEF there
  <2> QED BY <1>2, <2>1, <2>2, <2>3, <2>4, FrameFresh DEF FreshInv
<1> QED BY <1>3, <1>4

\* Whatever a merge keeps of a file or takes from the projection is what can
\* be read now.
LEMMA MergedIsVisible ==
  ASSUME IInv, NEW t \in Threads, NEW f \in Files,
         snap[t] = Visible, caps[t] = Visible, RestIsIndexed(t)
  PROVE  Merged(t, f, disk[f].entries) = Visible
<1>1. ASSUME NEW s \in Sources PROVE Merged(t, f, disk[f].entries)[s] = Visible[s]
  <2>1. /\ Visible[s] \in Nat
        /\ Visible[s] # 0 => Visible[s] = lines[s]
    BY VisibleBelow DEF IInv
  <2>2. Visible[s] > 0 /\ s \notin changed[t] => disk[f].entries[s] = lines[s]
    BY DEF RestIsIndexed
  <2> QED BY <2>1, <2>2 DEF Merged
<1> QED BY <1>1 DEF Merged, Visible

LEMMA MergeKeepsFresh ==
  ASSUME IInv, NEW t, Threads = {t}, Intact(t), FreshInv(t), MergeFile(t)
  PROVE  FreshInv(t)'
<1> USE DEF Goto, BeforeManifest, AfterScan, Deciding, AfterManifest, AfterProject
<1> DEFINE f == FileOrder[cursor[t]]
<1>1. t \in Threads /\ TypeOK /\ pc[t] = "merge"
  BY DEF IInv, MergeFile
<1>2. snap[t] = Visible /\ caps[t] = Visible /\ RestIsIndexed(t) /\ manifest.entries = Visible
  BY <1>1 DEF FreshInv
<1>3. f \in Files /\ disk[f].state # "damaged"
  BY <1>1, Passing DEF Intact
<1>4. /\ base' = [base EXCEPT ![t][f] = Merged(t, f, disk[f].entries)]
      /\ pc' = [pc EXCEPT ![t] = IF cursor[t] = 3 THEN "truncate" ELSE "merge"]
      /\ cursor' = [cursor EXCEPT ![t] = NextCursor(@)]
      /\ UNCHANGED <<lines, present, manifest, disk, snap, changed, caps>>
  BY <1>3 DEF MergeFile, world, store, build
<1>5. cursor'[t] = NextCursor(cursor[t])
      /\ pc'[t] = (IF cursor[t] = 3 THEN "truncate" ELSE "merge")
  BY <1>1, <1>4 DEF TypeOK
<1>6. \A g \in Passed(t) \cup {f} : base'[t][g] = Visible
  <2>1. Merged(t, f, disk[f].entries) = Visible
    BY <1>1, <1>2, <1>3, MergedIsVisible
  <2>2. \A g \in Passed(t) : base[t][g] = Visible
    BY <1>1 DEF FreshInv
  <2>3. base[t] \in [Files -> Counts] /\ base \in [Threads -> [Files -> Counts]]
    BY <1>1 DEF TypeOK
  <2>4. Passed(t) \subseteq Files
    BY <1>1, Passing
  <2> HIDE DEF f
  <2> QED BY <1>1, <1>3, <1>4, <2>1, <2>2, <2>3, <2>4
<1>7. CASE cursor[t] = 3
  <2>1. pc'[t] = "truncate" /\ Files = Passed(t) \cup {f} /\ cursor'[t] = 1
    BY <1>1, <1>5, <1>7, Passing DEF NextCursor
  <2>2. Passed(t)' = {}
    BY <2>1 DEF Passed
  <2>3. \A g \in Files : base'[t][g] = Visible
    BY <1>6, <2>1
  <2> QED BY <1>2, <1>4, <2>1, <2>2, <2>3, FrameFresh DEF FreshInv
<1>8. CASE cursor[t] # 3
  <2>1. pc'[t] = "merge"
    BY <1>5, <1>8
  <2>2. Passed(t)' = Passed(t) \cup {f}
    BY <1>1, <1>5, <1>8, Passing
  <2>3. \A g \in Passed(t)' : base'[t][g] = Visible
    BY <1>6, <2>2
  <2> QED BY <1>2, <1>4, <2>1, <2>3, FrameFresh DEF FreshInv
<1> QED BY <1>7, <1>8

LEMMA SaveKeepsFresh ==
  ASSUME IInv, NEW t, Threads = {t}, Intact(t), FreshInv(t), TruncateFile(t) \/ WriteFile(t)
  PROVE  FreshInv(t)'
<1> USE DEF Goto, BeforeManifest, AfterScan, Deciding, AfterManifest, AfterProject
<1> DEFINE f == FileOrder[cursor[t]]
<1>1. t \in Threads /\ TypeOK
  BY DEF IInv
<1>2. f \in Files /\ f \notin Passed(t) /\ Passed(t) \subseteq Files
  BY <1>1, Passing
<1>3. UNCHANGED <<lines, present, manifest, snap, caps, base>>
  BY DEF TruncateFile, WriteFile, world, build
<1>4. /\ snap[t] = Visible /\ caps[t] = Visible /\ manifest.entries = Visible
      /\ \A g \in Files : base[t][g] = Visible
      /\ \A g \in Passed(t) : disk[g].entries = Visible
  BY DEF TruncateFile, WriteFile, FreshInv
<1>5. Visible' = Visible /\ Within(manifest.entries)'
  BY <1>3 DEF Visible, Within, FreshInv
<1>6. disk \in [Files -> File]
  BY <1>1 DEF TypeOK
<1>7. CASE TruncateFile(t)
  <2>1. /\ pc'[t] = "write" /\ cursor' = cursor
        /\ disk' = [disk EXCEPT ![f] = Truncated]
    BY <1>1, <1>7 DEF TruncateFile, TypeOK
  <2> HIDE DEF f
  <2>2. \A g \in Passed(t) : disk'[g] = disk[g]
    BY <1>2, <1>6, <2>1
  <2>3. Passed(t)' = Passed(t)
    BY <2>1 DEF Passed
  <2> QED BY <1>3, <1>4, <1>5, <2>1, <2>2, <2>3 DEF FreshInv
<1>8. CASE WriteFile(t)
  <2>0. disk' = [disk EXCEPT ![f] = Holding(base[t][f])]
    <3>1. PICK text \in Texts(t, f) : disk' = [disk EXCEPT ![f] = text]
      BY <1>8 DEF WriteFile
    <3>2. text = Holding(base[t][f])
      BY WritesAlone
    <3> QED BY <3>1, <3>2
  <2>1. /\ pc' = [pc EXCEPT ![t] = IF cursor[t] = 3 THEN "reply" ELSE "truncate"]
        /\ cursor' = [cursor EXCEPT ![t] = NextCursor(@)]
        /\ disk' = [disk EXCEPT ![f] = Holding(base[t][f])]
    BY <1>8, <2>0 DEF WriteFile
  <2>2. cursor'[t] = NextCursor(cursor[t])
        /\ pc'[t] = (IF cursor[t] = 3 THEN "reply" ELSE "truncate")
    BY <1>1, <2>1 DEF TypeOK
  <2>3. \A g \in Passed(t) \cup {f} : disk'[g].entries = Visible
    <3>1. Holding(base[t][f]).entries = Visible
      BY <1>2, <1>4, FileStates
    <3> HIDE DEF f
    <3> QED BY <1>2, <1>4, <1>6, <2>1, <3>1
  <2>4. CASE cursor[t] = 3
    <3>1. pc'[t] = "reply" /\ Files = Passed(t) \cup {f}
      BY <1>1, <2>2, <2>4, Passing
    <3>2. \A g \in Files : disk'[g].entries = Visible
      BY <2>3, <3>1
    <3> QED BY <1>3, <1>4, <1>5, <3>1, <3>2 DEF FreshInv
  <2>5. CASE cursor[t] # 3
    <3>1. pc'[t] = "truncate"
      BY <2>2, <2>5
    <3>2. Passed(t)' = Passed(t) \cup {f}
      BY <1>1, <2>2, <2>5, Passing
    <3>3. \A g \in Passed(t)' : disk'[g].entries = Visible
      BY <2>3, <3>2
    <3> QED BY <1>3, <1>4, <1>5, <3>1, <3>3 DEF FreshInv
  <2> QED BY <2>4, <2>5
<1> QED BY <1>7, <1>8

LEMMA StepFresh ==
  ASSUME IInv, NEW t, Threads = {t}, Hazards \subseteq {"archive"}, Intact(t), FreshInv(t),
         [Next]_vars
  PROVE  FreshInv(t)'
<1>1. CASE UNCHANGED vars
  <2>1. /\ UNCHANGED <<lines, present, manifest, disk, pc, cursor>>
        /\ UNCHANGED <<snap, prev, changed, plan, caps, base>>
    BY <1>1 DEF vars
  <2> QED BY <2>1, FrameFresh DEF FreshInv
<1>2. ASSUME NEW s \in Sources, AppendLine(s) \/ Archive(s) \/ Unarchive(s)
      PROVE  FreshInv(t)'
  BY <1>2, WorldKeepsFresh
<1>3. ASSUME NEW r \in Requests, Request(t, r) PROVE FreshInv(t)'
  BY <1>3, ReadingKeepsFresh
<1>4. CASE Serve(t)
  <2>1. CASE AnswerList(t) \/ AnswerDetail(t) \/ Reply(t)
    BY <2>1, ResponseKeepsFresh DEF AnswerList, AnswerDetail, Reply, BeforeManifest
  <2> QED BY <1>4, <2>1, ReadingKeepsFresh, FingerprintKeepsFresh, ManifestKeepsFresh,
             ProjectKeepsFresh, MergeKeepsFresh, SaveKeepsFresh DEF Serve
<1> QED BY <1>1, <1>2, <1>3, <1>4, OneAtATime

\* With one thread at work at a time, no crash, no failed write, and sources
\* that keep still while a request is served: between requests, whatever the
\* manifest vouches for is fully indexed, so the build that skips it is right
\* to. Without any of these the run index_race and the hazards of the manifest
\* show that it is not so.
THEOREM FreshWhenUndisturbed ==
  ASSUME NEW t, Threads = {t}, Hazards \subseteq {"archive"}
  PROVE  Spec => []FreshManifestMeansFreshIndex
<1> DEFINE Inv == IInv /\ Intact(t) /\ FreshInv(t)
<1>1. Init => Inv
  BY InitIInv, InitIntact
<1>2. Inv /\ [Next]_vars => Inv'
  BY StepIInv, StepIntact, StepFresh
<1>3. Inv => FreshManifestMeansFreshIndex
  BY DEF FreshManifestMeansFreshIndex, FreshInv, BeforeManifest, Vouched
<1> QED BY <1>1, <1>2, <1>3, PTL DEF Spec

-----------------------------------------------------------------------------
(* Refinement of AtomicIndex.                                               *)

\* With one thread, what is published is what it is about to write, or the disk.
LEMMA PublishedIs ==
  ASSUME NEW t, Threads = {t}
  PROVE  /\ Publishing(t) => Published = base[t]
         /\ ~Publishing(t) => Published = [f \in Files |-> disk[f].entries]
<1>1. Publishing(t) => Published = base[t]
  <2> SUFFICES ASSUME Publishing(t) PROVE Published = base[t]
    OBVIOUS
  <2>1. (CHOOSE q \in Threads : Publishing(q)) = t
    OBVIOUS
  <2> QED BY <2>1 DEF Published
<1> QED BY <1>1 DEF Published

LEMMA PublishedIsNext ==
  ASSUME NEW t, Threads = {t}
  PROVE  /\ Publishing(t)' => Published' = base'[t]
         /\ ~Publishing(t)' => Published' = [f \in Files |-> disk'[f].entries]
<1>1. Publishing(t)' => Published' = base'[t]
  <2> SUFFICES ASSUME Publishing(t)' PROVE Published' = base'[t]
    OBVIOUS
  <2>1. (CHOOSE q \in Threads : Publishing(q)') = t
    OBVIOUS
  <2> QED BY <2>1 DEF Published
<1> QED BY <1>1 DEF Published

\* A step between two passes, or before the first file is cut, shows no more
\* and no less than before.
LEMMA NotPublished ==
  ASSUME NEW t, Threads = {t}, ~Publishing(t), ~Publishing(t)', disk' = disk
  PROVE  Published' = Published
BY PublishedIs, PublishedIsNext

\* All that can be read, in every file.
AllReadable == [f \in Files |-> Visible]

LEMMA CuttingTheFirstFilePublishes ==
  ASSUME IInv, NEW t, Threads = {t}, Intact(t), FreshInv(t), TruncateFile(t)
  PROVE  IF cursor[t] = 1 THEN Published' = AllReadable ELSE Published' = Published
<1>1. t \in Threads /\ TypeOK
  BY DEF IInv
<1>2. pc[t] = "truncate" /\ pc'[t] = "write" /\ UNCHANGED <<base, cursor>>
  BY <1>1 DEF TruncateFile, Goto, TypeOK
<1>3. base[t] = AllReadable
  <2>1. base[t] \in [Files -> Counts] /\ \A f \in Files : base[t][f] = Visible
    BY <1>1, <1>2 DEF TypeOK, FreshInv
  <2> QED BY <2>1 DEF AllReadable
<1>4. Published' = base[t]
  BY <1>2, PublishedIsNext DEF Publishing
<1>5. cursor[t] # 1 => Published = base[t]
  <2>1. cursor[t] \in 1..3
    BY <1>1, Passing
  <2> QED BY <1>2, <2>1, PublishedIs DEF Publishing
<1> QED BY <1>3, <1>4, <1>5

LEMMA WritingShowsTheSame ==
  ASSUME IInv, NEW t, Threads = {t}, Intact(t), FreshInv(t), FreshInv(t)', WriteFile(t)
  PROVE  Published' = Published
<1>1. t \in Threads /\ TypeOK /\ pc[t] = "write"
  BY DEF IInv, WriteFile
<1>2. /\ cursor'[t] = NextCursor(cursor[t])
      /\ pc'[t] = (IF cursor[t] = 3 THEN "reply" ELSE "truncate")
      /\ UNCHANGED <<lines, present, base>>
  BY <1>1 DEF WriteFile, Goto, TypeOK, world, build
<1>3. Published = base[t] /\ base[t] = AllReadable
  <2>1. base[t] \in [Files -> Counts] /\ \A f \in Files : base[t][f] = Visible
    BY <1>1 DEF TypeOK, FreshInv
  <2> QED BY <1>1, <2>1, PublishedIs DEF AllReadable, Publishing
<1>4. CASE cursor[t] = 3
  <2>1. pc'[t] = "reply" /\ ~Publishing(t)' /\ Visible' = Visible
    BY <1>2, <1>4 DEF Publishing, Visible
  <2>2. \A f \in Files : disk'[f].entries = Visible
    BY <2>1 DEF FreshInv
  <2> QED BY <1>3, <2>1, <2>2, PublishedIsNext DEF AllReadable
<1>5. CASE cursor[t] # 3
  <2>1. cursor'[t] > 1 /\ pc'[t] = "truncate"
    <3>1. cursor[t] \in 1..3
      BY <1>1, Passing
    <3> QED BY <1>2, <1>5, <3>1 DEF NextCursor
  <2> QED BY <1>2, <1>3, <2>1, PublishedIsNext DEF Publishing
<1> QED BY <1>4, <1>5

\* The steps of a request that leave the files alone.
LEMMA OthersPublishNothing ==
  ASSUME IInv, NEW t, Threads = {t}, Intact(t),
         \/ \E r \in Requests : Request(t, r)
         \/ OpenStore(t) \/ LoadFile(t)
         \/ AnswerList(t) \/ AnswerDetail(t) \/ FallBackToBuild(t)
         \/ Scan(t) \/ LoadManifest(t) \/ Fingerprint(t)
         \/ CreateManifest(t) \/ SaveManifest(t) \/ CheckFiles(t) \/ Project(t)
         \/ MergeFile(t) \/ Reply(t)
  PROVE  Published' = Published /\ UNCHANGED <<lines, present>>
<1> USE DEF Goto, Publishing
<1>1. t \in Threads /\ TypeOK
  BY DEF IInv
<1>2. pc \in [Threads -> Labels] /\ cursor \in [Threads -> 1..3]
  BY <1>1 DEF TypeOK
<1>3. ASSUME pc[t] \notin {"truncate", "write"}, disk' = disk,
             pc'[t] \notin {"truncate", "write"} \/ (pc'[t] = "truncate" /\ cursor'[t] = 1)
      PROVE  Published' = Published
  BY <1>3, NotPublished
<1>4. ASSUME NEW shown, Respond(t, shown), UNCHANGED <<world, store>>,
             pc[t] \notin {"truncate", "write"}
      PROVE  Published' = Published /\ UNCHANGED <<lines, present>>
  <2>1. pc'[t] = "idle" /\ UNCHANGED <<lines, present, disk>>
    BY <1>1, <1>4, Responded DEF world, store
  <2> QED BY <1>3, <1>4, <2>1
<1>5. ASSUME NEW r \in Requests, Request(t, r)
      PROVE  Published' = Published /\ UNCHANGED <<lines, present>>
  <2>1. pc[t] = "idle" /\ pc'[t] = "open" /\ UNCHANGED <<lines, present, disk>>
    BY <1>1, <1>2, <1>5 DEF Request, world, store
  <2> QED BY <1>3, <2>1
<1>6. CASE OpenStore(t) \/ FallBackToBuild(t) \/ Scan(t) \/ CreateManifest(t)
           \/ SaveManifest(t) \/ CheckFiles(t) \/ Project(t)
  <2>1. /\ pc[t] \notin {"truncate", "write"} /\ pc'[t] \notin {"truncate", "write"}
        /\ UNCHANGED <<lines, present, disk>>
    BY <1>1, <1>2, <1>6
       DEF OpenStore, FallBackToBuild, Scan, CreateManifest, SaveManifest, CheckFiles,
           Project, world, store
  <2> QED BY <1>3, <2>1
<1>7. CASE LoadFile(t)
  <2>1. /\ pc[t] = "load" /\ pc'[t] \in {"scan", "answer", "load"}
        /\ UNCHANGED <<lines, present, disk>>
    BY <1>1, <1>2, <1>7 DEF LoadFile, world, store
  <2> QED BY <1>3, <2>1
<1>8. CASE AnswerList(t) \/ AnswerDetail(t) \/ Reply(t)
  BY <1>4, <1>8 DEF AnswerList, AnswerDetail, Reply
<1>9. CASE LoadManifest(t)
  <2>1. pc[t] = "load_manifest" /\ manifest.state # "damaged"
    BY <1>9 DEF LoadManifest, Intact
  <2>2. pc'[t] = "fingerprint" /\ UNCHANGED <<lines, present, disk>>
    BY <1>1, <1>2, <1>9, <2>1 DEF LoadManifest, world, store
  <2> QED BY <1>3, <2>1, <2>2
<1>10. CASE Fingerprint(t)
  <2>1. CASE \E s \in SessionsOf(snap[t]) : ~present[s]
    BY <1>4, <1>10, <2>1 DEF Fingerprint, FailBuild
  <2>2. CASE ~ \E s \in SessionsOf(snap[t]) : ~present[s]
    <3>1. /\ pc[t] = "fingerprint" /\ pc'[t] = "create_manifest"
          /\ UNCHANGED <<lines, present, disk>>
      BY <1>1, <1>2, <1>10, <2>2 DEF Fingerprint, world, store
    <3> QED BY <1>3, <3>1
  <2> QED BY <2>1, <2>2
<1>11. CASE MergeFile(t)
  <2> DEFINE f == FileOrder[cursor[t]]
  <2>1. disk[f].state # "damaged"
    BY <1>1, Passing DEF Intact
  <2>2. /\ pc[t] = "merge" /\ UNCHANGED <<lines, present, disk>>
        /\ pc' = [pc EXCEPT ![t] = IF cursor[t] = 3 THEN "truncate" ELSE "merge"]
        /\ cursor' = [cursor EXCEPT ![t] = NextCursor(@)]
    BY <1>11, <2>1 DEF MergeFile, world, store
  <2>3. pc'[t] = "merge" \/ (pc'[t] = "truncate" /\ cursor'[t] = 1)
    BY <1>1, <1>2, <2>2 DEF NextCursor
  <2> QED BY <1>3, <2>2, <2>3
<1> QED BY <1>5, <1>6, <1>7, <1>8, <1>9, <1>10, <1>11

\* What the sources do, they do to the abstract index too.
LEMMA WorldSteps ==
  ASSUME IInv, NEW t, Threads = {t}, Hazards \subseteq {"archive"},
         NEW s \in Sources, AppendLine(s) \/ Archive(s) \/ Unarchive(s)
  PROVE  Atomic!Record(s) \/ Atomic!Toggle(s)
<1>1. TypeOK /\ t \in Threads
  BY DEF IInv
<1>2. pc[t] = "idle" /\ pc' = pc /\ disk' = disk
  BY <1>1 DEF AppendLine, Archive, Unarchive, SourcesMayMove, store
<1>3. Published' = Published
  BY <1>2, NotPublished DEF Publishing
<1>4. CASE AppendLine(s)
  BY <1>3, <1>4 DEF AppendLine, Atomic!Record
<1>5. CASE Archive(s) \/ Unarchive(s)
  BY <1>3, <1>5 DEF Archive, Unarchive, Atomic!Toggle
<1> QED BY <1>4, <1>5

LEMMA StepRefines ==
  ASSUME IInv, NEW t, Threads = {t}, Hazards \subseteq {"archive"},
         Intact(t), FreshInv(t), FreshInv(t)', [Next]_vars
  PROVE  [Atomic!Next]_(Atomic!vars)
<1>1. CASE UNCHANGED vars
  BY <1>1 DEF vars, Atomic!vars, Published, Publishing
<1>2. ASSUME NEW s \in Sources, AppendLine(s) \/ Archive(s) \/ Unarchive(s)
      PROVE  Atomic!Next
  BY <1>2, WorldSteps DEF Atomic!Next
<1>3. CASE TruncateFile(t)
  <2>1. UNCHANGED <<lines, present>>
    BY <1>3 DEF TruncateFile, world
  <2>2. Atomic!Readable = Visible
    BY DEF Atomic!Readable, Visible
  <2>3. CASE cursor[t] = 1
    <3>1. Published' = [f \in Files |-> Atomic!Readable]
      BY <1>3, <2>2, <2>3, CuttingTheFirstFilePublishes DEF AllReadable
    <3> QED BY <2>1, <3>1 DEF Atomic!Rebuild, Atomic!Next
  <2>4. CASE cursor[t] # 1
    BY <1>3, <2>1, <2>4, CuttingTheFirstFilePublishes DEF Atomic!vars
  <2> QED BY <2>3, <2>4
<1>4. CASE WriteFile(t)
  BY <1>4, WritingShowsTheSame DEF WriteFile, world, Atomic!vars
<1>5. CASE (\E r \in Requests : Request(t, r)) \/ (Serve(t) /\ ~TruncateFile(t) /\ ~WriteFile(t))
  BY <1>5, OthersPublishNothing DEF Serve, Atomic!vars
<1> QED BY <1>1, <1>2, <1>3, <1>4, <1>5, OneAtATime

\* Under the same conditions the incremental build, with its manifest, its
\* three files and their truncation, is an index that each build replaces as a
\* whole by all that can be read.
THEOREM BuildsAreAtomic ==
  ASSUME NEW t, Threads = {t}, Hazards \subseteq {"archive"}
  PROVE  Spec => RefinesAtomicIndex
<1> DEFINE Inv == IInv /\ Intact(t) /\ FreshInv(t)
<1>1. Init => Inv
  BY InitIInv, InitIntact
<1>2. Inv /\ [Next]_vars => Inv'
  BY StepIInv, StepIntact, StepFresh
<1>3. Init => Atomic!Init
  <2> SUFFICES ASSUME Init PROVE Atomic!Init
    OBVIOUS
  <2>1. ~Publishing(t)
    BY DEF Init, Publishing
  <2>2. \A f \in Files : disk[f].entries = None
    BY FileValues DEF Init
  <2>3. Published = [f \in Files |-> None]
    BY <2>1, <2>2, PublishedIs
  <2> QED BY <2>3 DEF Init, Atomic!Init, None
<1>4. Inv /\ Inv' /\ [Next]_vars => [Atomic!Next]_(Atomic!vars)
  BY StepRefines
<1> QED BY <1>1, <1>2, <1>3, <1>4, PTL DEF Spec, RefinesAtomicIndex, Atomic!Spec

-----------------------------------------------------------------------------
(* A detail that exists is found.                                           *)

\* Sources that move while a request is served only gain: nothing is archived
\* then, so what a build has parsed can still be read.
LEMMA WorldKeepsFound ==
  ASSUME IInv, NEW t, Threads = {t}, ~({"live", "archive"} \subseteq Hazards), FoundInv(t),
         NEW s \in Sources, AppendLine(s) \/ Archive(s) \/ Unarchive(s)
  PROVE  FoundInv(t)'
<1> USE DEF AfterScan, AfterProject
<1>1. t \in Threads /\ TypeOK /\ Visible \in Counts
  BY VisibleCounts DEF IInv
<1>2. UNCHANGED <<pc, asked, snap, caps, answer>>
  BY DEF AppendLine, Archive, Unarchive, build, request
<1>3. CASE Archive(s)
  <2>1. pc[t] = "idle" /\ due' = [q \in Threads |-> due[q] \ {s}]
    BY <1>1, <1>3 DEF Archive, SourcesMayMove
  <2>2. due'[t] \subseteq due[t]
    BY <1>1, <2>1
  <2> QED BY <1>2, <2>1, <2>2 DEF FoundInv
<1>4. CASE AppendLine(s) \/ Unarchive(s)
  <2>1. /\ due' = due
        /\ \A q \in Sources : present[q] => present'[q]
        /\ \A q \in Sources : Visible[q] <= Visible'[q] /\ Visible'[q] \in Nat
    <3>1. lines \in [Sources -> Nat] /\ present \in [Sources -> BOOLEAN]
      BY <1>1 DEF TypeOK, Counts
    <3>2. due' = due
      BY <1>4 DEF AppendLine, Unarchive, request
    <3>3. CASE AppendLine(s)
      <4>1. lines' = [lines EXCEPT ![s] = @ + 1] /\ present' = present
        BY <3>3 DEF AppendLine
      <4> QED BY <3>1, <3>2, <4>1 DEF Visible
    <3>4. CASE Unarchive(s)
      <4>1. lines' = lines /\ present' = [present EXCEPT ![s] = TRUE]
        BY <3>4 DEF Unarchive
      <4>2. \A q \in Sources : present[q] => present'[q]
        BY <3>1, <4>1
      <4> QED BY <3>1, <3>2, <4>1, <4>2 DEF Visible
    <3> QED BY <1>4, <3>3, <3>4
  <2>2. ASSUME asked[t] # ListRequest, Held(t, Visible) PROVE Held(t, Visible)'
    <3>1. asked[t][2] \in Nat
      BY <1>1, <2>2 DEF TypeOK, Requests, DetailRequests, SessionRequests, EventRequests
    <3>2. \A q \in due[t] : q \in Sources
      BY <1>1 DEF TypeOK
    <3>3. \A q \in due[t] : Visible'[q] > 0 /\ Visible'[q] >= asked[t][2]
      BY <1>1, <2>1, <2>2, <3>1, <3>2 DEF Held, Counts
    <3> QED BY <1>2, <2>1, <3>3 DEF Held
  <2>3. Held(t, snap[t])' = Held(t, snap[t])
    BY <1>2, <2>1 DEF Held
  <2> QED BY <1>2, <2>1, <2>2, <2>3 DEF FoundInv
<1> QED BY <1>3, <1>4

\* An answer that shows what was due.
LEMMA ResponseKeepsFound ==
  ASSUME IInv, NEW t, Threads = {t}, NEW shown, Respond(t, shown),
         asked[t] # ListRequest => due[t] \subseteq shown
  PROVE  FoundInv(t)'
<1>1. t \in Threads /\ TypeOK
  BY DEF IInv
<1>2. /\ pc'[t] = "idle" /\ answer'[t] = shown
      /\ asked'[t] = asked[t] /\ due'[t] = due[t]
  BY <1>1, Responded
<1> QED BY <1>2 DEF FoundInv, AfterScan, AfterProject

LEMMA ServingKeepsFound ==
  ASSUME IInv, NEW t, Threads = {t}, Intact(t), FoundInv(t),
         \/ \E r \in Requests : Request(t, r)
         \/ OpenStore(t) \/ LoadFile(t) \/ FallBackToBuild(t)
         \/ AnswerList(t) \/ AnswerDetail(t) \/ Reply(t)
  PROVE  FoundInv(t)'
<1> USE DEF Goto, AfterScan, AfterProject
<1>1. t \in Threads /\ TypeOK
  BY DEF IInv
<1>2. /\ pc \in [Threads -> Labels] /\ asked \in [Threads -> Requests]
      /\ due \in [Threads -> SUBSET Sources]
  BY <1>1 DEF TypeOK
<1>3. ASSUME NEW r \in Requests, Request(t, r) PROVE FoundInv(t)'
  <2>1. /\ pc'[t] = "open" /\ asked'[t] = r /\ due'[t] = Selected(r, Visible)
        /\ UNCHANGED <<lines, present>>
    BY <1>1, <1>2, <1>3 DEF Request, world
  <2>2. Visible' = Visible
    BY <2>1 DEF Visible
  <2>3. r # ListRequest => due'[t] \subseteq {r[1]} /\ Held(t, Visible)'
    BY <2>1, <2>2 DEF Selected, SessionsOf, Held
  <2> QED BY <2>1, <2>3 DEF FoundInv
<1>4. ASSUME pc[t] \in {"open", "load", "answer"}, pc'[t] \in {"load", "answer", "scan"},
             UNCHANGED <<world, request>>
      PROVE  FoundInv(t)'
  <2>1. UNCHANGED <<lines, present, asked, answer, due>> /\ Visible' = Visible
    BY <1>4 DEF world, request, Visible
  <2> QED BY <1>4, <2>1 DEF FoundInv, Held
<1>5. CASE OpenStore(t)
  BY <1>1, <1>2, <1>4, <1>5 DEF OpenStore
<1>6. CASE LoadFile(t)
  <2>1. pc[t] = "load" /\ pc'[t] \in {"scan", "answer", "load"} /\ UNCHANGED <<world, request>>
    BY <1>1, <1>2, <1>6 DEF LoadFile
  <2> QED BY <1>4, <2>1
<1>7. CASE FallBackToBuild(t)
  BY <1>1, <1>2, <1>4, <1>7 DEF FallBackToBuild
<1>8. CASE AnswerList(t)
  BY <1>8, ResponseKeepsFound DEF AnswerList
<1>9. CASE AnswerDetail(t)
  <2>1. /\ pc[t] = "answer" /\ asked[t] # ListRequest
        /\ Respond(t, {asked[t][1]})
    BY <1>9 DEF AnswerDetail
  <2>2. due[t] \subseteq {asked[t][1]}
    BY <2>1 DEF FoundInv
  <2> QED BY <2>1, <2>2, ResponseKeepsFound
<1>10. CASE Reply(t)
  <2> DEFINE counts == IF asked[t] \in EventRequests THEN caps[t] ELSE snap[t]
  <2>1. pc[t] = "reply" /\ Respond(t, Selected(asked[t], counts))
    BY <1>10 DEF Reply
  <2>2. counts = snap[t]
    BY <2>1 DEF FoundInv
  <2>3. ASSUME asked[t] # ListRequest PROVE due[t] \subseteq Selected(asked[t], counts)
    BY <1>2, <1>1, <2>1, <2>2, <2>3 DEF FoundInv, Held, Selected, SessionsOf
  <2> HIDE DEF counts
  <2> QED BY <2>1, <2>3, ResponseKeepsFound
<1> QED BY <1>3, <1>5, <1>6, <1>7, <1>8, <1>9, <1>10

\* A build never gives up: the manifest and the files it meets are whole, and
\* every artifact it has parsed is still there.
LEMMA BuildingKeepsFound ==
  ASSUME IInv, NEW t, Threads = {t}, Intact(t), FoundInv(t),
         \/ Scan(t) \/ LoadManifest(t) \/ Fingerprint(t)
         \/ CreateManifest(t) \/ SaveManifest(t) \/ CheckFiles(t) \/ Project(t)
         \/ MergeFile(t) \/ TruncateFile(t) \/ WriteFile(t)
  PROVE  FoundInv(t)'
<1> USE DEF Goto, AfterScan, AfterProject
<1>1. t \in Threads /\ TypeOK
  BY DEF IInv
<1>2. /\ pc \in [Threads -> Labels] /\ snap \in [Threads -> Counts]
      /\ caps \in [Threads -> Counts] /\ due \in [Threads -> SUBSET Sources]
  BY <1>1 DEF TypeOK
<1>3. ASSUME pc[t] \in AfterScan, pc'[t] \in AfterScan,
             pc'[t] \in AfterProject => pc[t] \in AfterProject,
             UNCHANGED <<lines, present, asked, answer, due, snap, caps>>
      PROVE  FoundInv(t)'
  <2>1. Visible' = Visible
    BY <1>3 DEF Visible
  <2> QED BY <1>3, <2>1 DEF FoundInv, Held
<1>4. CASE Scan(t)
  <2>1. /\ pc[t] = "scan" /\ pc'[t] = "load_manifest" /\ snap'[t] = Visible
        /\ UNCHANGED <<lines, present, asked, answer, due>>
    BY <1>1, <1>2, <1>4 DEF Scan, world, request
  <2>2. Visible' = Visible
    BY <2>1 DEF Visible
  <2>3. \A s \in Sources : Visible[s] > 0 => present[s]
    BY <1>1, VisibleBelow
  <2> QED BY <2>1, <2>2, <2>3 DEF FoundInv, Held
<1>5. CASE LoadManifest(t)
  <2>1. pc[t] = "load_manifest" /\ manifest.state # "damaged"
    BY <1>5 DEF LoadManifest, Intact
  <2>2. pc'[t] = "fingerprint" /\ UNCHANGED <<lines, present, asked, answer, due, snap, caps>>
    BY <1>1, <1>2, <1>5, <2>1 DEF LoadManifest, world, request
  <2> QED BY <1>3, <2>1, <2>2
<1>6. CASE Fingerprint(t)
  <2>1. pc[t] = "fingerprint" /\ ~ \E s \in SessionsOf(snap[t]) : ~present[s]
    BY <1>6 DEF Fingerprint, FoundInv, SessionsOf
  <2>2. pc'[t] = "create_manifest"
        /\ UNCHANGED <<lines, present, asked, answer, due, snap, caps>>
    BY <1>1, <1>2, <1>6, <2>1 DEF Fingerprint, world, request
  <2> QED BY <1>3, <2>1, <2>2
<1>7. CASE CreateManifest(t) \/ SaveManifest(t) \/ CheckFiles(t)
  <2>1. /\ pc[t] \in AfterScan /\ pc'[t] \in {"save_manifest", "check_files", "project"}
        /\ UNCHANGED <<lines, present, asked, answer, due, snap, caps>>
    BY <1>1, <1>2, <1>7 DEF CreateManifest, SaveManifest, CheckFiles, world, build, request
  <2> QED BY <1>3, <2>1
<1>8. CASE Project(t)
  <2> DEFINE there == [s \in Sources |-> IF present[s] THEN snap[t][s] ELSE 0]
  <2>1. /\ pc[t] = "project" /\ pc'[t] = "merge" /\ caps'[t] = there
        /\ UNCHANGED <<lines, present, asked, answer, due, snap>>
    BY <1>1, <1>2, <1>8 DEF Project, world, request
  <2>2. there = snap[t]
    <3>1. snap[t] \in [Sources -> Nat] /\ \A s \in Sources : snap[t][s] > 0 => present[s]
      BY <1>1, <1>2, <2>1 DEF FoundInv, Counts
    <3>2. \A s \in Sources : there[s] = snap[t][s]
      BY <3>1
    <3> QED BY <3>1, <3>2
  <2>3. Visible' = Visible
    BY <2>1 DEF Visible
  <2> HIDE DEF there
  <2> QED BY <2>1, <2>2, <2>3 DEF FoundInv, Held
<1>9. CASE MergeFile(t)
  <2> DEFINE f == FileOrder[cursor[t]]
  <2>1. disk[f].state # "damaged"
    BY <1>1, Passing DEF Intact
  <2>2. /\ pc[t] = "merge" /\ pc'[t] \in {"merge", "truncate"}
        /\ UNCHANGED <<lines, present, asked, answer, due, snap, caps>>
    BY <1>1, <1>2, <1>9, <2>1 DEF MergeFile, world, build, request
  <2> QED BY <1>3, <2>2
<1>10. CASE TruncateFile(t) \/ WriteFile(t)
  <2>1. /\ pc[t] \in {"truncate", "write"} /\ pc'[t] \in {"truncate", "write", "reply"}
        /\ UNCHANGED <<lines, present, asked, answer, due, snap, caps>>
    BY <1>1, <1>2, <1>10 DEF TruncateFile, WriteFile, world, build, request
  <2> QED BY <1>3, <2>1
<1> QED BY <1>4, <1>5, <1>6, <1>7, <1>8, <1>9, <1>10

\* Whether observers append while a request is served or artifacts come and go
\* between requests, with one thread and no crash or failed write: a detail
\* route shows what was in the artifact when the request came. A build that
\* meets an artifact archived meanwhile, or a manifest cut short, fails, and
\* the route with it.
THEOREM DetailsAreFound ==
  ASSUME NEW t, Threads = {t}, Hazards \cap {"crash", "write_error"} = {},
         ~({"live", "archive"} \subseteq Hazards)
  PROVE  Spec => []ExistingDetailIsFound
<1> DEFINE Inv == IInv /\ Intact(t) /\ FoundInv(t)
<1>1. Init => Inv
  BY InitIInv, InitIntact
<1>2. Inv /\ [Next]_vars => Inv'
  <2> SUFFICES ASSUME Inv, [Next]_vars PROVE Inv'
    OBVIOUS
  <2>1. IInv' /\ Intact(t)'
    BY StepIInv, StepIntact
  <2>2. CASE UNCHANGED vars
    <3>1. UNCHANGED <<lines, present, pc, asked, snap, caps, answer, due>>
      BY <2>2 DEF vars
    <3>2. Visible' = Visible
      BY <3>1 DEF Visible
    <3>3. FoundInv(t)'
      BY <3>1, <3>2 DEF FoundInv, Held
    <3> QED BY <2>1, <3>3
  <2>3. ASSUME NEW s \in Sources, AppendLine(s) \/ Archive(s) \/ Unarchive(s)
        PROVE  FoundInv(t)'
    BY <2>3, WorldKeepsFound
  <2>4. ASSUME NEW r \in Requests, Request(t, r) PROVE FoundInv(t)'
    BY <2>4, ServingKeepsFound
  <2>5. ASSUME Serve(t) PROVE FoundInv(t)'
    BY <2>5, ServingKeepsFound, BuildingKeepsFound DEF Serve
  <2> QED BY <2>1, <2>2, <2>3, <2>4, <2>5, OneAtATime
<1>3. Inv => ExistingDetailIsFound
  BY DEF ExistingDetailIsFound, FoundInv
<1> QED BY <1>1, <1>2, <1>3, PTL DEF Spec
=============================================================================
