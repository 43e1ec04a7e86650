------------------------- MODULE ConsoleFilesProofs -------------------------
(***************************************************************************)
(* Theorems about what a console does with files, for any number of        *)
(* processes, artifacts and lines, and however often a process starts.     *)
(***************************************************************************)
EXTENDS ConsoleFiles, SequenceTheorems, FiniteSetTheorems, FunctionTheorems,
        WellFoundedInduction, TLAPS

-----------------------------------------------------------------------------
(* The import of an old workspace.                                         *)

Copies(h, f) == pc[h] = "copy" /\ copied[h] = {f}

ImportTypes ==
  /\ legacy \in [LegacyFiles -> Nat] /\ least \in [LegacyFiles -> Nat]
  /\ data \in [LegacyFiles -> SUBSET Nat]
  /\ present \subseteq LegacyFiles
  /\ pc \in [Hosts -> {"off", "import", "open", "copy", "running", "crashed"}]
  /\ copied \in [Hosts -> SUBSET LegacyFiles]
  /\ pos \in [Hosts -> Nat]

\* Every copy is of lines of the workspace.
CopiesAreWithin(f) ==
  \A h \in Hosts : Copies(h, f) =>
    f \in present /\ data[f] \subseteq 1..legacy[f] /\ pos[h] <= legacy[f]

\* Some copy has, from the first line on, all that it will not write any more.
SomeCopyIsGood(f) ==
  /\ data[f] \subseteq 1..legacy[f]
  /\ \E h \in Hosts : Copies(h, f) /\ 1..pos[h] \subseteq data[f]

\* The artifact has no gap, and no copy writes behind its end.
NoGap(f) ==
  \E n \in least[f]..legacy[f] :
    data[f] = 1..n /\ \A h \in Hosts : Copies(h, f) => pos[h] <= n

CopiedOrWhole(f) == f \in present \ cut /\ data[f] # {0} => SomeCopyIsGood(f) \/ NoGap(f)

ImportOf(f) == least[f] <= legacy[f] /\ CopiesAreWithin(f) /\ CopiedOrWhole(f)
ImportInv == ImportTypes /\ \A f \in LegacyFiles : ImportOf(f)

LEMMA ImportStarts == I!Init => ImportInv
<1> SUFFICES ASSUME I!Init PROVE ImportInv
  OBVIOUS
<1>1. ImportTypes
  BY DEF I!Init, I!Own, ImportTypes
<1>2. \A f \in LegacyFiles : ImportOf(f)
  BY <1>1 DEF I!Init, I!Own, ImportTypes, ImportOf, CopiesAreWithin, CopiedOrWhole, Copies
<1> QED BY <1>1, <1>2 DEF ImportInv

LEMMA ImportKeepsTypes ==
  ASSUME ImportInv, [I!Next]_(I!vars)
  PROVE  ImportTypes'
<1> USE DEF ImportInv, ImportTypes
<1>1. CASE UNCHANGED I!vars
  BY <1>1 DEF I!vars
<1>2. ASSUME NEW f \in LegacyFiles, I!Record(f) PROVE ImportTypes'
  BY <1>2 DEF I!Record, I!store
<1>3. ASSUME NEW h \in Hosts, I!Start(h) PROVE ImportTypes'
  BY <1>3 DEF I!Start, I!store
<1>4. ASSUME NEW h \in Hosts, I!ImportEnds(h) \/ I!Fail(h) \/ I!Crash(h) PROVE ImportTypes'
  BY <1>4 DEF I!ImportEnds, I!Fail, I!Crash, I!Leave, I!store
<1>5. ASSUME NEW h \in Hosts, NEW f \in LegacyFiles,
             I!Look(h, f) \/ I!Open(h, f) \/ I!CopyLine(h, f) \/ I!CopyEnds(h, f)
      PROVE  ImportTypes'
  <2>1. CASE I!Look(h, f)
    BY <2>1 DEF I!Look, I!store
  <2>2. CASE I!Open(h, f)
    BY <2>2 DEF I!Open
  <2>3. CASE I!CopyLine(h, f)
    BY <2>3 DEF I!CopyLine
  <2>4. CASE I!CopyEnds(h, f)
    BY <2>4 DEF I!CopyEnds, I!store
  <2> QED BY <1>5, <2>1, <2>2, <2>3, <2>4
<1> QED BY <1>1, <1>2, <1>3, <1>4, <1>5 DEF I!Next, I!Import

\* Nothing changes for an artifact that is not written while no copy of it begins
\* or goes on and none ends.
LEMMA ImportOfUntouched ==
  ASSUME ImportInv, NEW f \in LegacyFiles,
         UNCHANGED <<legacy[f], data[f], least[f]>>,
         (f \in present)' <=> f \in present, f \in cut => (f \in cut)',
         \A h \in Hosts : /\ Copies(h, f)' => Copies(h, f) /\ pos'[h] = pos[h]
                          /\ Copies(h, f) => Copies(h, f)' \/ (f \in cut)'
  PROVE  ImportOf(f)'
<1>1. least'[f] <= legacy'[f]
  BY DEF ImportInv, ImportOf
<1>2. CopiesAreWithin(f)'
  BY DEF ImportInv, ImportOf, CopiesAreWithin
<1>3. ASSUME f \in present' \ cut', data'[f] # {0} PROVE (SomeCopyIsGood(f) \/ NoGap(f))'
  <2>1. SomeCopyIsGood(f) \/ NoGap(f)
    BY <1>3 DEF ImportInv, ImportOf, CopiedOrWhole
  <2>2. SomeCopyIsGood(f) => SomeCopyIsGood(f)'
    BY <1>3 DEF SomeCopyIsGood
  <2>3. NoGap(f) => NoGap(f)'
    BY DEF NoGap
  <2> QED BY <2>1, <2>2, <2>3
<1> QED BY <1>1, <1>2, <1>3 DEF ImportOf, CopiedOrWhole

LEMMA RecordKeepsImport ==
  ASSUME ImportInv, NEW g \in LegacyFiles, I!Record(g), NEW f \in LegacyFiles
  PROVE  ImportOf(f)'
<1> USE DEF ImportInv, ImportTypes
<1>1. /\ legacy[f] \in Nat /\ least[f] \in Nat /\ legacy'[f] \in Nat /\ legacy[f] <= legacy'[f]
      /\ UNCHANGED <<data, least, present, cut, pc, copied, pos>>
  BY DEF I!Record, I!store
<1>2. 1..legacy[f] \subseteq 1..legacy'[f] /\ least[f]..legacy[f] \subseteq least[f]..legacy'[f]
  BY <1>1
<1>3. least'[f] <= legacy'[f]
  BY <1>1 DEF ImportOf
<1>4. CopiesAreWithin(f)'
  <2> SUFFICES ASSUME NEW h \in Hosts, Copies(h, f)'
               PROVE  f \in present' /\ data'[f] \subseteq 1..legacy'[f] /\ pos'[h] <= legacy'[f]
    BY DEF CopiesAreWithin
  <2>1. Copies(h, f) /\ pos[h] \in Nat
    BY <1>1 DEF Copies
  <2> QED BY <1>1, <1>2, <2>1 DEF ImportOf, CopiesAreWithin
<1>5. CopiedOrWhole(f)'
  <2>1. SomeCopyIsGood(f) => SomeCopyIsGood(f)'
    BY <1>1, <1>2 DEF SomeCopyIsGood, Copies
  <2>2. NoGap(f) => NoGap(f)'
    BY <1>1, <1>2 DEF NoGap, Copies
  <2> QED BY <1>1, <2>1, <2>2 DEF ImportOf, CopiedOrWhole
<1> QED BY <1>3, <1>4, <1>5 DEF ImportOf

\* The copy that opens the artifact last is good, since it starts from nothing.
LEMMA OpenKeepsImport ==
  ASSUME ImportInv, NEW h \in Hosts, NEW g \in LegacyFiles, I!Open(h, g), NEW f \in LegacyFiles
  PROVE  ImportOf(f)'
<1> USE DEF ImportInv, ImportTypes
<1>1. /\ pc[h] = "open" /\ copied[h] = {g} /\ present' = present \cup {g}
      /\ data' = [data EXCEPT ![g] = {}]
      /\ least' = [least EXCEPT ![g] = IF g \in present THEN @ ELSE legacy[g]]
      /\ pc' = [pc EXCEPT ![h] = "copy"] /\ pos' = [pos EXCEPT ![h] = 0]
      /\ UNCHANGED <<legacy, copied, cut>>
  BY DEF I!Open
<1>2. \A k \in Hosts \ {h} : pc'[k] = pc[k] /\ pos'[k] = pos[k]
  BY <1>1
<1>3. pc'[h] = "copy" /\ pos'[h] = 0
  BY <1>1
<1>4. CASE f # g
  <2>1. UNCHANGED <<legacy[f], data[f], least[f]>> /\ ((f \in present)' <=> f \in present)
    BY <1>1, <1>4
  <2>2. \A k \in Hosts : /\ Copies(k, f)' => Copies(k, f) /\ pos'[k] = pos[k]
                         /\ Copies(k, f) => Copies(k, f)'
    BY <1>1, <1>2, <1>3, <1>4 DEF Copies
  <2> QED BY <1>1, <2>1, <2>2, ImportOfUntouched
<1>5. CASE f = g
  <2>1. /\ data'[f] = {} /\ f \in present' /\ legacy'[f] = legacy[f] /\ legacy[f] \in Nat
        /\ least'[f] \in {least[f], legacy[f]}
    BY <1>1, <1>5
  <2>2. least'[f] <= legacy'[f]
    BY <2>1 DEF ImportOf
  <2>3. CopiesAreWithin(f)'
    BY <1>1, <1>2, <1>3, <2>1 DEF ImportOf, CopiesAreWithin, Copies
  <2>4. SomeCopyIsGood(f)'
    <3>1. Copies(h, f)' /\ 1..pos'[h] = {}
      BY <1>1, <1>3, <1>5 DEF Copies
    <3> QED BY <2>1, <3>1 DEF SomeCopyIsGood
  <2> QED BY <2>2, <2>3, <2>4 DEF ImportOf, CopiedOrWhole
<1> QED BY <1>4, <1>5

\* A line that is copied is the next one of its copy, so that it closes the
\* artifact to behind it or is there already.
LEMMA CopyLineKeepsImport ==
  ASSUME ImportInv, NEW h \in Hosts, NEW g \in LegacyFiles, I!CopyLine(h, g), NEW f \in LegacyFiles
  PROVE  ImportOf(f)'
<1> USE DEF ImportInv, ImportTypes
<1>1. /\ pc[h] = "copy" /\ copied[h] = {g} /\ pos[h] < legacy[g] /\ pos[h] \in Nat
      /\ data' = [data EXCEPT ![g] = @ \cup {pos[h] + 1}]
      /\ pos' = [pos EXCEPT ![h] = @ + 1]
      /\ UNCHANGED <<legacy, present, pc, copied, cut, least>>
  BY DEF I!CopyLine
<1>2. pos'[h] = pos[h] + 1 /\ \A k \in Hosts \ {h} : pos'[k] = pos[k]
  BY <1>1
<1>3. \A k \in Hosts : Copies(k, f)' <=> Copies(k, f)
  BY <1>1 DEF Copies
<1>4. CASE f # g
  <2>1. UNCHANGED data[f] /\ ~Copies(h, f)
    BY <1>1, <1>4 DEF Copies
  <2> QED BY <1>1, <1>2, <1>3, <2>1, ImportOfUntouched
<1>5. CASE f = g
  <2>1. /\ Copies(h, f) /\ data'[f] = data[f] \cup {pos[h] + 1}
        /\ legacy[f] \in Nat /\ least[f] \in Nat /\ pos[h] + 1 \in 1..legacy[f]
    BY <1>1, <1>5 DEF Copies
  <2>2. f \in present /\ data[f] \subseteq 1..legacy[f] /\ 0 \notin data[f]
    BY <2>1 DEF ImportOf, CopiesAreWithin
  <2>3. least'[f] <= legacy'[f]
    BY <1>1 DEF ImportOf
  <2>4. data'[f] \subseteq 1..legacy'[f]
    BY <1>1, <2>1, <2>2
  <2>5. CopiesAreWithin(f)'
    <3> SUFFICES ASSUME NEW k \in Hosts, Copies(k, f)' PROVE pos'[k] <= legacy'[f]
      BY <1>1, <2>2, <2>4 DEF CopiesAreWithin
    <3>1. Copies(k, f) /\ pos[k] <= legacy[f]
      BY <1>3 DEF ImportOf, CopiesAreWithin
    <3> QED BY <1>1, <1>2, <1>5, <3>1
  <2>6. ASSUME SomeCopyIsGood(f) PROVE SomeCopyIsGood(f)'
    <3>1. PICK k \in Hosts : Copies(k, f) /\ 1..pos[k] \subseteq data[f]
      BY <2>6 DEF SomeCopyIsGood
    <3>2. 1..pos'[k] \subseteq data'[f]
      <4>1. CASE k = h
        <5>1. 1..(pos[h] + 1) = 1..pos[h] \cup {pos[h] + 1}
          BY <1>1
        <5> QED BY <1>2, <2>1, <3>1, <4>1, <5>1
      <4>2. CASE k # h
        BY <1>2, <2>1, <3>1, <4>2
      <4> QED BY <4>1, <4>2
    <3> QED BY <1>3, <2>4, <3>1, <3>2 DEF SomeCopyIsGood
  <2>7. ASSUME NoGap(f) PROVE NoGap(f)'
    <3>1. PICK n \in least[f]..legacy[f] :
            data[f] = 1..n /\ \A k \in Hosts : Copies(k, f) => pos[k] <= n
      BY <2>7 DEF NoGap
    <3>2. n \in Nat /\ pos[h] <= n /\ \A k \in Hosts : pos[k] \in Nat
      BY <2>1, <3>1
    <3>3. CASE pos[h] < n
      <4>1. data'[f] = 1..n
        <5>1. pos[h] + 1 \in 1..n
          BY <3>2, <3>3
        <5> QED BY <2>1, <3>1, <5>1
      <4>2. \A k \in Hosts : Copies(k, f)' => pos'[k] <= n
        BY <1>1, <1>2, <1>3, <3>1, <3>2, <3>3
      <4> QED BY <1>1, <3>1, <4>1, <4>2 DEF NoGap
    <3>4. CASE pos[h] = n
      <4>1. n + 1 \in least'[f]..legacy'[f]
        BY <1>1, <1>5, <2>1, <3>1, <3>2, <3>4
      <4>2. data'[f] = 1..(n + 1)
        <5>1. 1..(n + 1) = 1..n \cup {n + 1}
          BY <3>2
        <5> QED BY <2>1, <3>1, <3>4, <5>1
      <4>3. \A k \in Hosts : Copies(k, f)' => pos'[k] <= n + 1
        BY <1>1, <1>2, <1>3, <3>1, <3>2, <3>4
      <4> QED BY <4>1, <4>2, <4>3 DEF NoGap
    <3>5. pos[h] < n \/ pos[h] = n
      BY <1>1, <3>2
    <3> QED BY <3>3, <3>4, <3>5
  <2>8. CopiedOrWhole(f)'
    <3> SUFFICES ASSUME f \notin cut PROVE (SomeCopyIsGood(f) \/ NoGap(f))'
      BY <1>1 DEF CopiedOrWhole
    <3>1. SomeCopyIsGood(f) \/ NoGap(f)
      BY <2>2 DEF ImportOf, CopiedOrWhole
    <3> QED BY <2>6, <2>7, <3>1
  <2> QED BY <2>3, <2>5, <2>8 DEF ImportOf
<1> QED BY <1>4, <1>5

\* A good copy that ends has copied everything there is, and no other can be
\* further than that.
LEMMA CopyEndsKeepsImport ==
  ASSUME ImportInv, NEW h \in Hosts, NEW g \in LegacyFiles, I!CopyEnds(h, g), NEW f \in LegacyFiles
  PROVE  ImportOf(f)'
<1> USE DEF ImportInv, ImportTypes
<1>1. /\ pc[h] = "copy" /\ copied[h] = {g} /\ pos[h] = legacy[g]
      /\ pc' = [pc EXCEPT ![h] = "import"]
      /\ copied' = [copied EXCEPT ![h] = {}] /\ pos' = [pos EXCEPT ![h] = 0]
      /\ UNCHANGED <<legacy, present, data, cut, least>>
  BY DEF I!CopyEnds, I!AtEnd, I!store
<1>2. \A k \in Hosts \ {h} : UNCHANGED <<pc[k], copied[k], pos[k]>>
  BY <1>1
<1>3. ~Copies(h, f)' /\ \A k \in Hosts \ {h} : Copies(k, f)' <=> Copies(k, f)
  BY <1>1, <1>2 DEF Copies
<1>4. CASE f # g
  <2>1. ~Copies(h, f)
    BY <1>1, <1>4 DEF Copies
  <2> QED BY <1>1, <1>2, <1>3, <2>1, ImportOfUntouched
<1>5. CASE f = g
  <2>1. Copies(h, f) /\ legacy[f] \in Nat /\ least[f] \in Nat /\ least[f] <= legacy[f]
    BY <1>1, <1>5 DEF Copies, ImportOf
  <2>2. CopiesAreWithin(f)'
    BY <1>1, <1>2, <1>3 DEF ImportOf, CopiesAreWithin
  <2>3. ASSUME SomeCopyIsGood(f) PROVE (SomeCopyIsGood(f) \/ NoGap(f))'
    <3>1. PICK k \in Hosts : Copies(k, f) /\ 1..pos[k] \subseteq data[f]
      BY <2>3 DEF SomeCopyIsGood
    <3>2. CASE k # h
      BY <1>1, <1>2, <1>3, <2>3, <3>1, <3>2 DEF SomeCopyIsGood
    <3>3. CASE k = h
      <4>1. data[f] = 1..legacy[f]
        BY <1>1, <1>5, <2>3, <3>1, <3>3 DEF SomeCopyIsGood
      <4>2. \A j \in Hosts : Copies(j, f)' => pos'[j] <= legacy'[f]
        BY <2>2 DEF CopiesAreWithin
      <4>3. legacy'[f] \in least'[f]..legacy'[f] /\ data'[f] = 1..legacy'[f]
        BY <1>1, <2>1, <4>1
      <4> QED BY <4>2, <4>3 DEF NoGap
    <3> QED BY <3>2, <3>3
  <2>4. NoGap(f) => NoGap(f)'
    BY <1>1, <1>2, <1>3 DEF NoGap
  <2>5. CopiedOrWhole(f)'
    BY <1>1, <2>3, <2>4 DEF ImportOf, CopiedOrWhole
  <2> QED BY <1>1, <2>1, <2>2, <2>5 DEF ImportOf
<1> QED BY <1>4, <1>5

LEMMA LeaveKeepsImport ==
  ASSUME ImportInv, NEW h \in Hosts, I!ImportEnds(h) \/ I!Fail(h) \/ I!Crash(h),
         NEW f \in LegacyFiles
  PROVE  ImportOf(f)'
<1> USE DEF ImportInv, ImportTypes
<1>1. PICK p \in {"running", "crashed"} : I!Leave(h, p)
  BY DEF I!ImportEnds, I!Fail, I!Crash
<1>2. /\ pc' = [pc EXCEPT ![h] = p] /\ copied' = [copied EXCEPT ![h] = {}]
      /\ pos' = [pos EXCEPT ![h] = 0]
      /\ cut' = IF pc[h] = "copy" THEN cut \cup copied[h] ELSE cut
      /\ UNCHANGED <<legacy, present, data, least>>
  BY <1>1 DEF I!Leave, I!CutByStop, I!store
<1>3. \A k \in Hosts \ {h} : UNCHANGED <<pc[k], copied[k], pos[k]>>
  BY <1>2
<1>4. /\ ~Copies(h, f)' /\ (Copies(h, f) => f \in cut')
      /\ \A k \in Hosts \ {h} : Copies(k, f)' <=> Copies(k, f)
  BY <1>2, <1>3 DEF Copies
<1> QED BY <1>2, <1>3, <1>4, ImportOfUntouched

LEMMA ImportStep ==
  ASSUME ImportInv, [I!Next]_(I!vars)
  PROVE  ImportInv'
<1> SUFFICES ASSUME NEW f \in LegacyFiles PROVE ImportOf(f)'
  BY ImportKeepsTypes DEF ImportInv
<1>1. CASE UNCHANGED I!vars
  BY <1>1, ImportOfUntouched DEF I!vars, Copies
<1>2. ASSUME NEW h \in Hosts, I!Start(h) PROVE ImportOf(f)'
  <2>1. /\ UNCHANGED <<legacy, data, least, present, cut, copied, pos>>
        /\ pc[h] \in {"off", "crashed"} /\ pc'[h] \in {"import", "off"}
        /\ \A k \in Hosts \ {h} : pc'[k] = pc[k]
    BY <1>2 DEF I!Start, I!store, ImportInv, ImportTypes
  <2> QED BY <2>1, ImportOfUntouched DEF Copies
<1>3. ASSUME NEW h \in Hosts, NEW g \in LegacyFiles, I!Look(h, g) PROVE ImportOf(f)'
  <2>1. /\ UNCHANGED <<legacy, data, least, present, cut, pos>>
        /\ pc[h] = "import" /\ pc'[h] \in {"import", "open"}
        /\ \A k \in Hosts \ {h} : UNCHANGED <<pc[k], copied[k]>>
    BY <1>3 DEF I!Look, I!store, ImportInv, ImportTypes
  <2> QED BY <2>1, ImportOfUntouched DEF Copies
<1> QED
  BY <1>1, <1>2, <1>3, RecordKeepsImport, OpenKeepsImport, CopyLineKeepsImport,
     CopyEndsKeepsImport, LeaveKeepsImport DEF I!Next, I!Import

\* However many processes start, copy at once, fail and die, and however many
\* artifacts and lines there are: once all copies of an artifact have ended, and
\* none was given up, it holds the lines of the workspace from the first on
\* (copy_missing_files_recursively).
THEOREM EndedCopies == FilesSpec => []EndedCopiesAreWhole
<1>1. FilesInit => ImportInv
  BY ImportStarts DEF FilesInit
<1>2. ImportInv /\ [FilesNext]_filesVars => ImportInv'
  <2>1. [FilesNext]_filesVars => [I!Next]_(I!vars)
    BY DEF FilesNext, filesVars, importVars, I!vars
  <2> QED BY <2>1, ImportStep
<1>3. ImportInv => EndedCopiesAreWhole
  <2> SUFFICES ASSUME ImportInv, NEW f \in present \ cut, data[f] # {0},
                      \A h \in Hosts : ~I!Copying(h, f)
               PROVE  \E n \in least[f]..legacy[f] : data[f] = 1..n
    BY DEF EndedCopiesAreWhole, I!EndedCopiesAreWhole, I!Own
  <2>1. SomeCopyIsGood(f) \/ NoGap(f)
    BY DEF ImportInv, ImportTypes, ImportOf, CopiedOrWhole
  <2>2. ~SomeCopyIsGood(f)
    BY DEF SomeCopyIsGood, Copies, I!Copying
  <2> QED BY <2>1, <2>2 DEF NoGap
<1> QED BY <1>1, <1>2, <1>3, PTL DEF FilesSpec

-----------------------------------------------------------------------------
(* Files only grow, and a line that is whole stays as it is.               *)

FileLines ==
  [kind : {"head", "message", "tool", "reasoning", "skill", "damaged"}, whole : BOOLEAN]

FilesOK ==
  /\ file \in [R!Sources -> Seq(FileLines)]
  /\ place \in [R!Sources -> {"none", "sessions", "archived"}]
  /\ \A s \in R!Sources : place[s] = "none" => file[s] = <<>>

WholeLinesStay(s) ==
  \A m \in R!Parsed(s) : m \in DOMAIN file'[s] /\ file'[s][m] = file[s][m]

LEMMA LineIsOne ==
  ASSUME NEW kind \in {"head", "message", "tool", "reasoning", "skill", "damaged"},
         NEW whole \in BOOLEAN
  PROVE  R!Line(kind, whole) \in FileLines
BY DEF R!Line, FileLines

LEMMA FilesStep ==
  ASSUME FilesOK, [R!Next]_(R!vars)
  PROVE  FilesOK' /\ \A s \in R!Sources : WholeLinesStay(s)
<1> USE DEF FilesOK
<1>1. ASSUME UNCHANGED file, UNCHANGED place
      PROVE  FilesOK' /\ \A s \in R!Sources : WholeLinesStay(s)
  BY <1>1 DEF WholeLinesStay, R!Parsed
<1>2. ASSUME NEW s \in R!Sources, R!Begin(s)
      PROVE  FilesOK' /\ \A t \in R!Sources : WholeLinesStay(t)
  <2>1. /\ file[s] = <<>> /\ place' = [place EXCEPT ![s] = "sessions"]
    BY <1>2 DEF R!Begin
  <2>2. PICK line \in FileLines : file' = [file EXCEPT ![s] = <<line>>]
    <3>1. PICK whole \in BOOLEAN : file' = [file EXCEPT ![s] = <<R!Line("head", whole)>>]
      BY <1>2 DEF R!Begin
    <3>2. PICK one \in FileLines : one = R!Line("head", whole)
      BY LineIsOne
    <3> QED BY <3>1, <3>2
  <2>3. \A t \in R!Sources : WholeLinesStay(t)
    BY <2>1, <2>2 DEF WholeLinesStay, R!Parsed
  <2> QED BY <2>1, <2>2, <2>3
<1>3. ASSUME NEW s \in R!Sources, R!Write(s)
      PROVE  FilesOK' /\ \A t \in R!Sources : WholeLinesStay(t)
  <2>1. PICK line \in FileLines : file' = [file EXCEPT ![s] = Append(@, line)]
    BY <1>3, LineIsOne DEF R!Write, R!KindsOf
  <2>2. place[s] = "sessions" /\ UNCHANGED place
    BY <1>3 DEF R!Write
  <2>3. PICK q \in Seq(FileLines) : q = file[s]
    OBVIOUS
  <2>4. /\ Append(q, line) \in Seq(FileLines)
        /\ \A m \in DOMAIN q : m \in DOMAIN Append(q, line) /\ Append(q, line)[m] = q[m]
    BY AppendProperties
  <2>5. file'[s] = Append(q, line) /\ \A t \in R!Sources \ {s} : file'[t] = file[t]
    BY <2>1, <2>3
  <2>6. FilesOK'
    BY <2>1, <2>2, <2>3, <2>4, <2>5
  <2>7. ASSUME NEW t \in R!Sources PROVE WholeLinesStay(t)
    BY <2>3, <2>4, <2>5 DEF WholeLinesStay, R!Parsed
  <2> QED BY <2>6, <2>7
<1>4. ASSUME NEW s \in R!Sources, R!WriteOn(s)
      PROVE  FilesOK' /\ \A t \in R!Sources : WholeLinesStay(t)
  <2>1. PICK q \in Seq(FileLines) : q = file[s]
    OBVIOUS
  <2>2. q # <<>> /\ ~q[Len(q)].whole /\ place[s] = "sessions" /\ UNCHANGED place
    BY <1>4, <2>1 DEF R!WriteOn, R!Torn, R!Last
  <2>3. Len(q) \in DOMAIN q /\ q[Len(q)] \in FileLines
    BY <2>2
  <2>4. PICK line \in FileLines : file' = [file EXCEPT ![s][Len(file[s])] = line]
    <3>1. q[Len(q)].kind \in {"head", "message", "tool", "reasoning", "skill", "damaged"}
      BY <2>3 DEF FileLines
    <3> QED BY <1>4, <2>1, <3>1, LineIsOne DEF R!WriteOn, R!Last
  <2>5. /\ file'[s] = [q EXCEPT ![Len(q)] = line]
        /\ \A t \in R!Sources \ {s} : file'[t] = file[t]
    BY <2>1, <2>4
  <2>6. [q EXCEPT ![Len(q)] = line] \in Seq(FileLines)
    BY <2>3
  <2>7. FilesOK'
    BY <2>1, <2>2, <2>4, <2>5, <2>6
  <2>8. ASSUME NEW t \in R!Sources PROVE WholeLinesStay(t)
    <3>1. CASE t = s
      <4> SUFFICES ASSUME NEW m \in R!Parsed(s)
                   PROVE  m \in DOMAIN file'[s] /\ file'[s][m] = file[s][m]
        BY <3>1 DEF WholeLinesStay
      <4>1. m \in DOMAIN q /\ m # Len(q)
        BY <2>1, <2>2 DEF R!Parsed
      <4> QED BY <2>1, <2>5, <4>1
    <3>2. CASE t # s
      BY <2>5, <3>2 DEF WholeLinesStay, R!Parsed
    <3> QED BY <3>1, <3>2
  <2> QED BY <2>7, <2>8
<1>5. ASSUME NEW t \in Threads, R!Move(t)
      PROVE  FilesOK' /\ \A s \in R!Sources : WholeLinesStay(s)
  <2>1. /\ UNCHANGED file /\ t \in R!Sources /\ place[t] # "none"
        /\ place' \in {[place EXCEPT ![t] = "archived"], [place EXCEPT ![t] = "sessions"]}
    BY <1>5 DEF R!Move, R!Sources
  <2>2. FilesOK'
    BY <2>1
  <2> QED BY <2>1, <2>2 DEF WholeLinesStay, R!Parsed
<1>6. ASSUME \/ UNCHANGED R!vars
             \/ \E s \in R!Sources : R!OpenSession(s)
             \/ \E t \in Threads : R!Register(t) \/ R!Mark(t)
             \/ R!DbComesOrGoes \/ R!List
             \/ \E p \in page : R!OpenEvent(p.source, p.event.id)
      PROVE  UNCHANGED <<file, place>>
  BY <1>6 DEF R!vars, R!OpenSession, R!Register, R!Mark, R!DbComesOrGoes, R!List, R!OpenEvent
<1> QED BY <1>1, <1>2, <1>3, <1>4, <1>5, <1>6 DEF R!Next

-----------------------------------------------------------------------------
(* What the readers make of a file.                                        *)

\* The events that whole lines of a file can become.
EventsFrom(s) ==
  {[id |-> <<thread, m>>, line |-> m, kind |-> file[s][m].kind] :
     thread \in {s, "unknown"}, m \in R!Parsed(s)}

\* A set that holds zero and every successor holds all numbers.
LEMMA FromZeroOn ==
  ASSUME NEW S, 0 \in S, \A n \in Nat : n \in S => n + 1 \in S
  PROVE  Nat \subseteq S
<1> SUFFICES ASSUME NEW x \in Nat \ S PROVE FALSE
  OBVIOUS
<1>1. PICK m \in Nat \ S : \A j \in Nat \ S : <<j, m>> \notin OpToRel(<, Nat)
  <2>1. Nat \ S \subseteq Nat /\ Nat \ S # {}
    OBVIOUS
  <2> QED BY <2>1, NatLessThanWellFounded, WFMin, Zenon
<1>2. m # 0 /\ m - 1 \in Nat /\ m - 1 < m /\ (m - 1) + 1 = m
  OBVIOUS
<1>3. m - 1 \in S
  BY <1>1, <1>2 DEF OpToRel
<1> QED BY <1>2, <1>3

\* The two loops, line by line: f[n] is what they have after n lines.
RolloutAfter(f, s, N) ==
  f = [n \in 0 .. N |-> IF n = 0 THEN [thread |-> "unknown", events |-> <<>>]
                        ELSE R!RolloutLine(s, f[n - 1], n)]
ArtifactAfter(f, s, N) ==
  f = [n \in 0 .. N |-> IF n = 0 THEN <<>> ELSE R!ArtifactLine(s, f[n - 1], n)]

LEMMA RolloutReads ==
  ASSUME NEW s, NEW N \in Nat, N = Len(file[s])
  PROVE  \E f : RolloutAfter(f, s, N) /\ R!RolloutRead(s) = f[N]
<1> DEFINE S == {n \in Nat : \E f : RolloutAfter(f, s, n)}
<1>1. 0 \in S
  <2>1. RolloutAfter([n \in 0 .. 0 |-> [thread |-> "unknown", events |-> <<>>]], s, 0)
    BY DEF RolloutAfter
  <2> QED BY <2>1
<1>2. ASSUME NEW n \in Nat, n \in S PROVE n + 1 \in S
  <2>1. PICK f : RolloutAfter(f, s, n)
    BY <1>2
  <2> DEFINE g == [i \in 0 .. n + 1 |-> IF i = n + 1 THEN R!RolloutLine(s, f[n], n + 1) ELSE f[i]]
  <2>2. \A i \in 0 .. n : g[i] = f[i]
    OBVIOUS
  <2>3. g[n + 1] = R!RolloutLine(s, g[n], n + 1)
    BY <2>2
  <2>4. /\ f[0] = [thread |-> "unknown", events |-> <<>>]
        /\ \A i \in 1 .. n : f[i] = R!RolloutLine(s, f[i - 1], i)
    BY <2>1 DEF RolloutAfter
  <2>5. ASSUME NEW i \in 0 .. n + 1
        PROVE  g[i] = IF i = 0 THEN [thread |-> "unknown", events |-> <<>>]
                      ELSE R!RolloutLine(s, g[i - 1], i)
    <3>1. CASE i = 0
      BY <2>2, <2>4, <3>1
    <3>2. CASE i = n + 1
      BY <2>3, <3>2
    <3>3. CASE i \in 1 .. n
      <4>1. g[i] = f[i] /\ g[i - 1] = f[i - 1]
        BY <2>2, <3>3
      <4> QED BY <2>4, <3>3, <4>1
    <3> QED BY <3>1, <3>2, <3>3
  <2>6. RolloutAfter(g, s, n + 1)
    BY <2>5 DEF RolloutAfter
  <2> QED BY <2>6
<1> HIDE DEF S
<1>3. N \in S
  BY <1>1, <1>2, FromZeroOn
<1> DEFINE h == CHOOSE f : RolloutAfter(f, s, N)
<1>4. RolloutAfter(h, s, N)
  BY <1>3 DEF S
<1>5. R!RolloutRead(s) = h[N]
  BY DEF R!RolloutRead, RolloutAfter
<1> QED BY <1>4, <1>5

LEMMA ArtifactReads ==
  ASSUME NEW s, NEW N \in Nat, N = Len(file[s])
  PROVE  \E f : /\ ArtifactAfter(f, s, N)
                /\ R!ArtifactRead(s) = [thread |-> s, events |-> f[N]]
<1> DEFINE S == {n \in Nat : \E f : ArtifactAfter(f, s, n)}
<1>1. 0 \in S
  <2>1. ArtifactAfter([n \in 0 .. 0 |-> <<>>], s, 0)
    BY DEF ArtifactAfter
  <2> QED BY <2>1
<1>2. ASSUME NEW n \in Nat, n \in S PROVE n + 1 \in S
  <2>1. PICK f : ArtifactAfter(f, s, n)
    BY <1>2
  <2> DEFINE g == [i \in 0 .. n + 1 |-> IF i = n + 1 THEN R!ArtifactLine(s, f[n], n + 1) ELSE f[i]]
  <2>2. \A i \in 0 .. n : g[i] = f[i]
    OBVIOUS
  <2>3. g[n + 1] = R!ArtifactLine(s, g[n], n + 1)
    BY <2>2
  <2>4. f[0] = <<>> /\ \A i \in 1 .. n : f[i] = R!ArtifactLine(s, f[i - 1], i)
    BY <2>1 DEF ArtifactAfter
  <2>5. ASSUME NEW i \in 0 .. n + 1
        PROVE  g[i] = IF i = 0 THEN <<>> ELSE R!ArtifactLine(s, g[i - 1], i)
    <3>1. CASE i = 0
      BY <2>2, <2>4, <3>1
    <3>2. CASE i = n + 1
      BY <2>3, <3>2
    <3>3. CASE i \in 1 .. n
      <4>1. g[i] = f[i] /\ g[i - 1] = f[i - 1]
        BY <2>2, <3>3
      <4> QED BY <2>4, <3>3, <4>1
    <3> QED BY <3>1, <3>2, <3>3
  <2>6. ArtifactAfter(g, s, n + 1)
    BY <2>5 DEF ArtifactAfter
  <2> QED BY <2>6
<1> HIDE DEF S
<1>3. N \in S
  BY <1>1, <1>2, FromZeroOn
<1> DEFINE h == CHOOSE f : ArtifactAfter(f, s, N)
<1>4. ArtifactAfter(h, s, N)
  BY <1>3 DEF S
<1>5. R!ArtifactRead(s) = [thread |-> s, events |-> h[N]]
  BY DEF R!ArtifactRead, ArtifactAfter
<1> QED BY <1>4, <1>5

\* What is read so far of a rollout.
ReadSoFar(s) == [thread : {s, "unknown"}, events : Seq(EventsFrom(s))]

\* Whether a line changes what is read so far or not, the events stay events of
\* whole lines.
LEMMA LineGivesEvents ==
  ASSUME NEW s, NEW n
  PROVE  /\ \A q \in Seq(EventsFrom(s)) : R!ArtifactLine(s, q, n) \in Seq(EventsFrom(s))
         /\ \A acc \in ReadSoFar(s) : R!RolloutLine(s, acc, n) \in ReadSoFar(s)
<1>1. ASSUME NEW q \in Seq(EventsFrom(s)), NEW thread \in {s, "unknown"}, n \in R!Parsed(s)
      PROVE  /\ Append(q, R!EventOf(s, thread, n, q)) \in Seq(EventsFrom(s))
             /\ R!Slide(Append(q, R!EventOf(s, thread, n, q))) \in Seq(EventsFrom(s))
  <2> DEFINE e == R!EventOf(s, thread, n, q)
             a == Append(q, e)
  <2>1. e \in EventsFrom(s)
    BY <1>1 DEF R!EventOf, EventsFrom
  <2> HIDE DEF e
  <2>2. a \in Seq(EventsFrom(s)) /\ a # <<>>
    BY <2>1, AppendProperties
  <2>3. Tail(a) \in Seq(EventsFrom(s))
    BY <2>2
  <2> HIDE DEF a
  <2>4. R!Slide(a) \in {a, Tail(a)}
    BY DEF R!Slide
  <2> QED BY <2>2, <2>3, <2>4 DEF a, e
<1>2. ASSUME NEW q \in Seq(EventsFrom(s)) PROVE R!ArtifactLine(s, q, n) \in Seq(EventsFrom(s))
  BY <1>1 DEF R!ArtifactLine
<1>3. ASSUME NEW acc \in ReadSoFar(s) PROVE R!RolloutLine(s, acc, n) \in ReadSoFar(s)
  <2>1. acc.thread \in {s, "unknown"} /\ acc.events \in Seq(EventsFrom(s))
    BY DEF ReadSoFar
  <2>2. [acc EXCEPT !.thread = s] \in ReadSoFar(s)
    BY DEF ReadSoFar
  <2> DEFINE later == R!Slide(Append(acc.events, R!EventOf(s, acc.thread, n, acc.events)))
  <2>3. n \in R!Parsed(s) => later \in Seq(EventsFrom(s))
    BY <1>1, <2>1
  <2>4. R!RolloutLine(s, acc, n) \in
          {acc, [acc EXCEPT !.thread = s]}
            \cup IF n \in R!Parsed(s) THEN {[acc EXCEPT !.events = later]} ELSE {}
    BY DEF R!RolloutLine
  <2> HIDE DEF later
  <2>5. n \in R!Parsed(s) => [acc EXCEPT !.events = later] \in ReadSoFar(s)
    BY <2>3 DEF ReadSoFar
  <2> QED BY <2>2, <2>4, <2>5
<1> QED BY <1>2, <1>3

\* What is read of a file are events of its whole lines.
LEMMA EventsAreOfLines ==
  ASSUME FilesOK, NEW s \in R!Sources
  PROVE  R!EventsIn(R!Session(s)) \subseteq EventsFrom(s)
<1> DEFINE N == Len(file[s])
<1>1. N \in Nat
  BY DEF FilesOK
<1> HIDE DEF N
<1>2. R!RolloutRead(s) \in ReadSoFar(s)
  <2>1. PICK f : RolloutAfter(f, s, N) /\ R!RolloutRead(s) = f[N]
    BY <1>1, RolloutReads DEF N
  <2>2. /\ f[0] = [thread |-> "unknown", events |-> <<>>]
        /\ \A n \in 1 .. N : f[n] = R!RolloutLine(s, f[n - 1], n)
    BY <1>1, <2>1 DEF RolloutAfter
  <2> DEFINE S == {n \in Nat : n <= N => f[n] \in ReadSoFar(s)}
  <2>3. 0 \in S
    <3>1. <<>> \in Seq(EventsFrom(s))
      OBVIOUS
    <3>2. f[0] \in ReadSoFar(s)
      BY <2>2, <3>1 DEF ReadSoFar
    <3> QED BY <3>2
  <2>4. ASSUME NEW n \in Nat, n \in S PROVE n + 1 \in S
    <3>1. n + 1 <= N => n <= N /\ n + 1 \in 1 .. N /\ (n + 1) - 1 = n
      BY <1>1
    <3>2. n + 1 <= N => f[n] \in ReadSoFar(s)
      BY <2>4, <3>1
    <3>3. f[n] \in ReadSoFar(s) => R!RolloutLine(s, f[n], n + 1) \in ReadSoFar(s)
      BY LineGivesEvents
    <3>4. n + 1 <= N => f[n + 1] = R!RolloutLine(s, f[n], n + 1)
      BY <2>2, <3>1
    <3> QED BY <3>2, <3>3, <3>4
  <2> HIDE DEF S
  <2>5. N \in S
    BY <1>1, <2>3, <2>4, FromZeroOn
  <2> QED BY <1>1, <2>1, <2>5 DEF S
<1>3. \E q \in Seq(EventsFrom(s)) : R!ArtifactRead(s) = [thread |-> s, events |-> q]
  <2>1. PICK f : ArtifactAfter(f, s, N) /\ R!ArtifactRead(s) = [thread |-> s, events |-> f[N]]
    BY <1>1, ArtifactReads DEF N
  <2>2. f[0] = <<>> /\ \A n \in 1 .. N : f[n] = R!ArtifactLine(s, f[n - 1], n)
    BY <1>1, <2>1 DEF ArtifactAfter
  <2> DEFINE S == {n \in Nat : n <= N => f[n] \in Seq(EventsFrom(s))}
  <2>3. 0 \in S
    <3>1. <<>> \in Seq(EventsFrom(s))
      OBVIOUS
    <3> QED BY <2>2, <3>1
  <2>4. ASSUME NEW n \in Nat, n \in S PROVE n + 1 \in S
    <3>1. n + 1 <= N => n <= N /\ n + 1 \in 1 .. N /\ (n + 1) - 1 = n
      BY <1>1
    <3>2. n + 1 <= N => f[n] \in Seq(EventsFrom(s))
      BY <2>4, <3>1
    <3>3. f[n] \in Seq(EventsFrom(s)) => R!ArtifactLine(s, f[n], n + 1) \in Seq(EventsFrom(s))
      BY LineGivesEvents
    <3>4. n + 1 <= N => f[n + 1] = R!ArtifactLine(s, f[n], n + 1)
      BY <2>2, <3>1
    <3> QED BY <3>2, <3>3, <3>4
  <2> HIDE DEF S
  <2>5. N \in S
    BY <1>1, <2>3, <2>4, FromZeroOn
  <2> QED BY <1>1, <2>1, <2>5 DEF S
<1>4. R!ReadAnew(s).events \in Seq(EventsFrom(s))
  BY <1>2, <1>3 DEF R!ReadAnew, ReadSoFar
<1>5. PICK q \in Seq(EventsFrom(s)) : q = R!ReadAnew(s).events
  BY <1>4
<1>6. R!EventsIn(R!Session(s)) \subseteq R!ToSet(q)
  BY <1>5 DEF R!Session, R!SessionFrom, R!EventsIn, R!Found, R!None
<1>7. R!ToSet(q) \subseteq EventsFrom(s)
  BY DEF R!ToSet
<1> QED BY <1>6, <1>7

\* Whatever is written, cut off, damaged or moved, for any number of sources and
\* lines and any window: an id that stands for an event does not come to stand for
\* another (normalize_codex_rollout_event).
THEOREM IdsStayTheirEvents == FilesSpec => EventIdsAreStable
<1> DEFINE Stable(s) ==
             file'[s] # file[s] =>
               \A e \in R!EventsIn(R!Session(s)), f \in R!EventsIn(R!Session(s)') :
                 f.id = e.id => f = e
<1>1. FilesInit => FilesOK
  BY DEF FilesInit, R!Init, FilesOK
<1>2. FilesOK /\ [FilesNext]_filesVars => [R!Next]_(R!vars) /\ FilesOK'
  <2>1. [FilesNext]_filesVars => [R!Next]_(R!vars)
    BY DEF FilesNext, filesVars, readVars, R!vars
  <2> QED BY <2>1, FilesStep
<1> DEFINE AllOfLines == \A s \in R!Sources : R!EventsIn(R!Session(s)) \subseteq EventsFrom(s)
<1>3. FilesOK => AllOfLines
  BY EventsAreOfLines
<1>4. FilesOK /\ AllOfLines /\ AllOfLines' /\ [R!Next]_(R!vars) =>
        [\A s \in R!Sources : Stable(s)]_file
  <2> SUFFICES ASSUME FilesOK, AllOfLines, AllOfLines', [R!Next]_(R!vars),
                      NEW s \in R!Sources, NEW e \in R!EventsIn(R!Session(s)),
                      NEW f \in R!EventsIn(R!Session(s)'), f.id = e.id
               PROVE  f = e
    OBVIOUS
  <2>1. e \in EventsFrom(s) /\ f \in EventsFrom(s)'
    BY DEF R!EventsIn, R!Sources
  <2>2. PICK t \in {s, "unknown"}, m \in R!Parsed(s) :
          e = [id |-> <<t, m>>, line |-> m, kind |-> file[s][m].kind]
    BY <2>1 DEF EventsFrom
  <2>3. PICK u \in {s, "unknown"}, n \in R!Parsed(s)' :
          f = [id |-> <<u, n>>, line |-> n, kind |-> file'[s][n].kind]
    BY <2>1 DEF EventsFrom
  <2>4. u = t /\ n = m
    BY <2>2, <2>3
  <2>5. file'[s][m] = file[s][m]
    BY <2>2, FilesStep DEF WholeLinesStay
  <2> QED BY <2>2, <2>3, <2>4, <2>5
<1> QED BY <1>1, <1>2, <1>3, <1>4, PTL DEF FilesSpec, EventIdsAreStable, R!EventIdsAreStable

-----------------------------------------------------------------------------
(* The routes.                                                             *)

\* However old the index and the page are, what they show is in the files.
IndexTells ==
  \A s \in R!Sources : \A id \in index[s].capabilities :
    id[2] \in R!Parsed(s) /\ file[s][id[2]].kind \in R!CapabilityKinds
PageTells == \A p \in page : p.source \in R!Sources /\ p.event \in EventsFrom(p.source)

RoutesInv ==
  /\ FilesOK
  /\ IndexTells /\ PageTells

LEMMA LineNumbers ==
  ASSUME FilesOK, NEW s \in R!Sources
  PROVE  R!Parsed(s) = {n \in 1..Len(file[s]) : file[s][n].whole} /\ Len(file[s]) \in Nat
BY DEF FilesOK, R!Parsed

\* A route that finds a session reads it anew.
LEMMA RoutesReadAnew ==
  ASSUME NEW s
  PROVE  /\ R!Session(s).found => R!Session(s) # R!None
         /\ R!Built(s) \in {R!Session(s), R!None}
         /\ R!StoreSession(s) \in {R!Session(s), R!None}
         /\ R!SessionRoute(s) \in {R!Session(s), R!None}
BY DEF R!Built, R!StoreSession, R!DbSession, R!SessionRoute, R!FirstFound, R!None

LEMMA NothingFound == R!EventsIn(R!None) = {} /\ ~R!None.found
BY DEF R!EventsIn, R!None

\* The capabilities a build leaves in the index.
LEMMA BuildTells ==
  ASSUME FilesOK, NEW s \in R!Sources, NEW id \in R!Entries(s).capabilities
  PROVE  id[2] \in R!Parsed(s) /\ file[s][id[2]].kind \in R!CapabilityKinds
<1>1. PICK e \in R!EventsIn(R!Built(s)) : e.kind \in R!CapabilityKinds /\ id = e.id
  BY DEF R!Entries
<1>2. e \in EventsFrom(s)
  BY <1>1, RoutesReadAnew, NothingFound, EventsAreOfLines
<1>3. PICK t \in {s, "unknown"}, m \in R!Parsed(s) :
        e = [id |-> <<t, m>>, line |-> m, kind |-> file[s][m].kind]
  BY <1>2 DEF EventsFrom
<1> QED BY <1>1, <1>3

LEMMA EventsStay ==
  ASSUME NEW s, WholeLinesStay(s)
  PROVE  EventsFrom(s) \subseteq EventsFrom(s)'
<1> SUFFICES ASSUME NEW e \in EventsFrom(s) PROVE e \in EventsFrom(s)'
  OBVIOUS
<1>1. PICK t \in {s, "unknown"}, m \in R!Parsed(s) :
        e = [id |-> <<t, m>>, line |-> m, kind |-> file[s][m].kind]
  BY DEF EventsFrom
<1>2. m \in R!Parsed(s)' /\ file'[s][m] = file[s][m]
  BY <1>1 DEF WholeLinesStay, R!Parsed
<1> QED BY <1>1, <1>2 DEF EventsFrom

LEMMA RoutesStep ==
  ASSUME RoutesInv, [R!Next]_(R!vars)
  PROVE  RoutesInv'
<1>1. FilesOK /\ FilesOK' /\ \A s \in R!Sources : WholeLinesStay(s)
  BY FilesStep DEF RoutesInv
<1>3. ASSUME NEW s \in R!Sources, NEW n \in R!Parsed(s)
      PROVE  n \in R!Parsed(s)' /\ file'[s][n] = file[s][n]
  BY <1>1 DEF WholeLinesStay, R!Parsed
<1>4. ASSUME index' = index PROVE IndexTells'
  BY <1>3, <1>4 DEF RoutesInv, IndexTells, R!Sources
<1>5. ASSUME R!Build, file' = file PROVE IndexTells'
  <2> SUFFICES ASSUME NEW s \in R!Sources, NEW id \in index'[s].capabilities
               PROVE  id[2] \in R!Parsed(s)' /\ file'[s][id[2]].kind \in R!CapabilityKinds
    BY DEF IndexTells, R!Sources
  <2>1. id \in R!Entries(s).capabilities
    BY <1>5 DEF R!Build
  <2>2. id[2] \in R!Parsed(s) /\ file[s][id[2]].kind \in R!CapabilityKinds
    BY <1>1, <2>1, BuildTells
  <2> QED BY <1>3, <2>2
<1>6. ASSUME page' = page PROVE PageTells'
  <2> SUFFICES ASSUME NEW p \in page PROVE p.source \in R!Sources /\ p.event \in EventsFrom(p.source)'
    BY <1>6 DEF PageTells, R!Sources
  <2>1. p.source \in R!Sources /\ p.event \in EventsFrom(p.source)
    BY DEF RoutesInv, PageTells
  <2> QED BY <1>1, <2>1, EventsStay
<1>7. ASSUME NEW s \in R!Sources, R!OpenSession(s) PROVE IndexTells' /\ PageTells'
  <2>1. file' = file /\ (R!Build \/ index' = index)
    BY <1>7 DEF R!OpenSession, R!store
  <2>2. PageTells'
    <3> SUFFICES ASSUME NEW p \in page' PROVE p.source \in R!Sources /\ p.event \in EventsFrom(p.source)'
      BY DEF PageTells, R!Sources
    <3>1. PICK e \in R!EventsIn(R!SessionRoute(s)) : p = [source |-> s, event |-> e]
      BY <1>7 DEF R!OpenSession
    <3>2. e \in EventsFrom(s)
      BY <1>1, <3>1, RoutesReadAnew, NothingFound, EventsAreOfLines
    <3> QED BY <1>1, <3>1, <3>2, EventsStay
  <2> QED BY <1>4, <1>5, <2>1, <2>2
<1>8. ASSUME \/ R!List
             \/ \E p \in page : R!OpenEvent(p.source, p.event.id)
      PROVE  IndexTells' /\ PageTells'
  <2>1. file' = file /\ page' = page /\ (R!Build \/ index' = index)
    BY <1>8 DEF R!List, R!OpenEvent, R!store
  <2> QED BY <1>4, <1>5, <1>6, <2>1
<1>9. ASSUME \/ UNCHANGED R!vars
             \/ \E s \in R!Sources : R!Begin(s) \/ R!Write(s) \/ R!WriteOn(s)
             \/ \E t \in Threads : R!Register(t) \/ R!Move(t) \/ R!Mark(t)
             \/ R!DbComesOrGoes
      PROVE  IndexTells' /\ PageTells'
  <2>1. index' = index /\ page' = page
    BY <1>9 DEF R!vars, R!Begin, R!Write, R!WriteOn, R!Register, R!Move, R!Mark,
                R!DbComesOrGoes, R!store
  <2> QED BY <1>4, <1>6, <2>1
<1> QED BY <1>1, <1>7, <1>8, <1>9 DEF RoutesInv, R!Next

\* A window that is full slides.
LEMMA LatestSlides ==
  ASSUME NEW s, NEW q \in Seq(EventsFrom(s)), NEW A \in SUBSET Nat, NEW n \in Nat,
         R!LatestOf(A, q), \A m \in A : m < n, NEW e \in EventsFrom(s), e.line = n
  PROVE  R!LatestOf(A \cup {n}, R!Slide(Append(q, e)))
<1> DEFINE a == Append(q, e)
           t == Tail(a)
<1>0. Window \in Nat /\ Window # 0 /\ Len(q) \in Nat /\ Len(q) <= Window
  BY ConsoleFilesAssumption DEF R!LatestOf
<1>1. /\ a \in Seq(EventsFrom(s)) /\ Len(a) = Len(q) + 1 /\ DOMAIN a = 1..(Len(q) + 1)
      /\ \A i \in 1..Len(q) : a[i] = q[i]
      /\ a[Len(q) + 1] = e
  BY AppendProperties
<1>2. /\ Len(t) = Len(q) /\ DOMAIN t = 1..Len(q)
      /\ \A i \in 1..Len(q) : t[i] = a[i + 1]
  <2> HIDE DEF a
  <2>1. a # <<>>
    BY <1>0, <1>1
  <2> QED BY <1>0, <1>1, <2>1
<1>3. /\ \A i, j \in 1..Len(q) : i < j => q[i].line < q[j].line
      /\ \A i \in 1..Len(q) : q[i].line \in A
      /\ \A m \in A : \/ \E i \in 1..Len(q) : q[i].line = m
                      \/ Len(q) = Window /\ \A i \in 1..Len(q) : m < q[i].line
  BY DEF R!LatestOf
<1> HIDE DEF a, t
<1>4. \A i, j \in 1..(Len(q) + 1) : i < j => a[i].line < a[j].line
  <2> SUFFICES ASSUME NEW i \in 1..(Len(q) + 1), NEW j \in 1..(Len(q) + 1), i < j
               PROVE  a[i].line < a[j].line
    OBVIOUS
  <2>1. i \in 1..Len(q)
    BY <1>0
  <2>2. CASE j \in 1..Len(q)
    BY <1>1, <1>3, <2>1, <2>2
  <2>3. CASE j = Len(q) + 1
    <3>1. a[j].line = n /\ a[i].line \in A
      BY <1>1, <1>3, <2>1, <2>3
    <3> QED BY <3>1
  <2> QED BY <1>0, <2>2, <2>3
<1>5. \A i \in 1..(Len(q) + 1) : a[i].line \in A \cup {n}
  <2> SUFFICES ASSUME NEW i \in 1..(Len(q) + 1) PROVE a[i].line \in A \cup {n}
    OBVIOUS
  <2>1. i \in 1..Len(q) \/ i = Len(q) + 1
    BY <1>0
  <2> QED BY <1>1, <1>3, <2>1
<1>6. CASE Len(q) < Window
  <2>1. R!Slide(Append(q, e)) = a /\ Len(a) <= Window
    BY <1>0, <1>1, <1>6 DEF R!Slide, a
  <2>2. \A m \in A \cup {n} : \E i \in 1..(Len(q) + 1) : a[i].line = m
    <3>1. ASSUME NEW m \in A PROVE \E i \in 1..(Len(q) + 1) : a[i].line = m
      <4>1. PICK i \in 1..Len(q) : q[i].line = m
        BY <1>0, <1>3, <1>6
      <4>2. i \in 1..(Len(q) + 1) /\ a[i] = q[i]
        BY <1>0, <1>1
      <4> QED BY <4>1, <4>2
    <3>2. Len(q) + 1 \in 1..(Len(q) + 1) /\ a[Len(q) + 1].line = n
      BY <1>0, <1>1
    <3> QED BY <3>1, <3>2
  <2> QED BY <1>1, <1>4, <1>5, <2>1, <2>2 DEF R!LatestOf
<1>7. CASE Len(q) = Window
  <2>1. R!Slide(Append(q, e)) = t /\ Len(t) <= Window
    BY <1>0, <1>1, <1>2, <1>7 DEF R!Slide, a, t
  <2>2. \A i \in 1..Len(q) : i + 1 \in 1..(Len(q) + 1) /\ i \in 1..(Len(q) + 1)
    BY <1>0
  <2>3. \A i, j \in 1..Len(q) : i < j => t[i].line < t[j].line
    <3> SUFFICES ASSUME NEW i \in 1..Len(q), NEW j \in 1..Len(q), i < j PROVE t[i].line < t[j].line
      OBVIOUS
    <3>1. i + 1 < j + 1
      OBVIOUS
    <3> QED BY <1>2, <1>4, <2>2, <3>1
  <2>4. \A i \in 1..Len(q) : t[i].line \in A \cup {n}
    BY <1>2, <1>5, <2>2
  <2>5. ASSUME NEW m \in A \cup {n}
        PROVE  (\E i \in 1..Len(q) : t[i].line = m) \/ (\A i \in 1..Len(q) : m < t[i].line)
    <3>1. 1 \in 1..(Len(q) + 1) /\ \A i \in 1..Len(q) : a[1].line < t[i].line
      <4>1. 1 \in 1..(Len(q) + 1) /\ \A i \in 1..Len(q) : 1 < i + 1
        BY <1>0
      <4> QED BY <1>2, <1>4, <2>2, <4>1
    <3>2. CASE \E i \in 1..(Len(q) + 1) : a[i].line = m
      <4>1. PICK i \in 1..(Len(q) + 1) : a[i].line = m
        BY <3>2
      <4>2. CASE i = 1
        BY <3>1, <4>1, <4>2
      <4>3. CASE i # 1
        <5>1. i - 1 \in 1..Len(q) /\ (i - 1) + 1 = i
          BY <1>0, <4>3
        <5>2. t[i - 1] = a[i]
          BY <1>2, <5>1
        <5> QED BY <4>1, <5>1, <5>2
      <4> QED BY <4>2, <4>3
    <3>3. CASE \A i \in 1..(Len(q) + 1) : a[i].line # m
      <4>1. m # n
        <5>1. Len(q) + 1 \in 1..(Len(q) + 1)
          BY <1>0
        <5> QED BY <1>1, <3>3, <5>1
      <4>2. \A i \in 1..Len(q) : q[i].line # m
        BY <1>1, <2>2, <3>3
      <4>3. m \in A /\ \A i \in 1..Len(q) : m < q[i].line
        BY <1>3, <4>1, <4>2
      <4>4. ASSUME NEW i \in 1..Len(q) PROVE m < t[i].line
        <5>1. 1 \in 1..Len(q) /\ a[1] = q[1]
          BY <1>0, <1>1, <1>7
        <5>2. m < a[1].line /\ a[1].line < t[i].line
          BY <3>1, <4>3, <5>1
        <5>3. m \in Nat /\ a[1].line \in Nat /\ t[i].line \in Nat
          BY <1>3, <2>4, <4>3, <5>1
        <5> QED BY <5>2, <5>3
      <4> QED BY <4>4
    <3> QED BY <3>2, <3>3
  <2> QED BY <1>2, <1>7, <2>1, <2>3, <2>4, <2>5 DEF R!LatestOf
<1> QED BY <1>0, <1>6, <1>7

\* The recognized lines up to n, and what the reader must have of them.
UpTo(s, n) == {m \in R!Recognized(s) : m <= n}
ReadUpTo(acc, s, n) ==
  /\ acc \in ReadSoFar(s) /\ (n # 0 => acc.thread = s)
  /\ R!LatestOf(UpTo(s, n), acc.events)

LEMMA LineKeepsLatest ==
  ASSUME FilesOK, NEW s \in Threads, R!Headed(s), NEW n \in Nat, n + 1 <= Len(file[s]),
         NEW acc, ReadUpTo(acc, s, n)
  PROVE  ReadUpTo(R!RolloutLine(s, acc, n + 1), s, n + 1)
<1> DEFINE next == R!RolloutLine(s, acc, n + 1)
<1>1. s \in R!Sources /\ n + 1 # 0 /\ n + 1 \in Nat
  BY DEF R!Sources
<1>2. R!Parsed(s) \subseteq Nat /\ 1 \in R!Parsed(s) /\ file[s][1].kind = "head"
  BY <1>1, LineNumbers DEF R!Headed
<1>3. next \in ReadSoFar(s)
  BY LineGivesEvents DEF ReadUpTo
<1>4. /\ acc.events \in Seq(EventsFrom(s)) /\ acc.thread \in {s, "unknown"}
      /\ acc \in [thread : {s, "unknown"}, events : Seq(EventsFrom(s))]
  BY DEF ReadUpTo, ReadSoFar
<1>5. n # 0 => acc.thread = s
  BY DEF ReadUpTo
<1>6. UpTo(s, n) \subseteq Nat /\ \A m \in UpTo(s, n) : m < n + 1
  BY <1>2 DEF UpTo, R!Recognized
<1>7. CASE n + 1 \in R!Recognized(s)
  <2>1. n + 1 \in R!Parsed(s) /\ file[s][n + 1].kind \in R!RolloutKinds
    BY <1>7 DEF R!Recognized
  <2>2. file[s][n + 1].kind # "head"
    BY <2>1 DEF R!RolloutKinds
  <2>3. acc.thread = s
    BY <1>2, <1>5, <2>2
  <2> DEFINE e == R!EventOf(s, acc.thread, n + 1, acc.events)
  <2>4. e \in EventsFrom(s) /\ e.line = n + 1
    <3>1. PICK t \in {s, "unknown"}, m \in R!Parsed(s) : t = acc.thread /\ m = n + 1
      BY <1>4, <2>1
    <3>2. R!EventOf(s, t, m, acc.events) = [id |-> <<t, m>>, line |-> m, kind |-> file[s][m].kind]
      BY DEF R!EventOf
    <3> QED BY <3>1, <3>2 DEF EventsFrom
  <2>5. next = [acc EXCEPT !.events = R!Slide(Append(acc.events, e))]
    BY <2>1, <2>2 DEF R!RolloutLine
  <2>6. next.thread = s /\ next.events = R!Slide(Append(acc.events, e))
    BY <1>4, <2>3, <2>5
  <2>7. UpTo(s, n + 1) = UpTo(s, n) \cup {n + 1}
    BY <1>2, <1>7 DEF UpTo, R!Recognized
  <2>8. R!LatestOf(UpTo(s, n), acc.events)
    BY DEF ReadUpTo
  <2> HIDE DEF e, next
  <2>9. PICK q \in Seq(EventsFrom(s)) : q = acc.events
    BY <1>4
  <2>10. R!LatestOf(UpTo(s, n) \cup {n + 1}, R!Slide(Append(q, e)))
    BY <1>1, <1>6, <2>4, <2>8, <2>9, LatestSlides
  <2>11. ReadUpTo(next, s, n + 1)
    BY <1>3, <2>6, <2>7, <2>9, <2>10 DEF ReadUpTo
  <2> QED BY <2>11 DEF next
<1>8. CASE n + 1 \notin R!Recognized(s)
  <2>1. UpTo(s, n + 1) = UpTo(s, n)
    BY <1>2, <1>8 DEF UpTo, R!Recognized
  <2>2. next.events = acc.events /\ (next = acc \/ next.thread = s)
    BY <1>4, <1>8 DEF R!RolloutLine, R!Recognized
  <2>3. next.thread = s
    <3>1. CASE n = 0
      BY <1>2, <1>4, <3>1 DEF R!RolloutLine
    <3> QED BY <1>5, <2>2, <3>1
  <2> HIDE DEF next
  <2>4. ReadUpTo(next, s, n + 1)
    BY <1>3, <2>1, <2>2, <2>3 DEF ReadUpTo
  <2> QED BY <2>4 DEF next
<1> QED BY <1>7, <1>8

\* Of a rollout the latest events are read.
LEMMA LatestAreRead ==
  ASSUME FilesOK, NEW s \in Threads
  PROVE  R!WindowIsLatest(s)
<1> SUFFICES ASSUME R!Headed(s), R!Recognized(s) # {}
             PROVE  R!Session(s).found /\ R!LatestOf(R!Recognized(s), R!Session(s).it.events)
  BY DEF R!WindowIsLatest
<1> DEFINE N == Len(file[s])
<1>1. N \in Nat /\ R!Parsed(s) \subseteq 1..N /\ s \in R!Sources
  BY LineNumbers DEF R!Sources
<1>2. UpTo(s, N) = R!Recognized(s) /\ UpTo(s, 0) = {} /\ N # 0
  BY <1>1 DEF UpTo, R!Recognized
<1> HIDE DEF N
<1>3. PICK f : RolloutAfter(f, s, N) /\ R!RolloutRead(s) = f[N]
  BY <1>1, RolloutReads DEF N
<1>4. /\ f[0] = [thread |-> "unknown", events |-> <<>>]
      /\ \A n \in 1 .. N : f[n] = R!RolloutLine(s, f[n - 1], n)
  BY <1>1, <1>3 DEF RolloutAfter
<1> DEFINE S == {n \in Nat : n <= N => ReadUpTo(f[n], s, n)}
<1>5. 0 \in S
  <2>1. <<>> \in Seq(EventsFrom(s)) /\ Len(<<>>) = 0 /\ DOMAIN <<>> = {}
    OBVIOUS
  <2>2. f[0] \in ReadSoFar(s)
    BY <1>4, <2>1 DEF ReadSoFar
  <2>3. R!LatestOf({}, f[0].events)
    BY <1>4, ConsoleFilesAssumption DEF R!LatestOf
  <2> QED BY <1>2, <2>2, <2>3 DEF ReadUpTo
<1>6. ASSUME NEW n \in Nat, n \in S PROVE n + 1 \in S
  <2> SUFFICES ASSUME n + 1 <= N PROVE ReadUpTo(f[n + 1], s, n + 1)
    OBVIOUS
  <2>1. n <= N /\ n + 1 \in 1 .. N /\ (n + 1) - 1 = n
    BY <1>1
  <2>2. ReadUpTo(f[n], s, n)
    BY <1>6, <2>1
  <2>3. ReadUpTo(R!RolloutLine(s, f[n], n + 1), s, n + 1)
    BY <2>2, LineKeepsLatest DEF N
  <2> QED BY <1>4, <2>1, <2>3
<1> HIDE DEF S
<1>7. N \in S
  BY <1>1, <1>5, <1>6, FromZeroOn
<1>8. ReadUpTo(f[N], s, N)
  BY <1>1, <1>7 DEF S
<1>9. PICK acc : acc = f[N] /\ acc = R!RolloutRead(s)
  BY <1>3
<1>10. acc.thread = s /\ R!LatestOf(R!Recognized(s), acc.events)
  BY <1>2, <1>8, <1>9 DEF ReadUpTo
<1>11. acc.events # <<>>
  <2>1. PICK m : m \in R!Recognized(s)
    OBVIOUS
  <2>2. Window # 0
    BY ConsoleFilesAssumption
  <2> QED BY <1>10, <2>1, <2>2 DEF R!LatestOf
<1>12. R!ReadAnew(s) = acc
  BY <1>9 DEF R!ReadAnew
<1>13. s # "unknown"
  BY ConsoleFilesAssumption
<1>14. R!Session(s) = R!SessionFrom(s, acc)
  BY <1>10, <1>11, <1>12, <1>13 DEF R!Session
<1>15. R!SessionFrom(s, acc).found /\ R!SessionFrom(s, acc).it.events = acc.events
  BY DEF R!SessionFrom, R!Found
<1> QED BY <1>10, <1>14, <1>15

LEMMA RoutesFollow ==
  ASSUME RoutesInv
  PROVE  R!RoutesFollowTheFiles
<1>1. FilesOK /\ IndexTells /\ PageTells
  BY DEF RoutesInv
<1>2. ASSUME NEW s \in R!Sources, R!Active(s)
      PROVE  R!SessionRoute(s) = R!Session(s) /\ R!Built(s) = R!Session(s)
  <2>1. R!Built(s) = R!Session(s)
    BY <1>2 DEF R!Active, R!Built, R!BuildsRollout, R!Sources
  <2>2. R!Session(s).found \/ R!Session(s) = R!None
    BY DEF R!Session, R!SessionFrom, R!Found
  <2> QED
    BY <2>1, <2>2, RoutesReadAnew, NothingFound
       DEF R!SessionRoute, R!FirstFound, R!StoreSession, R!DbSession
<1>3. ASSUME NEW s \in R!Sources PROVE R!CapabilitiesAreShown(s)
  BY <1>1, BuildTells DEF R!CapabilitiesAreShown, R!CapabilitiesRoute, IndexTells
<1>4. ASSUME NEW s \in R!Sources, NEW e \in R!EventsIn(R!Session(s))
      PROVE  e.id[1] \in {s, "unknown"} /\ e.id[2] = e.line /\ e.kind = file[s][e.line].kind
             /\ e = [id |-> e.id, line |-> e.line, kind |-> e.kind]
  <2>1. e \in EventsFrom(s)
    BY <1>1, EventsAreOfLines
  <2> QED BY <2>1 DEF EventsFrom
<1>5. ASSUME NEW s \in Threads, R!Archived(s) PROVE R!ArchivedIsNowhere(s)
  <2>1. /\ ~R!Reachable(s) /\ R!StoreSession(s) = R!None /\ R!DbSession(s) = R!None
        /\ s \in R!Sources /\ s \notin Artifacts /\ R!Built(s) = R!None
    BY <1>5, ConsoleFilesAssumption
       DEF R!Archived, R!Reachable, R!StoreSession, R!DbSession, R!Built, R!BuildsRollout, R!Sources
  <2>2. s \notin R!StoreSources /\ s \notin R!BuiltSources
    BY <2>1, NothingFound DEF R!StoreSources, R!BuiltSources
  <2>3. s \notin R!SessionList
    BY <1>5, <2>2 DEF R!SessionList, R!Archived
  <2>4. ~R!SessionRoute(s).found
    BY <2>1, NothingFound DEF R!SessionRoute, R!FirstFound
  <2>5. ASSUME NEW e \in R!EventList PROVE e.id[1] # s
    <3>1. PICK t \in R!Sources : t # s /\ e \in R!EventsIn(R!Session(t))
      BY <2>2 DEF R!EventList, R!StoreSources, R!BuiltSources
    <3> QED BY <1>4, <3>1, ConsoleFilesAssumption
  <2>6. ASSUME NEW id PROVE ~R!EventRoute(s, id).found
    <3>1. R!EventIn(id, R!None) = R!None
      BY NothingFound DEF R!EventIn
    <3> QED BY <2>1, <3>1, NothingFound DEF R!EventRoute, R!StoreEvent, R!FirstFound
  <2> QED BY <2>3, <2>4, <2>5, <2>6 DEF R!ArchivedIsNowhere
<1>6. ASSUME NEW p \in page, R!Active(p.source) PROVE R!ShownEventOpens(p)
  <2> SUFFICES ASSUME NEW e \in R!EventsIn(R!Session(p.source)), e.id = p.event.id
               PROVE  R!EventRoute(p.source, p.event.id) = R!Found(p.event)
    BY DEF R!ShownEventOpens
  <2>1. PICK s \in R!Sources : s = p.source /\ p.event \in EventsFrom(s)
    BY <1>1 DEF PageTells
  <2>2. \A d \in EventsFrom(s) : d.id = p.event.id => d = p.event
    BY <2>1 DEF EventsFrom
  <2>3. \A d \in R!EventsIn(R!Session(s)) : d.id = p.event.id => d = p.event
    BY <1>1, <2>2, EventsAreOfLines
  <2>4. p.event \in R!EventsIn(R!Session(s))
    BY <2>1, <2>3
  <2>5. {d \in R!EventsIn(R!Session(s)) : d.id = p.event.id} = {p.event}
    BY <2>3, <2>4
  <2>6. R!EventIn(p.event.id, R!Session(s)) = R!Found(p.event)
    BY <2>5 DEF R!EventIn
  <2>7. R!Built(s) = R!Session(s)
    BY <1>2, <1>6, <2>1
  <2>8. R!EventIn(p.event.id, R!None) = R!None
    BY NothingFound DEF R!EventIn
  <2>9. R!StoreEvent(s, p.event.id) \in {R!None, R!Found(p.event)}
    BY <2>6, <2>8, RoutesReadAnew DEF R!StoreEvent
  <2>10. R!EventIn(p.event.id, R!Built(s)) = R!Found(p.event)
    BY <2>6, <2>7
  <2>11. R!EventRoute(s, p.event.id) = R!Found(p.event)
    BY <2>9, <2>10, NothingFound DEF R!EventRoute, R!FirstFound, R!Found
  <2> QED BY <2>1, <2>11
<1>7. \A s \in R!Sources : R!Active(s) => R!SessionRoute(s) = R!Session(s) /\ R!CapabilitiesAreShown(s)
  BY <1>2, <1>3
<1>8. \A s \in Threads : R!WindowIsLatest(s)
  BY <1>1, LatestAreRead
<1>9. \A s \in R!Sources : R!Archived(s) => R!ArchivedIsNowhere(s)
  BY <1>5 DEF R!Archived
<1> QED BY <1>6, <1>7, <1>8, <1>9 DEF R!RoutesFollowTheFiles

\* For any threads, artifacts, lines and window, whatever is written, cut off,
\* archived and indexed between two requests: what a route shows of a session
\* that is not archived is what its file holds now, with the latest events of the
\* window; an event shown earlier opens as what it was; an archived thread is
\* nowhere (load_session_detail, IndexReadStore).
THEOREM RoutesTellTheFiles == FilesSpec => []RoutesFollowTheFiles
<1>1. FilesInit => RoutesInv
  <2>1. R!Init => FilesOK
    BY DEF R!Init, FilesOK
  <2>2. R!Init => IndexTells /\ PageTells
    BY DEF R!Init, IndexTells, PageTells, R!NoEntries
  <2> QED BY <2>1, <2>2 DEF FilesInit, RoutesInv
<1>2. RoutesInv /\ [FilesNext]_filesVars => RoutesInv'
  <2>1. [FilesNext]_filesVars => [R!Next]_(R!vars)
    BY DEF FilesNext, filesVars, readVars, R!vars
  <2> QED BY <2>1, RoutesStep
<1>3. RoutesInv => RoutesFollowTheFiles
  BY RoutesFollow DEF RoutesFollowTheFiles
<1> QED BY <1>1, <1>2, <1>3, PTL DEF FilesSpec

-----------------------------------------------------------------------------
(* Ordered lists.                                                          *)

\* before orders the elements of S strictly and totally.
StrictlyOrders(S, before) ==
  /\ \A x \in S : <<x, x>> \notin before
  /\ \A x, y, z \in S : <<x, y>> \in before /\ <<y, z>> \in before => <<x, z>> \in before
  /\ \A x, y \in S : x # y => <<x, y>> \in before \/ <<y, x>> \in before

LEMMA RanksAreDistinct ==
  ASSUME NEW S, IsFiniteSet(S), NEW before, StrictlyOrders(S, before)
  PROVE  /\ \A x \in S : Cardinality(Preceding(S, before, x)) \in 0..(Cardinality(S) - 1)
         /\ \A x, y \in S : <<x, y>> \in before =>
              Cardinality(Preceding(S, before, x)) < Cardinality(Preceding(S, before, y))
<1>1. ASSUME NEW x \in S
      PROVE  /\ IsFiniteSet(Preceding(S, before, x))
             /\ Cardinality(Preceding(S, before, x)) \in Nat
             /\ IsFiniteSet(Preceding(S, before, x) \cup {x})
             /\ Cardinality(Preceding(S, before, x) \cup {x})
                  = Cardinality(Preceding(S, before, x)) + 1
  <2>1. Preceding(S, before, x) \in SUBSET S /\ x \notin Preceding(S, before, x)
    BY DEF Preceding, StrictlyOrders
  <2>2. IsFiniteSet(Preceding(S, before, x))
    BY <2>1, FS_Subset
  <2> QED BY <2>1, <2>2, FS_CardinalityType, FS_AddElement
<1>2. ASSUME NEW x \in S
      PROVE  Cardinality(Preceding(S, before, x)) \in 0..(Cardinality(S) - 1)
  <2>1. Preceding(S, before, x) \cup {x} \in SUBSET S
    BY DEF Preceding
  <2>2. Cardinality(Preceding(S, before, x) \cup {x}) <= Cardinality(S)
    BY <2>1, FS_Subset
  <2>3. Cardinality(S) \in Nat
    BY FS_CardinalityType
  <2> QED BY <1>1, <2>2, <2>3
<1>3. ASSUME NEW x \in S, NEW y \in S, <<x, y>> \in before
      PROVE  Cardinality(Preceding(S, before, x)) < Cardinality(Preceding(S, before, y))
  <2>1. Preceding(S, before, x) \cup {x} \in SUBSET Preceding(S, before, y)
    BY <1>3 DEF Preceding, StrictlyOrders
  <2>2. Cardinality(Preceding(S, before, x) \cup {x}) <= Cardinality(Preceding(S, before, y))
    BY <1>1, <2>1, FS_Subset
  <2>3. ASSUME NEW i \in Nat, NEW j \in Nat, i + 1 <= j PROVE i < j
    BY <2>3
  <2> QED BY <1>1, <2>2, <2>3
<1> QED BY <1>2, <1>3

LEMMA OrderedIsSorted ==
  ASSUME NEW S, IsFiniteSet(S), NEW before, StrictlyOrders(S, before)
  PROVE  /\ Ordered(S, before) \in Seq(S) /\ Len(Ordered(S, before)) = Cardinality(S)
         /\ \A x \in S : \E k \in 1..Cardinality(S) : Ordered(S, before)[k] = x
         /\ \A i, j \in 1..Cardinality(S) :
              i < j => <<Ordered(S, before)[i], Ordered(S, before)[j]>> \in before
<1> DEFINE n == Cardinality(S)
           rank == [x \in S |-> Cardinality(Preceding(S, before, x))]
<1>1. n \in Nat
  BY FS_CardinalityType
<1>2. \A x \in S : rank[x] \in 0..(n - 1)
  BY RanksAreDistinct
<1>3. \A x, y \in S : <<x, y>> \in before => rank[x] < rank[y]
  BY RanksAreDistinct
<1> HIDE DEF rank
<1>4. rank \in [S -> 0..(n - 1)]
  BY <1>2 DEF rank
<1>5. rank \in Injection(S, 0..(n - 1))
  <2>1. ASSUME NEW x \in S, NEW y \in S, rank[x] = rank[y] PROVE x = y
    <3>1. rank[x] \in Int /\ rank[y] \in Int
      BY <1>1, <1>2
    <3>2. ~(<<x, y>> \in before) /\ ~(<<y, x>> \in before)
      BY <1>3, <2>1, <3>1
    <3> QED BY <3>2 DEF StrictlyOrders
  <2> QED BY <1>4, <2>1 DEF Injection, IsInjective
<1>6. rank \in Surjection(S, 0..(n - 1))
  <2>1. IsFiniteSet(0..(n - 1)) /\ Cardinality(0..(n - 1)) = n
    <3>1. 0 \in Int /\ n - 1 \in Int
      BY <1>1
    <3>2. /\ IsFiniteSet(0..(n - 1))
          /\ Cardinality(0..(n - 1)) = IF 0 > n - 1 THEN 0 ELSE (n - 1) - 0 + 1
      BY <3>1, FS_Interval
    <3> QED BY <1>1, <3>2
  <2> QED BY <1>5, <2>1, FS_Injection
<1>7. \A k \in 0..(n - 1) : \E x \in S : rank[x] = k
  BY <1>6 DEF Surjection
<1> DEFINE q == Ordered(S, before)
<1>8. ASSUME NEW k \in 1..n PROVE q[k] \in S /\ rank[q[k]] = k - 1
  <2>1. k - 1 \in 0..(n - 1)
    BY <1>1
  <2>2. \E x \in S : Cardinality(Preceding(S, before, x)) = k - 1
    BY <1>7, <2>1 DEF rank
  <2>3. Standing(S, before, k) \in S /\ Cardinality(Preceding(S, before, Standing(S, before, k))) = k - 1
    BY <2>2 DEF Standing
  <2> QED BY <2>3 DEF rank, Ordered
<1>9. q = [k \in 1..n |-> q[k]]
  BY DEF Ordered
<1> HIDE DEF q
<1>10. q \in Seq(S) /\ Len(q) = n
  <2>1. q \in [1..n -> S]
    BY <1>8, <1>9
  <2> QED BY <1>1, <2>1
<1>11. ASSUME NEW x \in S PROVE \E k \in 1..n : q[k] = x
  <2>1. rank[x] + 1 \in 1..n /\ (rank[x] + 1) - 1 = rank[x]
    BY <1>1, <1>2
  <2>2. rank[q[rank[x] + 1]] = rank[x] /\ q[rank[x] + 1] \in S
    BY <1>8, <2>1
  <2>3. q[rank[x] + 1] = x
    BY <1>5, <2>2 DEF Injection, IsInjective
  <2> QED BY <2>1, <2>3
<1>12. ASSUME NEW i \in 1..n, NEW j \in 1..n, i < j PROVE <<q[i], q[j]>> \in before
  <2>1. /\ q[i] \in S /\ q[j] \in S /\ rank[q[i]] = i - 1 /\ rank[q[j]] = j - 1
    BY <1>8
  <2>2. q[i] # q[j] /\ ~(rank[q[j]] < rank[q[i]])
    BY <1>12, <2>1
  <2> QED BY <1>3, <2>1, <2>2 DEF StrictlyOrders
<1> QED BY <1>10, <1>11, <1>12 DEF q

\* All that is listed, once and in order.
SortedBy(before, q) == \A i, j \in DOMAIN q : i < j => <<q[i], q[j]>> \in before

LEMMA OrderedListsAll ==
  ASSUME NEW S, IsFiniteSet(S), NEW before, StrictlyOrders(S, before)
  PROVE  /\ Ordered(S, before) \in Seq(S) /\ ToSet(Ordered(S, before)) = S
         /\ SortedBy(before, Ordered(S, before))
<1> DEFINE q == Ordered(S, before)
<1>1. /\ q \in Seq(S) /\ Len(q) = Cardinality(S)
      /\ \A x \in S : \E k \in 1..Cardinality(S) : q[k] = x
      /\ \A i, j \in 1..Cardinality(S) : i < j => <<q[i], q[j]>> \in before
  BY OrderedIsSorted
<1> HIDE DEF q
<1>2. DOMAIN q = 1..Cardinality(S) /\ \A k \in DOMAIN q : q[k] \in S
  BY <1>1
<1>3. ToSet(q) = S
  BY <1>1, <1>2 DEF ToSet
<1> QED BY <1>1, <1>2, <1>3 DEF q, SortedBy

LEMMA AscendingLists ==
  ASSUME NEW S \in SUBSET Int, IsFiniteSet(S)
  PROVE  /\ Ascending(S) \in Seq(S) /\ ToSet(Ascending(S)) = S
         /\ \A i, j \in DOMAIN Ascending(S) : i < j => Ascending(S)[i] < Ascending(S)[j]
<1> DEFINE before == {p \in S \X S : p[1] < p[2]}
<1>1. \A x, y \in S : <<x, y>> \in before <=> x < y
  OBVIOUS
<1>2. StrictlyOrders(S, before)
  <2> HIDE DEF before
  <2> QED BY <1>1 DEF StrictlyOrders
<1>3. /\ Ascending(S) \in Seq(S) /\ ToSet(Ascending(S)) = S /\ SortedBy(before, Ascending(S))
  BY <1>2, OrderedListsAll DEF Ascending
<1> HIDE DEF before
<1>4. ASSUME NEW i \in DOMAIN Ascending(S), NEW j \in DOMAIN Ascending(S), i < j
      PROVE  Ascending(S)[i] < Ascending(S)[j]
  <2>1. Ascending(S)[i] \in S /\ Ascending(S)[j] \in S
    BY <1>3
  <2> QED BY <1>1, <1>3, <1>4, <2>1 DEF SortedBy
<1> QED BY <1>3, <1>4

LEMMA DescendingLists ==
  ASSUME NEW S \in SUBSET Int, IsFiniteSet(S)
  PROVE  /\ Descending(S) \in Seq(S) /\ ToSet(Descending(S)) = S
         /\ DOMAIN Descending(S) = 1..Cardinality(S)
<1> DEFINE before == {p \in S \X S : p[2] < p[1]}
<1>1. \A x, y \in S : <<x, y>> \in before <=> y < x
  OBVIOUS
<1>2. StrictlyOrders(S, before)
  <2> HIDE DEF before
  <2> QED BY <1>1 DEF StrictlyOrders
<1>3. Descending(S) \in Seq(S) /\ ToSet(Descending(S)) = S
  BY <1>2, OrderedListsAll DEF Descending
<1>4. DOMAIN Descending(S) = 1..Cardinality(S)
  BY DEF Descending, Ordered
<1> QED BY <1>3, <1>4

LEMMA MaxAndMinAreIn ==
  ASSUME NEW S \in SUBSET Int, IsFiniteSet(S), S # {}
  PROVE  /\ Max(S) \in S /\ \A y \in S : Max(S) >= y
         /\ Min(S) \in S /\ \A y \in S : Min(S) <= y
<1> DEFINE q == Ascending(S)
           n == Len(q)
<1>1. q \in Seq(S) /\ ToSet(q) = S /\ \A i, j \in DOMAIN q : i < j => q[i] < q[j]
  BY AscendingLists
<1> HIDE DEF q
<1>2. n \in Nat /\ DOMAIN q = 1..n /\ \A i \in 1..n : q[i] \in S /\ q[i] \in Int
  <2>1. q \in Seq(S)
    BY <1>1
  <2>2. n \in Nat /\ DOMAIN q = 1..n /\ \A i \in 1..n : q[i] \in S
    BY <2>1
  <2>3. \A y \in S : y \in Int
    OBVIOUS
  <2> QED BY <2>2, <2>3
<1> HIDE DEF n
<1>3. \A y \in S : \E i \in 1..n : q[i] = y
  BY <1>1, <1>2 DEF ToSet
<1>4. 1 \in 1..n /\ n \in 1..n
  <2>1. PICK y \in S : TRUE
    OBVIOUS
  <2>2. PICK i \in 1..n : q[i] = y
    BY <1>3, <2>1
  <2> QED BY <1>2, <2>2
<1>5. \A y \in S : q[n] >= y
  <2> TAKE y \in S
  <2>1. PICK i \in 1..n : q[i] = y
    BY <1>3
  <2>2. i = n \/ i < n
    BY <1>2
  <2> QED BY <1>1, <1>2, <1>4, <2>1, <2>2
<1>6. \A y \in S : q[1] <= y
  <2> TAKE y \in S
  <2>1. PICK i \in 1..n : q[i] = y
    BY <1>3
  <2>2. i = 1 \/ 1 < i
    BY <1>2
  <2> QED BY <1>1, <1>2, <1>4, <2>1, <2>2
<1>7. \E x \in S : \A y \in S : x >= y
  BY <1>2, <1>4, <1>5
<1>8. \E x \in S : \A y \in S : x <= y
  BY <1>2, <1>4, <1>6
<1> QED BY <1>7, <1>8 DEF Max, Min

LEMMA ListOfASet ==
  ASSUME NEW S, IsFiniteSet(S)
  PROVE  /\ SetToSeq(S) \in [1..Cardinality(S) -> S] /\ Cardinality(S) \in Nat
         /\ ToSet(SetToSeq(S)) = S
<1> DEFINE n == Cardinality(S)
<1>1. n \in Nat /\ ExistsBijection(1..n, S)
  BY FS_CardinalityType
<1>2. PICK f : f \in Bijection(1..n, S)
  BY <1>1 DEF ExistsBijection
<1>3. f \in [1..n -> S] /\ IsInjective(f)
  BY <1>2 DEF Bijection, Injection, IsInjective
<1>4. SetToSeq(S) \in [1..n -> S] /\ IsInjective(SetToSeq(S))
  BY <1>3 DEF SetToSeq
<1>5. SetToSeq(S) \in Injection(1..n, S)
  BY <1>4 DEF Injection
<1>6. IsFiniteSet(1..n) /\ Cardinality(1..n) = n
  <2>1. /\ IsFiniteSet(1..n)
        /\ Cardinality(1..n) = IF 1 > n THEN 0 ELSE n - 1 + 1
    BY <1>1, FS_Interval
  <2> QED BY <1>1, <2>1
<1>7. SetToSeq(S) \in Surjection(1..n, S)
  BY <1>5, <1>6, FS_Injection
<1>8. \A x \in S : \E i \in 1..n : SetToSeq(S)[i] = x
  BY <1>7 DEF Surjection
<1> QED BY <1>1, <1>4, <1>8 DEF ToSet

-----------------------------------------------------------------------------
(* The lists of the console.                                               *)

\* An item is ranked by its id, a target, or by its time and then its id.
ItemsOf(route) ==
  {x \in [id : Nat, rank : Int \X Int] :
     IF route = "targets" THEN x.rank = <<x.id, 0>> ELSE x.rank[2] = x.id}

SortedItems(q) == \A i, j \in DOMAIN q : i < j => Before(q[i].rank, q[j].rank)

LEMMA ImageIsFinite ==
  ASSUME NEW D, IsFiniteSet(D), NEW q
  PROVE  IsFiniteSet({q[i] : i \in D})
<1> DEFINE f == [i \in D |-> q[i]]
           T == {q[i] : i \in D}
<1>1. f \in Surjection(D, T)
  BY DEF Surjection
<1> QED BY <1>1, FS_Surjection

LEMMA ListIsOfItsSet ==
  ASSUME NEW T, NEW q \in Seq(T)
  PROVE  /\ Len(q) \in Nat /\ DOMAIN q = 1..Len(q) /\ ToSet(q) = {q[i] : i \in DOMAIN q}
         /\ ToSet(q) \subseteq T /\ IsFiniteSet(ToSet(q)) /\ IsFiniteSet(DOMAIN q)
<1>1. Len(q) \in Nat /\ DOMAIN q = 1..Len(q) /\ \A i \in DOMAIN q : q[i] \in T
  OBVIOUS
<1>2. ToSet(q) = {q[i] : i \in DOMAIN q}
  BY DEF ToSet
<1>3. IsFiniteSet(DOMAIN q)
  <2>1. 1 \in Int /\ Len(q) \in Int
    BY <1>1
  <2> QED BY <1>1, <2>1, FS_Interval
<1>4. IsFiniteSet(ToSet(q))
  BY <1>2, <1>3, ImageIsFinite
<1> QED BY <1>1, <1>2, <1>3, <1>4

LEMMA IdsOfAList ==
  ASSUME NEW q
  PROVE  Ids(q) = {q[i].id : i \in DOMAIN q}
BY DEF Ids, ToSet

LEMMA RanksOrder ==
  ASSUME NEW route, NEW S \in SUBSET ItemsOf(route), \A x, y \in S : x.id = y.id => x = y
  PROVE  StrictlyOrders(S, InOrder(S))
<1>1. \A x \in S : x.rank[1] \in Int /\ x.rank[2] \in Int /\ x.id \in Nat
  BY DEF ItemsOf
<1>2. \A x, y \in S : <<x, y>> \in InOrder(S) <=> Before(x.rank, y.rank)
  BY DEF InOrder
<1>3. \A x, y \in S : x # y => x.rank[1] # y.rank[1] \/ x.rank[2] # y.rank[2]
  BY DEF ItemsOf
<1>4. \A x \in S : ~Before(x.rank, x.rank)
  BY <1>1 DEF Before
<1>5. \A x, y, z \in S : Before(x.rank, y.rank) /\ Before(y.rank, z.rank) => Before(x.rank, z.rank)
  BY <1>1 DEF Before
<1>6. \A x, y \in S : x # y => Before(x.rank, y.rank) \/ Before(y.rank, x.rank)
  BY <1>1, <1>3 DEF Before
<1> QED BY <1>2, <1>4, <1>5, <1>6 DEF StrictlyOrders

\* A merged list has every id of the lists it was made of, each once, and is sorted.
LEMMA MergedKeepsTheIds ==
  ASSUME NEW route, NEW items \in Seq(ItemsOf(route))
  PROVE  /\ Merged(items) \in Seq(ItemsOf(route)) /\ Ids(Merged(items)) = Ids(items)
         /\ ToSet(Merged(items)) \subseteq ToSet(items) /\ SortedItems(Merged(items))
<1> DEFINE kept == {items[i] : i \in Firsts(items)}
<1>1. /\ Len(items) \in Nat /\ DOMAIN items = 1..Len(items) /\ ToSet(items) = {items[i] : i \in DOMAIN items}
      /\ ToSet(items) \subseteq ItemsOf(route) /\ IsFiniteSet(DOMAIN items)
  BY ListIsOfItsSet
<1>2. IsFiniteSet(kept)
  <2>1. Firsts(items) \in SUBSET DOMAIN items
    BY DEF Firsts
  <2>2. IsFiniteSet(Firsts(items))
    BY <1>1, <2>1, FS_Subset
  <2> QED BY <2>2, ImageIsFinite
<1>3. kept \subseteq ToSet(items)
  BY <1>1 DEF Firsts
<1>4. ASSUME NEW x \in kept, NEW y \in kept, x.id = y.id PROVE x = y
  <2>1. PICK i \in Firsts(items) : x = items[i]
    OBVIOUS
  <2>2. PICK j \in Firsts(items) : y = items[j]
    OBVIOUS
  <2>3. i \in Int /\ j \in Int /\ i >= 1 /\ j >= 1
    BY <1>1, <2>1, <2>2 DEF Firsts
  <2>4. ~(i < j) /\ ~(j < i)
    BY <1>4, <2>1, <2>2, <2>3 DEF Firsts
  <2> QED BY <2>1, <2>2, <2>3, <2>4
<1>5. ASSUME NEW i \in DOMAIN items PROVE \E j \in Firsts(items) : items[j].id = items[i].id
  <2> DEFINE same == {k \in DOMAIN items : items[k].id = items[i].id}
  <2>1. same \in SUBSET Int /\ same # {} /\ IsFiniteSet(same)
    BY <1>1, FS_Subset
  <2>2. Min(same) \in same /\ \A k \in same : Min(same) <= k
    BY <2>1, MaxAndMinAreIn
  <2>3. PICK j \in same : \A k \in same : j <= k
    BY <2>2
  <2>4. j \in Firsts(items)
    BY <1>1, <2>3 DEF Firsts
  <2> QED BY <2>3, <2>4
<1>6. /\ Merged(items) \in Seq(kept) /\ ToSet(Merged(items)) = kept
      /\ SortedBy(InOrder(kept), Merged(items))
  <2>1. StrictlyOrders(kept, InOrder(kept))
    <3>1. kept \in SUBSET ItemsOf(route)
      BY <1>1, <1>3
    <3> HIDE DEF kept
    <3> QED BY <1>4, <3>1, RanksOrder
  <2>2. Merged(items) = Ordered(kept, InOrder(kept))
    BY DEF Merged
  <2> HIDE DEF kept
  <2> QED BY <1>2, <2>1, <2>2, OrderedListsAll
<1>7. Ids(Merged(items)) = Ids(items)
  <2>1. Ids(Merged(items)) = {x.id : x \in kept}
    BY <1>6 DEF Ids
  <2>2. Ids(items) = {items[i].id : i \in DOMAIN items}
    BY IdsOfAList
  <2>3. ASSUME NEW i \in DOMAIN items PROVE items[i].id \in {x.id : x \in kept}
    <3>1. PICK j \in Firsts(items) : items[j].id = items[i].id
      BY <1>5
    <3> QED BY <3>1
  <2>4. ASSUME NEW x \in kept PROVE x.id \in {items[i].id : i \in DOMAIN items}
    BY DEF Firsts
  <2> QED BY <2>1, <2>2, <2>3, <2>4
<1>8. SortedItems(Merged(items))
  BY <1>6 DEF SortedBy, SortedItems, InOrder
<1>9. Merged(items) \in Seq(ItemsOf(route))
  <2>1. kept \subseteq ItemsOf(route)
    BY <1>1, <1>3
  <2> HIDE DEF kept
  <2> QED BY <1>6, <2>1
<1> HIDE DEF kept
<1> QED BY <1>3, <1>6, <1>7, <1>8, <1>9

LEMMA JoinedLists ==
  ASSUME NEW T, NEW a \in Seq(T), NEW b \in Seq(T)
  PROVE  /\ a \o b \in Seq(T) /\ ToSet(a \o b) = ToSet(a) \cup ToSet(b)
         /\ Ids(a \o b) = Ids(a) \cup Ids(b)
<1> DEFINE c == a \o b
<1>1. /\ c \in Seq(T) /\ Len(c) = Len(a) + Len(b)
      /\ \A i \in 1..Len(c) : c[i] = IF i <= Len(a) THEN a[i] ELSE b[i - Len(a)]
  OBVIOUS
<1>2. /\ Len(a) \in Nat /\ DOMAIN a = 1..Len(a) /\ Len(b) \in Nat /\ DOMAIN b = 1..Len(b)
      /\ Len(c) \in Nat /\ DOMAIN c = 1..Len(c)
  BY <1>1, ListIsOfItsSet
<1> HIDE DEF c
<1>3. ToSet(c) \subseteq ToSet(a) \cup ToSet(b)
  <2> SUFFICES ASSUME NEW i \in 1..Len(c) PROVE c[i] \in ToSet(a) \cup ToSet(b)
    BY <1>2 DEF ToSet
  <2>1. CASE i <= Len(a)
    BY <1>1, <1>2, <2>1 DEF ToSet
  <2>2. CASE ~(i <= Len(a))
    <3>1. i - Len(a) \in 1..Len(b)
      BY <1>1, <1>2, <2>2
    <3> QED BY <1>1, <1>2, <2>2, <3>1 DEF ToSet
  <2> QED BY <2>1, <2>2
<1>4. ASSUME NEW i \in 1..Len(a) PROVE a[i] \in ToSet(c)
  <2>1. i \in 1..Len(c) /\ c[i] = a[i]
    BY <1>1, <1>2
  <2> QED BY <1>2, <2>1 DEF ToSet
<1>5. ASSUME NEW i \in 1..Len(b) PROVE b[i] \in ToSet(c)
  <2>1. /\ i + Len(a) \in 1..Len(c) /\ (i + Len(a)) - Len(a) = i
        /\ ~(i + Len(a) <= Len(a))
    BY <1>1, <1>2
  <2>2. c[i + Len(a)] = b[i]
    BY <1>1, <2>1
  <2> QED BY <1>2, <2>1, <2>2 DEF ToSet
<1>6. ToSet(c) = ToSet(a) \cup ToSet(b)
  BY <1>2, <1>3, <1>4, <1>5 DEF ToSet
<1>7. Ids(c) = Ids(a) \cup Ids(b)
  BY <1>6 DEF Ids
<1> QED BY <1>1, <1>6, <1>7 DEF c

\* q is what G, of elements of S into T, makes of the list s of all of S.
IsMapped(q, G, s, S, T) ==
  /\ s \in Seq(S) /\ ToSet(s) = S /\ G \in [S -> T]
  /\ q \in [DOMAIN s -> T] /\ \A i \in DOMAIN s : q[i] = G[s[i]]

LEMMA MappedList ==
  ASSUME NEW S, NEW s, NEW T, NEW G, NEW q, IsMapped(q, G, s, S, T)
  PROVE  q \in Seq(T) /\ ToSet(q) = {G[x] : x \in S} /\ Ids(q) = {G[x].id : x \in S}
<1> s \in Seq(S) /\ ToSet(s) = S /\ G \in [S -> T] /\ q \in [DOMAIN s -> T]
  BY DEF IsMapped
<1> \A i \in DOMAIN s : q[i] = G[s[i]]
  BY DEF IsMapped
<1>1. Len(s) \in Nat /\ DOMAIN s = 1..Len(s) /\ S = {s[i] : i \in DOMAIN s}
  BY ListIsOfItsSet
<1>2. q \in Seq(T) /\ DOMAIN q = DOMAIN s
  BY <1>1
<1>3. ToSet(q) = {q[i] : i \in DOMAIN s}
  BY <1>2 DEF ToSet
<1>4. {q[i] : i \in DOMAIN s} = {G[x] : x \in S}
  BY <1>1
<1>5. Ids(q) = {G[x].id : x \in S}
  <2>1. \A v : v \in Ids(q) <=> \E x \in S : v = G[x].id
    BY <1>3, <1>4 DEF Ids
  <2> QED BY <2>1
<1> QED BY <1>2, <1>3, <1>4, <1>5

FileRecords == [id : 1..MaxId, pid : Pids, app : Apps, time : Nat, whole : BOOLEAN]
EventRecords == [source : Sources, time : Nat, hit : BOOLEAN]

\* Requests are numbered as they are captured, and below all events.
ViewTypes ==
  /\ running \in [Pids -> Apps \cup {NotRunning}]
  /\ files \subseteq FileRecords /\ IsFiniteSet(files)
  /\ \A r \in files : r.id <= Cardinality(files)
  /\ \A r, s \in files : r.id = s.id => r = s
  /\ log \in Seq(EventRecords)
  /\ covered \in 0 .. Len(log)
  /\ Written <= MaxId

\* What a list may hold, in the present world.
Told(route) ==
  IF route = "targets" THEN ItemsOf(route)
  ELSE {Newest(r.id, r.time) : r \in files} \cup {EventItem(n) : n \in DOMAIN log}

LEMMA LogIsTyped ==
  ASSUME ViewTypes
  PROVE  /\ Len(log) \in Nat /\ DOMAIN log = 1..Len(log) /\ IsFiniteSet(DOMAIN log)
         /\ \A n \in DOMAIN log : log[n] \in EventRecords
<1>1. log \in Seq(EventRecords)
  BY DEF ViewTypes
<1>2. Len(log) \in Nat /\ DOMAIN log = 1..Len(log) /\ IsFiniteSet(DOMAIN log)
  BY <1>1, ListIsOfItsSet
<1> QED BY <1>1, <1>2

LEMMA NewestIsAnItem ==
  ASSUME NEW id \in Nat, NEW time \in Int, NEW route, route # "targets"
  PROVE  Newest(id, time) \in ItemsOf(route) /\ Newest(id, time).id = id
BY DEF Newest, ItemsOf

LEMMA EventItemIsAnItem ==
  ASSUME ViewTypes, NEW n \in DOMAIN log, NEW route, route # "targets"
  PROVE  EventItem(n) \in ItemsOf(route) /\ EventItem(n).id = EventId(n) /\ EventItem(n) \in Told(route)
<1>1. EventId(n) \in Nat /\ log[n].time \in Int
  BY LogIsTyped, ConsoleViewsAssumption DEF EventId, EventRecords
<1> QED BY <1>1, NewestIsAnItem DEF EventItem, Told

\* The index has events of the log.
LEMMA IndexIsOfTheLog ==
  ASSUME ViewTypes
  PROVE  Indexed \subseteq DOMAIN log
BY LogIsTyped DEF ViewTypes, Indexed

LEMMA EventLists ==
  ASSUME ViewTypes, NEW sources, NEW events \in SUBSET DOMAIN log, NEW route, route # "targets"
  PROVE  /\ EventItems(sources, events) \in Seq(ItemsOf(route)) /\ ToSet(EventItems(sources, events)) \subseteq Told(route)
         /\ Ids(EventItems(sources, events)) = EventIds(sources, events)
<1> DEFINE shown == {n \in events : log[n].source \in sources /\ EventMatches(log[n])}
           order == Descending(shown)
           G == [n \in shown |-> EventItem(n)]
           list == EventItems(sources, events)
<1>1. shown \in SUBSET Int /\ shown \in SUBSET DOMAIN log /\ IsFiniteSet(shown)
  BY LogIsTyped, FS_Subset
<1>2. order \in Seq(shown) /\ ToSet(order) = shown /\ DOMAIN order = 1..Cardinality(shown)
  <2> HIDE DEF shown
  <2> QED BY <1>1, DescendingLists
<1>3. list = [i \in 1..Cardinality(shown) |-> EventItem(order[i])]
  BY DEF EventItems
<1>4. \A n \in shown : EventItem(n) \in ItemsOf(route) /\ EventItem(n).id = EventId(n) /\ EventItem(n) \in Told(route)
  BY <1>1, EventItemIsAnItem
<1> HIDE DEF shown, order, list
<1>5. \A i \in DOMAIN order : order[i] \in shown
  <2>1. order \in Seq(shown)
    BY <1>2
  <2>2. ToSet(order) = {order[i] : i \in DOMAIN order}
    BY <2>1, ListIsOfItsSet
  <2> QED BY <1>2, <2>2
<1>6. G \in [shown -> ItemsOf(route)] /\ \A n \in shown : G[n] = EventItem(n)
  BY <1>4
<1>7. list \in [DOMAIN order -> ItemsOf(route)] /\ \A i \in DOMAIN order : list[i] = G[order[i]]
  BY <1>2, <1>3, <1>4, <1>5
<1> HIDE DEF G
<1>8. list \in Seq(ItemsOf(route)) /\ ToSet(list) = {G[x] : x \in shown} /\ Ids(list) = {G[x].id : x \in shown}
  <2>1. IsMapped(list, G, order, shown, ItemsOf(route))
    BY <1>2, <1>6, <1>7 DEF IsMapped
  <2> QED BY <2>1, MappedList
<1>9. ToSet(list) \subseteq Told(route)
  BY <1>4, <1>6, <1>8
<1>10. Ids(list) = {EventId(n) : n \in shown}
  BY <1>4, <1>6, <1>8
<1> QED BY <1>8, <1>9, <1>10 DEF list, shown, EventIds

LEMMA ObserverTargetsList ==
  ASSUME ViewTypes
  PROVE  /\ ObserverTargets \in Seq(ItemsOf("targets"))
         /\ Ids(ObserverTargets) = IF Observed = <<>> THEN {} ELSE {0}
<1> DEFINE x == [id |-> 0, rank |-> <<0, 0>>]
<1>1. x \in ItemsOf("targets") /\ x.id = 0
  BY DEF ItemsOf
<1> HIDE DEF x
<1>2. CASE Observed = <<>>
  BY <1>2 DEF ObserverTargets, Ids, ToSet
<1>3. CASE Observed # <<>>
  <2>1. ObserverTargets = <<x>>
    BY <1>3 DEF ObserverTargets, x
  <2>2. ToSet(<<x>>) = {x}
    BY DEF ToSet
  <2> QED BY <1>1, <1>3, <2>1, <2>2 DEF Ids
<1> QED BY <1>2, <1>3

LEMMA OrdersAreWhole ==
  ASSUME ViewTypes, NEW dir \in Orders(files)
  PROVE  /\ Cardinality(files) \in Nat /\ DOMAIN dir = 1..Cardinality(files)
         /\ \A i \in DOMAIN dir : dir[i] \in files
         /\ \A r \in files : \E i \in DOMAIN dir : dir[i] = r
<1>1. IsFiniteSet(files)
  BY DEF ViewTypes
<1>2. Cardinality(files) \in Nat
  BY <1>1, FS_CardinalityType
<1>3. dir \in [1..Cardinality(files) -> files] /\ Cardinality(ToSet(dir)) = Cardinality(files)
  BY DEF Orders
<1>4. ToSet(dir) \in SUBSET files
  BY <1>3 DEF ToSet
<1>5. ToSet(dir) = files
  BY <1>1, <1>3, <1>4, FS_Subset
<1> QED BY <1>2, <1>3, <1>5 DEF ToSet

LEMMA FileLists ==
  ASSUME ViewTypes, NEW dir \in Orders(files), NEW shown, shown \subseteq DOMAIN dir,
         NEW route, route # "targets"
  PROVE  /\ FileItems(dir, shown) \in Seq(ItemsOf(route)) /\ ToSet(FileItems(dir, shown)) \subseteq Told(route)
         /\ Ids(FileItems(dir, shown)) = {dir[i].id : i \in shown}
<1> DEFINE order == Ascending(shown)
           G == [n \in shown |-> Newest(dir[n].id, dir[n].time)]
           list == FileItems(dir, shown)
<1>1. shown \in SUBSET Int /\ IsFiniteSet(shown)
  <2>1. DOMAIN dir = 1..Cardinality(files) /\ Cardinality(files) \in Int /\ 1 \in Int
    BY OrdersAreWhole
  <2>2. IsFiniteSet(DOMAIN dir) /\ DOMAIN dir \subseteq Int
    BY <2>1, FS_Interval
  <2> QED BY <2>2, FS_Subset
<1>2. order \in Seq(shown)
  BY <1>1, AscendingLists
<1>3. ToSet(order) = shown
  BY <1>1, AscendingLists
<1>4. list = [i \in DOMAIN order |-> Newest(dir[order[i]].id, dir[order[i]].time)]
  BY DEF FileItems
<1>5. ASSUME NEW n \in shown
      PROVE  /\ Newest(dir[n].id, dir[n].time) \in ItemsOf(route)
             /\ Newest(dir[n].id, dir[n].time).id = dir[n].id
             /\ Newest(dir[n].id, dir[n].time) \in Told(route)
  <2>1. dir[n] \in files
    BY OrdersAreWhole
  <2>2. dir[n].id \in Nat /\ dir[n].time \in Int
    BY <2>1 DEF ViewTypes, FileRecords
  <2> QED BY <2>1, <2>2, NewestIsAnItem DEF Told
<1> HIDE DEF order, list
<1>6. \A i \in DOMAIN order : order[i] \in shown
  <2>1. ToSet(order) = {order[i] : i \in DOMAIN order}
    BY <1>2, ListIsOfItsSet
  <2> QED BY <1>3, <2>1
<1>7. G \in [shown -> ItemsOf(route)]
  BY <1>5
<1>8. \A n \in shown : G[n] = Newest(dir[n].id, dir[n].time)
  OBVIOUS
<1>9. list \in [DOMAIN order -> ItemsOf(route)]
  BY <1>4, <1>5, <1>6
<1>10. \A i \in DOMAIN order : list[i] = G[order[i]]
  BY <1>4, <1>6
<1> HIDE DEF G
<1>11. list \in Seq(ItemsOf(route)) /\ ToSet(list) = {G[x] : x \in shown} /\ Ids(list) = {G[x].id : x \in shown}
  <2>1. IsMapped(list, G, order, shown, ItemsOf(route))
    BY <1>2, <1>3, <1>7, <1>9, <1>10 DEF IsMapped
  <2> QED BY <2>1, MappedList
<1>12. ToSet(list) \subseteq Told(route)
  BY <1>5, <1>8, <1>11
<1>13. Ids(list) = {dir[i].id : i \in shown}
  BY <1>5, <1>8, <1>11
<1> QED BY <1>11, <1>12, <1>13 DEF list

LEMMA TargetLists ==
  ASSUME ViewTypes, NEW processes \in Seen
  PROVE  TargetItems(processes) \in Seq(ItemsOf("targets"))
<1> DEFINE shown == {p \in DOMAIN processes : TargetMatches(processes[p])}
           order == Ascending(shown)
           list == TargetItems(processes)
<1>1. DOMAIN processes \subseteq 1..MaxId
  BY ConsoleViewsAssumption DEF Seen
<1>2. shown \in SUBSET Nat /\ shown \in SUBSET Int /\ \A p \in shown : p <= MaxId
  BY <1>1
<1>3. IsFiniteSet(shown)
  <2> HIDE DEF shown
  <2> QED BY <1>2, FS_BoundedSetOfNaturals, ConsoleViewsAssumption
<1>4. list = [i \in DOMAIN order |-> [id |-> order[i], rank |-> <<order[i], 0>>]]
  BY DEF TargetItems
<1> HIDE DEF shown
<1>5. order \in Seq(shown)
  BY <1>2, <1>3, AscendingLists
<1>6. Len(order) \in Nat /\ DOMAIN order = 1..Len(order)
  BY <1>5, ListIsOfItsSet
<1>7. \A i \in DOMAIN order : order[i] \in Nat
  <2>1. \A i \in 1..Len(order) : order[i] \in shown
    BY <1>5
  <2> QED BY <1>2, <1>6, <2>1
<1> HIDE DEF order, list
<1>8. \A i \in DOMAIN order : [id |-> order[i], rank |-> <<order[i], 0>>] \in ItemsOf("targets")
  BY <1>7 DEF ItemsOf
<1> QED BY <1>4, <1>6, <1>8 DEF list

LEMMA ExchangesAreFinite ==
  ASSUME ViewTypes, NEW p, Exchanges(p) # {}
  PROVE  Max({r.time : r \in Exchanges(p)}) \in Int
<1> DEFINE S == {r.time : r \in Exchanges(p)}
           f == [r \in files |-> r.time]
<1>1. Exchanges(p) \in SUBSET files /\ IsFiniteSet(files)
  BY DEF Exchanges, ViewTypes
<1>2. IsFiniteSet(Exchanges(p))
  BY <1>1, FS_Subset
<1>3. IsFiniteSet({f[r] : r \in Exchanges(p)})
  <2> HIDE DEF f
  <2> QED BY <1>2, ImageIsFinite
<1>4. S = {f[r] : r \in Exchanges(p)}
  BY <1>1
<1>5. S \in SUBSET Int /\ S # {}
  BY <1>1 DEF ViewTypes, FileRecords
<1>6. IsFiniteSet(S)
  BY <1>3, <1>4
<1> HIDE DEF S
<1>7. Max(S) \in S
  BY <1>5, <1>6, MaxAndMinAreIn
<1> QED BY <1>5, <1>7 DEF S

\* A list of the elements of a finite set, each as an item of its own.
LEMMA SetLists ==
  ASSUME NEW S, IsFiniteSet(S), NEW T, NEW G, G \in [S -> T],
         NEW q, q = [i \in DOMAIN SetToSeq(S) |-> G[SetToSeq(S)[i]]]
  PROVE  q \in Seq(T) /\ Ids(q) = {G[x].id : x \in S}
<1> DEFINE order == SetToSeq(S)
<1>1. order \in [1..Cardinality(S) -> S] /\ Cardinality(S) \in Nat /\ ToSet(order) = S
  BY ListOfASet
<1>2. q = [i \in DOMAIN order |-> G[order[i]]]
  OBVIOUS
<1> HIDE DEF order
<1>3. order \in Seq(S) /\ DOMAIN order = 1..Cardinality(S)
  BY <1>1
<1>4. \A i \in DOMAIN order : order[i] \in S
  BY <1>1, <1>3
<1>5. q \in [DOMAIN order -> T] /\ \A i \in DOMAIN order : q[i] = G[order[i]]
  BY <1>2, <1>4
<1>6. IsMapped(q, G, order, S, T)
  BY <1>1, <1>3, <1>5 DEF IsMapped
<1> QED BY <1>6, MappedList

LEMMA SessionLists ==
  ASSUME ViewTypes
  PROVE  /\ SessionItems \in Seq(ItemsOf("sessions"))
         /\ Ids(SessionItems) = {p \in Pids : SessionOfProcess(p)}
<1> DEFINE S == {p \in Pids : SessionOfProcess(p)}
           F(p) == Newest(p, Max({r.time : r \in Exchanges(p)}))
           G == [p \in S |-> F(p)]
<1>1. S \in SUBSET Nat /\ \A p \in S : p <= MaxId
  <2>1. Pids \subseteq 1..MaxId
    BY ConsoleViewsAssumption
  <2>2. \A p \in S : p \in 1..MaxId
    BY <2>1
  <2> HIDE DEF S
  <2> QED BY <2>2
<1>2. IsFiniteSet(S)
  <2> HIDE DEF S
  <2> QED BY <1>1, FS_BoundedSetOfNaturals, ConsoleViewsAssumption
<1>3. ASSUME NEW p \in S PROVE F(p) \in ItemsOf("sessions") /\ F(p).id = p
  <2>1. p \in Nat /\ Exchanges(p) # {}
    BY <1>1 DEF SessionOfProcess
  <2>2. Max({r.time : r \in Exchanges(p)}) \in Int
    BY <2>1, ExchangesAreFinite
  <2>3. "sessions" # "targets"
    OBVIOUS
  <2>4. PICK time \in Int : Max({r.time : r \in Exchanges(p)}) = time
    BY <2>2
  <2>5. Newest(p, time) \in ItemsOf("sessions") /\ Newest(p, time).id = p
    BY <2>1, <2>3, NewestIsAnItem
  <2> QED BY <2>4, <2>5
<1>4. SessionItems = [i \in DOMAIN SetToSeq(S) |-> F(SetToSeq(S)[i])]
  BY DEF SessionItems
<1>5. \A i \in DOMAIN SetToSeq(S) : SetToSeq(S)[i] \in S
  <2> HIDE DEF S
  <2> QED BY <1>2, ListOfASet
<1> HIDE DEF S, F
<1>6. G \in [S -> ItemsOf("sessions")] /\ \A p \in S : G[p] = F(p) /\ G[p].id = p
  BY <1>3
<1>7. SessionItems = [i \in DOMAIN SetToSeq(S) |-> G[SetToSeq(S)[i]]]
  BY <1>4, <1>5
<1> HIDE DEF G
<1>8. SessionItems \in Seq(ItemsOf("sessions")) /\ Ids(SessionItems) = {G[x].id : x \in S}
  BY <1>2, <1>6, <1>7, SetLists
<1>9. {G[x].id : x \in S} = S
  BY <1>6
<1> QED BY <1>8, <1>9 DEF S

LEMMA RolloutLists ==
  ASSUME ViewTypes
  PROVE  /\ RolloutItems \in Seq(ItemsOf("sessions"))
         /\ Ids(RolloutItems) = {EventId(Min(EventsOf(t))) : t \in {t \in Rollouts : SessionOfRollout(t)}}
<1> DEFINE S == {t \in Rollouts : SessionOfRollout(t)}
           F(t) == Newest(EventId(Min(EventsOf(t))), log[Max(EventsOf(t))].time)
           G == [t \in S |-> F(t)]
<1>1. IsFiniteSet(S)
  <2>1. S \in SUBSET (Rollouts \cup Observers) /\ IsFiniteSet(Rollouts \cup Observers)
    BY ConsoleViewsAssumption
  <2> HIDE DEF S
  <2> QED BY <2>1, FS_Subset
<1>2. ASSUME NEW t \in S
      PROVE  F(t) \in ItemsOf("sessions") /\ F(t).id = EventId(Min(EventsOf(t)))
  <2>1. EventsOf(t) \in SUBSET DOMAIN log /\ EventsOf(t) # {}
    BY IndexIsOfTheLog DEF EventsOf, SessionOfRollout
  <2>2. EventsOf(t) \in SUBSET Int /\ IsFiniteSet(EventsOf(t))
    BY <2>1, LogIsTyped, FS_Subset
  <2>3. Min(EventsOf(t)) \in EventsOf(t) /\ Max(EventsOf(t)) \in EventsOf(t)
    BY <2>1, <2>2, MaxAndMinAreIn
  <2>4. Min(EventsOf(t)) \in DOMAIN log /\ Max(EventsOf(t)) \in DOMAIN log
    BY <2>1, <2>3
  <2>5. EventId(Min(EventsOf(t))) \in Nat /\ log[Max(EventsOf(t))].time \in Int
    BY <2>4, LogIsTyped, ConsoleViewsAssumption DEF EventId, EventRecords
  <2> QED BY <2>5, NewestIsAnItem
<1>3. RolloutItems = [i \in DOMAIN SetToSeq(S) |-> F(SetToSeq(S)[i])]
  BY DEF RolloutItems
<1>4. \A i \in DOMAIN SetToSeq(S) : SetToSeq(S)[i] \in S
  <2> HIDE DEF S
  <2> QED BY <1>1, ListOfASet
<1> HIDE DEF S, F
<1>5. G \in [S -> ItemsOf("sessions")] /\ \A t \in S : G[t] = F(t) /\ G[t].id = EventId(Min(EventsOf(t)))
  BY <1>2
<1>6. RolloutItems = [i \in DOMAIN SetToSeq(S) |-> G[SetToSeq(S)[i]]]
  BY <1>3, <1>4
<1> HIDE DEF G
<1>7. RolloutItems \in Seq(ItemsOf("sessions")) /\ Ids(RolloutItems) = {G[x].id : x \in S}
  BY <1>1, <1>5, <1>6, SetLists
<1>8. {G[x].id : x \in S} = {EventId(Min(EventsOf(t))) : t \in S}
  BY <1>5
<1> QED BY <1>7, <1>8 DEF S

\* What is added to a list is due to it.
LEMMA LaterIsDue ==
  ASSUME ViewTypes, NEW route \in Routes
  PROVE  /\ Later(route) \in Seq(ItemsOf(route))
         /\ Ids(Later(route)) \subseteq Due(route)
         /\ route # "sessions" => ToSet(Later(route)) \subseteq Told(route)
<1>1. CASE route = "targets"
  <2>1. Later(route) = ObserverTargets /\ Due(route) = IF Observed = <<>> THEN {} ELSE {0}
    BY <1>1 DEF Later, Due
  <2>2. ObserverTargets \in Seq(ItemsOf("targets")) /\ Ids(ObserverTargets) = Due(route)
    BY <2>1, ObserverTargetsList
  <2>3. ToSet(ObserverTargets) \subseteq ItemsOf("targets")
    BY <2>2, ListIsOfItsSet
  <2> QED BY <1>1, <2>1, <2>2, <2>3 DEF Told
<1>2. CASE route = "activity"
  <2>1. /\ Later(route) = Observed
        /\ Due(route) = EventIds(Observers, DOMAIN log)
    BY <1>2 DEF Later, Due
  <2>2. route # "targets"
    BY <1>2
  <2>3. /\ Observed \in Seq(ItemsOf(route)) /\ ToSet(Observed) \subseteq Told(route)
        /\ Ids(Observed) = EventIds(Observers, DOMAIN log)
    BY <2>2, EventLists DEF Observed
  <2> QED BY <2>1, <2>3
<1>3. CASE route = "requests"
  <2>1. Later(route) = EventItems(Sources, Indexed)
    BY <1>3 DEF Later
  <2>2. EventIds(Sources, Indexed) \subseteq Due(route)
    BY <1>3 DEF Due
  <2>3. route # "targets"
    BY <1>3
  <2>4. /\ EventItems(Sources, Indexed) \in Seq(ItemsOf(route))
        /\ ToSet(EventItems(Sources, Indexed)) \subseteq Told(route)
        /\ Ids(EventItems(Sources, Indexed)) = EventIds(Sources, Indexed)
    BY <2>3, IndexIsOfTheLog, EventLists
  <2> QED BY <2>1, <2>2, <2>4
<1>4. CASE route = "sessions"
  <2>1. /\ Later(route) = RolloutItems
        /\ {EventId(Min(EventsOf(t))) : t \in {t \in Rollouts : SessionOfRollout(t)}} \subseteq Due(route)
    BY <1>4 DEF Later, Due
  <2> QED BY <1>4, <2>1, RolloutLists
<1> QED BY <1>1, <1>2, <1>3, <1>4 DEF Routes

\* What is due to a list is in what the snapshot looks at, however the files
\* are found.
LEMMA AllDueIsSeen ==
  ASSUME ViewTypes, NEW route \in Routes, NEW dir \in Orders(files), NEW processes \in Seen
  PROVE  /\ Earlier(route, dir, processes) \in Seq(ItemsOf(route))
         /\ Due(route) \subseteq Ids(Earlier(route, dir, processes)) \cup Ids(Later(route))
         /\ route # "sessions" => ToSet(Earlier(route, dir, processes)) \subseteq Told(route)
<1>1. CASE route = "targets"
  <2>1. Earlier(route, dir, processes) = TargetItems(processes) /\ Later(route) = ObserverTargets
    BY <1>1 DEF Earlier, Later
  <2>2. TargetItems(processes) \in Seq(ItemsOf("targets"))
    BY TargetLists
  <2>3. ToSet(TargetItems(processes)) \subseteq Told(route)
    BY <1>1, <2>2, ListIsOfItsSet DEF Told
  <2>4. Due(route) = Ids(ObserverTargets)
    BY <1>1, ObserverTargetsList DEF Due
  <2> QED BY <1>1, <2>1, <2>2, <2>3, <2>4
<1>2. CASE route = "activity"
  <2>1. /\ Earlier(route, dir, processes) = ActivityOfRequests(dir, processes)
        /\ Later(route) = Observed
        /\ Due(route) = EventIds(Observers, DOMAIN log)
    BY <1>2 DEF Earlier, Later, Due
  <2>0. route # "targets"
    BY <1>2
  <2>2. Due(route) = Ids(Observed)
    BY <2>0, <2>1, EventLists DEF Observed
  <2>3. PICK shown : shown \subseteq DOMAIN dir /\ ActivityOfRequests(dir, processes) = FileItems(dir, shown)
    BY DEF ActivityOfRequests, Readable
  <2> QED BY <2>0, <2>1, <2>2, <2>3, FileLists
<1>3. CASE route = "requests"
  <2>1. /\ Earlier(route, dir, processes) = FileItems(dir, Matching(dir))
        /\ Later(route) = EventItems(Sources, Indexed)
    BY <1>3 DEF Earlier, Later, RequestItems
  <2>2. Matching(dir) \subseteq DOMAIN dir
    BY DEF Matching, Readable
  <2>3. /\ FileItems(dir, Matching(dir)) \in Seq(ItemsOf(route))
        /\ ToSet(FileItems(dir, Matching(dir))) \subseteq Told(route)
        /\ Ids(FileItems(dir, Matching(dir))) = {dir[i].id : i \in Matching(dir)}
    BY <1>3, <2>2, FileLists
  <2>4. ASSUME NEW r \in files, r.whole /\ RequestMatches(r)
        PROVE  r.id \in Ids(FileItems(dir, Matching(dir)))
    <3>1. PICK i \in DOMAIN dir : dir[i] = r
      BY OrdersAreWhole
    <3> QED BY <2>3, <2>4, <3>1 DEF Matching, Readable
  <2>5. Ids(EventItems(Sources, Indexed)) = EventIds(Sources, Indexed)
    <3>1. route # "targets"
      BY <1>3
    <3> QED BY <3>1, IndexIsOfTheLog, EventLists
  <2>6. Due(route) = {r.id : r \in {r \in files : r.whole /\ RequestMatches(r)}}
                       \cup EventIds(Sources, Indexed)
    BY <1>3 DEF Due
  <2>7. Due(route) \subseteq Ids(FileItems(dir, Matching(dir))) \cup Ids(EventItems(Sources, Indexed))
    BY <2>4, <2>5, <2>6
  <2> QED BY <2>1, <2>3, <2>7
<1>4. CASE route = "sessions"
  <2>1. /\ Earlier(route, dir, processes) = SessionItems /\ Later(route) = RolloutItems
        /\ Due(route) = {p \in Pids : SessionOfProcess(p)}
             \cup {EventId(Min(EventsOf(t))) : t \in {t \in Rollouts : SessionOfRollout(t)}}
    BY <1>4 DEF Earlier, Later, Due
  <2> QED BY <1>4, <2>1, SessionLists, RolloutLists
<1> QED BY <1>1, <1>2, <1>3, <1>4 DEF Routes

LEMMA FilterHolds ==
  ASSUME ViewTypes
  PROVE  OpenedIsListed
<1> SUFFICES ASSUME NEW dir \in Orders(files), NEW r \in files, RequestOpens(dir, r.id)
             PROVE  r.id \in Ids(RequestItems(dir))
  BY DEF OpenedIsListed
<1>1. PICK i \in Meets(dir, r.id) : dir[i].whole /\ RequestMatches(dir[i])
  BY DEF RequestOpens
<1>2. i \in Matching(dir) /\ dir[i].id = r.id
  BY <1>1 DEF Meets, Matching, Readable
<1>3. Matching(dir) \subseteq DOMAIN dir
  BY DEF Matching, Readable
<1>4. Ids(FileItems(dir, Matching(dir))) = {dir[k].id : k \in Matching(dir)}
  <2>1. "requests" # "targets"
    OBVIOUS
  <2> QED BY <1>3, <2>1, FileLists
<1>5. r.id \in Ids(FileItems(dir, Matching(dir)))
  BY <1>2, <1>4
<1> QED BY <1>5 DEF RequestItems

LEMMA TimesAreNatural ==
  ASSUME ViewTypes, NEW time \in Times
  PROVE  time \in Nat
<1> DEFINE f == [r \in files |-> r.time]
           g == [n \in DOMAIN log |-> log[n].time]
           S == {0} \cup {r.time : r \in files} \cup {e.time : e \in ToSet(log)}
<1>1. IsFiniteSet({r.time : r \in files})
  <2>1. IsFiniteSet(files)
    BY DEF ViewTypes
  <2>2. IsFiniteSet({f[r] : r \in files})
    <3> HIDE DEF f
    <3> QED BY <2>1, ImageIsFinite
  <2> QED BY <2>2
<1>2. IsFiniteSet({e.time : e \in ToSet(log)})
  <2>1. IsFiniteSet({g[n] : n \in DOMAIN log})
    <3> HIDE DEF g
    <3> QED BY LogIsTyped, ImageIsFinite
  <2>2. {e.time : e \in ToSet(log)} = {g[n] : n \in DOMAIN log}
    BY DEF ToSet
  <2> QED BY <2>1, <2>2
<1>3. IsFiniteSet({0})
  BY FS_Singleton
<1>4. IsFiniteSet(S)
  <2>1. IsFiniteSet({0} \cup {r.time : r \in files})
    BY <1>1, <1>3, FS_Union
  <2> QED BY <1>2, <2>1, FS_Union
<1>5. S \in SUBSET Nat /\ S # {}
  <2>1. \A r \in files : r.time \in Nat
    BY DEF ViewTypes, FileRecords
  <2>2. \A e \in ToSet(log) : e.time \in Nat
    BY LogIsTyped DEF ToSet, EventRecords
  <2> QED BY <2>1, <2>2
<1>6. Now = Max(S)
  BY DEF Now
<1> HIDE DEF S
<1>7. S \in SUBSET Int
  BY <1>5
<1>8. Now \in Nat
  BY <1>4, <1>5, <1>6, <1>7, MaxAndMinAreIn
<1> QED BY <1>8 DEF Times

LEMMA WorldStep ==
  ASSUME ViewTypes, [Next]_vars
  PROVE  ViewTypes' /\ \A route : Told(route) \subseteq Told(route)'
<1>1. CASE UNCHANGED <<running, files, log>> /\ covered' \in 0 .. Len(log)
  BY <1>1 DEF ViewTypes, Written, Told, EventItem
<1>2. ASSUME NEW p \in Pids, Process(p)
      PROVE  ViewTypes' /\ \A route : Told(route) \subseteq Told(route)'
  BY <1>2 DEF Process, disk, ViewTypes, Written, Told, EventItem
<1>3. ASSUME NEW p \in Pids, Capture(p)
      PROVE  ViewTypes' /\ \A route : Told(route) \subseteq Told(route)'
  <2>1. PICK time \in Times, whole \in BOOLEAN :
          files' = files \cup {[id |-> Cardinality(files) + 1, pid |-> p,
                                app |-> running[p], time |-> time, whole |-> whole]}
    BY <1>3 DEF Capture
  <2> DEFINE new == [id |-> Cardinality(files) + 1, pid |-> p,
                     app |-> running[p], time |-> time, whole |-> whole]
  <2>2. /\ running[p] # NotRunning /\ Written < MaxWrites /\ IsFiniteSet(files)
        /\ UNCHANGED <<running, log, covered>> /\ time \in Nat /\ new.id = Cardinality(files) + 1
    BY <1>3, TimesAreNatural DEF Capture, ViewTypes
  <2>3. Cardinality(files) \in Nat /\ Len(log) \in Nat /\ MaxId \in Nat /\ MaxWrites \in 0..MaxId
    BY <2>2, FS_CardinalityType, LogIsTyped, ConsoleViewsAssumption
  <2>4. new.id \in 1..MaxId /\ Cardinality(files) + 1 + Len(log) <= MaxId
    BY <2>2, <2>3 DEF Written
  <2>5. new \in FileRecords
    BY <2>2, <2>4 DEF FileRecords, ViewTypes
  <2>6. \A r \in files : r.id \in Int /\ r.id <= Cardinality(files)
    BY DEF ViewTypes, FileRecords
  <2>7. \A r \in files : r.id # new.id
    BY <2>2, <2>3, <2>6
  <2>8. files' = files \cup {new}
    BY <2>1
  <2> HIDE DEF new
  <2>9. new \notin files
    BY <2>7
  <2>10. IsFiniteSet(files') /\ Cardinality(files') = Cardinality(files) + 1
    BY <2>2, <2>8, <2>9, FS_AddElement
  <2>11. \A r \in files' : r.id <= Cardinality(files')
    BY <2>2, <2>3, <2>6, <2>8, <2>10
  <2>12. \A r, s \in files' : r.id = s.id => r = s
    BY <2>7, <2>8 DEF ViewTypes
  <2>13. ViewTypes'
    BY <2>2, <2>4, <2>5, <2>8, <2>10, <2>11, <2>12 DEF ViewTypes, Written
  <2>14. \A route : Told(route) \subseteq Told(route)'
    BY <2>2, <2>8 DEF Told, EventItem
  <2> QED BY <2>13, <2>14
<1>4. ASSUME NEW r \in files, FileIsWritten(r)
      PROVE  ViewTypes' /\ \A route : Told(route) \subseteq Told(route)'
  <2> DEFINE new == [r EXCEPT !.whole = TRUE]
             rest == files \ {r}
  <2>1. /\ files' = rest \cup {new} /\ UNCHANGED <<running, log, covered>> /\ IsFiniteSet(files)
        /\ rest \in SUBSET files
    BY <1>4 DEF FileIsWritten, ViewTypes
  <2>2. r \in FileRecords
    BY DEF ViewTypes
  <2>3. new \in FileRecords /\ new.id = r.id /\ new.time = r.time
    BY <2>2 DEF FileRecords
  <2>4. \A s \in rest : s.id # r.id
    BY DEF ViewTypes
  <2>5. IsFiniteSet(rest) /\ Cardinality(rest) = Cardinality(files) - 1
    BY <2>1, FS_RemoveElement
  <2>6. Cardinality(files) \in Nat
    BY <2>1, FS_CardinalityType
  <2> HIDE DEF new, rest
  <2>7. new \notin rest
    BY <2>3, <2>4
  <2>8. IsFiniteSet(files') /\ Cardinality(files') = Cardinality(rest) + 1
    BY <2>1, <2>5, <2>7, FS_AddElement
  <2>9. Cardinality(files') = Cardinality(files)
    BY <2>5, <2>6, <2>8
  <2>10. \A s \in files' : s.id <= Cardinality(files')
    BY <2>1, <2>3, <2>9 DEF ViewTypes
  <2>11. \A s, t \in files' : s.id = t.id => s = t
    BY <2>1, <2>3, <2>4 DEF ViewTypes
  <2>12. ViewTypes'
    BY <2>1, <2>3, <2>8, <2>9, <2>10, <2>11 DEF ViewTypes, Written
  <2>13. \A s \in files : \E t \in files' : t.id = s.id /\ t.time = s.time
    BY <2>1, <2>3 DEF rest
  <2>14. {Newest(s.id, s.time) : s \in files} \subseteq {Newest(s.id, s.time) : s \in files'}
    BY <2>13
  <2>15. \A route : Told(route) \subseteq Told(route)'
    BY <2>1, <2>14 DEF Told, EventItem
  <2> QED BY <2>12, <2>15
<1>5. ASSUME NEW s \in Sources, Observe(s)
      PROVE  ViewTypes' /\ \A route : Told(route) \subseteq Told(route)'
  <2>1. PICK time \in Times, hit \in BOOLEAN :
          log' = Append(log, [source |-> s, time |-> time, hit |-> hit])
    BY <1>5 DEF Observe
  <2> DEFINE new == [source |-> s, time |-> time, hit |-> hit]
  <2>2. Written < MaxWrites /\ UNCHANGED <<running, files, covered>> /\ time \in Nat /\ IsFiniteSet(files)
    BY <1>5, TimesAreNatural DEF Observe, ViewTypes
  <2>3. new \in EventRecords /\ log \in Seq(EventRecords) /\ log' = Append(log, new)
    BY <2>1, <2>2 DEF EventRecords, ViewTypes
  <2> HIDE DEF new
  <2>4. /\ log' \in Seq(EventRecords) /\ Len(log') = Len(log) + 1
        /\ \A n \in 1..Len(log) : log'[n] = log[n]
    BY <2>3, AppendProperties
  <2>5. Cardinality(files) \in Nat /\ Len(log) \in Nat /\ MaxId \in Nat /\ MaxWrites \in 0..MaxId
    BY <2>2, FS_CardinalityType, LogIsTyped, ConsoleViewsAssumption
  <2>6. Cardinality(files) + Len(log') <= MaxId
    BY <2>2, <2>4, <2>5 DEF Written
  <2>7. ViewTypes'
    <3>1. covered' \in 0 .. Len(log')
      BY <2>2, <2>4, <2>5 DEF ViewTypes
    <3> QED BY <2>2, <2>4, <2>6, <3>1 DEF ViewTypes, Written
  <2>8. \A n \in DOMAIN log : n \in DOMAIN log' /\ log'[n] = log[n]
    <3>1. DOMAIN log = 1..Len(log) /\ DOMAIN log' = 1..(Len(log) + 1)
      BY <2>3, <2>4
    <3> QED BY <2>4, <2>5, <3>1
  <2>9. \A route : Told(route) \subseteq Told(route)'
    BY <2>2, <2>8 DEF Told, EventItem
  <2> QED BY <2>7, <2>9
<1>6. CASE \/ \E route \in Routes : Ask(route)
           \/ Answer \/ IndexIsWritten \/ StateDbFailsOrAnswers \/ UNCHANGED vars
  <2>1. UNCHANGED <<running, files, log>> /\ covered' \in {covered} \cup 0 .. Len(log)
    BY <1>6 DEF Ask, Answer, IndexIsWritten, StateDbFailsOrAnswers, world, disk, vars
  <2>2. covered' \in 0 .. Len(log)
    BY <2>1 DEF ViewTypes
  <2> QED BY <1>1, <2>1, <2>2
<1> QED BY <1>2, <1>3, <1>4, <1>5, <1>6 DEF Next

\* The snapshot a connection waits with, and the last list that was answered,
\* are of items, and unless they are of sessions, of items as they are now.
SnapshotIsTold ==
  handler # Idle =>
    /\ handler.route \in Routes /\ handler.snapshot \in Seq(ItemsOf(handler.route))
    /\ handler.route # "sessions" => ToSet(handler.snapshot) \subseteq Told(handler.route)

ResponseIsTold ==
  /\ DOMAIN response.items \subseteq Int /\ SortedItems(response.items)
  /\ response.route # "sessions" => \A i \in DOMAIN response.items : response.items[i] \in Told(response.route)

ViewsInv == ViewTypes /\ SnapshotIsTold /\ ResponseIsTold

\* What the snapshot of a question and the answer to it hold.
LEMMA AskGivesAll ==
  ASSUME ViewTypes, NEW route \in Routes, Ask(route)
  PROVE  /\ handler' # Idle /\ handler'.route = route
         /\ handler'.snapshot \in Seq(ItemsOf(route))
         /\ Due(route) \subseteq Ids(handler'.snapshot)
         /\ route # "sessions" => ToSet(handler'.snapshot) \subseteq Told(route)
<1>1. PICK dir \in Orders(files), processes \in Seen :
        handler' = [at |-> "asked", route |-> route,
                    snapshot |-> Merged(Earlier(route, dir, processes) \o Later(route))]
  BY DEF Ask
<1>2. PICK a \in Seq(ItemsOf(route)) : a = Earlier(route, dir, processes)
  BY AllDueIsSeen
<1>3. PICK b \in Seq(ItemsOf(route)) : b = Later(route)
  BY LaterIsDue
<1>4. /\ Due(route) \subseteq Ids(a) \cup Ids(b)
      /\ route # "sessions" => ToSet(a) \subseteq Told(route) /\ ToSet(b) \subseteq Told(route)
  BY <1>2, <1>3, AllDueIsSeen, LaterIsDue
<1>5. a \o b \in Seq(ItemsOf(route)) /\ ToSet(a \o b) = ToSet(a) \cup ToSet(b) /\ Ids(a \o b) = Ids(a) \cup Ids(b)
  BY JoinedLists
<1>6. PICK c \in Seq(ItemsOf(route)) : c = a \o b
  BY <1>5
<1>7. Merged(c) \in Seq(ItemsOf(route)) /\ Ids(Merged(c)) = Ids(c) /\ ToSet(Merged(c)) \subseteq ToSet(c)
  BY MergedKeepsTheIds
<1>8. handler' = [at |-> "asked", route |-> route, snapshot |-> Merged(c)]
  BY <1>1, <1>2, <1>3, <1>6
<1>9. handler' # Idle /\ handler'.route = route /\ handler'.snapshot = Merged(c)
  <2>1. handler'.at = "asked" /\ Idle.at = "idle"
    BY <1>8 DEF Idle
  <2> QED BY <1>8, <2>1
<1> QED BY <1>4, <1>5, <1>6, <1>7, <1>9

LEMMA AnswerGivesBoth ==
  ASSUME ViewTypes, SnapshotIsTold, Answer
  PROVE  /\ response'.route = handler.route /\ handler' = Idle
         /\ DOMAIN response'.items \subseteq Int /\ SortedItems(response'.items)
         /\ Ids(handler.snapshot) \subseteq Ids(response'.items)
         /\ Ids(response'.items) \subseteq Ids(handler.snapshot) \cup Due(handler.route)
         /\ handler.route # "sessions" => ToSet(response'.items) \subseteq Told(handler.route)
<1>1. PICK route \in Routes : route = handler.route
  BY DEF Answer, SnapshotIsTold
<1>2. PICK a \in Seq(ItemsOf(route)) : a = handler.snapshot
  BY <1>1 DEF Answer, SnapshotIsTold
<1>3. PICK b \in Seq(ItemsOf(route)) : b = Later(route)
  BY LaterIsDue
<1>4. /\ Ids(b) \subseteq Due(route)
      /\ route # "sessions" => ToSet(a) \subseteq Told(route) /\ ToSet(b) \subseteq Told(route)
  BY <1>1, <1>2, <1>3, LaterIsDue DEF Answer, SnapshotIsTold
<1>5. a \o b \in Seq(ItemsOf(route)) /\ ToSet(a \o b) = ToSet(a) \cup ToSet(b) /\ Ids(a \o b) = Ids(a) \cup Ids(b)
  BY JoinedLists
<1>6. PICK c \in Seq(ItemsOf(route)) : c = a \o b
  BY <1>5
<1>7. /\ Ids(Merged(c)) = Ids(c) /\ ToSet(Merged(c)) \subseteq ToSet(c) /\ SortedItems(Merged(c))
      /\ Merged(c) \in Seq(ItemsOf(route))
  BY MergedKeepsTheIds
<1>8. response' = [route |-> route, items |-> Merged(c)] /\ handler' = Idle
  BY <1>1, <1>2, <1>3, <1>6 DEF Answer
<1>9. response'.route = route /\ response'.items = Merged(c)
  BY <1>8
<1> QED BY <1>1, <1>2, <1>4, <1>5, <1>6, <1>7, <1>8, <1>9

LEMMA ViewsStart == Init => ViewsInv
<1> SUFFICES ASSUME Init PROVE ViewsInv
  OBVIOUS
<1>1. IsFiniteSet({}) /\ Cardinality({}) = 0
  BY FS_EmptySet
<1>2. files = {} /\ log = <<>> /\ covered = 0 /\ handler = Idle /\ response.items = <<>>
      /\ running \in [Pids -> Apps \cup {NotRunning}]
  BY DEF Init
<1>3. Len(log) = 0 /\ log \in Seq(EventRecords)
  BY <1>2
<1>4. ViewTypes
  BY <1>1, <1>2, <1>3, ConsoleViewsAssumption DEF ViewTypes, Written
<1> QED BY <1>2, <1>4 DEF ViewsInv, SnapshotIsTold, ResponseIsTold, SortedItems

LEMMA ViewsStep ==
  ASSUME ViewsInv, [Next]_vars
  PROVE  ViewsInv'
<1>1. ViewTypes /\ SnapshotIsTold /\ ResponseIsTold
  BY DEF ViewsInv
<1>2. ViewTypes' /\ \A route : Told(route) \subseteq Told(route)'
  BY <1>1, WorldStep
<1>3. handler' = handler => SnapshotIsTold'
  BY <1>1, <1>2 DEF SnapshotIsTold
<1>4. response' = response => ResponseIsTold'
  BY <1>1, <1>2 DEF ResponseIsTold
<1>5. CASE UNCHANGED <<handler, response>>
  BY <1>2, <1>3, <1>4, <1>5 DEF ViewsInv
<1>6. ASSUME NEW route \in Routes, Ask(route) PROVE ViewsInv'
  <2>1. /\ handler'.route = route /\ handler'.snapshot \in Seq(ItemsOf(route))
        /\ route # "sessions" => ToSet(handler'.snapshot) \subseteq Told(route)
    BY <1>1, <1>6, AskGivesAll
  <2>2. route # "sessions" => ToSet(handler'.snapshot) \subseteq Told(route)'
    BY <1>2, <2>1
  <2>3. SnapshotIsTold'
    BY <2>1, <2>2 DEF SnapshotIsTold
  <2>4. response' = response
    BY <1>6 DEF Ask
  <2> QED BY <1>2, <1>4, <2>3, <2>4 DEF ViewsInv
<1>7. CASE Answer
  <2>1. /\ response'.route = handler.route /\ handler' = Idle
        /\ DOMAIN response'.items \subseteq Int /\ SortedItems(response'.items)
        /\ handler.route # "sessions" => ToSet(response'.items) \subseteq Told(handler.route)
    BY <1>1, <1>7, AnswerGivesBoth
  <2>2. SnapshotIsTold'
    BY <2>1 DEF SnapshotIsTold
  <2>3. PICK route : route = handler.route
    OBVIOUS
  <2>4. response'.route = route /\ (route # "sessions" => ToSet(response'.items) \subseteq Told(route)')
    BY <1>2, <2>1, <2>3
  <2>5. ResponseIsTold'
    <3>1. \A i \in DOMAIN response'.items : response'.items[i] \in ToSet(response'.items)
      BY DEF ToSet
    <3> QED BY <2>1, <2>4, <3>1 DEF ResponseIsTold, SortedItems
  <2> QED BY <1>2, <2>2, <2>5 DEF ViewsInv
<1> QED BY <1>5, <1>6, <1>7 DEF Next, Process, Capture, FileIsWritten, Observe,
      IndexIsWritten, StateDbFailsOrAnswers, disk, vars

\* Items with one id are one item, wherever they were told.
LEMMA ToldOnce ==
  ASSUME ViewTypes, NEW route, NEW x \in Told(route), NEW y \in Told(route), x.id = y.id
  PROVE  x.rank = y.rank
<1>1. CASE route = "targets"
  BY <1>1 DEF Told, ItemsOf
<1>2. CASE route # "targets"
  <2> DEFINE OfFile(z, r) == z.id = r.id /\ z.rank = <<-r.time, r.id>>
             OfEvent(z, n) == z.id = MaxId + n /\ z.rank = <<-log[n].time, MaxId + n>>
  <2>1. ASSUME NEW z \in Told(route)
        PROVE  (\E r \in files : OfFile(z, r)) \/ (\E n \in DOMAIN log : OfEvent(z, n))
    BY <1>2, <2>1 DEF Told, Newest, EventItem, EventId
  <2>2. \A r \in files : r.id \in 1..MaxId
    BY DEF ViewTypes, FileRecords
  <2>3. MaxId \in Nat /\ \A n \in DOMAIN log : n \in Nat \ {0}
    BY LogIsTyped, ConsoleViewsAssumption
  <2>4. \A r \in files, n \in DOMAIN log : r.id # MaxId + n
    BY <2>2, <2>3
  <2>5. CASE \E r \in files : OfFile(x, r)
    BY <2>1, <2>4, <2>5 DEF ViewTypes
  <2>6. CASE \E n \in DOMAIN log : OfEvent(x, n)
    <3>1. PICK k \in DOMAIN log : OfEvent(x, k)
      BY <2>6
    <3>2. ~ \E r \in files : OfFile(y, r)
      BY <2>4, <3>1
    <3>3. PICK m \in DOMAIN log : OfEvent(y, m)
      BY <2>1, <3>2
    <3>4. k \in Int /\ m \in Int
      BY <2>3
    <3>5. MaxId + k = MaxId + m
      BY <3>1, <3>3
    <3>6. k = m
      BY <2>3, <3>4, <3>5
    <3> QED BY <3>1, <3>3, <3>6
  <2> QED BY <2>1, <2>5, <2>6
<1> QED BY <1>1, <1>2

LEMMA ToldAreItems ==
  ASSUME ViewTypes, NEW route
  PROVE  Told(route) \subseteq ItemsOf(route)
<1>1. CASE route = "targets"
  BY <1>1 DEF Told
<1>2. CASE route # "targets"
  <2>1. ASSUME NEW r \in files PROVE Newest(r.id, r.time) \in ItemsOf(route)
    <3>1. r.id \in Nat /\ r.time \in Int
      BY DEF ViewTypes, FileRecords
    <3> QED BY <1>2, <3>1, NewestIsAnItem
  <2>2. \A n \in DOMAIN log : EventItem(n) \in ItemsOf(route)
    BY <1>2, EventItemIsAnItem
  <2> QED BY <1>2, <2>1, <2>2 DEF Told
<1> QED BY <1>1, <1>2

\* Two sorted lists of what is told now show what both have in one order.
LEMMA ListsAgree ==
  ASSUME ViewTypes, NEW route,
         NEW q, SortedItems(q), \A i \in DOMAIN q : q[i] \in Told(route),
         NEW t, SortedItems(t), \A k \in DOMAIN t : t[k] \in Told(route), DOMAIN t \subseteq Int,
         NEW i \in DOMAIN q, NEW j \in DOMAIN q, NEW k \in DOMAIN t, NEW l \in DOMAIN t,
         q[i].id = t[k].id, q[j].id = t[l].id, i < j
  PROVE  k < l
<1>1. q[i].rank = t[k].rank /\ q[j].rank = t[l].rank
  BY ToldOnce
<1>2. Before(t[k].rank, t[l].rank)
  BY <1>1 DEF SortedItems
<1>3. t[k] \in ItemsOf(route) /\ t[l] \in ItemsOf(route)
  BY ToldAreItems
<1>4. /\ t[k].rank[1] \in Int /\ t[k].rank[2] \in Int
      /\ t[l].rank[1] \in Int /\ t[l].rank[2] \in Int
  BY <1>3 DEF ItemsOf
<1>5. ~Before(t[l].rank, t[k].rank) /\ t[k].rank # t[l].rank
  BY <1>2, <1>4 DEF Before
<1>6. ~(l < k) /\ k # l
  BY <1>5 DEF SortedItems
<1> QED BY <1>6

ListsAreWholeHere ==
  /\ handler = Idle /\ handler' # Idle => Due(handler'.route) \subseteq Ids(handler'.snapshot)
  /\ handler # Idle /\ handler' = Idle =>
       /\ Ids(handler.snapshot) \subseteq Ids(response'.items)
       /\ Ids(response'.items) \subseteq Ids(handler.snapshot) \cup Due(handler.route)
  /\ files' # files => OpenedIsListed'

LEMMA StepsOfViews ==
  ASSUME [FilesNext]_filesVars
  PROVE  [Next]_vars
BY DEF FilesNext, filesVars, vars

\* For any processes, rollouts and observers, with or without a filter, and an index
\* of any age: whatever runs, is captured, observed or indexed between the two looks
\* that a list is put together from, the list has all that could be read at the
\* first, as far as artifacts, index and state database told of it, and nothing that
\* neither look was told of, and no request opens that it leaves out
\* (collect_activity_items, load_request_summaries, load_request_detail).
THEOREM ListsHaveAll == FilesSpec => ListsAreWhole
<1>1. FilesInit => ViewsInv
  BY ViewsStart DEF FilesInit
<1>2. ViewsInv /\ [FilesNext]_filesVars => ViewsInv'
  BY ViewsStep, StepsOfViews
<1>3. ViewsInv => OpenedIsListed
  BY FilterHolds DEF ViewsInv
<1>4. ViewsInv /\ OpenedIsListed' /\ [FilesNext]_filesVars => [ListsAreWholeHere]_vars
  <2> SUFFICES ASSUME ViewsInv, OpenedIsListed', [FilesNext]_filesVars
               PROVE  [ListsAreWholeHere]_vars
    OBVIOUS
  <2>1. ViewTypes /\ SnapshotIsTold
    BY DEF ViewsInv
  <2>2. CASE \E route \in Routes : Ask(route)
    <3>1. PICK route \in Routes : Ask(route)
      BY <2>2
    <3>2. handler = Idle /\ files' = files
      BY <3>1 DEF Ask, world, disk
    <3> QED BY <2>1, <3>1, <3>2, AskGivesAll DEF ListsAreWholeHere
  <2>3. CASE Answer
    <3>1. handler # Idle /\ files' = files
      BY <2>3 DEF Answer, world, disk
    <3> QED BY <2>1, <2>3, <3>1, AnswerGivesBoth DEF ListsAreWholeHere
  <2>4. CASE handler' = handler
    BY <2>4 DEF ListsAreWholeHere
  <2>5. [Next]_vars
    BY StepsOfViews
  <2> QED BY <2>2, <2>3, <2>4, <2>5 DEF Next, Process, Capture, FileIsWritten, Observe,
      IndexIsWritten, StateDbFailsOrAnswers, disk, vars
<1> QED BY <1>1, <1>2, <1>3, <1>4, PTL DEF FilesSpec, ListsAreWhole, ListsAreWholeHere

OrderIsKept ==
  response'.route = response.route /\ response.route # "sessions" =>
    \A i, j \in DOMAIN response.items, k, l \in DOMAIN response'.items :
      response.items[i].id = response'.items[k].id /\ response.items[j].id = response'.items[l].id
        => (i < j => k < l)

\* Two answers to the same question show what both have in the same order,
\* whatever happened between them: items are ranked by what never changes, and no
\* two by the same (the sort_by of the lists of requests and activity).
THEOREM OrderStays == FilesSpec => OrderIsStable
<1>1. FilesInit => ViewsInv
  BY ViewsStart DEF FilesInit
<1>2. ViewsInv /\ [FilesNext]_filesVars => ViewsInv'
  BY ViewsStep, StepsOfViews
<1>3. ViewsInv /\ ViewsInv' /\ [FilesNext]_filesVars => [OrderIsKept]_vars
  <2> SUFFICES ASSUME ViewsInv, [FilesNext]_filesVars,
                      response'.route = response.route, response.route # "sessions",
                      NEW i \in DOMAIN response.items, NEW j \in DOMAIN response.items,
                      NEW k \in DOMAIN response'.items, NEW l \in DOMAIN response'.items,
                      response.items[i].id = response'.items[k].id,
                      response.items[j].id = response'.items[l].id, i < j
               PROVE  k < l
    BY DEF OrderIsKept
  <2>1. ViewTypes /\ SnapshotIsTold /\ ResponseIsTold
    BY DEF ViewsInv
  <2>2. PICK route, q, t : route = response.route /\ q = response.items /\ t = response'.items
    OBVIOUS
  <2>3. /\ SortedItems(q) /\ \A n \in DOMAIN q : q[n] \in Told(route)
    BY <2>1, <2>2 DEF ResponseIsTold
  <2>4. /\ DOMAIN t \subseteq Int /\ SortedItems(t) /\ \A n \in DOMAIN t : t[n] \in Told(route)
    <3>1. CASE response' = response
      BY <2>1, <2>2, <3>1 DEF ResponseIsTold
    <3>2. CASE Answer
      <4>1. /\ DOMAIN response'.items \subseteq Int /\ SortedItems(response'.items)
            /\ response'.route = handler.route
            /\ handler.route # "sessions" => ToSet(response'.items) \subseteq Told(handler.route)
        BY <2>1, <3>2, AnswerGivesBoth
      <4>2. handler.route = route /\ ToSet(t) \subseteq Told(route)
        BY <2>2, <4>1
      <4> QED BY <2>2, <4>1, <4>2 DEF ToSet
    <3>3. [Next]_vars
      BY StepsOfViews
    <3> QED BY <3>1, <3>2, <3>3 DEF Next, Process, Capture, FileIsWritten, Observe,
      IndexIsWritten, StateDbFailsOrAnswers, disk, Ask, vars
  <2>5. /\ i \in DOMAIN q /\ j \in DOMAIN q /\ k \in DOMAIN t /\ l \in DOMAIN t
        /\ q[i].id = t[k].id /\ q[j].id = t[l].id
    BY <2>2
  <2> QED BY <2>1, <2>3, <2>4, <2>5, ListsAgree
<1> QED BY <1>1, <1>2, <1>3, PTL DEF FilesSpec, OrderIsStable, OrderIsKept
=============================================================================
