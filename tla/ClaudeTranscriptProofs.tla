----------------------- MODULE ClaudeTranscriptProofs -----------------------
(***************************************************************************)
(* Theorems about following transcripts, for any number of transcripts and *)
(* any budgets and bounds: the records of a transcript that is only        *)
(* appended to, those of one that is rewritten, and the refinement of      *)
(* TranscriptTail.                                                         *)
(***************************************************************************)
EXTENDS MCClaudeTranscript, FiniteSetTheorems, TLAPS

\* Where the reader of an append-only transcript stands: it holds exactly the
\* pieces after the last line end before its offset, and all records between
\* the history and the offset were returned or are pending.
Position(f) ==
  /\ offset[f] <= size[f]
  /\ held[f] = Rest(offset[f])
  /\ heldGen[f] = 0
  /\ skipped[f] <= LinesIn(offset[f])
  /\ log[f] \o pending[f] = Records(0, skipped[f] + 1, LinesIn(offset[f]))

Positions == \A f \in scanned : gen[f] = 0 => Position(f)

\* The partial line of any transcript lies before its offset.
HeldWithin == \A f \in Transcripts : held[f] <= offset[f]

FollowBudget == phase # "done" => returned < MaxFollow

IInv == TypeOK /\ HeldWithin /\ FollowBudget /\ Positions

-----------------------------------------------------------------------------
(* Lines and pieces.                                                       *)

LEMMA LinesNat ==
  ASSUME NEW n \in Nat
  PROVE  LinesIn(n) \in Nat /\ Rest(n) \in 0..(Pieces - 1) /\ Rest(n) <= n
BY DEF LinesIn, Rest, Pieces

LEMMA LinesMonotone ==
  ASSUME NEW m \in Nat, NEW n \in Nat, m <= n
  PROVE  LinesIn(m) <= LinesIn(n)
BY DEF LinesIn, Pieces

\* Parsing from the start of the partial line yields the lines that end
\* after the offset.
LEMMA ResumedAtLineStart ==
  ASSUME NEW n \in Nat
  PROVE  LinesIn((n - Rest(n)) + Pieces - 1) = LinesIn(n)
BY DEF LinesIn, Rest, Pieces

LEMMA HeldIsPartialLine ==
  ASSUME NEW m \in Nat, NEW n \in Nat, m <= n
  PROVE  (IF Pieces * LinesIn(n) > m THEN Rest(n) ELSE Rest(m) + n - m) = Rest(n)
BY DEF LinesIn, Rest, Pieces

LEMMA RecordsType ==
  ASSUME NEW g \in Nat, NEW a \in Nat \ {0}, NEW b \in Nat
  PROVE  /\ Records(g, a, b) \in Seq(Record)
         /\ Len(Records(g, a, b)) = IF a <= b THEN b - a + 1 ELSE 0
         /\ \A i \in 1..Len(Records(g, a, b)) :
              Records(g, a, b)[i] = [gen |-> g, rec |-> a + i - 1]
<1> DEFINE n == IF a <= b THEN b - a + 1 ELSE 0
<1>1. n \in Nat /\ n = IF a <= b THEN b - a + 1 ELSE 0
  OBVIOUS
<1>2. Records(g, a, b) = [i \in 1..n |-> [gen |-> g, rec |-> a + i - 1]]
  BY <1>1 DEF Records
<1> HIDE DEF n
<1>3. \A i \in 1..n : [gen |-> g, rec |-> a + i - 1] \in Record
  BY <1>1 DEF Record
<1>4. Records(g, a, b) \in [1..n -> Record]
  BY <1>2, <1>3
<1>5. Records(g, a, b) \in Seq(Record) /\ Len(Records(g, a, b)) = n
  BY <1>1, <1>4
<1> QED BY <1>1, <1>2, <1>5

\* Consecutive runs of records join.
LEMMA RecordsJoin ==
  ASSUME NEW a \in Nat \ {0}, NEW b \in Nat, NEW c \in Nat, a <= b + 1, b <= c
  PROVE  Records(0, a, b) \o Records(0, b + 1, c) = Records(0, a, c)
<1> DEFINE p == Records(0, a, b)
           q == Records(0, b + 1, c)
           r == Records(0, a, c)
<1>1. /\ p \in Seq(Record) /\ Len(p) = b - a + 1
      /\ \A i \in 1..Len(p) : p[i] = [gen |-> 0, rec |-> a + i - 1]
  <2>1. p \in Seq(Record)
    BY RecordsType
  <2>2. Len(p) = IF a <= b THEN b - a + 1 ELSE 0
    BY RecordsType
  <2>3. \A i \in 1..Len(p) : p[i] = [gen |-> 0, rec |-> a + i - 1]
    BY RecordsType
  <2> QED BY <2>1, <2>2, <2>3
<1>2. /\ q \in Seq(Record) /\ Len(q) = c - b
      /\ \A i \in 1..Len(q) : q[i] = [gen |-> 0, rec |-> b + 1 + i - 1]
  <2>. b + 1 \in Nat \ {0}
    OBVIOUS
  <2>1. q \in Seq(Record)
    BY RecordsType
  <2>2. Len(q) = IF b + 1 <= c THEN c - (b + 1) + 1 ELSE 0
    BY RecordsType
  <2>3. \A i \in 1..Len(q) : q[i] = [gen |-> 0, rec |-> b + 1 + i - 1]
    BY RecordsType
  <2> QED BY <2>1, <2>2, <2>3
<1>3. /\ r \in Seq(Record) /\ Len(r) = c - a + 1
      /\ \A i \in 1..Len(r) : r[i] = [gen |-> 0, rec |-> a + i - 1]
  <2>1. r \in Seq(Record)
    BY RecordsType
  <2>2. Len(r) = IF a <= c THEN c - a + 1 ELSE 0
    BY RecordsType
  <2>3. \A i \in 1..Len(r) : r[i] = [gen |-> 0, rec |-> a + i - 1]
    BY RecordsType
  <2> QED BY <2>1, <2>2, <2>3
<1> HIDE DEF p, q, r
<1>4. p \o q \in Seq(Record) /\ Len(p \o q) = Len(r)
  <2>1. p \o q \in Seq(Record) /\ Len(p \o q) = Len(p) + Len(q)
    BY <1>1, <1>2
  <2> QED BY <1>1, <1>2, <1>3, <2>1
<1>5. ASSUME NEW i \in 1..Len(r) PROVE (p \o q)[i] = r[i]
  <2>1. CASE i <= Len(p)
    <3>1. (p \o q)[i] = p[i] /\ i \in 1..Len(p)
      BY <1>1, <1>2, <1>3, <2>1
    <3> QED BY <1>1, <1>3, <3>1
  <2>2. CASE i > Len(p)
    <3>1. (p \o q)[i] = q[i - Len(p)] /\ i - Len(p) \in 1..Len(q)
      BY <1>1, <1>2, <1>3, <2>2
    <3>2. b + 1 + (i - Len(p)) - 1 = a + i - 1
      BY <1>1
    <3> QED BY <1>2, <1>3, <3>1, <3>2
  <2>3. i <= Len(p) \/ i > Len(p)
    BY <1>1, <1>3
  <2> QED BY <2>1, <2>2, <2>3
<1>6. p \o q = r
  BY <1>3, <1>4, <1>5
<1> QED BY <1>6 DEF p, q, r

\* Moving the head of one sequence to the end of another.
LEMMA MoveHead ==
  ASSUME NEW p \in Seq(Record), NEW q \in Seq(Record), q # <<>>
  PROVE  /\ Head(q) \in Record /\ Tail(q) \in Seq(Record)
         /\ Append(p, Head(q)) \in Seq(Record)
         /\ Append(p, Head(q)) \o Tail(q) = p \o q
<1>1. Head(q) \in Record /\ Tail(q) \in Seq(Record) /\ Len(q) > 0
  OBVIOUS
<1>2. Append(p, Head(q)) \in Seq(Record) /\ p \o q \in Seq(Record)
  BY <1>1
<1>3. Append(p, Head(q)) \o Tail(q) \in Seq(Record)
  BY <1>1, <1>2
<1>4. Len(Append(p, Head(q)) \o Tail(q)) = Len(p \o q)
  BY <1>1, <1>2
<1>5. ASSUME NEW i \in 1..Len(p \o q)
      PROVE  (Append(p, Head(q)) \o Tail(q))[i] = (p \o q)[i]
  BY <1>1, <1>2
<1> QED BY <1>2, <1>3, <1>4, <1>5

LEMMA WithoutType ==
  ASSUME NEW q \in Seq(Transcripts), NEW i \in 1..Len(q)
  PROVE  Without(q, i) \in Seq(Transcripts)
<1>1. SubSeq(q, 1, i - 1) \in Seq(Transcripts)
  OBVIOUS
<1>2. SubSeq(q, i + 1, Len(q)) \in Seq(Transcripts)
  OBVIOUS
<1> QED BY <1>1, <1>2 DEF Without

-----------------------------------------------------------------------------
(* Steps.                                                                  *)

LEMMA InitIInv == Init => IInv
<1> SUFFICES ASSUME Init PROVE IInv
  OBVIOUS
<1>1. TypeOK
  BY BoundsAssumption DEF Init, TypeOK
<1>2. HeldWithin /\ FollowBudget /\ Positions
  BY BoundsAssumption DEF Init, HeldWithin, FollowBudget, Positions
<1> QED BY <1>1, <1>2 DEF IInv

\* Steps that leave the reader and the records alone, and that do not shorten
\* a file that was never rewritten.
LEMMA ReaderUnchangedKeeps ==
  ASSUME IInv, UNCHANGED <<reader, ghosts>>, TypeOK', FollowBudget',
         \A f \in Transcripts : gen'[f] = 0 => gen[f] = 0 /\ size[f] <= size'[f]
  PROVE  IInv'
<1>1. HeldWithin'
  BY DEF IInv, HeldWithin, reader
<1>2. ASSUME NEW f \in scanned, gen'[f] = 0 PROVE Position(f)'
  <2>1. f \in Transcripts /\ gen[f] = 0 /\ size[f] <= size'[f]
    BY <1>2 DEF IInv, TypeOK
  <2>2. Position(f)
    BY <2>1 DEF IInv, Positions
  <2>3. size[f] \in Nat /\ size'[f] \in Nat /\ offset[f] \in Nat
    BY <2>1, BoundsAssumption DEF IInv, TypeOK
  <2> QED BY <2>1, <2>2, <2>3 DEF Position, reader, ghosts
<1> QED BY <1>1, <1>2 DEF IInv, Positions, ghosts

LEMMA FilesKeep ==
  ASSUME IInv, NEW f \in Transcripts, AppendPiece(f) \/ Rewrite(f) \/ Remove(f)
  PROVE  IInv'
<1>1. TypeOK' /\ \A g \in Transcripts : gen'[g] = 0 => gen[g] = 0 /\ size[g] <= size'[g]
  <2>1. CASE AppendPiece(f)
    <3>1. size[f] \in 0..MaxSize /\ size[f] + 1 \in 0..MaxSize /\ size' = [size EXCEPT ![f] = size[f] + 1]
      BY <2>1, BoundsAssumption DEF IInv, TypeOK, AppendPiece
    <3>2. TypeOK'
      BY <2>1, <3>1 DEF IInv, TypeOK, AppendPiece, reader, ghosts
    <3>3. gen' = gen
      BY <2>1 DEF AppendPiece
    <3>4. size \in [Transcripts -> 0..MaxSize]
      BY DEF IInv, TypeOK
    <3>5. \A g \in Transcripts : size'[g] = IF g = f THEN size[f] + 1 ELSE size[g]
      BY <3>1, <3>4
    <3>6. \A g \in Transcripts : size[g] \in Nat
      BY <3>4, BoundsAssumption
    <3>7. \A g \in Transcripts : size[g] <= size'[g]
      BY <3>5, <3>6
    <3> QED BY <3>2, <3>3, <3>7
  <2>2. CASE Rewrite(f)
    <3>1. gen[f] + 1 \in 0..MaxGen /\ gen[f] + 1 # 0 /\ gen' = [gen EXCEPT ![f] = gen[f] + 1]
      BY <2>2, BoundsAssumption DEF IInv, TypeOK, Rewrite
    <3>2. PICK n \in 0..MaxSize : size' = [size EXCEPT ![f] = n]
      BY <2>2 DEF Rewrite
    <3>3. TypeOK'
      BY <2>2, <3>1, <3>2 DEF IInv, TypeOK, Rewrite, reader, ghosts
    <3>4. \A g \in Transcripts : gen'[g] = 0 => g # f
      BY <3>1 DEF IInv, TypeOK
    <3>5. \A g \in Transcripts : g # f => gen'[g] = gen[g] /\ size'[g] = size[g]
      BY <3>1, <3>2 DEF IInv, TypeOK
    <3>6. \A g \in Transcripts : size[g] \in Nat
      BY BoundsAssumption DEF IInv, TypeOK
    <3> QED BY <3>3, <3>4, <3>5, <3>6
  <2>3. CASE Remove(f)
    BY <2>3, BoundsAssumption DEF IInv, TypeOK, Remove, reader, ghosts
  <2> QED BY <2>1, <2>2, <2>3
<1>2. UNCHANGED <<reader, ghosts>> /\ FollowBudget'
  BY DEF AppendPiece, Rewrite, Remove, IInv, FollowBudget
<1> QED BY <1>1, <1>2, ReaderUnchangedKeeps

\* Steps of the observer that read nothing and return no record.
LEMMA ControlKeeps ==
  ASSUME IInv,
         \/ Discover \/ ScanFails \/ StartFollowing
         \/ (\E f \in Transcripts : ReadFails(f))
         \/ Sleep \/ IdleTimeout \/ OutputFails
  PROVE  IInv'
<1>1. UNCHANGED <<files, reader, ghosts>>
  BY DEF Discover, ScanFails, StartFollowing, ReadFails, Sleep, IdleTimeout, OutputFails
<1>2. ASSUME tracked' \in Seq(Transcripts), at' \in Nat \ {0}, spent' \in Nat,
             returned' \in 0..MaxFollow,
             phase' \in {"new", "history", "follow", "done"}, FollowBudget'
      PROVE  IInv'
  <2>1. TypeOK'
    BY <1>1, <1>2 DEF IInv, TypeOK, files, reader, ghosts
  <2>2. \A f \in Transcripts : gen'[f] = 0 => gen[f] = 0 /\ size[f] <= size'[f]
    BY <1>1, BoundsAssumption DEF IInv, TypeOK, files
  <2> QED BY <1>1, <1>2, <2>1, <2>2, ReaderUnchangedKeeps
<1>3. /\ tracked \in Seq(Transcripts) /\ at \in Nat \ {0} /\ spent \in Nat
      /\ returned \in 0..MaxFollow /\ MaxFollow \in Nat /\ FollowBudget
  BY BoundsAssumption DEF IInv, TypeOK
<1>4. CASE Discover
  <2>1. tracked' \in Seq(Transcripts)
    <3> DEFINE found == {f \in Transcripts : readable[f]}
    <3>1. PICK n : tracked' \in [1..n -> found] /\ n = Least(MaxFiles, Cardinality(found))
      BY <1>4 DEF Discover, Selections
    <3>2. n \in Nat
      <4>1. IsFiniteSet(found)
        BY TranscriptsAssumption, FS_Subset
      <4>2. Cardinality(found) \in Nat
        BY <4>1, FS_CardinalityType
      <4> QED BY <3>1, <4>2, BoundsAssumption DEF Least
    <3>3. tracked' \in [1..n -> Transcripts]
      BY <3>1
    <3> QED BY <3>2, <3>3
  <2> QED BY <1>2, <1>3, <1>4, <2>1 DEF Discover, FollowBudget
<1>5. CASE ScanFails
  <2>1. tracked' \in Seq(Transcripts)
    BY <1>3, <1>5, WithoutType DEF ScanFails
  <2> QED BY <1>2, <1>3, <1>5, <2>1 DEF ScanFails, FollowBudget
<1>6. CASE \E f \in Transcripts : ReadFails(f)
  <2>1. tracked' \in Seq(Transcripts)
    BY <1>3, <1>6, WithoutType DEF ReadFails, Looking
  <2> QED BY <1>2, <1>3, <1>6, <2>1 DEF ReadFails, Looking, ReturnEvent, FollowBudget
<1>7. CASE StartFollowing \/ Sleep \/ IdleTimeout \/ OutputFails
  BY <1>2, <1>3, <1>7 DEF StartFollowing, Sleep, IdleTimeout, OutputFails, FollowBudget
<1> QED BY <1>4, <1>5, <1>6, <1>7

\* A step of the reader at one transcript f leaves the others as they were.
LEMMA OthersKeep ==
  ASSUME IInv, NEW f \in Transcripts, NEW g \in scanned, g # f, gen'[g] = 0,
         gen' = gen, size' = size,
         \A h \in Transcripts \ {f} :
           /\ offset'[h] = offset[h] /\ held'[h] = held[h] /\ heldGen'[h] = heldGen[h]
           /\ pending'[h] = pending[h] /\ log'[h] = log[h] /\ skipped'[h] = skipped[h]
  PROVE  Position(g)'
BY DEF IInv, TypeOK, Positions, Position

\* The history: the newest records, and the reader at the end of the file.
LEMMA ScanHistoryKeeps ==
  ASSUME IInv, ScanHistory
  PROVE  IInv'
<1>1. PICK f \in Transcripts : f = tracked[at]
  <2>1. tracked \in Seq(Transcripts) /\ at \in 1..Len(tracked)
    BY DEF IInv, TypeOK, ScanHistory
  <2> QED BY <2>1
<1>0. PICK n : n = LinesIn(size[f])
  OBVIOUS
<1> DEFINE k == TailLength(n)
           r == Records(gen[f], n - k + 1, n)
<1>2. /\ size[f] \in Nat /\ n \in Nat /\ gen[f] \in 0..MaxGen /\ gen[f] \in Nat
      /\ Rest(size[f]) \in Nat /\ Rest(size[f]) <= size[f]
  <2>1. size[f] \in Nat /\ gen[f] \in 0..MaxGen /\ gen[f] \in Nat
    BY <1>1, BoundsAssumption DEF IInv, TypeOK
  <2>2. n \in Nat /\ Rest(size[f]) \in 0..(Pieces - 1) /\ Rest(size[f]) <= size[f]
    BY <1>0, <2>1, LinesNat
  <2> QED BY <2>1, <2>2 DEF Pieces
<1>3. k \in Nat /\ k <= n /\ spent \in Nat
  <2>1. spent \in Nat
    BY DEF IInv, TypeOK
  <2> QED BY <1>2, <2>1, BoundsAssumption DEF TailLength, Least
<1>4. /\ n - k \in Nat /\ n - k + 1 \in Nat \ {0} /\ spent + k \in Nat
      /\ at + 1 \in Nat \ {0}
  <2>1. at \in Nat \ {0}
    BY DEF IInv, TypeOK
  <2> HIDE DEF k
  <2> QED BY <1>2, <1>3, <2>1
<1>5. r \in Seq(Record)
  BY <1>2, <1>4, RecordsType
<1>6. /\ offset' = [offset EXCEPT ![f] = size[f]]
      /\ held' = [held EXCEPT ![f] = Rest(size[f])]
      /\ heldGen' = [heldGen EXCEPT ![f] = gen[f]]
      /\ pending' = [pending EXCEPT ![f] = <<>>]
      /\ log' = [log EXCEPT ![f] = r]
      /\ skipped' = [skipped EXCEPT ![f] = n - k]
      /\ scanned' = scanned \cup {f}
      /\ spent' = spent + k /\ at' = at + 1
      /\ UNCHANGED <<files, phase, tracked, returned>>
  BY <1>0, <1>1 DEF ScanHistory
<1> HIDE DEF k, r
<1>7. TypeOK'
  <2>1. /\ offset' \in [Transcripts -> Nat] /\ held' \in [Transcripts -> Nat]
        /\ heldGen' \in [Transcripts -> 0..MaxGen] /\ skipped' \in [Transcripts -> Nat]
        /\ scanned' \subseteq Transcripts
    BY <1>1, <1>2, <1>4, <1>6 DEF IInv, TypeOK
  <2>2. pending' \in [Transcripts -> Seq(Record)] /\ log' \in [Transcripts -> Seq(Record)]
    BY <1>1, <1>5, <1>6 DEF IInv, TypeOK
  <2> QED BY <1>1, <1>4, <1>6, <2>1, <2>2 DEF IInv, TypeOK, files
<1>8. HeldWithin'
  BY <1>1, <1>2, <1>6 DEF IInv, TypeOK, HeldWithin
<1>9. ASSUME gen'[f] = 0 PROVE Position(f)'
  <2>1. /\ offset'[f] = size[f] /\ held'[f] = Rest(size[f]) /\ heldGen'[f] = gen[f]
        /\ pending'[f] = <<>> /\ log'[f] = r /\ skipped'[f] = n - k
        /\ size' = size /\ gen' = gen
    BY <1>1, <1>6 DEF IInv, TypeOK, files
  <2>2. r \o <<>> = r
    BY <1>5
  <2>3. gen[f] = 0
    BY <1>9, <2>1
  <2>4. r = Records(0, n - k + 1, n)
    BY <2>3 DEF r
  <2>5. n - k <= n /\ size[f] <= size[f]
    BY <1>2, <1>3
  <2> QED BY <1>0, <2>1, <2>2, <2>3, <2>4, <2>5 DEF Position
<1>10. ASSUME NEW g \in scanned', gen'[g] = 0 PROVE Position(g)'
  <2>1. CASE g = f
    BY <1>9, <1>10, <2>1
  <2>2. CASE g # f
    <3>1. g \in scanned
      BY <1>6, <2>2
    <3>2. \A h \in Transcripts \ {f} :
            /\ offset'[h] = offset[h] /\ held'[h] = held[h] /\ heldGen'[h] = heldGen[h]
            /\ pending'[h] = pending[h] /\ log'[h] = log[h] /\ skipped'[h] = skipped[h]
      BY <1>6 DEF IInv, TypeOK
    <3>3. gen' = gen /\ size' = size
      BY <1>6 DEF files
    <3> QED BY <1>1, <1>10, <2>2, <3>1, <3>2, <3>3, OthersKeep
  <2> QED BY <2>1, <2>2
<1>11. FollowBudget'
  BY <1>6 DEF IInv, FollowBudget
<1> QED BY <1>7, <1>8, <1>10, <1>11 DEF IInv, Positions

\* Returning an event keeps the budget.
LEMMA ReturnEventType ==
  ASSUME IInv, ReturnEvent, phase = "follow"
  PROVE  /\ returned' \in 0..MaxFollow /\ at' \in Nat \ {0}
         /\ phase' \in {"new", "history", "follow", "done"}
         /\ FollowBudget'
BY BoundsAssumption DEF IInv, TypeOK, ReturnEvent, FollowBudget

LEMMA ReturnPendingKeeps ==
  ASSUME IInv, NEW f \in Transcripts, ReturnPending(f)
  PROVE  IInv'
<1>1. /\ phase = "follow" /\ ReturnEvent /\ pending[f] # <<>>
      /\ log' = [log EXCEPT ![f] = Append(log[f], Head(pending[f]))]
      /\ pending' = [pending EXCEPT ![f] = Tail(pending[f])]
      /\ UNCHANGED <<files, tracked, spent, offset, held, heldGen, skipped, scanned>>
  BY DEF ReturnPending, Looking
<1>2. log[f] \in Seq(Record) /\ pending[f] \in Seq(Record)
  BY DEF IInv, TypeOK
<1>3. /\ Tail(pending[f]) \in Seq(Record)
      /\ Append(log[f], Head(pending[f])) \in Seq(Record)
      /\ Append(log[f], Head(pending[f])) \o Tail(pending[f]) = log[f] \o pending[f]
  BY <1>1, <1>2, MoveHead
<1>4. TypeOK'
  <2>1. log' \in [Transcripts -> Seq(Record)] /\ pending' \in [Transcripts -> Seq(Record)]
    BY <1>1, <1>3 DEF IInv, TypeOK
  <2> QED BY <1>1, <2>1, ReturnEventType DEF IInv, TypeOK, files
<1>5. HeldWithin' /\ FollowBudget'
  BY <1>1, ReturnEventType DEF IInv, HeldWithin
<1>6. \A g \in Transcripts : log'[g] \o pending'[g] = log[g] \o pending[g]
  BY <1>1, <1>3 DEF IInv, TypeOK
<1>7. \A g \in scanned : gen[g] = 0 => Position(g)
  BY DEF IInv, Positions
<1>8. Positions'
  BY <1>1, <1>6, <1>7 DEF IInv, TypeOK, Positions, Position, files
<1> QED BY <1>4, <1>5, <1>8 DEF IInv

\* A reader that holds exactly the pieces after the last line end goes on
\* with the next line, and again holds the pieces after the last line end.
LEMMA ResumedFresh ==
  ASSUME IInv, NEW f \in Transcripts, offset[f] <= size[f],
         held[f] = Rest(offset[f]), heldGen[f] = gen[f]
  PROVE  /\ Fresh(f) = Records(gen[f], LinesIn(offset[f]) + 1, LinesIn(size[f]))
         /\ HeldAfter(f) = Rest(size[f])
<1>1. size[f] \in Nat /\ offset[f] \in Nat
  BY BoundsAssumption DEF IInv, TypeOK
<1>2. ReadFrom(f) = offset[f] /\ HeldFrom(f) = Rest(offset[f])
  BY <1>1 DEF ReadFrom, HeldFrom
<1>3. LinesIn((offset[f] - Rest(offset[f])) + Pieces - 1) = LinesIn(offset[f])
  BY <1>1, ResumedAtLineStart
<1>4. Fresh(f) = Records(gen[f], LinesIn(offset[f]) + 1, LinesIn(size[f]))
  BY <1>2, <1>3 DEF Fresh, Parsed
<1>5. HeldAfter(f) = Rest(size[f])
  BY <1>1, <1>2, HeldIsPartialLine DEF HeldAfter
<1> QED BY <1>4, <1>5

\* What a read of f parses: a sequence of records; for a transcript that was
\* never rewritten, the lines from the last one read to the end of the file.
LEMMA FreshRecords ==
  ASSUME IInv, NEW f \in Transcripts
  PROVE  /\ Fresh(f) \in Seq(Record)
         /\ HeldAfter(f) \in Nat /\ HeldAfter(f) <= size[f]
         /\ f \in scanned /\ gen[f] = 0 =>
              /\ Fresh(f) = Records(0, LinesIn(offset[f]) + 1, LinesIn(size[f]))
              /\ HeldAfter(f) = Rest(size[f])
<1>1. /\ size[f] \in Nat /\ offset[f] \in Nat /\ held[f] \in Nat /\ gen[f] \in Nat
      /\ held[f] <= offset[f]
  BY BoundsAssumption DEF IInv, TypeOK, HeldWithin
<1>2. /\ ReadFrom(f) \in Nat /\ HeldFrom(f) \in Nat
      /\ HeldFrom(f) <= ReadFrom(f) /\ ReadFrom(f) <= size[f]
  BY <1>1 DEF ReadFrom, HeldFrom
<1>3. LinesIn(size[f]) \in Nat /\ Rest(size[f]) \in Nat /\ Rest(size[f]) <= size[f]
  <2>1. LinesIn(size[f]) \in Nat /\ Rest(size[f]) \in 0..(Pieces - 1) /\ Rest(size[f]) <= size[f]
    BY <1>1, LinesNat
  <2> QED BY <2>1 DEF Pieces
<1>4. HeldAfter(f) \in Nat /\ HeldAfter(f) <= size[f]
  BY <1>1, <1>2, <1>3 DEF HeldAfter
<1>5. Fresh(f) \in Seq(Record)
  <2>1. PICK start : start = IF heldGen[f] = gen[f] THEN ReadFrom(f) - HeldFrom(f) ELSE ReadFrom(f)
    OBVIOUS
  <2>2. start \in Nat
    BY <1>2, <2>1
  <2>3. LinesIn(start + Pieces - 1) \in Nat
    <3>1. start + Pieces - 1 \in Nat
      BY <2>2 DEF Pieces
    <3> QED BY <3>1, LinesNat
  <2>4. Records(gen[f], LinesIn(start + Pieces - 1) + 1, LinesIn(size[f])) \in Seq(Record)
    <3>1. LinesIn(start + Pieces - 1) + 1 \in Nat \ {0}
      BY <2>3
    <3> QED BY <1>1, <1>3, <3>1, RecordsType
  <2> QED BY <2>1, <2>4 DEF Fresh, Parsed
<1>6. ASSUME f \in scanned, gen[f] = 0
      PROVE  /\ Fresh(f) = Records(0, LinesIn(offset[f]) + 1, LinesIn(size[f]))
             /\ HeldAfter(f) = Rest(size[f])
  <2>1. /\ offset[f] <= size[f] /\ held[f] = Rest(offset[f]) /\ heldGen[f] = 0
    BY <1>6 DEF IInv, Positions, Position
  <2> QED BY <1>6, <2>1, ResumedFresh
<1> QED BY <1>4, <1>5, <1>6

LEMMA ReadAppendedKeeps ==
  ASSUME IInv, NEW f \in Transcripts, ReadAppended(f)
  PROVE  IInv'
<1>1. /\ phase = "follow" /\ pending[f] = <<>>
      /\ offset' = [offset EXCEPT ![f] = size[f]]
      /\ held' = [held EXCEPT ![f] = HeldAfter(f)]
      /\ UNCHANGED <<files, tracked, spent, skipped, scanned>>
  BY DEF ReadAppended, Looking, Consume
<1>2. \E g \in {heldGen[f], gen[f]} : heldGen' = [heldGen EXCEPT ![f] = g]
  BY DEF ReadAppended, Consume
<1>3. /\ log[f] \in Seq(Record) /\ pending[f] \in Seq(Record)
      /\ size[f] \in Nat /\ offset[f] \in Nat
  BY BoundsAssumption DEF IInv, TypeOK
<1>4. /\ log'[f] \in Seq(Record) /\ pending'[f] \in Seq(Record)
      /\ log'[f] \o pending'[f] = log[f] \o Fresh(f)
      /\ log' = [log EXCEPT ![f] = log'[f]]
      /\ pending' = [pending EXCEPT ![f] = pending'[f]]
  <2>1. CASE Fresh(f) = <<>>
    <3>1. log' = log /\ pending' = pending
      BY <2>1 DEF ReadAppended
    <3> QED BY <1>1, <1>3, <2>1, <3>1 DEF IInv, TypeOK
  <2>2. CASE Fresh(f) # <<>>
    <3>1. /\ log' = [log EXCEPT ![f] = Append(log[f], Head(Fresh(f)))]
          /\ pending' = [pending EXCEPT ![f] = Tail(Fresh(f))]
      BY <2>2 DEF ReadAppended
    <3>2. /\ log'[f] = Append(log[f], Head(Fresh(f)))
          /\ pending'[f] = Tail(Fresh(f))
      BY <3>1 DEF IInv, TypeOK
    <3>3. Fresh(f) \in Seq(Record)
      BY FreshRecords
    <3>4. /\ Tail(Fresh(f)) \in Seq(Record)
          /\ Append(log[f], Head(Fresh(f))) \in Seq(Record)
          /\ Append(log[f], Head(Fresh(f))) \o Tail(Fresh(f)) = log[f] \o Fresh(f)
      BY <1>3, <2>2, <3>3, MoveHead
    <3> QED BY <3>1, <3>2, <3>4
  <2> QED BY <2>1, <2>2
<1>5. /\ returned' \in 0..MaxFollow /\ at' \in Nat \ {0}
      /\ phase' \in {"new", "history", "follow", "done"} /\ FollowBudget'
  <2>1. CASE Fresh(f) = <<>>
    <3>1. at' = at + 1 /\ phase' = phase /\ returned' = returned
      BY <2>1 DEF ReadAppended
    <3> QED BY <3>1 DEF IInv, TypeOK, FollowBudget
  <2>2. CASE Fresh(f) # <<>>
    BY <1>1, <2>2, ReturnEventType DEF ReadAppended
  <2> QED BY <2>1, <2>2
<1>6. TypeOK'
  <2>1. heldGen' \in [Transcripts -> 0..MaxGen]
    BY <1>2 DEF IInv, TypeOK
  <2>2. offset' \in [Transcripts -> Nat] /\ held' \in [Transcripts -> Nat]
    BY <1>1, <1>3, FreshRecords DEF IInv, TypeOK
  <2>3. log' \in [Transcripts -> Seq(Record)] /\ pending' \in [Transcripts -> Seq(Record)]
    BY <1>4 DEF IInv, TypeOK
  <2> QED BY <1>1, <1>5, <2>1, <2>2, <2>3 DEF IInv, TypeOK, files
<1>7. HeldWithin'
  BY <1>1, <1>3, FreshRecords DEF IInv, TypeOK, HeldWithin
<1>8. ASSUME f \in scanned, gen[f] = 0 PROVE Position(f)'
  <2>1. Position(f)
    BY <1>8 DEF IInv, Positions
  <2>2. /\ offset'[f] = size[f] /\ held'[f] = HeldAfter(f) /\ heldGen'[f] = 0
        /\ skipped'[f] = skipped[f] /\ size' = size
    BY <1>1, <1>2, <1>8, <2>1 DEF IInv, TypeOK, Position, files
  <2>3. HeldAfter(f) = Rest(size[f])
    BY <1>8, FreshRecords
  <2>4. log[f] = Records(0, skipped[f] + 1, LinesIn(offset[f]))
    <3>1. log[f] \o <<>> = log[f]
      BY <1>3
    <3> QED BY <1>1, <2>1, <3>1 DEF Position
  <2>5. /\ skipped[f] \in Nat /\ LinesIn(offset[f]) \in Nat /\ LinesIn(size[f]) \in Nat
        /\ skipped[f] <= LinesIn(offset[f]) /\ LinesIn(offset[f]) <= LinesIn(size[f])
    <3>1. skipped[f] \in Nat /\ skipped[f] <= LinesIn(offset[f]) /\ offset[f] <= size[f]
      BY <2>1 DEF IInv, TypeOK, Position
    <3>2. LinesIn(offset[f]) \in Nat /\ LinesIn(size[f]) \in Nat
      BY <1>3, LinesNat
    <3> QED BY <1>3, <3>1, <3>2, LinesMonotone
  <2>6. log[f] \o Fresh(f) = Records(0, skipped[f] + 1, LinesIn(size[f]))
    <3>1. Fresh(f) = Records(0, LinesIn(offset[f]) + 1, LinesIn(size[f]))
      BY <1>8, FreshRecords
    <3>2. skipped[f] + 1 \in Nat \ {0} /\ skipped[f] + 1 <= LinesIn(offset[f]) + 1
      BY <2>5
    <3>3. Records(0, skipped[f] + 1, LinesIn(offset[f]))
            \o Records(0, LinesIn(offset[f]) + 1, LinesIn(size[f]))
              = Records(0, skipped[f] + 1, LinesIn(size[f]))
      BY <2>5, <3>2, RecordsJoin
    <3> QED BY <2>4, <3>1, <3>3
  <2>7. skipped[f] <= LinesIn(size[f]) /\ size[f] <= size[f]
    BY <1>3, <2>5
  <2> QED BY <1>4, <2>2, <2>3, <2>6, <2>7 DEF Position
<1>9. ASSUME NEW g \in scanned', gen'[g] = 0 PROVE Position(g)'
  <2>1. gen' = gen /\ size' = size /\ g \in scanned
    BY <1>1 DEF files
  <2>2. CASE g = f
    BY <1>8, <1>9, <2>1, <2>2
  <2>3. CASE g # f
    <3>1. \A h \in Transcripts \ {f} :
            /\ offset'[h] = offset[h] /\ held'[h] = held[h] /\ heldGen'[h] = heldGen[h]
            /\ pending'[h] = pending[h] /\ log'[h] = log[h] /\ skipped'[h] = skipped[h]
      BY <1>1, <1>2, <1>4 DEF IInv, TypeOK
    <3> QED BY <1>9, <2>1, <2>3, <3>1, OthersKeep
  <2> QED BY <2>2, <2>3
<1> QED BY <1>5, <1>6, <1>7, <1>9 DEF IInv, Positions

LEMMA StepIInv == IInv /\ [Next]_vars => IInv'
<1> SUFFICES ASSUME IInv, [Next]_vars PROVE IInv'
  OBVIOUS
<1>1. CASE \E f \in Transcripts : AppendPiece(f) \/ Rewrite(f) \/ Remove(f)
  BY <1>1, FilesKeep
<1>2. CASE Observer \/ OutputFails
  <2>1. CASE ScanHistory
    BY <2>1, ScanHistoryKeeps
  <2>2. CASE \E f \in Transcripts : ReturnPending(f)
    BY <2>2, ReturnPendingKeeps
  <2>3. CASE \E f \in Transcripts : ReadAppended(f)
    BY <2>3, ReadAppendedKeeps
  <2> QED BY <1>2, <2>1, <2>2, <2>3, ControlKeeps DEF Observer, Follow
<1>3. CASE UNCHANGED vars
  <2>1. UNCHANGED <<reader, ghosts>> /\ TypeOK' /\ FollowBudget'
    BY <1>3 DEF vars, reader, ghosts, IInv, TypeOK, FollowBudget
  <2>2. \A f \in Transcripts : gen'[f] = 0 => gen[f] = 0 /\ size[f] <= size'[f]
    <3>1. gen' = gen /\ size' = size /\ \A f \in Transcripts : size[f] \in Nat
      BY <1>3, BoundsAssumption DEF vars, IInv, TypeOK
    <3> QED BY <3>1
  <2> QED BY <2>1, <2>2, ReaderUnchangedKeeps
<1> QED BY <1>1, <1>2, <1>3 DEF Next

\* Every reachable state is typed, and the budgets are kept.
THEOREM TypeCorrect == Spec => []TypeOK
<1>1. IInv => TypeOK
  BY DEF IInv
<1> QED BY <1>1, InitIInv, StepIInv, PTL DEF Spec

\* Following loses, repeats and reorders nothing: of every transcript that is
\* only appended to, the records returned and pending are those read so far.
THEOREM OnceInOrder == Spec => []EachRecordOnceInOrder
<1>1. IInv => EachRecordOnceInOrder
  BY DEF IInv, Positions, Position, EachRecordOnceInOrder
<1> QED BY <1>1, InitIInv, StepIInv, PTL DEF Spec

-----------------------------------------------------------------------------
(* Transcripts that are rewritten.                                         *)

Whole(f) == log[f] \o pending[f]

Follows(a, b) == (a.gen = b.gen /\ b.rec = a.rec + 1) \/ a.gen < b.gen
Linked(q) == \A i \in 1..(Len(q) - 1) : Follows(q[i], q[i + 1])

\* What is held of the present generation is the start of a line.
HeldIsCurrent(f) ==
  heldGen[f] = gen[f] =>
    offset[f] <= size[f] /\ LinesIn(offset[f] - held[f]) = LinesIn(offset[f])

\* Once a record of the present generation was found, the reader knows where
\* in that generation it stands.
StandsAt(f) ==
  LET q == Whole(f)
      last == q[Len(q)]
  IN  Len(q) > 0 =>
        /\ last.gen <= gen[f]
        /\ last.gen = gen[f] =>
             heldGen[f] = gen[f] /\ held[f] = Rest(offset[f]) /\ last.rec = LinesIn(offset[f])

GenerationInv ==
  \A f \in Transcripts :
    heldGen[f] <= gen[f] /\ HeldIsCurrent(f) /\ Linked(Whole(f)) /\ StandsAt(f)

LEMMA NoLineInRest ==
  ASSUME NEW n \in Nat
  PROVE  LinesIn(n - Rest(n)) = LinesIn(n)
BY DEF LinesIn, Rest, Pieces

\* Between two places with no line end between them no line ends.
LEMMA NoLineBetween ==
  ASSUME NEW m \in Nat, NEW n \in Nat, m <= n, ~(Pieces * LinesIn(n) > m)
  PROVE  LinesIn(m) = LinesIn(n)
BY DEF LinesIn, Pieces

LEMMA LineEndBetween ==
  ASSUME NEW m \in Nat, NEW n \in Nat, m <= n, LinesIn(m) < LinesIn(n)
  PROVE  Pieces * LinesIn(n) > m /\ Rest(n) < n - m
BY DEF LinesIn, Rest, Pieces

LEMMA RecordsEnds ==
  ASSUME NEW g \in Nat, NEW a \in Nat \ {0}, NEW b \in Nat, Records(g, a, b) # <<>>
  PROVE  /\ a <= b /\ Head(Records(g, a, b)) = [gen |-> g, rec |-> a]
         /\ Records(g, a, b)[Len(Records(g, a, b))] = [gen |-> g, rec |-> b]
<1> DEFINE r == Records(g, a, b)
<1>1. /\ r \in Seq(Record) /\ Len(r) = IF a <= b THEN b - a + 1 ELSE 0
      /\ \A i \in 1..Len(r) : r[i] = [gen |-> g, rec |-> a + i - 1]
  BY RecordsType
<1>0. r # <<>>
  OBVIOUS
<1> HIDE DEF r
<1>2. Len(r) # 0
  BY <1>0, <1>1
<1>3. a <= b /\ 1 \in 1..Len(r) /\ Len(r) \in 1..Len(r) /\ a + 1 - 1 = a /\ a + Len(r) - 1 = b
  BY <1>1, <1>2
<1>4. r[1] = [gen |-> g, rec |-> a + 1 - 1]
  BY <1>1, <1>3
<1>5. r[Len(r)] = [gen |-> g, rec |-> a + Len(r) - 1]
  BY <1>1, <1>3
<1>6. Head(r) = r[1]
  BY <1>0, <1>1
<1> QED BY <1>3, <1>4, <1>5, <1>6 DEF r

LEMMA RecordsLinked ==
  ASSUME NEW g \in Nat, NEW a \in Nat \ {0}, NEW b \in Nat
  PROVE  Linked(Records(g, a, b))
<1> DEFINE r == Records(g, a, b)
<1>1. /\ r \in Seq(Record) /\ Len(r) = IF a <= b THEN b - a + 1 ELSE 0
      /\ \A i \in 1..Len(r) : r[i] = [gen |-> g, rec |-> a + i - 1]
  BY RecordsType
<1> HIDE DEF r
<1>2. ASSUME NEW i \in 1..(Len(r) - 1) PROVE Follows(r[i], r[i + 1])
  <2>1. i \in 1..Len(r) /\ i + 1 \in 1..Len(r)
    <3>1. Len(r) \in Nat
      BY <1>1
    <3> QED BY <3>1
  <2>2. /\ r[i].gen = g /\ r[i].rec = a + i - 1
        /\ r[i + 1].gen = g /\ r[i + 1].rec = a + (i + 1) - 1
    <3>1. r[i] = [gen |-> g, rec |-> a + i - 1]
      BY <1>1, <2>1
    <3>2. r[i + 1] = [gen |-> g, rec |-> a + (i + 1) - 1]
      BY <1>1, <2>1
    <3> QED BY <3>1, <3>2
  <2>3. a + (i + 1) - 1 = (a + i - 1) + 1
    BY <2>1
  <2> QED BY <2>2, <2>3 DEF Follows
<1> QED BY <1>2 DEF Linked, r

\* Linked sequences join where the first of the one follows the last of the other.
LEMMA LinkedJoin ==
  ASSUME NEW p \in Seq(Record), NEW q \in Seq(Record), Linked(p), Linked(q),
         p # <<>> /\ q # <<>> => Follows(p[Len(p)], q[1])
  PROVE  /\ Linked(p \o q)
         /\ q # <<>> => p \o q # <<>> /\ (p \o q)[Len(p \o q)] = q[Len(q)]
         /\ q = <<>> => p \o q = p
<1>1. /\ Len(p) \in Nat /\ Len(q) \in Nat /\ Len(p \o q) = Len(p) + Len(q)
      /\ p \o q \in Seq(Record)
      /\ \A i \in 1..(Len(p) + Len(q)) :
           (p \o q)[i] = IF i <= Len(p) THEN p[i] ELSE q[i - Len(p)]
  OBVIOUS
<1>2. ASSUME NEW i \in 1..(Len(p \o q) - 1) PROVE Follows((p \o q)[i], (p \o q)[i + 1])
  <2>1. i \in 1..(Len(p) + Len(q)) /\ i + 1 \in 1..(Len(p) + Len(q))
    BY <1>1
  <2>2. CASE i < Len(p)
    <3>1. (p \o q)[i] = p[i] /\ (p \o q)[i + 1] = p[i + 1] /\ i \in 1..(Len(p) - 1)
      BY <1>1, <2>1, <2>2
    <3> QED BY <3>1 DEF Linked
  <2>3. CASE i = Len(p)
    <3>1. p # <<>> /\ q # <<>>
      BY <1>1, <1>2, <2>3
    <3>2. (p \o q)[i] = p[Len(p)] /\ (p \o q)[i + 1] = q[1]
      BY <1>1, <2>1, <2>3
    <3> QED BY <3>1, <3>2
  <2>4. CASE i > Len(p)
    <3>1. /\ i - Len(p) \in 1..(Len(q) - 1) /\ (i + 1) - Len(p) = (i - Len(p)) + 1
          /\ ~(i <= Len(p)) /\ ~(i + 1 <= Len(p))
      BY <1>1, <1>2, <2>4
    <3>2. (p \o q)[i] = q[i - Len(p)] /\ (p \o q)[i + 1] = q[(i - Len(p)) + 1]
      BY <1>1, <2>1, <3>1
    <3> QED BY <3>1, <3>2 DEF Linked
  <2> QED BY <1>1, <2>2, <2>3, <2>4
<1>3. ASSUME q # <<>> PROVE p \o q # <<>> /\ (p \o q)[Len(p \o q)] = q[Len(q)]
  <2>1. Len(q) # 0
    BY <1>3
  <2>2. Len(p \o q) \in 1..(Len(p) + Len(q)) /\ ~(Len(p \o q) <= Len(p))
    BY <1>1, <2>1
  <2>3. Len(p \o q) - Len(p) = Len(q) /\ Len(p \o q) # 0
    BY <1>1, <2>1
  <2>4. (p \o q)[Len(p \o q)] = q[Len(q)]
    BY <1>1, <2>2, <2>3
  <2>5. p \o q # <<>>
    BY <1>1, <2>3
  <2> QED BY <2>4, <2>5
<1>4. q = <<>> => p \o q = p
  OBVIOUS
<1> QED BY <1>2, <1>3, <1>4 DEF Linked

\* Steps that leave the reader and its records alone, and in which a file
\* either grows or starts a new generation.
LEMMA ReaderUnchangedKeepsGenerations ==
  ASSUME IInv, GenerationInv, UNCHANGED <<reader, log>>,
         \A f \in Transcripts : \/ gen'[f] = gen[f] /\ size[f] <= size'[f]
                                \/ gen'[f] = gen[f] + 1,
         \A f \in Transcripts : size'[f] \in Nat
  PROVE  GenerationInv'
<1> SUFFICES ASSUME NEW f \in Transcripts
             PROVE  /\ heldGen'[f] <= gen'[f] /\ HeldIsCurrent(f)'
                    /\ Linked(Whole(f)') /\ StandsAt(f)'
  BY DEF GenerationInv, Linked, Whole, StandsAt
<1>1. /\ UNCHANGED <<offset, held, heldGen, pending, log>> /\ Whole(f)' = Whole(f)
      /\ heldGen[f] <= gen[f] /\ HeldIsCurrent(f) /\ Linked(Whole(f)) /\ StandsAt(f)
  BY DEF reader, Whole, GenerationInv
<1>2. /\ size[f] \in Nat /\ offset[f] \in Nat /\ gen[f] \in Nat /\ heldGen[f] \in Nat
      /\ size'[f] \in Nat
  BY BoundsAssumption DEF IInv, TypeOK
<1>3. CASE gen'[f] = gen[f] /\ size[f] <= size'[f]
  BY <1>1, <1>2, <1>3 DEF HeldIsCurrent, StandsAt
<1>4. CASE gen'[f] = gen[f] + 1
  <2>1. /\ heldGen'[f] <= gen'[f] /\ heldGen'[f] # gen'[f]
    BY <1>1, <1>2, <1>4
  <2>2. Len(Whole(f)) > 0 => Whole(f)[Len(Whole(f))].gen \in Nat
    <3>1. log[f] \in Seq(Record) /\ pending[f] \in Seq(Record)
      BY DEF IInv, TypeOK
    <3>2. Whole(f) \in Seq(Record)
      BY <3>1 DEF Whole
    <3>3. Len(Whole(f)) > 0 => Whole(f)[Len(Whole(f))] \in Record
      BY <3>2
    <3> QED BY <3>3 DEF Record
  <2>3. StandsAt(f)'
    BY <1>1, <1>2, <1>4, <2>2 DEF StandsAt
  <2> QED BY <1>1, <2>1, <2>3 DEF HeldIsCurrent
<1> QED BY <1>3, <1>4

\* A step of the reader at one transcript leaves the others as they were.
LEMMA OtherGenerationsKeep ==
  ASSUME GenerationInv, NEW g \in Transcripts, gen' = gen, size' = size,
         offset'[g] = offset[g], held'[g] = held[g], heldGen'[g] = heldGen[g],
         pending'[g] = pending[g], log'[g] = log[g]
  PROVE  /\ heldGen'[g] <= gen'[g] /\ HeldIsCurrent(g)'
         /\ Linked(Whole(g)') /\ StandsAt(g)'
<1>1. Whole(g)' = Whole(g)
  BY DEF Whole
<1> QED BY <1>1 DEF GenerationInv, HeldIsCurrent, StandsAt

\* A read at the end of which the records of the present generation are in p,
\* up to the last line that is complete, leaves the reader at that place.
LEMMA ReadStandsAtEnd ==
  ASSUME NEW f \in Transcripts, NEW p \in Seq(Record), Whole(f)' = p,
         p # <<>> => p[Len(p)].gen = gen[f] /\ p[Len(p)].rec = LinesIn(size[f]),
         offset'[f] = size[f], held'[f] = Rest(size[f]), heldGen'[f] = gen[f],
         gen' = gen, gen[f] \in Nat
  PROVE  StandsAt(f)'
<1>1. Len(p) > 0 => p # <<>>
  OBVIOUS
<1> QED BY <1>1 DEF StandsAt

LEMMA ScanHistoryGenerations ==
  ASSUME IInv, GenerationInv, ScanHistory
  PROVE  GenerationInv'
<1>1. PICK f \in Transcripts : f = tracked[at]
  <2>1. tracked \in Seq(Transcripts) /\ at \in 1..Len(tracked)
    BY DEF IInv, TypeOK, ScanHistory
  <2> QED BY <2>1
<1>2. PICK k : k = TailLength(LinesIn(size[f]))
  OBVIOUS
<1> DEFINE n == LinesIn(size[f])
           r == Records(gen[f], n - k + 1, n)
<1>3. /\ size[f] \in Nat /\ n \in Nat /\ gen[f] \in Nat
      /\ Rest(size[f]) \in Nat /\ Rest(size[f]) <= size[f]
  <2>1. size[f] \in Nat /\ gen[f] \in Nat
    BY <1>1, BoundsAssumption DEF IInv, TypeOK
  <2>2. n \in Nat /\ Rest(size[f]) \in 0..(Pieces - 1) /\ Rest(size[f]) <= size[f]
    BY <2>1, LinesNat
  <2> QED BY <2>1, <2>2 DEF Pieces
<1>4. k \in Nat /\ k <= n
  <2>1. spent \in Nat
    BY DEF IInv, TypeOK
  <2> HIDE DEF n
  <2> QED BY <1>2, <1>3, <2>1, BoundsAssumption DEF TailLength, Least, n
<1>5. /\ offset' = [offset EXCEPT ![f] = size[f]]
      /\ held' = [held EXCEPT ![f] = Rest(size[f])]
      /\ heldGen' = [heldGen EXCEPT ![f] = gen[f]]
      /\ pending' = [pending EXCEPT ![f] = <<>>]
      /\ log' = [log EXCEPT ![f] = r]
      /\ gen' = gen /\ size' = size
  BY <1>1, <1>2 DEF ScanHistory, files
<1> HIDE DEF n
<1>6. n - k + 1 \in Nat \ {0}
  BY <1>3, <1>4
<1>7. /\ r \in Seq(Record) /\ Linked(r)
      /\ r # <<>> => r[Len(r)].gen = gen[f] /\ r[Len(r)].rec = n
  <2>1. r \in Seq(Record)
    BY <1>3, <1>6, RecordsType
  <2>2. Linked(r)
    BY <1>3, <1>6, RecordsLinked
  <2>3. r # <<>> => r[Len(r)].gen = gen[f] /\ r[Len(r)].rec = n
    <3>1. PICK g \in Nat, a \in Nat \ {0}, b \in Nat : g = gen[f] /\ a = n - k + 1 /\ b = n
      BY <1>3, <1>6
    <3>2. r = Records(g, a, b)
      BY <3>1
    <3> HIDE DEF r
    <3>3. ASSUME r # <<>> PROVE r[Len(r)] = [gen |-> g, rec |-> b]
      BY <3>2, <3>3, RecordsEnds
    <3>4. ASSUME r # <<>> PROVE r[Len(r)].gen = g /\ r[Len(r)].rec = b
      BY <3>3, <3>4
    <3> QED BY <3>1, <3>4
  <2> QED BY <2>1, <2>2, <2>3
<1> HIDE DEF r
<1>8. /\ offset'[f] = size[f] /\ held'[f] = Rest(size[f]) /\ heldGen'[f] = gen[f]
      /\ Whole(f)' = r
  <2>1. pending'[f] = <<>> /\ log'[f] = r
    BY <1>5 DEF IInv, TypeOK
  <2>2. r \o <<>> = r
    BY <1>7
  <2> QED BY <1>5, <2>1, <2>2 DEF IInv, TypeOK, Whole
<1>9. /\ heldGen'[f] <= gen'[f] /\ HeldIsCurrent(f)' /\ Linked(Whole(f)') /\ StandsAt(f)'
  <2>1. HeldIsCurrent(f)'
    BY <1>3, <1>5, <1>8, NoLineInRest DEF HeldIsCurrent
  <2>2. StandsAt(f)'
    BY <1>3, <1>5, <1>7, <1>8, ReadStandsAtEnd DEF n
  <2> QED BY <1>3, <1>5, <1>7, <1>8, <2>1, <2>2
<1>10. ASSUME NEW g \in Transcripts \ {f}
       PROVE  /\ heldGen'[g] <= gen'[g] /\ HeldIsCurrent(g)'
              /\ Linked(Whole(g)') /\ StandsAt(g)'
  <2>1. /\ offset'[g] = offset[g] /\ held'[g] = held[g] /\ heldGen'[g] = heldGen[g]
        /\ pending'[g] = pending[g] /\ log'[g] = log[g]
    BY <1>5 DEF IInv, TypeOK
  <2> QED BY <1>5, <2>1, OtherGenerationsKeep
<1> QED BY <1>9, <1>10 DEF GenerationInv, Linked, Whole, StandsAt

LEMMA ReturnPendingGenerations ==
  ASSUME IInv, GenerationInv, NEW f \in Transcripts, ReturnPending(f)
  PROVE  GenerationInv'
<1>1. /\ pending[f] # <<>>
      /\ log' = [log EXCEPT ![f] = Append(log[f], Head(pending[f]))]
      /\ pending' = [pending EXCEPT ![f] = Tail(pending[f])]
      /\ UNCHANGED <<size, gen, offset, held, heldGen>>
  BY DEF ReturnPending, files
<1>2. log[f] \in Seq(Record) /\ pending[f] \in Seq(Record)
  BY DEF IInv, TypeOK
<1>3. Append(log[f], Head(pending[f])) \o Tail(pending[f]) = log[f] \o pending[f]
  BY <1>1, <1>2, MoveHead
<1>4. \A g \in Transcripts : Whole(g)' = Whole(g)
  BY <1>1, <1>3 DEF IInv, TypeOK, Whole
<1> QED BY <1>1, <1>4 DEF GenerationInv, HeldIsCurrent, StandsAt

\* Where a read starts, and what it parses.
LEMMA FreshStart ==
  ASSUME IInv, GenerationInv, NEW f \in Transcripts
  PROVE  \E start \in Nat :
           /\ start <= ReadFrom(f)
           /\ start = IF heldGen[f] = gen[f] THEN ReadFrom(f) - HeldFrom(f) ELSE ReadFrom(f)
           /\ Fresh(f) = Records(gen[f], LinesIn(start + Pieces - 1) + 1, LinesIn(size[f]))
           /\ LinesIn(start + Pieces - 1) \in Nat
           /\ LinesIn(ReadFrom(f)) <= LinesIn(start + Pieces - 1)
<1>1. /\ size[f] \in Nat /\ offset[f] \in Nat /\ held[f] \in Nat /\ gen[f] \in Nat
      /\ held[f] <= offset[f]
  BY BoundsAssumption DEF IInv, TypeOK, HeldWithin
<1>2. /\ ReadFrom(f) \in Nat /\ HeldFrom(f) \in Nat /\ HeldFrom(f) <= ReadFrom(f)
  BY <1>1 DEF ReadFrom, HeldFrom
<1>3. PICK start : start = IF heldGen[f] = gen[f] THEN ReadFrom(f) - HeldFrom(f) ELSE ReadFrom(f)
  OBVIOUS
<1>4. start \in Nat /\ start <= ReadFrom(f)
  BY <1>2, <1>3
<1>5. Fresh(f) = Records(gen[f], LinesIn(start + Pieces - 1) + 1, LinesIn(size[f]))
  BY <1>3 DEF Fresh, Parsed
<1>6. LinesIn(start + Pieces - 1) \in Nat /\ LinesIn(start) <= LinesIn(start + Pieces - 1)
  <2>1. start + Pieces - 1 \in Nat /\ start <= start + Pieces - 1
    BY <1>4 DEF Pieces
  <2> QED BY <1>4, <2>1, LinesNat, LinesMonotone
<1>7. LinesIn(ReadFrom(f)) = LinesIn(start)
  <2>1. CASE heldGen[f] = gen[f]
    <3>1. offset[f] <= size[f] /\ LinesIn(offset[f] - held[f]) = LinesIn(offset[f])
      BY <2>1 DEF GenerationInv, HeldIsCurrent
    <3>2. ReadFrom(f) = offset[f] /\ HeldFrom(f) = held[f]
      BY <1>1, <3>1 DEF ReadFrom, HeldFrom
    <3> QED BY <1>3, <2>1, <3>1, <3>2
  <2>2. CASE heldGen[f] # gen[f]
    BY <1>3, <2>2
  <2> QED BY <2>1, <2>2
<1> QED BY <1>3, <1>4, <1>5, <1>6, <1>7

LEMMA ReadAppendedGenerations ==
  ASSUME IInv, GenerationInv, NEW f \in Transcripts, ReadAppended(f)
  PROVE  GenerationInv'
<1> DEFINE n == LinesIn(size[f])
<1>1. /\ pending[f] = <<>> /\ gen' = gen /\ size' = size
      /\ offset' = [offset EXCEPT ![f] = size[f]]
      /\ held' = [held EXCEPT ![f] = HeldAfter(f)]
      /\ heldGen' = [heldGen EXCEPT ![f] =
                       IF HeldAfter(f) > size[f] - ReadFrom(f) THEN heldGen[f] ELSE gen[f]]
  BY DEF ReadAppended, Consume, files
<1>2. /\ log[f] \in Seq(Record) /\ Fresh(f) \in Seq(Record)
      /\ size[f] \in Nat /\ offset[f] \in Nat /\ held[f] \in Nat /\ gen[f] \in Nat
      /\ heldGen[f] \in Nat /\ n \in Nat
  <2>1. /\ log[f] \in Seq(Record) /\ size[f] \in Nat /\ offset[f] \in Nat
        /\ held[f] \in Nat /\ gen[f] \in Nat /\ heldGen[f] \in Nat
    BY BoundsAssumption DEF IInv, TypeOK
  <2>2. n \in Nat
    BY <2>1, LinesNat
  <2> QED BY <2>1, <2>2, FreshRecords
<1>3. /\ ReadFrom(f) \in Nat /\ ReadFrom(f) <= size[f]
      /\ offset[f] <= size[f] => ReadFrom(f) = offset[f] /\ HeldFrom(f) = held[f]
  BY <1>2 DEF ReadFrom, HeldFrom
<1>4. /\ Whole(f) = log[f] /\ Whole(f)' = log[f] \o Fresh(f)
  <2>1. CASE Fresh(f) = <<>>
    <3>1. log' = log /\ pending' = pending
      BY <2>1 DEF ReadAppended
    <3>2. log[f] \o <<>> = log[f]
      BY <1>2
    <3> QED BY <1>1, <2>1, <3>1, <3>2 DEF Whole
  <2>2. CASE Fresh(f) # <<>>
    <3>1. /\ log' = [log EXCEPT ![f] = Append(log[f], Head(Fresh(f)))]
          /\ pending' = [pending EXCEPT ![f] = Tail(Fresh(f))]
      BY <2>2 DEF ReadAppended
    <3>2. /\ log'[f] = Append(log[f], Head(Fresh(f)))
          /\ pending'[f] = Tail(Fresh(f))
      BY <3>1 DEF IInv, TypeOK
    <3>3. Append(log[f], Head(Fresh(f))) \o Tail(Fresh(f)) = log[f] \o Fresh(f)
      BY <1>2, <2>2, MoveHead
    <3>4. log[f] \o <<>> = log[f]
      BY <1>2
    <3> QED BY <1>1, <3>2, <3>3, <3>4 DEF Whole
  <2> QED BY <2>1, <2>2
<1>5. /\ offset'[f] = size[f] /\ held'[f] = HeldAfter(f)
      /\ heldGen'[f] = IF HeldAfter(f) > size[f] - ReadFrom(f) THEN heldGen[f] ELSE gen[f]
  BY <1>1 DEF IInv, TypeOK
<1>6. heldGen[f] <= gen[f] /\ HeldIsCurrent(f) /\ Linked(log[f]) /\ StandsAt(f)
  BY <1>4 DEF GenerationInv
<1>7. heldGen'[f] <= gen'[f]
  BY <1>1, <1>2, <1>5, <1>6
<1>8. HeldIsCurrent(f)'
  <2> SUFFICES ASSUME heldGen'[f] = gen[f]
               PROVE  LinesIn(size[f] - HeldAfter(f)) = LinesIn(size[f])
    BY <1>1, <1>2, <1>5 DEF HeldIsCurrent
  <2>1. CASE Pieces * LinesIn(size[f]) > ReadFrom(f)
    <3>1. HeldAfter(f) = Rest(size[f])
      BY <2>1 DEF HeldAfter
    <3> QED BY <1>2, <3>1, NoLineInRest
  <2>2. CASE ~(Pieces * LinesIn(size[f]) > ReadFrom(f))
    <3>1. LinesIn(ReadFrom(f)) = LinesIn(size[f])
      BY <1>2, <1>3, <2>2, NoLineBetween
    <3>2. /\ HeldAfter(f) = HeldFrom(f) + size[f] - ReadFrom(f)
          /\ HeldFrom(f) \in Nat
      BY <1>2, <2>2 DEF HeldAfter, HeldFrom
    <3>3. size[f] - HeldAfter(f) = ReadFrom(f) - HeldFrom(f)
      BY <1>2, <1>3, <3>2
    <3>4. CASE HeldFrom(f) = 0
      <4>1. ReadFrom(f) - HeldFrom(f) = ReadFrom(f)
        BY <1>3, <3>4
      <4> QED BY <3>1, <3>3, <4>1
    <3>5. CASE HeldFrom(f) # 0
      <4>1. HeldAfter(f) > size[f] - ReadFrom(f)
        BY <1>2, <1>3, <3>2, <3>5
      <4>2. heldGen[f] = gen[f]
        BY <1>5, <4>1
      <4>3. offset[f] <= size[f] /\ LinesIn(offset[f] - held[f]) = LinesIn(offset[f])
        BY <1>6, <4>2 DEF HeldIsCurrent
      <4> QED BY <1>3, <3>1, <3>3, <4>3
    <3> QED BY <3>4, <3>5
  <2> QED BY <2>1, <2>2
<1>9. ASSUME Len(log[f]) > 0, log[f][Len(log[f])].gen = gen[f]
      PROVE  /\ Fresh(f) = Records(gen[f], LinesIn(offset[f]) + 1, n)
             /\ HeldAfter(f) = Rest(size[f]) /\ heldGen[f] = gen[f]
             /\ log[f][Len(log[f])].rec = LinesIn(offset[f])
  <2>1. /\ heldGen[f] = gen[f] /\ held[f] = Rest(offset[f])
        /\ log[f][Len(log[f])].rec = LinesIn(offset[f])
    BY <1>4, <1>6, <1>9 DEF StandsAt
  <2>2. offset[f] <= size[f]
    BY <1>6, <2>1 DEF HeldIsCurrent
  <2> QED BY <2>1, <2>2, ResumedFresh
<1>10. PICK a \in Nat \ {0} :
         /\ Fresh(f) = Records(gen[f], a, n)
         /\ LinesIn(ReadFrom(f)) < a
  <2>1. PICK start \in Nat :
          /\ Fresh(f) = Records(gen[f], LinesIn(start + Pieces - 1) + 1, LinesIn(size[f]))
          /\ LinesIn(start + Pieces - 1) \in Nat
          /\ LinesIn(ReadFrom(f)) <= LinesIn(start + Pieces - 1)
    BY FreshStart
  <2>2. LinesIn(ReadFrom(f)) \in Nat
    BY <1>3, LinesNat
  <2>3. PICK b \in Nat : b = LinesIn(start + Pieces - 1)
    BY <2>1
  <2>4. b + 1 \in Nat \ {0} /\ LinesIn(ReadFrom(f)) < b + 1
    BY <2>1, <2>2, <2>3
  <2> QED BY <2>1, <2>3, <2>4
<1> HIDE DEF n
<1>11. Linked(Fresh(f))
  BY <1>2, <1>10, RecordsLinked
<1>12. ASSUME Fresh(f) # <<>>
       PROVE  /\ a <= n /\ Head(Fresh(f)) = [gen |-> gen[f], rec |-> a]
              /\ Fresh(f)[Len(Fresh(f))] = [gen |-> gen[f], rec |-> n]
  BY <1>2, <1>10, <1>12, RecordsEnds
<1>13. ASSUME log[f] # <<>>, Fresh(f) # <<>>
       PROVE  Follows(log[f][Len(log[f])], Fresh(f)[1])
  <2> DEFINE last == log[f][Len(log[f])]
  <2>1. Len(log[f]) > 0 /\ last \in Record
    BY <1>2, <1>13
  <2>2. last.gen \in Nat /\ last.gen <= gen[f]
    BY <1>4, <1>6, <2>1 DEF StandsAt, Record
  <2>3. Fresh(f)[1] = [gen |-> gen[f], rec |-> a]
    BY <1>2, <1>12, <1>13
  <2>4. CASE last.gen < gen[f]
    BY <2>3, <2>4 DEF Follows
  <2>5. CASE last.gen = gen[f]
    <3>1. /\ Fresh(f) = Records(gen[f], LinesIn(offset[f]) + 1, n)
          /\ last.rec = LinesIn(offset[f])
      BY <1>9, <2>1, <2>5
    <3>2. LinesIn(offset[f]) \in Nat
      BY <1>2, LinesNat
    <3>3. LinesIn(offset[f]) + 1 \in Nat \ {0}
      BY <3>2
    <3>4. PICK b \in Nat \ {0} : b = LinesIn(offset[f]) + 1
      BY <3>3
    <3>5. Head(Fresh(f)) = [gen |-> gen[f], rec |-> b]
      <4>1. Fresh(f) = Records(gen[f], b, n) /\ Fresh(f) # <<>> /\ gen[f] \in Nat /\ n \in Nat
        BY <1>2, <1>13, <3>1, <3>4
      <4>2. Records(gen[f], b, n) # <<>>
        BY <4>1
      <4>3. Head(Records(gen[f], b, n)) = [gen |-> gen[f], rec |-> b]
        BY <4>1, <4>2, RecordsEnds
      <4> QED BY <4>1, <4>3
    <3>6. Fresh(f)[1] = [gen |-> gen[f], rec |-> b]
      BY <1>2, <1>13, <3>5
    <3>7. Fresh(f)[1].gen = gen[f] /\ Fresh(f)[1].rec = b
      BY <3>6
    <3> QED BY <2>5, <3>1, <3>4, <3>7 DEF Follows
  <2> QED BY <1>2, <2>2, <2>4, <2>5
<1>14. /\ Linked(Whole(f)')
       /\ Fresh(f) # <<>> =>
            Whole(f)' # <<>> /\ Whole(f)'[Len(Whole(f)')] = Fresh(f)[Len(Fresh(f))]
       /\ Fresh(f) = <<>> => Whole(f)' = log[f]
  <2>1. PICK p \in Seq(Record), q \in Seq(Record) : p = log[f] /\ q = Fresh(f)
    BY <1>2
  <2>2. Linked(p) /\ Linked(q) /\ (p # <<>> /\ q # <<>> => Follows(p[Len(p)], q[1]))
    BY <1>6, <1>11, <1>13, <2>1
  <2>3. /\ Linked(p \o q)
        /\ q # <<>> => p \o q # <<>> /\ (p \o q)[Len(p \o q)] = q[Len(q)]
        /\ q = <<>> => p \o q = p
    BY <2>2, LinkedJoin
  <2> QED BY <1>4, <2>1, <2>3
<1>15. StandsAt(f)'
  <2>1. CASE Fresh(f) # <<>>
    <3>1. LinesIn(ReadFrom(f)) \in Nat /\ LinesIn(ReadFrom(f)) < LinesIn(size[f])
      <4>1. LinesIn(ReadFrom(f)) \in Nat
        BY <1>3, LinesNat
      <4>2. LinesIn(ReadFrom(f)) < n
        BY <1>2, <1>10, <1>12, <2>1, <4>1
      <4> QED BY <4>1, <4>2 DEF n
    <3>2. /\ Pieces * LinesIn(size[f]) > ReadFrom(f)
          /\ Rest(size[f]) < size[f] - ReadFrom(f)
      BY <1>2, <1>3, <3>1, LineEndBetween
    <3>3. HeldAfter(f) = Rest(size[f])
      BY <3>2 DEF HeldAfter
    <3>4. Rest(size[f]) \in Nat
      <4>1. Rest(size[f]) \in 0..(Pieces - 1)
        BY <1>2, LinesNat
      <4> QED BY <4>1 DEF Pieces
    <3>5. heldGen'[f] = gen[f]
      BY <1>2, <1>3, <1>5, <3>2, <3>3, <3>4
    <3>6. Whole(f)'[Len(Whole(f)')].gen = gen[f] /\ Whole(f)'[Len(Whole(f)')].rec = n
      <4>1. Whole(f)'[Len(Whole(f)')] = [gen |-> gen[f], rec |-> n]
        BY <1>12, <1>14, <2>1
      <4> QED BY <4>1
    <3> QED BY <1>1, <1>2, <1>5, <3>3, <3>5, <3>6 DEF StandsAt, n
  <2>2. CASE Fresh(f) = <<>>
    <3> DEFINE last == log[f][Len(log[f])]
    <3> SUFFICES ASSUME Len(log[f]) > 0
                 PROVE  /\ last.gen <= gen[f]
                        /\ last.gen = gen[f] =>
                             heldGen'[f] = gen[f] /\ held'[f] = Rest(size[f]) /\ last.rec = n
      BY <1>1, <1>5, <1>14, <2>2 DEF StandsAt, n
    <3>1. last.gen <= gen[f]
      BY <1>4, <1>6 DEF StandsAt
    <3>2. ASSUME last.gen = gen[f]
          PROVE  heldGen'[f] = gen[f] /\ held'[f] = Rest(size[f]) /\ last.rec = n
      <4>1. /\ Fresh(f) = Records(gen[f], LinesIn(offset[f]) + 1, n)
            /\ HeldAfter(f) = Rest(size[f]) /\ heldGen[f] = gen[f]
            /\ last.rec = LinesIn(offset[f])
        BY <1>9, <3>2
      <4>2. offset[f] <= size[f]
        BY <1>6, <4>1 DEF HeldIsCurrent
      <4>3. LinesIn(offset[f]) \in Nat /\ LinesIn(offset[f]) <= n
        BY <1>2, <4>2, LinesNat, LinesMonotone DEF n
      <4>4. ~(LinesIn(offset[f]) + 1 <= n)
        <5>1. PICK b \in Nat \ {0} : b = LinesIn(offset[f]) + 1
          BY <4>3
        <5>2. Records(gen[f], b, n) = <<>>
          BY <2>2, <4>1, <5>1
        <5>3. Len(Records(gen[f], b, n)) = IF b <= n THEN n - b + 1 ELSE 0
          BY <1>2, RecordsType
        <5>4. ~(b <= n)
          BY <1>2, <5>2, <5>3
        <5> QED BY <5>1, <5>4
      <4> QED BY <1>2, <1>5, <4>1, <4>3, <4>4
    <3> QED BY <3>1, <3>2
  <2> QED BY <2>1, <2>2
<1>16. ASSUME NEW g \in Transcripts \ {f}
       PROVE  /\ heldGen'[g] <= gen'[g] /\ HeldIsCurrent(g)'
              /\ Linked(Whole(g)') /\ StandsAt(g)'
  <2>1. log'[g] = log[g] /\ pending'[g] = pending[g]
    BY DEF ReadAppended, IInv, TypeOK
  <2>2. offset'[g] = offset[g] /\ held'[g] = held[g] /\ heldGen'[g] = heldGen[g]
    BY <1>1 DEF IInv, TypeOK
  <2> QED BY <1>1, <2>1, <2>2, OtherGenerationsKeep
<1> QED BY <1>7, <1>8, <1>14, <1>15, <1>16 DEF GenerationInv, Linked, Whole, StandsAt

LEMMA StepGenerations == IInv /\ GenerationInv /\ [Next]_vars => GenerationInv'
<1> SUFFICES ASSUME IInv, GenerationInv, [Next]_vars PROVE GenerationInv'
  OBVIOUS
<1>0. IInv'
  BY StepIInv
<1>1. \A f \in Transcripts : size'[f] \in Nat
  BY <1>0, BoundsAssumption DEF IInv, TypeOK
<1>2. \A f \in Transcripts : size[f] \in Nat /\ gen[f] \in Nat
  BY BoundsAssumption DEF IInv, TypeOK
<1>3. CASE \E f \in Transcripts : AppendPiece(f) \/ Rewrite(f) \/ Remove(f)
  <2>1. PICK f \in Transcripts : AppendPiece(f) \/ Rewrite(f) \/ Remove(f)
    BY <1>3
  <2>2. UNCHANGED <<reader, log>>
    BY <2>1 DEF AppendPiece, Rewrite, Remove, ghosts
  <2>3. \A g \in Transcripts : \/ gen'[g] = gen[g] /\ size[g] <= size'[g]
                               \/ gen'[g] = gen[g] + 1
    <3>1. CASE AppendPiece(f) \/ Remove(f)
      <4>1. /\ gen' = gen
            /\ size' = size \/ size' = [size EXCEPT ![f] = size[f] + 1]
        BY <3>1 DEF AppendPiece, Remove
      <4>2. \A g \in Transcripts : size'[g] = size[g] \/ size'[g] = size[g] + 1
        BY <4>1 DEF IInv, TypeOK
      <4> QED BY <1>2, <4>1, <4>2
    <3>2. CASE Rewrite(f)
      <4>1. gen' = [gen EXCEPT ![f] = gen[f] + 1]
        BY <3>2 DEF Rewrite
      <4>2. \A g \in Transcripts : g # f => gen'[g] = gen[g] /\ size'[g] = size[g]
        BY <3>2, <4>1 DEF Rewrite, IInv, TypeOK
      <4>3. gen'[f] = gen[f] + 1
        BY <4>1 DEF IInv, TypeOK
      <4>4. \A g \in Transcripts : size[g] <= size[g]
        BY <1>2
      <4> QED BY <4>2, <4>3, <4>4
    <3> QED BY <2>1, <3>1, <3>2
  <2> QED BY <1>1, <2>2, <2>3, ReaderUnchangedKeepsGenerations
<1>4. CASE \/ Discover \/ ScanFails \/ StartFollowing
           \/ (\E f \in Transcripts : ReadFails(f))
           \/ Sleep \/ IdleTimeout \/ OutputFails \/ UNCHANGED vars
  <2>1. UNCHANGED <<size, gen, reader, log>>
    BY <1>4 DEF Discover, ScanFails, StartFollowing, ReadFails, Sleep, IdleTimeout,
                OutputFails, vars, files, reader, ghosts
  <2>2. \A f \in Transcripts : gen'[f] = gen[f] /\ size[f] <= size'[f]
    BY <1>2, <2>1
  <2> QED BY <1>1, <2>1, <2>2, ReaderUnchangedKeepsGenerations
<1>5. CASE ScanHistory
  BY <1>5, ScanHistoryGenerations
<1>6. CASE \E f \in Transcripts : ReturnPending(f)
  BY <1>6, ReturnPendingGenerations
<1>7. CASE \E f \in Transcripts : ReadAppended(f)
  BY <1>7, ReadAppendedGenerations
<1> QED BY <1>3, <1>4, <1>5, <1>6, <1>7 DEF Next, Observer, Follow

LEMMA InitGenerations == Init => GenerationInv
<1> SUFFICES ASSUME Init, NEW f \in Transcripts
             PROVE  heldGen[f] <= gen[f] /\ HeldIsCurrent(f) /\ Linked(Whole(f)) /\ StandsAt(f)
  BY DEF GenerationInv
<1>1. /\ size[f] \in Nat /\ gen[f] = 0 /\ offset[f] = 0 /\ held[f] = 0 /\ heldGen[f] = 0
      /\ log[f] = <<>> /\ pending[f] = <<>>
  BY BoundsAssumption DEF Init
<1>2. Whole(f) = <<>> /\ Len(Whole(f)) = 0
  BY <1>1 DEF Whole
<1>3. HeldIsCurrent(f)
  BY <1>1 DEF HeldIsCurrent
<1> QED BY <1>1, <1>2, <1>3 DEF Linked, StandsAt

\* Rewriting mixes nothing up: what was returned of one generation of a
\* transcript is consecutive, and no older generation comes back.
THEOREM GenerationsNeverMix == Spec => []ConsecutiveWithinGeneration
<1>1. IInv /\ GenerationInv => ConsecutiveWithinGeneration
  <2> SUFFICES ASSUME IInv, GenerationInv, NEW f \in scanned, NEW i \in 1..(Len(log[f]) - 1)
               PROVE  Follows(log[f][i], log[f][i + 1])
    BY DEF ConsecutiveWithinGeneration, Follows
  <2>1. log[f] \in Seq(Record) /\ pending[f] \in Seq(Record) /\ f \in Transcripts
    BY DEF IInv, TypeOK
  <2>2. PICK p \in Seq(Record), q \in Seq(Record) : p = log[f] /\ q = pending[f]
    BY <2>1
  <2>3. Linked(p \o q)
    BY <2>1, <2>2 DEF GenerationInv, Whole
  <2>4. /\ Len(p) \in Nat /\ Len(q) \in Nat /\ i \in 1..(Len(p) - 1)
        /\ Len(p \o q) = Len(p) + Len(q)
    BY <2>2
  <2>5. i \in 1..(Len(p \o q) - 1)
    BY <2>4
  <2>6. (p \o q)[i] = p[i] /\ (p \o q)[i + 1] = p[i + 1]
    BY <2>4
  <2> QED BY <2>2, <2>3, <2>5, <2>6 DEF Linked
<1> QED BY <1>1, InitIInv, StepIInv, InitGenerations, StepGenerations, PTL DEF Spec

\* A transcript that shrank is read again from its first line, whatever the
\* reader held of the longer one.
THEOREM ShrunkenIsReadAgain == Spec => ShrunkenFileIsReadFromStart
<1> DEFINE Again == \A f \in Transcripts :
                      ReadAppended(f) /\ offset[f] > size[f] /\ LinesIn(size[f]) > 0
                        => log'[f] = Append(log[f], [gen |-> gen[f], rec |-> 1])
<1>1. IInv => Again
  <2> SUFFICES ASSUME IInv, NEW f \in Transcripts,
                      ReadAppended(f), offset[f] > size[f], LinesIn(size[f]) > 0
               PROVE  log'[f] = Append(log[f], [gen |-> gen[f], rec |-> 1])
    OBVIOUS
  <2>1. size[f] \in Nat /\ gen[f] \in Nat /\ log \in [Transcripts -> Seq(Record)]
    BY BoundsAssumption DEF IInv, TypeOK
  <2>2. ReadFrom(f) = 0 /\ HeldFrom(f) = 0
    BY DEF ReadFrom, HeldFrom
  <2>3. LinesIn(0 + Pieces - 1) + 1 = 1 /\ 0 - 0 = 0
    BY DEF LinesIn, Pieces
  <2>4. Fresh(f) = Records(gen[f], 1, LinesIn(size[f]))
    <3>1. Fresh(f) = Parsed(gen[f], 0, size[f])
      BY <2>2, <2>3 DEF Fresh
    <3> QED BY <2>3, <3>1 DEF Parsed
  <2>5. LinesIn(size[f]) \in Nat
    BY <2>1, LinesNat
  <2>6. PICK n \in Nat, a \in Nat \ {0} : n = LinesIn(size[f]) /\ a = 1
    BY <2>5
  <2>7. Len(Records(gen[f], a, n)) = IF a <= n THEN n - a + 1 ELSE 0
    BY <2>1, RecordsType
  <2>8. Records(gen[f], a, n) # <<>>
    BY <2>6, <2>7
  <2>9. Head(Records(gen[f], a, n)) = [gen |-> gen[f], rec |-> a]
    BY <2>1, <2>8, RecordsEnds
  <2>10. log' = [log EXCEPT ![f] = Append(log[f], Head(Fresh(f)))]
    BY <2>4, <2>6, <2>8 DEF ReadAppended
  <2> QED BY <2>1, <2>4, <2>6, <2>9, <2>10
<1>2. IInv /\ [Next]_vars => [Again]_vars
  BY <1>1
<1> HIDE DEF Again
<1>3. [][Again]_vars => ShrunkenFileIsReadFromStart
  BY PTL DEF ShrunkenFileIsReadFromStart, Again
<1> QED BY <1>2, <1>3, InitIInv, StepIInv, PTL DEF Spec

-----------------------------------------------------------------------------
(* What following promises, of transcripts that are only appended to.      *)

\* The last line of f that was handed over, or passed over by the history.
GivenOf(f) ==
  IF f \notin scanned THEN 0
  ELSE IF log[f] = <<>> THEN skipped[f]
  ELSE log[f][Len(log[f])].rec

Appended == INSTANCE TranscriptTail WITH
  complete <- [f \in Transcripts |-> LinesIn(size[f])],
  joined <- scanned,
  given <- [f \in Transcripts |-> GivenOf(f)]

NeverRewritten == \A f \in Transcripts : gen[f] = 0

\* The history is read once of each transcript, and a transcript that is
\* followed had its history read.
HistoryComesFirst ==
  /\ \A i, j \in 1..Len(tracked) : tracked[i] = tracked[j] => i = j
  /\ phase = "new" => at = 1 /\ scanned = {}
  /\ phase = "history" => \A i \in 1..Len(tracked) : tracked[i] \in scanned <=> i < at
  /\ phase = "follow" => \A i \in 1..Len(tracked) : tracked[i] \in scanned

LEMMA WithoutElements ==
  ASSUME NEW q \in Seq(Transcripts), NEW i \in 1..Len(q)
  PROVE  /\ Len(Without(q, i)) = Len(q) - 1
         /\ \A j \in 1..(Len(q) - 1) :
              Without(q, i)[j] = IF j < i THEN q[j] ELSE q[j + 1]
<1> DEFINE a == SubSeq(q, 1, i - 1)
           b == SubSeq(q, i + 1, Len(q))
<1>1. Len(q) \in Nat /\ i \in Nat
  OBVIOUS
<1>2. a \in Seq(Transcripts) /\ Len(a) = i - 1 /\ \A j \in 1..(i - 1) : a[j] = q[j]
  OBVIOUS
<1>3. /\ b \in Seq(Transcripts) /\ Len(b) = Len(q) - i
      /\ \A j \in 1..(Len(q) - i) : b[j] = q[i + j]
  OBVIOUS
<1> HIDE DEF a, b
<1>4. /\ Len(a \o b) = Len(q) - 1
      /\ \A j \in 1..(Len(q) - 1) : (a \o b)[j] = IF j < i THEN q[j] ELSE q[j + 1]
  <2>1. Len(a \o b) = Len(q) - 1
    <3>1. a \in Seq(Transcripts) /\ b \in Seq(Transcripts)
      BY <1>2, <1>3
    <3>2. Len(a \o b) = Len(a) + Len(b)
      BY <3>1
    <3> QED BY <1>1, <1>2, <1>3, <3>2
  <2>2. ASSUME NEW j \in 1..(Len(q) - 1)
        PROVE  (a \o b)[j] = IF j < i THEN q[j] ELSE q[j + 1]
    <3>1. CASE j < i
      <4>1. (a \o b)[j] = a[j] /\ j \in 1..(i - 1)
        BY <1>1, <1>2, <1>3, <3>1
      <4> QED BY <1>2, <3>1, <4>1
    <3>2. CASE ~(j < i)
      <4>1. (a \o b)[j] = b[j - (i - 1)] /\ j - (i - 1) \in 1..(Len(q) - i)
        BY <1>1, <1>2, <1>3, <3>2
      <4>2. i + (j - (i - 1)) = j + 1
        BY <1>1
      <4> QED BY <1>3, <3>2, <4>1, <4>2
    <3> QED BY <3>1, <3>2
  <2> QED BY <2>1, <2>2
<1> QED BY <1>4 DEF Without, a, b

\* The rest of a sequence keeps its elements distinct and its order.
LEMMA WithoutKeepsHistory ==
  ASSUME IInv, HistoryComesFirst, at \in 1..Len(tracked),
         phase \in {"history", "follow"}, phase = "history" => tracked[at] \notin scanned,
         tracked' = Without(tracked, at), scanned' = scanned,
         phase = "history" => phase' = "history" /\ at' = at,
         phase = "follow" => phase' \in {"follow", "done"}
  PROVE  HistoryComesFirst'
<1>1. PICK q, k : q = tracked /\ k = at /\ q \in Seq(Transcripts) /\ k \in 1..Len(q)
  BY DEF IInv, TypeOK
<1>2. /\ Len(Without(q, k)) = Len(q) - 1
      /\ \A j \in 1..(Len(q) - 1) :
           Without(q, k)[j] = IF j < k THEN q[j] ELSE q[j + 1]
  BY <1>1, WithoutElements
<1>3. PICK r : r = tracked'
  OBVIOUS
<1>4. /\ Len(r) = Len(q) - 1 /\ Len(q) \in Nat
      /\ \A j \in 1..Len(r) : r[j] = IF j < k THEN q[j] ELSE q[j + 1]
  BY <1>1, <1>2, <1>3
<1>5. \A i, j \in 1..Len(q) : q[i] = q[j] => i = j
  BY <1>1 DEF HistoryComesFirst
<1>6. ASSUME NEW i \in 1..Len(r), NEW j \in 1..Len(r), r[i] = r[j] PROVE i = j
  <2>1. PICK a \in 1..Len(q), b \in 1..Len(q) :
          /\ a = (IF i < k THEN i ELSE i + 1) /\ b = (IF j < k THEN j ELSE j + 1)
    BY <1>4
  <2>2. r[i] = q[a] /\ r[j] = q[b]
    BY <1>4, <2>1
  <2>3. a = b
    BY <1>5, <1>6, <2>2
  <2>4. i \in Nat /\ j \in Nat /\ k \in Nat
    BY <1>1
  <2> QED BY <2>1, <2>3, <2>4
<1>7. ASSUME phase = "history", NEW i \in 1..Len(r)
      PROVE  r[i] \in scanned <=> i < k
  <2>1. \A j \in 1..Len(q) : q[j] \in scanned <=> j < k
    BY <1>1, <1>7 DEF HistoryComesFirst
  <2>2. i \in 1..Len(q) /\ i + 1 \in 1..Len(q)
    BY <1>4
  <2>3. CASE i < k
    BY <1>4, <2>1, <2>2, <2>3
  <2>4. CASE ~(i < k)
    <3>1. i \in Nat /\ k \in Nat
      BY <1>1
    <3>2. r[i] = q[i + 1] /\ ~(i + 1 < k)
      BY <1>4, <2>4, <3>1
    <3> QED BY <2>1, <2>2, <2>4, <3>2
  <2> QED BY <2>3, <2>4
<1>8. ASSUME phase = "follow", NEW i \in 1..Len(r)
      PROVE  r[i] \in scanned
  <2>1. i \in 1..Len(q) /\ i + 1 \in 1..Len(q)
    BY <1>4
  <2> QED BY <1>1, <1>4, <1>8, <2>1 DEF HistoryComesFirst
<1> QED BY <1>1, <1>3, <1>6, <1>7, <1>8 DEF HistoryComesFirst

LEMMA StepHistoryComesFirst ==
  ASSUME IInv, HistoryComesFirst, [Next]_vars
  PROVE  HistoryComesFirst'
<1>1. /\ tracked \in Seq(Transcripts) /\ at \in Nat \ {0} /\ Len(tracked) \in Nat
      /\ phase \in {"new", "history", "follow", "done"}
  BY DEF IInv, TypeOK
<1>2. CASE Discover
  <2>1. \A i, j \in 1..Len(tracked') : tracked'[i] = tracked'[j] => i = j
    <3>1. PICK n, S : /\ tracked' \in [1..n -> S]
                      /\ \A i, j \in 1..n : tracked'[i] = tracked'[j] => i = j
      BY <1>2 DEF Discover, Selections
    <3>2. tracked' \in Seq(Transcripts)
      <4>1. IInv'
        BY StepIInv
      <4> QED BY <4>1 DEF IInv, TypeOK
    <3>3. DOMAIN tracked' = 1..n /\ DOMAIN tracked' = 1..Len(tracked')
      BY <3>1, <3>2
    <3> QED BY <3>1, <3>3
  <2> QED BY <1>2, <2>1 DEF Discover, HistoryComesFirst, ghosts
<1>3. CASE ScanHistory
  <2>1. PICK k \in 1..Len(tracked) : k = at
    BY <1>1, <1>3 DEF ScanHistory
  <2>2. /\ phase = "history" /\ phase' = phase /\ tracked' = tracked /\ at' = k + 1
        /\ scanned' = scanned \cup {tracked[k]}
    BY <1>3, <2>1 DEF ScanHistory
  <2>3. \A i \in 1..Len(tracked) : tracked[i] = tracked[k] => i = k
    BY DEF HistoryComesFirst
  <2>4. \A i \in 1..Len(tracked) : i < k + 1 <=> i < k \/ i = k
    BY <1>1
  <2>5. \A i \in 1..Len(tracked) : tracked[i] \in scanned' <=> i < k + 1
    BY <2>1, <2>2, <2>3, <2>4 DEF HistoryComesFirst
  <2> QED BY <2>2, <2>5 DEF HistoryComesFirst
<1>4. CASE ScanFails
  <2>1. at \in 1..Len(tracked) /\ ~(at < at)
    BY <1>1, <1>4 DEF ScanFails
  <2>2. tracked[at] \notin scanned
    BY <1>4, <2>1 DEF ScanFails, HistoryComesFirst
  <2> QED BY <1>4, <2>1, <2>2, WithoutKeepsHistory DEF ScanFails, ghosts
<1>5. CASE StartFollowing
  <2>1. \A i \in 1..Len(tracked) : i < at
    BY <1>1, <1>5 DEF StartFollowing
  <2> QED BY <1>5, <2>1 DEF StartFollowing, HistoryComesFirst, ghosts
<1>6. CASE \E f \in Transcripts : ReturnPending(f) \/ ReadAppended(f)
  <2>1. /\ phase = "follow" /\ phase' \in {"follow", "done"}
        /\ tracked' = tracked /\ scanned' = scanned
    BY <1>6 DEF ReturnPending, ReadAppended, Looking, ReturnEvent
  <2> QED BY <2>1 DEF HistoryComesFirst
<1>7. CASE \E f \in Transcripts : ReadFails(f)
  <2>1. at \in 1..Len(tracked)
    BY <1>1, <1>7 DEF ReadFails, Looking
  <2> QED BY <1>7, <2>1, WithoutKeepsHistory DEF ReadFails, Looking, ReturnEvent, ghosts
<1>8. CASE Sleep \/ IdleTimeout \/ OutputFails
  <2>1. /\ tracked' = tracked /\ scanned' = scanned
        /\ phase' = "done" \/ (phase = "follow" /\ phase' = phase)
    BY <1>8 DEF Sleep, IdleTimeout, OutputFails, ghosts
  <2> QED BY <2>1 DEF HistoryComesFirst
<1>9. CASE \/ \E f \in Transcripts : AppendPiece(f) \/ Rewrite(f) \/ Remove(f)
           \/ UNCHANGED vars
  <2>1. UNCHANGED <<tracked, scanned, phase, at>>
    BY <1>9 DEF AppendPiece, Rewrite, Remove, vars, ghosts
  <2> QED BY <2>1 DEF HistoryComesFirst
<1> QED BY <1>2, <1>3, <1>4, <1>5, <1>6, <1>7, <1>8, <1>9 DEF Next, Observer, Follow

\* p and q are the records k + 1 .. n.
Joined(p, q, k, n) == k <= n /\ p \o q = Records(0, k + 1, n)

\* How many records were returned tells the last line handed over.
LEMMA GivenCount ==
  ASSUME NEW p \in Seq(Record), NEW q \in Seq(Record), NEW k \in Nat, NEW n \in Nat,
         Joined(p, q, k, n)
  PROVE  /\ k + Len(p) + Len(q) = n
         /\ p = <<>> => k = k + Len(p)
         /\ p # <<>> => p[Len(p)].rec = k + Len(p)
<1>0. k <= n
  BY DEF Joined
<1>1. PICK a \in Nat \ {0} : a = k + 1
  OBVIOUS
<1>2. /\ Len(p \o q) = IF a <= n THEN n - a + 1 ELSE 0
      /\ \A i \in 1..Len(p \o q) : (p \o q)[i] = [gen |-> 0, rec |-> a + i - 1]
  <2>1. p \o q = Records(0, a, n)
    BY <1>1 DEF Joined
  <2>2. Len(Records(0, a, n)) = IF a <= n THEN n - a + 1 ELSE 0
    BY RecordsType
  <2>3. \A i \in 1..Len(Records(0, a, n)) :
          Records(0, a, n)[i] = [gen |-> 0, rec |-> a + i - 1]
    BY RecordsType
  <2> QED BY <2>1, <2>2, <2>3
<1>3. Len(p \o q) = Len(p) + Len(q) /\ Len(p) \in Nat /\ Len(q) \in Nat
  OBVIOUS
<1>4. k + Len(p) + Len(q) = n
  <2>1. (IF a <= n THEN n - a + 1 ELSE 0) = n - k
    BY <1>0, <1>1
  <2>2. Len(p) + Len(q) = n - k
    BY <1>2, <1>3, <2>1
  <2>3. PICK i \in Nat, j \in Nat : i = Len(p) /\ j = Len(q)
    BY <1>3
  <2>4. i + j = n - k => k + i + j = n
    OBVIOUS
  <2> QED BY <2>2, <2>3, <2>4
<1>5. ASSUME p # <<>> PROVE p[Len(p)].rec = k + Len(p)
  <2>1. Len(p) # 0
    BY <1>5
  <2>2. PICK i \in 1..Len(p \o q) : i = Len(p)
    BY <1>3, <2>1
  <2>3. (p \o q)[i] = p[i]
    BY <1>3, <2>2
  <2>4. (p \o q)[i] = [gen |-> 0, rec |-> a + i - 1]
    BY <1>2
  <2>5. p[i].rec = a + i - 1
    BY <2>3, <2>4
  <2> QED BY <1>1, <1>3, <2>2, <2>5
<1>6. ASSUME p = <<>> PROVE k = k + Len(p)
  BY <1>6
<1> QED BY <1>4, <1>5, <1>6

\* One more record returned of a transcript that was read is one line more
\* handed over, of those that are complete.
LEMMA ReturnHandsOver ==
  ASSUME IInv, IInv', NeverRewritten, NEW f \in scanned, NEW r,
         UNCHANGED <<size, gen, skipped, scanned>>,
         log' = [log EXCEPT ![f] = Append(log[f], r)]
  PROVE  Appended!HandOver(f)
<1>1. f \in Transcripts /\ log \in [Transcripts -> Seq(Record)]
  BY DEF IInv, TypeOK
<1>2. /\ log[f] \in Seq(Record) /\ pending[f] \in Seq(Record) /\ skipped[f] \in Nat
      /\ log'[f] \in Seq(Record) /\ pending'[f] \in Seq(Record)
      /\ offset[f] \in Nat /\ offset'[f] \in Nat /\ size[f] \in Nat
  BY <1>1, BoundsAssumption DEF IInv, TypeOK
<1>3. Position(f) /\ Position(f)'
  BY <1>1 DEF IInv, Positions, NeverRewritten
<1>4. log'[f] = Append(log[f], r)
  BY <1>1
<1>5. Len(log'[f]) = Len(log[f]) + 1 /\ Len(log[f]) \in Nat
  <2>1. PICK p \in Seq(Record) : p = log[f]
    BY <1>2
  <2>2. Append(p, r) \in Seq(Record)
    BY <1>2, <1>4, <2>1
  <2> QED BY <1>4, <2>1, <2>2
<1>6. GivenOf(f) = skipped[f] + Len(log[f])
  <2>1. LinesIn(offset[f]) \in Nat
    BY <1>2, LinesNat
  <2>2. PICK p \in Seq(Record), q \in Seq(Record), k \in Nat, n \in Nat :
          p = log[f] /\ q = pending[f] /\ k = skipped[f] /\ n = LinesIn(offset[f])
    BY <1>2, <2>1
  <2>3. Joined(p, q, k, n)
    BY <1>3, <2>2 DEF Position, Joined
  <2>4. /\ p = <<>> => k = k + Len(p)
        /\ p # <<>> => p[Len(p)].rec = k + Len(p)
    BY <2>3, GivenCount
  <2> QED BY <2>2, <2>4 DEF GivenOf
<1>7. /\ GivenOf(f)' = skipped[f] + Len(log'[f])
      /\ skipped[f] + Len(log'[f]) <= LinesIn(size[f])
  <2>1. LinesIn(offset'[f]) \in Nat /\ LinesIn(size[f]) \in Nat
    BY <1>2, LinesNat
  <2>2. PICK p \in Seq(Record), q \in Seq(Record), k \in Nat, n \in Nat :
          p = log'[f] /\ q = pending'[f] /\ k = skipped[f] /\ n = LinesIn(offset'[f])
    BY <1>2, <2>1
  <2>3. Joined(p, q, k, n)
    BY <1>3, <2>2 DEF Position, Joined
  <2>4. /\ k + Len(p) + Len(q) = n
        /\ p = <<>> => k = k + Len(p)
        /\ p # <<>> => p[Len(p)].rec = k + Len(p)
    BY <2>3, GivenCount
  <2>5. n <= LinesIn(size[f])
    <3>1. offset'[f] <= size[f]
      BY <1>3 DEF Position
    <3> QED BY <1>2, <2>2, <3>1, LinesMonotone
  <2>6. k + Len(p) <= LinesIn(size[f])
    <3>1. PICK i \in Nat, j \in Nat : i = Len(p) /\ j = Len(q)
      OBVIOUS
    <3> QED BY <2>1, <2>4, <2>5, <3>1
  <2>7. f \in scanned'
    OBVIOUS
  <2> QED BY <2>2, <2>4, <2>6, <2>7 DEF GivenOf
<1>8. GivenOf(f)' = GivenOf(f) + 1 /\ GivenOf(f) < LinesIn(size[f])
  <2>1. LinesIn(size[f]) \in Nat
    BY <1>2, LinesNat
  <2>2. PICK i \in Nat : i = Len(log[f])
    BY <1>5
  <2>3. /\ GivenOf(f) = skipped[f] + i /\ GivenOf(f)' = skipped[f] + (i + 1)
        /\ skipped[f] + (i + 1) <= LinesIn(size[f])
    BY <1>5, <1>6, <1>7, <2>2
  <2>4. PICK k \in Nat, n \in Nat : k = skipped[f] /\ n = LinesIn(size[f])
    BY <1>2, <2>1
  <2> QED BY <2>3, <2>4
<1>9. \A g \in Transcripts : g # f => GivenOf(g)' = GivenOf(g)
  BY <1>1 DEF GivenOf
<1>10. [g \in Transcripts |-> GivenOf(g)]'
         = [[g \in Transcripts |-> GivenOf(g)] EXCEPT ![f] = GivenOf(f) + 1]
  BY <1>1, <1>8, <1>9
<1> QED BY <1>1, <1>8, <1>10 DEF Appended!HandOver

LEMMA StepAsPromised ==
  ASSUME IInv, IInv', NeverRewritten, HistoryComesFirst, [Next]_vars, gen' = gen
  PROVE  [Appended!Next]_(Appended!vars)
<1>1. \A f \in Transcripts : size[f] \in Nat /\ LinesIn(size[f]) \in Nat
  <2>1. \A f \in Transcripts : size[f] \in Nat
    BY BoundsAssumption DEF IInv, TypeOK
  <2> QED BY <2>1, LinesNat
<1>2. ASSUME UNCHANGED <<size, log, skipped, scanned>> PROVE UNCHANGED Appended!vars
  BY <1>2 DEF Appended!vars, GivenOf
<1>3. ASSUME NEW f \in Transcripts, AppendPiece(f) PROVE [Appended!Next]_(Appended!vars)
  <2>1. UNCHANGED <<log, skipped, scanned>> /\ size' = [size EXCEPT ![f] = size[f] + 1]
    BY <1>3 DEF AppendPiece, ghosts
  <2>2. /\ size'[f] = size[f] + 1
        /\ \A g \in Transcripts : g # f => size'[g] = size[g]
    BY <2>1 DEF IInv, TypeOK
  <2>3. [g \in Transcripts |-> GivenOf(g)]' = [g \in Transcripts |-> GivenOf(g)]
    BY <2>1 DEF GivenOf
  <2>4. LinesIn(size'[f]) = LinesIn(size[f]) \/ LinesIn(size'[f]) = LinesIn(size[f]) + 1
    BY <1>1, <2>2 DEF LinesIn, Pieces
  <2>5. CASE LinesIn(size'[f]) = LinesIn(size[f])
    <3>1. [g \in Transcripts |-> LinesIn(size[g])]' = [g \in Transcripts |-> LinesIn(size[g])]
      BY <2>2, <2>5
    <3> QED BY <2>1, <2>3, <3>1 DEF Appended!vars
  <2>6. CASE LinesIn(size'[f]) = LinesIn(size[f]) + 1
    <3>1. [g \in Transcripts |-> LinesIn(size[g])]'
            = [[g \in Transcripts |-> LinesIn(size[g])] EXCEPT ![f] = LinesIn(size[f]) + 1]
      BY <2>2, <2>6
    <3>2. Appended!CompleteLine(f)
      BY <2>1, <2>3, <3>1 DEF Appended!CompleteLine
    <3> QED BY <3>2 DEF Appended!Next
  <2> QED BY <2>4, <2>5, <2>6
<1>4. ASSUME ScanHistory PROVE \E f \in Transcripts : Appended!Join(f)
  <2>1. PICK f \in Transcripts : f = tracked[at]
    <3>1. tracked \in Seq(Transcripts) /\ at \in 1..Len(tracked)
      BY <1>4 DEF IInv, TypeOK, ScanHistory
    <3> QED BY <3>1
  <2>2. f \notin scanned
    <3>1. at \in 1..Len(tracked) /\ ~(at < at) /\ phase = "history"
      BY <1>4 DEF IInv, TypeOK, ScanHistory
    <3> QED BY <2>1, <3>1 DEF HistoryComesFirst
  <2>3. PICK n \in Nat, k \in {TailLength(LinesIn(size[f]))} :
          n = LinesIn(size[f]) /\ k = TailLength(n)
    BY <1>1
  <2>4. k \in Nat /\ k <= n
    <3>1. spent \in Nat
      BY DEF IInv, TypeOK
    <3> QED BY <2>3, <3>1, BoundsAssumption DEF TailLength, Least
  <2>5. /\ log' = [log EXCEPT ![f] = Records(gen[f], n - k + 1, n)]
        /\ skipped' = [skipped EXCEPT ![f] = n - k]
        /\ scanned' = scanned \cup {f} /\ size' = size
    BY <1>4, <2>1, <2>3 DEF ScanHistory, files
  <2>6. GivenOf(f)' = n
    <3>1. PICK g \in Nat, a \in Nat \ {0} : g = gen[f] /\ a = n - k + 1
      <4>1. gen[f] \in Nat
        BY DEF NeverRewritten
      <4>2. n - k + 1 \in Nat \ {0}
        BY <2>4
      <4> QED BY <4>1, <4>2
    <3>2. log'[f] = Records(g, a, n) /\ skipped'[f] = n - k /\ f \in scanned'
      BY <2>5, <3>1 DEF IInv, TypeOK
    <3>3. CASE log'[f] = <<>>
      <4>1. Len(Records(g, a, n)) = IF a <= n THEN n - a + 1 ELSE 0
        BY RecordsType
      <4>2. ~(a <= n)
        BY <3>2, <3>3, <4>1
      <4>3. n - k = n
        BY <2>4, <3>1, <4>2
      <4> QED BY <3>2, <3>3, <4>3 DEF GivenOf
    <3>4. CASE log'[f] # <<>>
      <4>1. Records(g, a, n)[Len(Records(g, a, n))] = [gen |-> g, rec |-> n]
        BY <3>2, <3>4, RecordsEnds
      <4>2. log'[f][Len(log'[f])].rec = n
        BY <3>2, <4>1
      <4> QED BY <3>2, <3>4, <4>2 DEF GivenOf
    <3> QED BY <3>3, <3>4
  <2>7. \A g \in Transcripts : g # f => GivenOf(g)' = GivenOf(g)
    BY <2>5 DEF GivenOf, IInv, TypeOK
  <2>8. [g \in Transcripts |-> GivenOf(g)]'
          = [[g \in Transcripts |-> GivenOf(g)] EXCEPT ![f] = LinesIn(size[f])]
    BY <2>3, <2>6, <2>7
  <2>9. Appended!Join(f)
    BY <2>2, <2>5, <2>8 DEF Appended!Join
  <2> QED BY <2>9
<1>5. ASSUME NEW f \in Transcripts, Looking(f) PROVE f \in scanned
  <2>1. phase = "follow" /\ at \in 1..Len(tracked) /\ f = tracked[at]
    BY <1>5 DEF Looking, IInv, TypeOK
  <2> QED BY <2>1 DEF HistoryComesFirst
<1>6. ASSUME NEW f \in Transcripts, ReturnPending(f) PROVE Appended!HandOver(f)
  <2>1. /\ f \in scanned
        /\ UNCHANGED <<size, gen, skipped, scanned>>
        /\ log' = [log EXCEPT ![f] = Append(log[f], Head(pending[f]))]
    BY <1>5, <1>6 DEF ReturnPending, files
  <2> QED BY <2>1, ReturnHandsOver
<1>7. ASSUME NEW f \in Transcripts, ReadAppended(f)
      PROVE  UNCHANGED Appended!vars \/ Appended!HandOver(f)
  <2>1. f \in scanned /\ UNCHANGED <<size, gen, skipped, scanned>>
    BY <1>5, <1>7 DEF ReadAppended, files
  <2>2. CASE Fresh(f) = <<>>
    <3>1. log' = log
      BY <1>7, <2>2 DEF ReadAppended
    <3> QED BY <1>2, <2>1, <3>1
  <2>3. CASE Fresh(f) # <<>>
    <3>1. log' = [log EXCEPT ![f] = Append(log[f], Head(Fresh(f)))]
      BY <1>7, <2>3 DEF ReadAppended
    <3> QED BY <2>1, <3>1, ReturnHandsOver
  <2> QED BY <2>2, <2>3
<1>8. CASE \/ Discover \/ ScanFails \/ StartFollowing \/ Sleep \/ IdleTimeout
           \/ OutputFails \/ (\E f \in Transcripts : ReadFails(f) \/ Remove(f))
           \/ UNCHANGED vars
  <2>1. UNCHANGED <<size, log, skipped, scanned>>
    BY <1>8 DEF Discover, ScanFails, StartFollowing, ReadFails, Sleep, IdleTimeout,
                OutputFails, Remove, vars, files, ghosts
  <2> QED BY <1>2, <2>1
<1>9. \A f \in Transcripts : ~Rewrite(f)
  <2> SUFFICES ASSUME NEW f \in Transcripts, Rewrite(f) PROVE FALSE
    OBVIOUS
  <2>1. gen[f] \in Nat /\ gen'[f] = gen[f] + 1
    BY DEF Rewrite, IInv, TypeOK, NeverRewritten
  <2> QED BY <2>1
<1>10. \A f \in Transcripts :
         Appended!Join(f) \/ Appended!HandOver(f) => Appended!Next
  BY DEF Appended!Next
<1> QED BY <1>3, <1>4, <1>6, <1>7, <1>8, <1>9, <1>10 DEF Next, Observer, Follow

LEMMA InitHistoryComesFirst ==
  ASSUME Init
  PROVE  NeverRewritten /\ HistoryComesFirst
<1>1. Len(tracked) = 0
  BY DEF Init
<1> QED BY <1>1 DEF Init, NeverRewritten, HistoryComesFirst

LEMMA InitAsPromised ==
  ASSUME Init
  PROVE  Appended!Init
<1>1. \A f \in Transcripts : size[f] \in Nat
  BY BoundsAssumption DEF Init
<1>2. \A f \in Transcripts : LinesIn(size[f]) \in Nat
  BY <1>1, LinesNat
<1>3. scanned = {} /\ \A f \in Transcripts : GivenOf(f) = 0
  BY DEF Init, GivenOf
<1> QED BY <1>2, <1>3 DEF Appended!Init

\* Where no transcript is rewritten, following keeps its promise for any
\* number of them: each is joined once, at the end found by the history, and
\* from there its complete lines are handed over once each and in order.
THEOREM FollowingKeepsItsPromise ==
  ASSUME "rewrite" \notin Hazards
  PROVE  Spec => Appended!Spec
<1>1. Init => NeverRewritten /\ HistoryComesFirst
  BY InitHistoryComesFirst
<1>2. [Next]_vars => gen' = gen
  BY DEF Next, Observer, Follow, AppendPiece, Rewrite, Remove, Discover, ScanHistory,
         ScanFails, StartFollowing, ReturnPending, ReadAppended, ReadFails, Sleep,
         IdleTimeout, OutputFails, files, vars
<1>3. IInv /\ HistoryComesFirst /\ [Next]_vars => HistoryComesFirst'
  BY StepHistoryComesFirst
<1>4. Init => Appended!Init
  BY InitAsPromised
<1>5. IInv /\ IInv' /\ NeverRewritten /\ HistoryComesFirst /\ [Next]_vars /\ gen' = gen
        => [Appended!Next]_(Appended!vars)
  BY StepAsPromised
<1>6. NeverRewritten /\ gen' = gen => NeverRewritten'
  BY DEF NeverRewritten
<1> QED
  BY <1>1, <1>2, <1>3, <1>4, <1>5, <1>6, InitIInv, StepIInv, PTL DEF Spec, Appended!Spec

\* The same of a run that may rewrite one transcript or only appends: while
\* it appends, its mapping is that of Appended, and while it rewrites, the
\* mapping promises nothing.
WhileAppending ==
  /\ rewriting \in BOOLEAN
  /\ ~rewriting => NeverRewritten

LEMMA StepFollows ==
  ASSUME IInv, IInv', WhileAppending, HistoryComesFirst, [MCNext]_<<vars, rewriting>>
  PROVE  [Promise!Next]_(Promise!vars)
<1>1. rewriting' = rewriting /\ rewriting \in BOOLEAN /\ [Next]_vars
  BY DEF MCNext, WhileAppending
<1>2. CASE rewriting
  BY <1>1, <1>2 DEF Promise!vars
<1>3. CASE ~rewriting
  <2>1. NeverRewritten /\ gen' = gen
    BY <1>3 DEF WhileAppending, MCNext, vars
  <2>2. [Appended!Next]_(Appended!vars)
    BY <1>1, <2>1, StepAsPromised
  <2>3. /\ [f \in Transcripts |-> IF rewriting THEN 0 ELSE LinesIn(size[f])]
             = [f \in Transcripts |-> LinesIn(size[f])]
        /\ [f \in Transcripts |-> IF rewriting THEN 0 ELSE LinesIn(size[f])]'
             = [f \in Transcripts |-> LinesIn(size[f])]'
    BY <1>1, <1>3
  <2>4. /\ (IF rewriting THEN {} ELSE scanned) = scanned
        /\ (IF rewriting THEN {} ELSE scanned)' = scanned'
    BY <1>1, <1>3
  <2>5. /\ [f \in Transcripts |->
              IF rewriting \/ f \notin scanned THEN 0
              ELSE IF log[f] = <<>> THEN skipped[f]
              ELSE log[f][Len(log[f])].rec] = [f \in Transcripts |-> GivenOf(f)]
        /\ [f \in Transcripts |->
              IF rewriting \/ f \notin scanned THEN 0
              ELSE IF log[f] = <<>> THEN skipped[f]
              ELSE log[f][Len(log[f])].rec]' = [f \in Transcripts |-> GivenOf(f)]'
    BY <1>1, <1>3 DEF GivenOf
  <2>6. CASE UNCHANGED Appended!vars
    BY <2>3, <2>4, <2>5, <2>6 DEF Appended!vars, Promise!vars
  <2>7. CASE Appended!Next
    <3>1. PICK f \in Transcripts :
            Appended!CompleteLine(f) \/ Appended!Join(f) \/ Appended!HandOver(f)
      BY <2>7 DEF Appended!Next
    <3>2. CASE Appended!CompleteLine(f)
      <4>1. Promise!CompleteLine(f)
        BY <2>3, <2>4, <2>5, <3>2 DEF Appended!CompleteLine, Promise!CompleteLine
      <4> QED BY <4>1 DEF Promise!Next
    <3>3. CASE Appended!Join(f)
      <4>1. Promise!Join(f)
        BY <2>3, <2>4, <2>5, <3>3 DEF Appended!Join, Promise!Join
      <4> QED BY <4>1 DEF Promise!Next
    <3>4. CASE Appended!HandOver(f)
      <4>1. Promise!HandOver(f)
        BY <2>3, <2>4, <2>5, <3>4 DEF Appended!HandOver, Promise!HandOver
      <4> QED BY <4>1 DEF Promise!Next
    <3> QED BY <3>1, <3>2, <3>3, <3>4
  <2> QED BY <2>2, <2>6, <2>7
<1> QED BY <1>1, <1>2, <1>3

\* The refinement that TLC checks, for any number of transcripts and any
\* budgets: whatever else may happen, a run in which transcripts are only
\* appended to hands their lines over as TranscriptTail promises.
THEOREM TranscriptsFollowAsPromised == MCSpec => FollowsAsPromised
<1>1. MCInit => WhileAppending /\ HistoryComesFirst /\ Promise!Init
  <2> SUFFICES ASSUME MCInit PROVE WhileAppending /\ HistoryComesFirst /\ Promise!Init
    OBVIOUS
  <2>1. Init /\ rewriting \in BOOLEAN
    BY DEF MCInit
  <2>2. NeverRewritten /\ HistoryComesFirst
    BY <2>1, InitHistoryComesFirst
  <2>3. \A f \in Transcripts : LinesIn(size[f]) \in Nat
    <3>1. \A f \in Transcripts : size[f] \in Nat
      BY <2>1, BoundsAssumption DEF Init
    <3> QED BY <3>1, LinesNat
  <2>4. Promise!Init
    BY <2>1, <2>3 DEF Init, Promise!Init
  <2> QED BY <2>1, <2>2, <2>4 DEF WhileAppending
<1>2. MCInit => Init
  BY DEF MCInit
<1>3. [MCNext]_<<vars, rewriting>> => [Next]_vars
  BY DEF MCNext
<1>4. WhileAppending /\ [MCNext]_<<vars, rewriting>> => WhileAppending'
  BY DEF WhileAppending, MCNext, NeverRewritten, vars
<1>5. IInv /\ HistoryComesFirst /\ [Next]_vars => HistoryComesFirst'
  BY StepHistoryComesFirst
<1>6. IInv /\ IInv' /\ WhileAppending /\ HistoryComesFirst /\ [MCNext]_<<vars, rewriting>>
        => [Promise!Next]_(Promise!vars)
  BY StepFollows
<1> QED
  BY <1>1, <1>2, <1>3, <1>4, <1>5, <1>6, InitIInv, StepIInv, PTL
     DEF MCSpec, FollowsAsPromised, Promise!Spec
=============================================================================
