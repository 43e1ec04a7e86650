-------------------------- MODULE ClaudeTranscript --------------------------
(***************************************************************************)
(* The Claude Code transcript observer: one run discovers transcripts,     *)
(* returns their recent history, then follows them while Claude Code goes  *)
(* on writing, rewriting or removing the files.                            *)
(*                                                                         *)
(* A read may cut a line anywhere, so a file is a row of pieces, Pieces of *)
(* them to a line, the last one carrying the newline.  Piece p belongs to  *)
(* record (p - 1) \div Pieces + 1.  Each rewrite of a file starts a new    *)
(* generation of its records.                                              *)
(***************************************************************************)
EXTENDS Integers, Sequences, FiniteSets

CONSTANTS
  Transcripts,  \* the jsonl files below the transcript root
  MaxFiles,     \* options.max_files
  MaxEvents,    \* options.max_events, the budget of the history
  MaxFollow,    \* options.max_follow_events
  MaxSize,      \* bound on the pieces of a file
  MaxGen,       \* bound on the rewrites of a file
  Hazards       \* what the environment may do besides appending

HazardNames == {"rewrite",      \* a transcript is rewritten, or truncated
                "remove",       \* a transcript can no longer be read
                "write_error"}  \* an event cannot be written to the artifact

ASSUME BoundsAssumption ==
  /\ MaxFiles \in Nat /\ MaxEvents \in Nat
  /\ MaxSize \in Nat /\ MaxGen \in Nat
  /\ MaxFollow \in Nat \ {0}
ASSUME TranscriptsAssumption == IsFiniteSet(Transcripts)
ASSUME HazardsAssumption == Hazards \subseteq HazardNames

VARIABLES
  size,      \* transcript -> pieces it holds
  gen,       \* transcript -> how often it was rewritten
  readable,  \* transcript -> whether it can be opened
  phase,     \* "new", "history", "follow", "done"
  tracked,   \* the transcripts of the session, in its order
  at,        \* the position in tracked that is looked at next
  spent,     \* events the history has returned
  returned,  \* events next_event has returned
  offset,    \* transcript -> pieces read
  held,      \* transcript -> pieces of the partial line it holds
  heldGen,   \* transcript -> generation of the first of them
  pending,   \* transcript -> parsed records not yet returned
  log,       \* history: transcript -> the records returned for it
  skipped,   \* history: transcript -> old records beyond the budget
  scanned    \* history: the transcripts whose history was read

files == <<size, gen, readable>>
reader == <<offset, held, heldGen, pending>>
ghosts == <<log, skipped, scanned>>
vars == <<size, gen, readable, phase, tracked, at, spent, returned,
          offset, held, heldGen, pending, log, skipped, scanned>>

-----------------------------------------------------------------------------

Pieces == 3
LinesIn(n) == n \div Pieces
Rest(n) == n - Pieces * LinesIn(n)    \* pieces after the last newline
Least(a, b) == IF a <= b THEN a ELSE b

Record == [gen : Nat, rec : Nat]

\* The records g, first .. last.
Records(g, first, last) ==
  [i \in 1..(IF first <= last THEN last - first + 1 ELSE 0) |->
     [gen |-> g, rec |-> first + i - 1]]

\* The records whose lines lie wholly in pieces start+1 .. end of a file.  A
\* line that was cut at start is not JSON, and is passed over.
Parsed(g, start, end) == Records(g, LinesIn(start + Pieces - 1) + 1, LinesIn(end))

TailLengthUnclamped(n) == IF spent < MaxEvents THEN MaxEvents - spent ELSE 0

\* How many of n records a history of spent events still has room for.
TailLength(n) == IF spent < MaxEvents THEN Least(MaxEvents - spent, n) ELSE 0

Without(q, i) == SubSeq(q, 1, i - 1) \o SubSeq(q, i + 1, Len(q))

\* What discovery may return: at most MaxFiles of the files, by recency.
Selections ==
  LET found == {f \in Transcripts : readable[f]}
      n == Least(MaxFiles, Cardinality(found))
  IN  {q \in [1..n -> found] : \A i, j \in 1..n : q[i] = q[j] => i = j}

Init ==
  /\ size \in [Transcripts -> 0..MaxSize]
  /\ gen = [f \in Transcripts |-> 0]
  /\ readable = [f \in Transcripts |-> TRUE]
  /\ phase = "new"
  /\ tracked = <<>>
  /\ at = 1 /\ spent = 0 /\ returned = 0
  /\ offset = [f \in Transcripts |-> 0]
  /\ held = [f \in Transcripts |-> 0]
  /\ heldGen = [f \in Transcripts |-> 0]
  /\ pending = [f \in Transcripts |-> <<>>]
  /\ log = [f \in Transcripts |-> <<>>]
  /\ skipped = [f \in Transcripts |-> 0]
  /\ scanned = {}

-----------------------------------------------------------------------------
(* Claude Code.                                                            *)

AppendPiece(f) ==
  /\ readable[f] /\ size[f] < MaxSize
  /\ size' = [size EXCEPT ![f] = @ + 1]
  /\ UNCHANGED <<gen, readable, phase, tracked, at, spent, returned, reader, ghosts>>

Rewrite(f) ==
  /\ "rewrite" \in Hazards
  /\ readable[f] /\ gen[f] < MaxGen
  /\ gen' = [gen EXCEPT ![f] = @ + 1]
  /\ \E n \in 0..MaxSize : size' = [size EXCEPT ![f] = n]
  /\ UNCHANGED <<readable, phase, tracked, at, spent, returned, reader, ghosts>>

Remove(f) ==
  /\ "remove" \in Hazards
  /\ readable[f]
  /\ readable' = [readable EXCEPT ![f] = FALSE]
  /\ UNCHANGED <<size, gen, phase, tracked, at, spent, returned, reader, ghosts>>

-----------------------------------------------------------------------------
(* The observer.                                                           *)

\* With no transcript to follow one status event stands for the history.
Discover ==
  /\ phase = "new"
  /\ phase' = "history"
  /\ tracked' \in Selections
  /\ spent' = IF tracked' = <<>> THEN 1 ELSE 0
  /\ UNCHANGED <<files, at, returned, reader, ghosts>>

\* The whole file is read and counts as consumed; the newest records are
\* returned, as far as the budget goes.
ScanHistory ==
  /\ phase = "history" /\ at <= Len(tracked)
  /\ LET f == tracked[at]
         n == LinesIn(size[f])
         k == TailLength(n)
     IN  /\ readable[f]
         /\ offset' = [offset EXCEPT ![f] = size[f]]
         /\ held' = [held EXCEPT ![f] = Rest(size[f])]
         /\ heldGen' = [heldGen EXCEPT ![f] = gen[f]]
         /\ pending' = [pending EXCEPT ![f] = <<>>]
         /\ log' = [log EXCEPT ![f] = Records(gen[f], n - k + 1, n)]
         /\ skipped' = [skipped EXCEPT ![f] = n - k]
         /\ scanned' = scanned \cup {f}
         /\ spent' = spent + k
  /\ at' = at + 1
  /\ UNCHANGED <<files, phase, tracked, returned>>

\* A transcript that cannot be read costs one event and is not retained.
ScanFails ==
  /\ phase = "history" /\ at <= Len(tracked)
  /\ ~readable[tracked[at]]
  /\ tracked' = Without(tracked, at)
  /\ spent' = spent + 1
  /\ UNCHANGED <<files, phase, at, returned, reader, ghosts>>

StartFollowing ==
  /\ phase = "history" /\ at > Len(tracked)
  /\ phase' = "follow"
  /\ at' = 1
  /\ UNCHANGED <<files, tracked, spent, returned, reader, ghosts>>

\* next_event returns an event; the next call starts at the first transcript.
ReturnEvent ==
  /\ returned' = returned + 1
  /\ phase' = IF returned + 1 < MaxFollow THEN "follow" ELSE "done"
  /\ at' = 1

Looking(f) == phase = "follow" /\ at <= Len(tracked) /\ f = tracked[at]

ReturnPending(f) ==
  /\ Looking(f) /\ pending[f] # <<>>
  /\ log' = [log EXCEPT ![f] = Append(@, Head(pending[f]))]
  /\ pending' = [pending EXCEPT ![f] = Tail(@)]
  /\ ReturnEvent
  /\ UNCHANGED <<files, tracked, spent, offset, held, heldGen, skipped, scanned>>

ReadFromNeverReset(f) == offset[f]

\* A file shorter than the offset is read again from its start.
ReadFrom(f) == IF offset[f] > size[f] THEN 0 ELSE offset[f]
HeldFrom(f) == IF offset[f] > size[f] THEN 0 ELSE held[f]

HeldAfterNeverDrained(f) == HeldFrom(f) + size[f] - ReadFrom(f)

HeldAfterReplacing(f) ==
  IF Pieces * LinesIn(size[f]) > ReadFrom(f)
    THEN Rest(size[f])
    ELSE size[f] - ReadFrom(f)

\* The tail of the buffer after its last newline.
HeldAfter(f) ==
  IF Pieces * LinesIn(size[f]) > ReadFrom(f)
    THEN Rest(size[f])
    ELSE HeldFrom(f) + size[f] - ReadFrom(f)

FreshWithoutPartial(f) == Parsed(gen[f], ReadFrom(f), size[f])

\* The partial line and what was appended to it, parsed together.
Fresh(f) ==
  Parsed(gen[f],
         IF heldGen[f] = gen[f] THEN ReadFrom(f) - HeldFrom(f) ELSE ReadFrom(f),
         size[f])

Consume(f) ==
  /\ offset' = [offset EXCEPT ![f] = size[f]]
  /\ held' = [held EXCEPT ![f] = HeldAfter(f)]
  /\ heldGen' = [heldGen EXCEPT ![f] =
                   IF HeldAfter(f) > size[f] - ReadFrom(f) THEN @ ELSE gen[f]]

ReadAppended(f) ==
  /\ Looking(f) /\ pending[f] = <<>> /\ readable[f]
  /\ Consume(f)
  /\ IF Fresh(f) = <<>>
       THEN /\ at' = at + 1
            /\ UNCHANGED <<phase, returned, pending, log>>
       ELSE /\ log' = [log EXCEPT ![f] = Append(@, Head(Fresh(f)))]
            /\ pending' = [pending EXCEPT ![f] = Tail(Fresh(f))]
            /\ ReturnEvent
  /\ UNCHANGED <<files, tracked, spent, skipped, scanned>>

\* The transcript is dropped and a status event returned in its place.
ReadFails(f) ==
  /\ Looking(f) /\ pending[f] = <<>> /\ ~readable[f]
  /\ tracked' = Without(tracked, at)
  /\ ReturnEvent
  /\ UNCHANGED <<files, spent, reader, ghosts>>

\* No transcript had an event: sleep and look again, until the idle timeout.
Sleep ==
  /\ phase = "follow" /\ tracked # <<>> /\ at > Len(tracked)
  /\ at' = 1
  /\ UNCHANGED <<files, phase, tracked, spent, returned, reader, ghosts>>

IdleTimeoutWhileTracking ==
  /\ phase = "follow" /\ tracked # <<>> /\ at > Len(tracked)
  /\ phase' = "done"
  /\ UNCHANGED <<files, tracked, at, spent, returned, reader, ghosts>>

\* The deadline has passed, or there is no transcript left to observe.
IdleTimeout ==
  /\ phase = "follow" /\ at > Len(tracked)
  /\ phase' = "done"
  /\ UNCHANGED <<files, tracked, at, spent, returned, reader, ghosts>>

\* append_event or the terminal fails: the error ends the run.
OutputFails ==
  /\ "write_error" \in Hazards
  /\ phase \in {"history", "follow"}
  /\ phase' = "done"
  /\ UNCHANGED <<files, tracked, at, spent, returned, reader, ghosts>>

-----------------------------------------------------------------------------

Follow(f) == ReturnPending(f) \/ ReadAppended(f) \/ ReadFails(f)

Observer ==
  \/ Discover \/ ScanHistory \/ ScanFails \/ StartFollowing
  \/ \E f \in Transcripts : Follow(f)
  \/ Sleep \/ IdleTimeout

Next ==
  \/ \E f \in Transcripts : AppendPiece(f) \/ Rewrite(f) \/ Remove(f)
  \/ Observer
  \/ OutputFails

Spec == Init /\ [][Next]_vars

\* The run is a thread of its own, and the clock reaches the deadline that
\* next_event takes when it is called.
FairSpec == Spec /\ WF_vars(Observer) /\ SF_vars(IdleTimeout)

-----------------------------------------------------------------------------
(* Properties.                                                             *)

\* Every variable keeps its type, and the budgets are kept.
TypeOK ==
  /\ size \in [Transcripts -> 0..MaxSize]
  /\ gen \in [Transcripts -> 0..MaxGen]
  /\ readable \in [Transcripts -> BOOLEAN]
  /\ phase \in {"new", "history", "follow", "done"}
  /\ tracked \in Seq(Transcripts)
  /\ at \in Nat \ {0} /\ spent \in Nat
  /\ returned \in 0..MaxFollow
  /\ offset \in [Transcripts -> Nat]
  /\ held \in [Transcripts -> Nat]
  /\ heldGen \in [Transcripts -> 0..MaxGen]
  /\ pending \in [Transcripts -> Seq(Record)]
  /\ log \in [Transcripts -> Seq(Record)]
  /\ skipped \in [Transcripts -> Nat]
  /\ scanned \subseteq Transcripts

\* Of a transcript that is only appended to, what was returned and what is
\* pending are exactly the records read so far, from the first that the
\* history budget let through: no record is lost, repeated or out of order,
\* wherever reads cut the lines (read_appended_event and its partial line).
EachRecordOnceInOrder ==
  \A f \in scanned : gen[f] = 0 =>
    log[f] \o pending[f] = Records(0, skipped[f] + 1, LinesIn(offset[f]))

\* The same while transcripts are rewritten: the records returned of one
\* generation are consecutive, and no older generation comes back.
ConsecutiveWithinGeneration ==
  \A f \in scanned : \A i \in 1..(Len(log[f]) - 1) :
    LET a == log[f][i]
        b == log[f][i + 1]
    IN  \/ a.gen = b.gen /\ b.rec = a.rec + 1
        \/ a.gen < b.gen

\* A transcript that shrank is read again from its first line: what is
\* returned after the shrunken file was read starts at record 1.
ShrunkenFileIsReadFromStart ==
  [][\A f \in Transcripts :
       ReadAppended(f) /\ offset[f] > size[f] /\ LinesIn(size[f]) > 0
         => log'[f] = Append(log[f], [gen |-> gen[f], rec |-> 1])]_vars

\* The run ends: each call of next_event returns an event, of which there are
\* at most MaxFollow, or times out, even while transcripts keep growing.
RunEnds == <>(phase = "done")
=============================================================================
