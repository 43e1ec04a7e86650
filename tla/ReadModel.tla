------------------------------- MODULE ReadModel ------------------------------
(***************************************************************************)
(* What the console's routes make of Codex rollouts and of the artifacts   *)
(* of the observers: the two readers, line by line, and the order in which *)
(* a route asks Codex's state database, the persisted index and, last, a   *)
(* build of the read model, which renews the index.  Codex and the         *)
(* observers go on writing, and Codex archives threads, between any two    *)
(* requests.  How builds race with one another is in ObservabilityIndex:   *)
(* here one is a single step.                                              *)
(***************************************************************************)
EXTENDS Naturals, Sequences, FiniteSets, SequencesExt

CONSTANTS
  Rollouts,     \* the threads of Codex, each with its rollout
  Artifacts,    \* the artifacts of observer sessions
  Window,       \* CODEX_ROLLOUT_EVENT_LIMIT
  MaxLines,     \* bound on the lines of a file
  MaxWritten    \* bound on the lines of all files

VARIABLES
  file,     \* source -> its lines
  place,    \* source -> the directory it is in
  row,      \* thread -> its row in the state database
  db,       \* whether sqlite3 answers for the state database
  indexed,  \* whether the three files of the index are there
  index,    \* source -> its entries in the index
  page      \* history: the events the console page holds

vars == <<file, place, row, db, indexed, index, page>>
store == <<indexed, index>>

Sources == Rollouts \cup Artifacts
None == [found |-> FALSE]
Found(x) == [found |-> TRUE, it |-> x]
FirstFound(a, b) == IF a.found THEN a ELSE b

-----------------------------------------------------------------------------
(* The readers.                                                            *)

\* A line that is cut off, or has grown together with the next, is skipped.
Parsed(s) == {n \in DOMAIN file[s] : file[s][n].whole}

RolloutKinds == {"message", "tool", "tool_result"}
CapabilityKinds == {"skill", "tool"}

EventBySlot(s, thread, n, events) ==
  [id |-> <<thread, IF Len(events) < Window THEN Len(events) + 1 ELSE Window>>, line |-> n, kind |-> file[s][n].kind]

\* normalize_codex_rollout_event: an event is known by its thread and its line.
EventOf(s, thread, n, events) ==
  [id |-> <<thread, n>>, line |-> n, kind |-> file[s][n].kind]

SlideAtTheEnd(events) == IF Len(events) > Window THEN Front(events) ELSE events

\* Of a rollout only the last events are kept.
Slide(events) == IF Len(events) > Window THEN Tail(events) ELSE events

\* What the loop of read_codex_rollout_session does with a line.
RolloutLine(s, acc, n) ==
  IF n \notin Parsed(s) THEN acc
  ELSE IF file[s][n].kind = "head" THEN [acc EXCEPT !.thread = s]
  ELSE IF file[s][n].kind \in RolloutKinds
       THEN [acc EXCEPT !.events = Slide(Append(@, EventOf(s, acc.thread, n, @)))]
       ELSE acc

RolloutRead(s) ==
  LET upTo[n \in 0 .. Len(file[s])] ==
        IF n = 0 THEN [thread |-> "unknown", events |-> <<>>] ELSE RolloutLine(s, upTo[n - 1], n)
  IN  upTo[Len(file[s])]

\* What the loop of read_observer_artifact_session does with a line.
ArtifactLine(s, events, n) ==
  IF n \in Parsed(s) /\ file[s][n].kind # "head"
  THEN Append(events, EventOf(s, s, n, events)) ELSE events

ArtifactRead(s) ==
  LET upTo[n \in 0 .. Len(file[s])] == IF n = 0 THEN <<>> ELSE ArtifactLine(s, upTo[n - 1], n)
  IN  [thread |-> s, events |-> upTo[Len(file[s])]]

\* The title is of the first event that tells something of the conversation;
\* without one, a rollout is named by its thread, an artifact by its first event.
Telling(s) == IF s \in Rollouts THEN {"message"} ELSE {"message", "tool"}
TitleOf(s, events) ==
  LET telling == SelectSeq(events, LAMBDA e : e.kind \in Telling(s))
  IN  IF telling # <<>> THEN telling[1].id
      ELSE IF s \in Rollouts \/ events = <<>> THEN <<>> ELSE events[1].id

ReadAnew(s) == IF s \in Rollouts THEN RolloutRead(s) ELSE ArtifactRead(s)
SessionFrom(s, read) ==
  Found([id |-> read.thread, events |-> read.events, title |-> TitleOf(s, read.events)])

\* What reading a file anew gives: a session, if it has a thread and an event.
Session(s) ==
  LET read == ReadAnew(s)
  IN  IF read.thread = "unknown" \/ read.events = <<>> THEN None ELSE SessionFrom(s, read)

EventsIn(session) == IF session.found THEN ToSet(session.it.events) ELSE {}

-----------------------------------------------------------------------------
(* A build.                                                                *)

\* read_codex_rollout_sessions: the state database, if it can be asked, says
\* which threads are of interest, and only their directory is searched.
BuildsRollout(s) == place[s] = "sessions" /\ (db => row[s] = "open")
Built(s) == IF s \in Artifacts \/ BuildsRollout(s) THEN Session(s) ELSE None

\* The entries a build leaves in the index.
Entries(s) ==
  [known |-> Built(s).found,
   events |-> {e.id : e \in EventsIn(Built(s))},
   capabilities |-> {e.id : e \in {e \in EventsIn(Built(s)) : e.kind \in CapabilityKinds}}]

NoEntries == [known |-> FALSE, events |-> {}, capabilities |-> {}]

Build == indexed' = TRUE /\ index' = [s \in Sources |-> Entries(s)]

-----------------------------------------------------------------------------
(* The routes.                                                             *)

\* An entry of the index holds the path at which the file was.
Reachable(s) == place[s] = "sessions"

\* The read store finds the file in the index, and reads it anew.
StoreSession(s) == IF indexed /\ index[s].known /\ Reachable(s) THEN Session(s) ELSE None

\* load_codex_rollout_session_detail_from_state_db.
DbSession(s) ==
  IF s \in Rollouts /\ db /\ row[s] = "open" /\ Reachable(s) THEN Session(s) ELSE None

SessionRoute(s) == FirstFound(DbSession(s), FirstFound(StoreSession(s), Built(s)))

EventIn(id, session) ==
  LET its == {e \in EventsIn(session) : e.id = id}
  IN  IF its = {} THEN None ELSE Found(CHOOSE e \in its : TRUE)

\* The index names the session of the event, which is read anew.
StoreEvent(s, id) ==
  IF indexed /\ id \in index[s].events THEN EventIn(id, StoreSession(s)) ELSE None

EventRoute(s, id) == FirstFound(StoreEvent(s, id), EventIn(id, Built(s)))

CapabilitiesRoute(s) ==
  IF StoreSession(s).found THEN index[s].capabilities ELSE Entries(s).capabilities

\* One file that cannot be opened fails the summary of all.
StoreFails == \E s \in Sources : index[s].known /\ ~Reachable(s)
StoreSources == IF StoreFails THEN {} ELSE {s \in Sources : StoreSession(s).found}
BuiltSources == {s \in Sources : Built(s).found}

\* /api/sessions: the state database alone, if it can be asked.
SessionList ==
  IF db THEN {s \in Rollouts : row[s] = "open"}
  ELSE Rollouts \cap (IF indexed THEN StoreSources ELSE BuiltSources)

\* /api/requests: every event.
EventList ==
  UNION {EventsIn(Session(s)) : s \in IF indexed THEN StoreSources ELSE BuiltSources}

-----------------------------------------------------------------------------
(* Codex and the observers.                                                *)

Init ==
  /\ file = [s \in Sources |-> <<>>]
  /\ place = [s \in Sources |-> "none"]
  /\ row = [s \in Rollouts |-> "none"]
  /\ db \in BOOLEAN
  /\ indexed = FALSE /\ index = [s \in Sources |-> NoEntries]
  /\ page = {}

Written == FoldSet(LAMBDA s, n : n + Len(file[s]), 0, Sources)

Line(kind, whole) == [kind |-> kind, whole |-> whole]
Torn(s) == file[s] # <<>> /\ ~Last(file[s]).whole /\ Last(file[s]).kind # "damaged"
MayWrite(s) == Len(file[s]) < MaxLines /\ Written < MaxWritten

\* The head, too, may be cut off; a rollout has no other.
Begin(s) ==
  /\ place[s] = "none" /\ MayWrite(s)
  /\ place' = [place EXCEPT ![s] = "sessions"]
  /\ \E whole \in BOOLEAN : file' = [file EXCEPT ![s] = <<Line("head", whole)>>]
  /\ UNCHANGED <<row, db, store, page>>

KindsOf(s) ==
  IF s \in Rollouts THEN {"message", "tool", "reasoning"} ELSE {"message", "skill"}

\* A line is read when it is whole, or before.
Write(s) ==
  /\ place[s] = "sessions" /\ ~Torn(s) /\ MayWrite(s)
  /\ \E kind \in KindsOf(s), whole \in BOOLEAN :
       file' = [file EXCEPT ![s] = Append(@, Line(kind, whole))]
  /\ UNCHANGED <<place, row, db, store, page>>

\* The rest of the line comes, or the writer died and what it writes next is in
\* the same line.
WriteOn(s) ==
  /\ place[s] = "sessions" /\ Torn(s)
  /\ \E line \in {Line(Last(file[s]).kind, TRUE), Line("damaged", FALSE)} :
       file' = [file EXCEPT ![s][Len(file[s])] = line]
  /\ UNCHANGED <<place, row, db, store, page>>

Register(t) ==
  /\ place[t] = "sessions" /\ row[t] = "none"
  /\ row' = [row EXCEPT ![t] = "open"]
  /\ UNCHANGED <<file, place, db, store, page>>

\* Codex moves the rollout and says so in the state database, or back.
Move(t) ==
  /\ \/ row[t] = "open" /\ place[t] = "sessions" /\ place' = [place EXCEPT ![t] = "archived"]
     \/ row[t] = "archived" /\ place[t] = "archived" /\ place' = [place EXCEPT ![t] = "sessions"]
  /\ UNCHANGED <<file, row, db, store, page>>

Mark(t) ==
  /\ \/ row[t] = "open" /\ place[t] = "archived" /\ row' = [row EXCEPT ![t] = "archived"]
     \/ row[t] = "archived" /\ place[t] = "sessions" /\ row' = [row EXCEPT ![t] = "open"]
  /\ UNCHANGED <<file, place, db, store, page>>

\* The database is locked, or sqlite3 is not installed.
DbComesOrGoes == db' = ~db /\ UNCHANGED <<file, place, row, store, page>>

-----------------------------------------------------------------------------
(* The console page.                                                       *)

List ==
  /\ IF indexed THEN UNCHANGED store ELSE Build
  /\ UNCHANGED <<file, place, row, db, page>>

OpenSession(s) ==
  /\ place[s] # "none"
  /\ page' = {[source |-> s, event |-> e] : e \in EventsIn(SessionRoute(s))}
  /\ IF FirstFound(DbSession(s), StoreSession(s)).found THEN UNCHANGED store ELSE Build
  /\ UNCHANGED <<file, place, row, db>>

OpenEvent(s, id) ==
  /\ IF StoreEvent(s, id).found THEN UNCHANGED store ELSE Build
  /\ UNCHANGED <<file, place, row, db, page>>

Next ==
  \/ \E s \in Sources : Begin(s) \/ Write(s) \/ WriteOn(s) \/ OpenSession(s)
  \/ \E t \in Rollouts : Register(t) \/ Move(t) \/ Mark(t)
  \/ DbComesOrGoes \/ List
  \/ \E p \in page : OpenEvent(p.source, p.event.id)

Spec == Init /\ [][Next]_vars

-----------------------------------------------------------------------------
\* The lines of a rollout that are events.
Recognized(s) == {n \in Parsed(s) : file[s][n].kind \in RolloutKinds}

\* The events of the latest of some lines, as many as there are up to the window.
LatestOf(lines, events) ==
  /\ \A i, j \in DOMAIN events : i < j => events[i].line < events[j].line
  /\ \A i \in DOMAIN events : events[i].line \in lines
  /\ Len(events) <= Window
  /\ \A n \in lines : \/ \E i \in DOMAIN events : events[i].line = n
                      \/ Len(events) = Window /\ \A i \in DOMAIN events : n < events[i].line

\* The head of a rollout names its thread: without it there is no session.
Headed(s) == 1 \in Parsed(s) /\ file[s][1].kind = "head"
WindowIsLatest(s) ==
  Headed(s) /\ Recognized(s) # {} =>
    Session(s).found /\ LatestOf(Recognized(s), Session(s).it.events)

\* Whatever is written, and however lines are cut off: an id that stands for an
\* event now does not come to stand for another (normalize_codex_rollout_event).  A
\* session is read from its file alone.
EventIdsAreStable ==
  [][\A s \in Sources : file'[s] # file[s] =>
       \A e \in EventsIn(Session(s)), f \in EventsIn(Session(s)') :
         f.id = e.id => f = e]_file

\* Codex is not in the middle of moving the thread.
Active(s) == place[s] = "sessions" /\ (s \in Rollouts /\ db => row[s] = "open")
Archived(s) == s \in Rollouts /\ place[s] = "archived" /\ row[s] = "archived"

ArchivedIsNowhere(s) ==
  /\ s \notin SessionList /\ ~SessionRoute(s).found
  /\ \A e \in EventList : e.id[1] # s
  /\ \A e \in EventsIn(Session(s)) : ~EventRoute(s, e.id).found

\* A capability is of a line that shows one, though the index may be old.
CapabilitiesAreShown(s) ==
  \A id \in CapabilitiesRoute(s) :
    id[2] \in Parsed(s) /\ file[s][id[2]].kind \in CapabilityKinds

ShownEventOpens(p) ==
  p.event.id \in {e.id : e \in EventsIn(Session(p.source))} =>
    EventRoute(p.source, p.event.id) = Found(p.event)

\* Whatever the index holds, and whether the state database answers: a session
\* that is not archived is found as its file is now, with its latest events, and
\* an event that an earlier page shows opens as what it was, unless it has left
\* the window; an archived thread is in no list, and neither it nor an event of
\* it is found (load_session_detail, IndexReadStore, state database of Codex).
\* That details remain inspectable is openspec/specs/observability-read-model/
\* spec.md:50-57; that an index which is behind is made up for by a build is the
\* code's, and against lines 66-68 there (see ObservabilityIndex).
RoutesFollowTheFiles ==
  /\ \A s \in Sources :
       /\ Active(s) => SessionRoute(s) = Session(s) /\ CapabilitiesAreShown(s)
       /\ s \in Rollouts => WindowIsLatest(s)
       /\ Archived(s) => ArchivedIsNowhere(s)
  /\ \A p \in page : Active(p.source) => ShownEventOpens(p)
=============================================================================
