------------------------------ MODULE ConsoleViews ------------------------------
(***************************************************************************)
(* What a connection of the console answers, with or without a target      *)
(* filter.  A list is put together from two looks at the world: the        *)
(* snapshot, taken before the route is known to need it, and what the      *)
(* route reads again; processes start and end, captures and observers go   *)
(* on writing, and the index is replaced, between the two.  Requests and   *)
(* sessions are answered from an index of any age, sessions only while the *)
(* state database of Codex does not answer.  Of a text only matters        *)
(* whether it holds a term of the filter.  How the files of the read model *)
(* are found and read is in ReadModel, how captured calls are grouped by   *)
(* their pauses in CapturedSessions: all times here are within one window. *)
(***************************************************************************)
EXTENDS Integers, Sequences, FiniteSets, FiniteSetsExt, SequencesExt, OrderedLists

CONSTANTS
  Filtered,     \* whether the console was started with a filter
  MaxId,        \* ids of processes and requests go up to it, those of events follow
  Pids,         \* process ids
  Rollouts,     \* the rollouts of Codex
  Observers,    \* the artifacts of observers
  MaxWrites     \* bound on what is captured and observed

ASSUME ConsoleViewsAssumption ==
  /\ Filtered \in BOOLEAN
  /\ MaxId \in Nat /\ Pids \in SUBSET (1 .. MaxId) /\ MaxWrites \in 0 .. MaxId
  /\ IsFiniteSet(Rollouts \cup Observers) /\ Rollouts \cap Observers = {}

\* What the name of a process holds of the filter, and its path or command.
Apps == [name : BOOLEAN, other : BOOLEAN]
NotRunning == [gone |-> TRUE]

VARIABLES
  running,   \* pid -> the app that runs with it
  files,     \* the request files of the captures
  log,       \* the events of the read model, in the order they were written
  covered,   \* how many of them the index has
  stateDb,   \* whether the state database of Codex answers
  cwd,       \* whether the directory of a rollout holds a term of the filter
  handler,   \* the connection: what it is asked, and its snapshot
  response   \* history: the last list that was answered

disk == <<files, log, covered, stateDb, cwd>>
world == <<running, disk>>
vars == <<running, files, log, covered, stateDb, cwd, handler, response>>

Sources == Rollouts \cup Observers
Written == Cardinality(files) + Len(log)

-----------------------------------------------------------------------------
(* Filters.                                                                *)

Matches(hit) == Filtered => hit

\* matches_target: the display name, the path, or the command's identity.
TargetMatches(app) == Matches(app.name \/ app.other)

\* Of a captured request only the name of its target is left.
RequestMatches(r) == Matches(r.app.name)
EventMatches(e) == Matches(e.hit)

-----------------------------------------------------------------------------
(* The parts of the lists.  An item has an id, by which it is known, and a *)
(* rank, by which it is sorted.                                            *)

\* read_dir gives the files of a directory in any order.
Orders(S) == {q \in [1 .. Cardinality(S) -> S] : Cardinality(ToSet(q)) = Cardinality(S)}

Newest(id, time) == [id |-> id, rank |-> <<-time, id>>]
EventId(n) == MaxId + n
EventItem(n) == Newest(EventId(n), log[n].time)

Readable(dir) == {i \in DOMAIN dir : dir[i].whole}
Matching(dir) == {i \in Readable(dir) : RequestMatches(dir[i])}

\* The items of some files of a directory.
FileItems(dir, shown) ==
  LET order == Ascending(shown)
  IN  [i \in DOMAIN order |-> Newest(dir[order[i]].id, dir[order[i]].time)]

RequestItemsByTime(dir) ==
  LET order == Ascending(Matching(dir))
  IN  [i \in DOMAIN order |->
         [id |-> dir[order[i]].id, rank |-> <<-dir[order[i]].time, order[i]>>]]

RequestItems(dir) == FileItems(dir, Matching(dir))

\* The events that the index has.  Without one the read model is built afresh,
\* which is an index that was written this very moment.
Indexed == 1 .. covered

\* Of some events those of some sources, newest first.
EventItems(sources, events) ==
  LET shown == {n \in events : log[n].source \in sources /\ EventMatches(log[n])}
  IN  [i \in 1 .. Cardinality(shown) |-> EventItem(Descending(shown)[i])]

\* collect_activity_items_filtered: what belongs to a process that runs, and
\* does not match, is left out.
ActivityOfRequests(dir, processes) ==
  LET unmatched == {p \in DOMAIN processes : ~TargetMatches(processes[p])}
  IN  FileItems(dir, {i \in Readable(dir) : dir[i].pid \notin unmatched})

TargetItems(processes) ==
  LET shown == Ascending({p \in DOMAIN processes : TargetMatches(processes[p])})
  IN  [i \in DOMAIN shown |-> [id |-> shown[i], rank |-> <<shown[i], 0>>]]

\* The artifacts of observers are read anew for every list of targets or activity.
Observed == EventItems(Observers, DOMAIN log)

\* One for all observers of a name; it has no process id.
ObserverTargets == IF Observed = <<>> THEN <<>> ELSE <<[id |-> 0, rank |-> <<0, 0>>]>>

-----------------------------------------------------------------------------
(* Sessions.                                                               *)

Before(a, b) == a[1] < b[1] \/ (a[1] = b[1] /\ a[2] < b[2])

Exchanges(p) == {r \in files : r.whole /\ r.pid = p}
FirstExchange(p) ==
  CHOOSE r \in Exchanges(p) :
    \A s \in Exchanges(p) \ {r} : Before(<<r.time, r.id>>, <<s.time, s.id>>)

\* A session bears the name its target had at the first exchange.
SessionOfProcess(p) == Exchanges(p) # {} /\ RequestMatches(FirstExchange(p))
SessionItems ==
  LET shown == SetToSeq({p \in Pids : SessionOfProcess(p)})
  IN  [i \in DOMAIN shown |->
         Newest(shown[i], Max({r.time : r \in Exchanges(shown[i])}))]

\* What is known of a rollout: the state database is up to date, the index of any age.
EventsOf(t) == {n \in IF stateDb THEN DOMAIN log ELSE Indexed : log[n].source = t}

\* The title is of the first event.
SessionOfRollout(t) ==
  EventsOf(t) # {} /\ Matches(log[Min(EventsOf(t))].hit \/ cwd[t])

RolloutItems ==
  LET shown == SetToSeq({t \in Rollouts : SessionOfRollout(t)})
  IN  [i \in DOMAIN shown |->
         Newest(EventId(Min(EventsOf(shown[i]))), log[Max(EventsOf(shown[i]))].time)]

-----------------------------------------------------------------------------
(* The routes.                                                             *)

FirstsByTime(items) ==
  {i \in DOMAIN items : \A j \in 1 .. i - 1 : items[j].rank[1] # items[i].rank[1]}

\* Of items with the same id the first is kept.
Firsts(items) == {i \in DOMAIN items : \A j \in 1 .. i - 1 : items[j].id # items[i].id}

InOrder(items) == {p \in items \X items : Before(p[1].rank, p[2].rank)}

Merged(items) ==
  LET kept == {items[i] : i \in Firsts(items)} IN Ordered(kept, InOrder(kept))

Routes == {"targets", "activity", "requests", "sessions"}

\* What the read model and the observers add, to the snapshot and once more to
\* the answer.
Later(route) ==
  CASE route = "targets" -> ObserverTargets
    [] route = "activity" -> Observed
    [] route = "requests" -> EventItems(Sources, Indexed)
    [] route = "sessions" -> RolloutItems

\* What only the snapshot looks at.
Earlier(route, dir, processes) ==
  CASE route = "targets" -> TargetItems(processes)
    [] route = "activity" -> ActivityOfRequests(dir, processes)
    [] route = "requests" -> RequestItems(dir)
    [] route = "sessions" -> SessionItems

\* load_request_detail stops at the file it looks for, or at one it cannot read.
Meets(dir, id) == {i \in DOMAIN dir : dir[i].id = id \/ ~dir[i].whole}

RequestOpens(dir, id) ==
  \E i \in Meets(dir, id) :
    (\A j \in Meets(dir, id) : i <= j) /\ dir[i].whole /\ RequestMatches(dir[i])

-----------------------------------------------------------------------------
(* The world.                                                              *)

Idle == [at |-> "idle"]

Init ==
  /\ running = [p \in Pids |-> NotRunning]
  /\ files = {} /\ log = <<>> /\ covered = 0
  /\ stateDb \in BOOLEAN
  /\ cwd \in [Rollouts -> BOOLEAN]
  /\ handler = Idle /\ response = [route |-> "none", items |-> <<>>]

\* A process starts, ends, or goes by another name.
Process(p) ==
  /\ \E app \in Apps \cup {NotRunning} : running' = [running EXCEPT ![p] = app]
  /\ UNCHANGED <<disk, handler, response>>

Now == Max({0} \cup {r.time : r \in files} \cup {e.time : e \in ToSet(log)})
Times == {Now, Now + 1}

\* A request is captured; until it is written, and for good if that fails, its
\* file cannot be parsed.
Capture(p) ==
  /\ running[p] # NotRunning /\ Written < MaxWrites
  /\ \E time \in Times, whole \in BOOLEAN :
       files' = files \cup {[id |-> Cardinality(files) + 1, pid |-> p,
                             app |-> running[p], time |-> time, whole |-> whole]}
  /\ UNCHANGED <<running, log, covered, stateDb, cwd, handler, response>>

FileIsWritten(r) ==
  /\ ~r.whole
  /\ files' = (files \ {r}) \cup {[r EXCEPT !.whole = TRUE]}
  /\ UNCHANGED <<running, log, covered, stateDb, cwd, handler, response>>

Observe(s) ==
  /\ Written < MaxWrites
  /\ \E time \in Times, hit \in BOOLEAN :
       log' = Append(log, [source |-> s, time |-> time, hit |-> hit])
  /\ UNCHANGED <<running, files, covered, stateDb, cwd, handler, response>>

\* An index replaces another; of two builders the older one may be the later.
IndexIsWritten ==
  /\ covered' \in 0 .. Len(log)
  /\ UNCHANGED <<running, files, log, stateDb, cwd, handler, response>>

\* sqlite3 finds the database locked, or is gone, or is back.
StateDbFailsOrAnswers ==
  /\ stateDb' = ~stateDb
  /\ UNCHANGED <<running, files, log, covered, cwd, handler, response>>

-----------------------------------------------------------------------------
(* The connection.                                                         *)

Ids(items) == {item.id : item \in ToSet(items)}

\* The processes that ps shows, or none, if it cannot be run.
Seen == {[p \in {p \in Pids : running[p] # NotRunning} |-> running[p]], <<>>}

\* The snapshot.
Ask(route) ==
  /\ handler = Idle
  /\ \E dir \in Orders(files), processes \in Seen :
       handler' = [at |-> "asked", route |-> route,
                   snapshot |-> Merged(Earlier(route, dir, processes) \o Later(route))]
  /\ UNCHANGED <<world, response>>

Answer ==
  /\ handler # Idle
  /\ response' = [route |-> handler.route,
                  items |-> Merged(handler.snapshot \o Later(handler.route))]
  /\ handler' = Idle
  /\ UNCHANGED world

Next ==
  \/ \E p \in Pids : Process(p) \/ Capture(p)
  \/ \E r \in files : FileIsWritten(r)
  \/ \E s \in Sources : Observe(s)
  \/ IndexIsWritten \/ StateDbFailsOrAnswers
  \/ \E route \in Routes : Ask(route)
  \/ Answer

Spec == Init /\ [][Next]_vars

-----------------------------------------------------------------------------
\* What a list is due, whatever the order of the files and of the loads: what is
\* observed, as far as the route is told of it, and the requests that were captured.
EventIds(sources, events) ==
  {EventId(n) : n \in {n \in events : log[n].source \in sources /\ EventMatches(log[n])}}

Due(route) ==
  CASE route = "targets" -> IF Observed = <<>> THEN {} ELSE {0}
    [] route = "activity" -> EventIds(Observers, DOMAIN log)
    [] route = "requests" ->
         {r.id : r \in {r \in files : r.whole /\ RequestMatches(r)}} \cup EventIds(Sources, Indexed)
    [] route = "sessions" ->
         {p \in Pids : SessionOfProcess(p)}
           \cup {EventId(Min(EventsOf(t))) : t \in {t \in Rollouts : SessionOfRollout(t)}}

\* No detail goes around the filter: what opens is in the list.
OpenedIsListed ==
  \A dir \in Orders(files) :
    \A r \in files : RequestOpens(dir, r.id) => r.id \in Ids(RequestItems(dir))

\* A list that is put together from two looks has all requests that could be read
\* and match at the first, and all that the artifacts, the index or the state
\* database told of then, even if the index is an older one, or the database gone,
\* at the second; and nothing that neither look was told of.  (What was recorded
\* since the index was written is not in it.)  No request opens that its list
\* leaves out.
ListsAreWhole ==
  [][/\ handler = Idle /\ handler' # Idle => Due(handler'.route) \subseteq Ids(handler'.snapshot)
     /\ handler # Idle /\ handler' = Idle =>
          /\ Ids(handler.snapshot) \subseteq Ids(response'.items)
          /\ Ids(response'.items) \subseteq Ids(handler.snapshot) \cup Due(handler.route)
     /\ files' # files => OpenedIsListed']_vars

\* Two answers to the same question show what both have in the same order,
\* unless it is of sessions, which move when something happens in them.
OrderIsStable ==
  [][response'.route = response.route /\ response.route # "sessions" =>
       \A i, j \in DOMAIN response.items, k, l \in DOMAIN response'.items :
         response.items[i].id = response'.items[k].id /\ response.items[j].id = response'.items[l].id
           => (i < j => k < l)]_vars
=============================================================================
