---------------------------- MODULE CodexSources ----------------------------
(***************************************************************************)
(* How a run of the Codex observer comes to its session.  The factory      *)
(* lists the sockets of the directory, looks at each, asks from the newest *)
(* on which one the desktop app holds, and builds the sources to try: that *)
(* socket, then an app server of its own; or only the socket that the user *)
(* named.  A socket is tried by one initialize request, of whose answer    *)
(* one read is judged.  What the session then does is CodexSession.        *)
(***************************************************************************)
EXTENDS Integers, Sequences

CONSTANTS
  MaxSocket,   \* sockets are 1..MaxSocket, a greater one modified later
  Answers,     \* what servers may write after the request, piece by piece
  Hazards      \* what may go wrong

HazardNames == {"vanishing",  \* sockets are removed and created
                "takeover",   \* sockets change hands
                "unreadable", \* the directory or a process cannot be looked at
                "stalling",   \* a server does not go on
                "failing"}    \* a session does not initialize

Pieces == {"blank", "notice", "answer", "head", "tail", "error", "garbage"}

VARIABLES
  present,    \* the sockets in the directory
  owner,      \* socket -> whose process holds it
  answers,    \* socket -> what its server writes
  named,      \* the socket the user named, or none
  pc,         \* what the run does next
  listed,     \* directory entries that are still to be looked at
  found,      \* sockets that were looked at
  sources,    \* the sources that are still to be tried
  current,    \* the source that is tried
  written,    \* how many pieces the server has written since the request
  tried,      \* history: the sources that were tried
  steady      \* history: desktop sockets that have been there since the listing

files == <<present, owner, answers, named, steady>>
vars == <<present, owner, answers, named, pc, listed, found, sources, current,
          written, steady, tried>>

Sockets == 1..MaxSocket
Standalone == 0
NoSocket == 0
Owners == {"desktop", "other"}

Init ==
  /\ present \in SUBSET Sockets
  /\ owner \in [Sockets -> Owners]
  /\ answers \in [Sockets -> Answers]
  /\ named \in {NoSocket} \cup Sockets
  /\ pc = "build"
  /\ listed = {} /\ found = {} /\ sources = <<>> /\ current = Standalone
  /\ written = 0 /\ steady = {} /\ tried = {}

Goto(label) == pc' = label

-----------------------------------------------------------------------------
(* build_sources.                                                          *)

\* A named socket is the only source.
UseNamed ==
  /\ pc = "build" /\ named # NoSocket
  /\ sources' = <<named>> /\ Goto("try")
  /\ UNCHANGED <<files, listed, found, current, written, tried>>

\* A directory that is missing holds no sockets.
List ==
  /\ pc = "build" /\ named = NoSocket
  /\ listed' = present
  /\ steady' = {s \in present : owner[s] = "desktop"}
  /\ Goto("look")
  /\ UNCHANGED <<present, owner, answers, named, found, sources, current, written, tried>>

Look(s) ==
  /\ pc = "look" /\ s \in listed \cap present
  /\ found' = found \cup {s}
  /\ listed' = listed \ {s}
  /\ UNCHANGED <<files, pc, sources, current, written, tried>>

\* An entry that has gone since, like a directory that cannot be read, is an
\* error of build_sources, and so of the run.
BuildFails ==
  /\ \/ pc = "look" /\ \E s \in listed : s \notin present
     \/ pc = "build" /\ named = NoSocket /\ "unreadable" \in Hazards
  /\ Goto("failed")
  /\ listed' = {} /\ found' = {}
  /\ UNCHANGED <<files, sources, current, written, tried>>

\* socket_owned_by_desktop_codex: lsof and ps that fail count as another owner.
HeldByDesktop(s) == s \in present /\ owner[s] = "desktop"

\* Which of the sockets comes first in the order by time of modification.
OldestOf(sockets) == {s \in sockets : \A t \in sockets : s <= t}
NewestOf(sockets) == {s \in sockets : \A t \in sockets : s >= t}

\* From the newest on, the first that the desktop app holds is the one; without
\* an answer about its owner the next is asked for.
AskOwner ==
  /\ pc = "look" /\ listed = {}
  /\ \E s \in NewestOf(found) :
       \/ /\ HeldByDesktop(s)
          /\ sources' = <<s, Standalone>> /\ found' = {} /\ Goto("try")
          /\ UNCHANGED steady
       \/ /\ ~HeldByDesktop(s) \/ "unreadable" \in Hazards
          /\ found' = found \ {s} /\ steady' = steady \ {s}
          /\ UNCHANGED <<sources, pc>>
  /\ UNCHANGED <<present, owner, answers, named, listed, current, written, tried>>

NoneFound ==
  /\ pc = "look" /\ listed = {} /\ found = {}
  /\ sources' = <<Standalone>> /\ Goto("try")
  /\ UNCHANGED <<files, listed, found, current, written, tried>>

-----------------------------------------------------------------------------
(* The loop of run_codex_observer.                                         *)

Try ==
  /\ pc = "try"
  /\ IF sources = <<>>
       THEN Goto("failed") /\ UNCHANGED <<sources, current, tried>>
       ELSE /\ current' = Head(sources) /\ sources' = Tail(sources)
            /\ tried' = tried \cup {Head(sources)}
            /\ Goto(IF Head(sources) = Standalone THEN "spawn" ELSE "connect")
  /\ UNCHANGED <<files, listed, found, written>>

\* validate_proxy_socket_endpoint connects and sends its request.
ConnectSocket ==
  /\ pc = "connect"
  /\ IF current \in present THEN Goto("read") /\ written' = 0
                            ELSE Goto("try") /\ UNCHANGED written
  /\ UNCHANGED <<files, listed, found, sources, current, tried>>

\* The server closes the connection before it has the request.
RequestRefused ==
  /\ pc = "connect" /\ "stalling" \in Hazards
  /\ Goto("try")
  /\ UNCHANGED <<files, listed, found, sources, current, written, tried>>

\* The first line that is not blank has to be a result, and whole.
Accepts(pieces) ==
  LET lines == SelectSeq(pieces, LAMBDA p : p # "blank")
  IN \/ lines # <<>> /\ lines[1] = "answer"
     \/ Len(lines) > 1 /\ lines[1] = "head" /\ lines[2] = "tail"

\* One read returns some of what has been written by then.
ReadAnswer ==
  /\ pc = "read"
  /\ \E n \in 1..written :
       Goto(IF Accepts(SubSeq(answers[current], 1, n)) THEN "spawn" ELSE "try")
  /\ UNCHANGED <<files, listed, found, sources, current, written, tried>>

\* The server closes the connection, or is silent until the read times out.
ReadTimesOut ==
  /\ pc = "read" /\ written = 0
  /\ "stalling" \in Hazards \/ answers[current] = <<>>
  /\ Goto("try")
  /\ UNCHANGED <<files, listed, found, sources, current, written, tried>>

\* The child is spawned and initialized, over the proxy or alone.
Initialize ==
  /\ pc = "spawn"
  /\ \/ Goto("running")
     \/ "failing" \in Hazards /\ Goto("try")
  /\ UNCHANGED <<files, listed, found, sources, current, written, tried>>

-----------------------------------------------------------------------------
(* The app servers and their sockets.                                      *)

WritePiece ==
  /\ pc = "read" /\ written < Len(answers[current])
  /\ written' = written + 1
  /\ UNCHANGED <<files, pc, listed, found, sources, current, tried>>

Searching == pc \in {"build", "look", "try", "connect"}

Replace(s) ==
  /\ Searching /\ "vanishing" \in Hazards
  /\ present' = IF s \in present THEN present \ {s} ELSE present \cup {s}
  /\ steady' = steady \ {s}
  /\ UNCHANGED <<owner, answers, named, pc, listed, found, sources, current, written, tried>>

TakeOver(s) ==
  /\ Searching /\ "takeover" \in Hazards
  /\ owner' = [owner EXCEPT ![s] = CHOOSE o \in Owners : o # @]
  /\ steady' = steady \ {s}
  /\ UNCHANGED <<present, answers, named, pc, listed, found, sources, current, written, tried>>

Observer ==
  \/ UseNamed \/ List \/ (\E s \in Sockets : Look(s)) \/ BuildFails \/ AskOwner \/ NoneFound
  \/ Try \/ ConnectSocket \/ RequestRefused \/ ReadAnswer
  \/ ReadTimesOut \/ Initialize

Next ==
  \/ Observer \/ WritePiece
  \/ \E s \in Sockets : Replace(s) \/ TakeOver(s)

Spec == Init /\ [][Next]_vars

\* The run is one plain thread whose read has a deadline.  Nothing is assumed
\* of the servers and their sockets.
FairSpec == Spec /\ WF_vars(Observer)

-----------------------------------------------------------------------------

\* Whatever comes and goes while the directory is looked through: the socket
\* that is tried first is not older than one that the desktop app has held the
\* whole time (discover_latest_codex_socket, select_latest_desktop_codex_socket).
NewestDesktopSocketIsChosen ==
  named = NoSocket /\ sources # <<>> /\ tried = {} => \A s \in steady : s <= Head(sources)

\* The run comes to a session or to an error (validate_proxy_socket_endpoint).
StartEnds == <>(pc \in {"running", "failed"})
=============================================================================
