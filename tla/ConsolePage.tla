----------------------------- MODULE ConsolePage -----------------------------
(***************************************************************************)
(* The console page in the browser, and the paged routes it reads.  The    *)
(* page runs one handler at a time, but every load is suspended while its  *)
(* fetch is on the way, and goes on from whatever the page has become.     *)
(* Agents keep recording events, which move their session to the front of  *)
(* the list, and sessions leave the list and come back; pages of the list  *)
(* are cut by offset.                                                      *)
(***************************************************************************)
EXTENDS Naturals, Sequences, FiniteSets, FiniteSetsExt, SequencesExt

CONSTANTS
  Sessions,     \* the sessions there may be
  NoSession,    \* null
  Initial,      \* the session the page was opened with, or NoSession
  PageLimit,    \* SESSION_PAGE_LIMIT
  EventLimit,   \* SESSION_EVENT_PAGE_LIMIT
  MaxEvents,    \* bound on the events of all sessions
  MaxRelists,   \* bound on how often the list changes otherwise
  MaxClicks     \* bound on what the user does

ASSUME SessionsAssumption ==
  /\ IsFiniteSet(Sessions) /\ NoSession \notin Sessions
  /\ Initial \in Sessions \cup {NoSession}
ASSUME LimitsAssumption ==
  /\ PageLimit \in Nat \ {0} /\ EventLimit \in Nat \ {0}
  /\ MaxEvents \in Nat /\ MaxRelists \in Nat /\ MaxClicks \in Nat

VARIABLES
  order,       \* the sessions as the server lists them, newest first
  events,      \* session -> how many events the server has of it
  relists,     \* how often the list changed otherwise than by an event
  sessions,    \* state.sessions
  sessionNextCursor, sessionLoadingMore,
  selectedSessionId,
  sessionDetail,       \* the timeline that is shown, and whose it is
  sessionEventsNextCursor, sessionEventsLoadingMore,
  hidden,      \* the sessions the filters of the page hide
  loads,       \* the suspended calls, each waiting for its fetch
  clicks,      \* what the user has done
  mixedList, mixedTimeline,  \* history: whether overlapping loads wrote it
  moved        \* history: what came closer to the front since the list was taken

server == <<order, events, relists>>
list == <<sessions, sessionNextCursor, sessionLoadingMore, mixedList, moved>>
timeline == <<sessionDetail, sessionEventsNextCursor, sessionEventsLoadingMore,
              mixedTimeline>>
vars == <<order, events, relists, sessions, sessionNextCursor, sessionLoadingMore,
          selectedSessionId, sessionDetail, sessionEventsNextCursor,
          sessionEventsLoadingMore, hidden, loads, clicks,
          mixedList, mixedTimeline, moved>>

-----------------------------------------------------------------------------

Null == 0    \* no next_cursor: a cursor that is given is positive

NextCursorOneBased(q, offset, limit) ==
  IF offset + limit < Len(q) THEN offset + limit + 1 ELSE Null

NextCursor(q, offset, limit) ==
  IF offset + limit < Len(q) THEN offset + limit ELSE Null

Page(q, offset, limit) ==
  [answer |-> "ok",
   items |-> SubSeq(q, offset + 1, IF offset + limit < Len(q) THEN offset + limit ELSE Len(q)),
   next |-> NextCursor(q, offset, limit)]

Awaited == [answer |-> "none", items |-> <<>>, next |-> Null]
Failed  == [answer |-> "failed", items |-> <<>>, next |-> Null]
Empty   == [answer |-> "ok", items |-> <<>>, next |-> Null]

EventsOf(s) == [i \in 1..events[s] |-> <<s, i>>]

AppendAll(items, incoming) == items \o incoming

\* appendUniqueById: an item that was seen is skipped, also one of this page.
AppendUnique(items, incoming) ==
  LET shown[n \in 0..Len(incoming)] ==
        IF n = 0 THEN items
        ELSE IF incoming[n] \in ToSet(shown[n - 1]) THEN shown[n - 1]
        ELSE Append(shown[n - 1], incoming[n])
  IN  shown[Len(incoming)]

\* The list by newest event, once s has one more: s, and the others behind it.
MoveToFront(q, s) ==
  [i \in 1..(IF s \in ToSet(q) THEN Len(q) ELSE Len(q) + 1) |->
     IF i = 1 THEN s
     ELSE IF \E j \in 1..(i - 1) : q[j] = s THEN q[i] ELSE q[i - 1]]

NoDetail == [of |-> NoSession, items |-> <<>>]

Load(id, kind, s, cursor) ==
  [id |-> id, kind |-> kind, session |-> s, cursor |-> cursor,
   page |-> Awaited, moved |-> {}]

ListLoads(l) == {k \in l : k.kind \in {"list", "more"}}
TimelineLoads(l) == {k \in l : k.kind \in {"detail", "events"}}

Init ==
  /\ \E listed \in SUBSET Sessions :
       /\ order \in SetToSeqs(listed)
       /\ events \in {e \in [Sessions -> 0..MaxEvents] :
                        /\ \A s \in listed : e[s] > 0
                        /\ MapThenSumSet(LAMBDA s : e[s], Sessions) <= MaxEvents}
  /\ relists = 0
  /\ sessions = <<>> /\ sessionNextCursor = Null /\ sessionLoadingMore = FALSE
  /\ selectedSessionId = NoSession
  /\ sessionDetail = NoDetail
  /\ sessionEventsNextCursor = Null /\ sessionEventsLoadingMore = FALSE
  /\ hidden = {}
  /\ loads = {Load(0, "list", NoSession, 0)}
  /\ clicks = 0
  /\ mixedList = FALSE /\ mixedTimeline = FALSE /\ moved = {}

-----------------------------------------------------------------------------
(* The server.                                                             *)

\* The list changes, and the sessions of m come closer to its front.
ListShifts(m) ==
  /\ moved' = moved \cup m
  /\ loads' = {IF k.kind = "list" /\ k.page.answer = "ok"
                 THEN [k EXCEPT !.moved = @ \cup m] ELSE k : k \in loads}
  /\ UNCHANGED <<sessions, sessionNextCursor, sessionLoadingMore, mixedList,
                 timeline, selectedSessionId, hidden, clicks>>

RecordEvent(s) ==
  /\ MapThenSumSet(LAMBDA r : events[r], Sessions) < MaxEvents
  /\ events' = [events EXCEPT ![s] = @ + 1]
  /\ order' = MoveToFront(order, s)
  /\ ListShifts({s})
  /\ UNCHANGED relists

\* The sessions of r that are not where they were in q, or behind that.
MovedUp(q, r) ==
  {r[j] : j \in {i \in DOMAIN r : \A h \in DOMAIN q : h <= i => q[h] # r[i]}}

\* Another list is given from now on: a session is archived or restored, the
\* captured sessions cannot be read or can again, or the state database fails
\* and an index of any age is read instead, or answers again.
Relist ==
  /\ relists < MaxRelists /\ relists' = relists + 1
  /\ order' \in UNION {SetToSeqs(S) : S \in SUBSET {s \in Sessions : events[s] > 0}}
  /\ ListShifts(MovedUp(order, order'))
  /\ UNCHANGED events

\* What may come back.  loadSessionDetail makes four requests at once: the
\* first may fail the load, a failing page of events counts as an empty one.
Answers(k) ==
  {Failed} \cup
  CASE k.kind \in {"list", "more"} -> {Page(order, k.cursor, PageLimit)}
    [] k.kind = "detail" -> {Page(EventsOf(k.session), 0, EventLimit), Empty}
    [] k.kind = "events" -> {Page(EventsOf(k.session), k.cursor, EventLimit)}

Answer(k) ==
  /\ k.page.answer = "none"
  /\ \E p \in Answers(k) : loads' = (loads \ {k}) \cup {[k EXCEPT !.page = p]}
  /\ UNCHANGED <<server, list, timeline, selectedSessionId, hidden, clicks>>

-----------------------------------------------------------------------------
(* The page goes on when a fetch is answered.                              *)

StartDetailKeepingOld(s, id, others) ==
  /\ selectedSessionId' = s
  /\ sessionEventsNextCursor' = Null /\ sessionEventsLoadingMore' = FALSE
  /\ loads' = others \cup {Load(id, "detail", s, 0)}
  /\ mixedTimeline' = (TimelineLoads(others) # {})
  /\ UNCHANGED sessionDetail

\* loadSessionDetail up to its await.
StartDetail(s, id, others) ==
  /\ selectedSessionId' = s
  /\ sessionDetail' = NoDetail
  /\ sessionEventsNextCursor' = Null /\ sessionEventsLoadingMore' = FALSE
  /\ loads' = others \cup {Load(id, "detail", s, 0)}
  /\ mixedTimeline' = (TimelineLoads(others) # {})

\* The session to select once the list has come.
Selection(items) ==
  LET visible == {i \in DOMAIN items : items[i] \notin hidden}
      shown   == {items[i] : i \in visible}
  IN  IF selectedSessionId \in shown THEN selectedSessionId
      ELSE IF visible = {} THEN NoSession
      ELSE IF Initial \in shown THEN Initial
      ELSE items[Min(visible)]

\* loadSessions goes on, to the await of loadSessionDetail.
ShowList(k) ==
  /\ k.kind = "list" /\ k.page.answer = "ok"
  /\ sessions' = k.page.items
  /\ sessionNextCursor' = k.page.next
  /\ moved' = k.moved
  /\ mixedList' = (ListLoads(loads \ {k}) # {})
  /\ LET s == Selection(k.page.items)
     IN  IF s = NoSession
           THEN /\ selectedSessionId' = NoSession
                /\ loads' = loads \ {k}
                /\ UNCHANGED timeline
           ELSE StartDetail(s, k.id, loads \ {k})
  /\ UNCHANGED <<server, sessionLoadingMore, hidden, clicks>>

ShowMore(k) ==
  /\ k.kind = "more" /\ k.page.answer = "ok"
  /\ sessions' = AppendUnique(sessions, k.page.items)
  /\ sessionNextCursor' = k.page.next
  /\ sessionLoadingMore' = FALSE
  /\ loads' = loads \ {k}
  /\ UNCHANGED <<server, mixedList, moved, timeline, selectedSessionId, hidden, clicks>>

ShowDetail(k) ==
  /\ k.kind = "detail" /\ k.page.answer = "ok"
  /\ sessionDetail' = [of |-> k.session, items |-> k.page.items]
  /\ sessionEventsNextCursor' = k.page.next
  /\ loads' = loads \ {k}
  /\ UNCHANGED <<server, list, sessionEventsLoadingMore, mixedTimeline,
                 selectedSessionId, hidden, clicks>>

\* The items go to the timeline that is shown by now; without one the handler
\* throws, and its finally block runs.
ShowMoreEvents(k) ==
  /\ k.kind = "events" /\ k.page.answer = "ok"
  /\ IF sessionDetail = NoDetail
       THEN UNCHANGED <<sessionDetail, sessionEventsNextCursor>>
       ELSE /\ sessionDetail' = [sessionDetail EXCEPT !.items = AppendUnique(@, k.page.items)]
            /\ sessionEventsNextCursor' = k.page.next
  /\ sessionEventsLoadingMore' = FALSE
  /\ loads' = loads \ {k}
  /\ UNCHANGED <<server, list, mixedTimeline, selectedSessionId, hidden, clicks>>

GiveUpSilently(k) ==
  /\ k.page.answer = "failed"
  /\ loads' = loads \ {k}
  /\ UNCHANGED <<server, list, timeline, selectedSessionId, hidden, clicks>>

\* A fetch failed: the call ends, with its finally block.
GiveUp(k) ==
  /\ k.page.answer = "failed"
  /\ loads' = loads \ {k}
  /\ sessionLoadingMore' = IF k.kind = "more" THEN FALSE ELSE sessionLoadingMore
  /\ sessionEventsLoadingMore' = IF k.kind = "events" THEN FALSE ELSE sessionEventsLoadingMore
  /\ UNCHANGED <<server, sessions, sessionNextCursor, mixedList, moved, sessionDetail,
                 sessionEventsNextCursor, mixedTimeline, selectedSessionId, hidden, clicks>>

-----------------------------------------------------------------------------
(* The user.                                                               *)

Click == clicks < MaxClicks /\ clicks' = clicks + 1

Visible == {s \in ToSet(sessions) : s \notin hidden}

ClickSession(s) ==
  /\ Click
  /\ s \in Visible
  /\ StartDetail(s, clicks', loads)
  /\ UNCHANGED <<server, list, hidden>>

\* The button is there when there is a next page and a visible session.
ClickMoreSessions ==
  /\ Click
  /\ Visible # {} /\ sessionNextCursor # Null /\ ~sessionLoadingMore
  /\ sessionLoadingMore' = TRUE
  /\ loads' = loads \cup {Load(clicks', "more", NoSession, sessionNextCursor)}
  /\ UNCHANGED <<server, sessions, sessionNextCursor, mixedList, moved, timeline,
                 selectedSessionId, hidden>>

ClickMoreEvents ==
  /\ Click
  /\ selectedSessionId # NoSession /\ sessionDetail # NoDetail
  /\ ~sessionEventsLoadingMore /\ sessionEventsNextCursor # Null
  /\ sessionEventsLoadingMore' = TRUE
  /\ loads' = loads \cup {Load(clicks', "events", selectedSessionId, sessionEventsNextCursor)}
  /\ UNCHANGED <<server, list, sessionDetail, sessionEventsNextCursor, mixedTimeline,
                 selectedSessionId, hidden>>

ClickRefresh ==
  /\ Click
  /\ loads' = loads \cup {Load(clicks', "list", NoSession, 0)}
  /\ UNCHANGED <<server, list, timeline, selectedSessionId, hidden>>

\* A runtime is chosen, or a search typed: the rows are rendered again.
ChangeFilter ==
  /\ Click
  /\ \E h \in SUBSET Sessions : h # hidden /\ hidden' = h
  /\ UNCHANGED <<server, list, timeline, selectedSessionId, loads>>

-----------------------------------------------------------------------------

Next ==
  \/ \E s \in Sessions : RecordEvent(s) \/ ClickSession(s)
  \/ \E k \in loads : \/ Answer(k)
                      \/ ShowList(k) \/ ShowMore(k) \/ ShowDetail(k)
                      \/ ShowMoreEvents(k) \/ GiveUp(k)
  \/ Relist
  \/ ClickMoreSessions \/ ClickMoreEvents \/ ClickRefresh \/ ChangeFilter

Spec == Init /\ [][Next]_vars

-----------------------------------------------------------------------------
(* Properties.                                                             *)

\* However loads overlap and fail, no session is listed twice and no event is
\* shown twice (appendUniqueById).
NothingTwice ==
  /\ IsInjective(sessions)
  /\ IsInjective(sessionDetail.items)

\* A timeline that was loaded while no other timeline was on the way belongs
\* to the selected session and is a gapless beginning of it, and what is
\* loaded next starts where it ends, whatever went wrong on the page before.
TimelineIsOfSelection ==
  ~mixedTimeline /\ TimelineLoads(loads) = {} /\ selectedSessionId # NoSession =>
    \/ sessionDetail = NoDetail
    \/ /\ sessionDetail.of = selectedSessionId
       /\ IsPrefix(sessionDetail.items, EventsOf(selectedSessionId))
       /\ sessionEventsNextCursor \in {Null, Len(sessionDetail.items)}

\* Offsets shift while agents work and sessions leave the list and come back:
\* still, as long as loads of the list do not overlap, a session is missing only
\* behind the next cursor, unless it has come closer to the front since the list
\* was taken: by an event, by coming back, or because one before it left.
RestingSessionsAreListed ==
  ~mixedList /\ ListLoads(loads) = {} /\ sessions # <<>> =>
    \A i \in 1..Len(order) :
      \/ order[i] \in moved \cup ToSet(sessions)
      \/ sessionNextCursor # Null /\ i > sessionNextCursor

\* A button that says loading has a load that will release it.
NoButtonIsStuck ==
  /\ sessionLoadingMore => \E k \in loads : k.kind = "more"
  /\ sessionEventsLoadingMore => \E k \in loads : k.kind = "events"
=============================================================================
