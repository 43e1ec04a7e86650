--------------------------- MODULE CapturedSessions ---------------------------
(***************************************************************************)
(* How the console rebuilds sessions from the request, response and tool   *)
(* visibility files of captured exchanges.  A directory is a set of files; *)
(* a file that is not whole cannot be parsed.                              *)
(***************************************************************************)
EXTENDS Integers, Sequences, FiniteSets, SequencesExt, OrderedLists

CONSTANT SessionWindow    \* SESSION_WINDOW_MS

ASSUME SessionWindowAssumption == SessionWindow \in Nat

\* Files of a directory that cannot be read fail the whole load: only those of
\* the requests are skipped one by one.
Readable(dir) == \A f \in dir : f.whole

\* The response that is kept for an exchange: the latest one.
ResponseTo(x, responses) ==
  LET its == {r \in responses : r.exchange = x}
  IN  {r \in its : \A o \in its : o.completed <= r.completed}

HasTools(f, visibility) ==
  \E v \in visibility : v.request = f.id \/ v.exchange = f.exchange

\* load_request_records, which skips what cannot be parsed.
RequestRecords(requests) == {f \in requests : f.whole}

\* load_exchange_records.
ExchangeRecords(requests, responses, visibility) ==
  {[id |-> f.id, exchange |-> f.exchange, pid |-> f.pid, started |-> f.at,
    hasResponse |-> ResponseTo(f.exchange, responses) # {},
    hasTools |-> HasTools(f, visibility),
    completed |-> IF ResponseTo(f.exchange, responses) = {} THEN f.at
                  ELSE (CHOOSE r \in ResponseTo(f.exchange, responses) : TRUE).completed] :
   f \in RequestRecords(requests)}

\* Request ids are compared as text; below ten captures that is their sequence.
StartedBefore(x, y) ==
  \/ x.started < y.started
  \/ x.started = y.started /\ x.id.sequence < y.id.sequence

InOrder(records) ==
  Ordered(records, {p \in records \X records : StartedBefore(p[1], p[2])})

StartsNewAtWindow(i, order) ==
  i = 1 \/ order[i].started - order[i - 1].started >= SessionWindow

\* The window is measured from the start of the exchange before.
StartsNew(i, order) ==
  i = 1 \/ order[i].started - order[i - 1].started > SessionWindow

Starts(order) == Ascending({i \in DOMAIN order : StartsNew(i, order)})
End(n, order) == IF n = Len(Starts(order)) THEN Len(order) ELSE Starts(order)[n + 1] - 1

\* From each start up to the next.
Groups(records) ==
  LET order == InOrder(records)
  IN  [n \in DOMAIN Starts(order) |-> SubSeq(order, Starts(order)[n], End(n, order))]

SessionsNumberedFromLast(pid, records) ==
  LET groups == Groups({x \in records : x.pid = pid})
  IN  {[id |-> <<pid, Head(groups[n]).started, Len(groups) - n + 1>>, items |-> groups[n]] :
       n \in DOMAIN groups}

\* build_session_details.
SessionsOfProcess(pid, records) ==
  LET groups == Groups({x \in records : x.pid = pid})
  IN  {[id |-> <<pid, Head(groups[n]).started, n>>, items |-> groups[n]] :
       n \in DOMAIN groups}

\* load_session_details, of which every caller turns an error into nothing.
Sessions(requests, responses, visibility) ==
  IF ~Readable(responses) \/ ~Readable(visibility) THEN {}
  ELSE LET records == ExchangeRecords(requests, responses, visibility)
       IN  UNION {SessionsOfProcess(pid, records) : pid \in {x.pid : x \in records}}

-----------------------------------------------------------------------------
(* What the grouping should be, said without going through the exchanges.  *)

\* From the start of x to that of y no pause is longer than the window.
Linked(x, y, records) ==
  \A z \in records :
    z.pid = x.pid /\ x.started <= z.started /\ z.started < y.started =>
      \E w \in records : /\ w.pid = x.pid
                         /\ z.started < w.started
                         /\ w.started <= z.started + SessionWindow

GroupedByPauses(sessions, records) ==
  /\ \A x \in records : Cardinality({s \in sessions : x \in ToSet(s.items)}) = 1
  /\ \A s \in sessions : IsInjective(s.items) /\ ToSet(s.items) \subseteq records
  /\ \A s \in sessions : \A x \in ToSet(s.items) : \A y \in records :
       y.pid = x.pid /\ x.started <= y.started =>
         (y \in ToSet(s.items) <=> Linked(x, y, records))
=============================================================================
