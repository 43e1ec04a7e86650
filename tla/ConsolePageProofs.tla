-------------------------- MODULE ConsolePageProofs --------------------------
(***************************************************************************)
(* Theorems about the console page, for any number of sessions, events and *)
(* clicks and any page limits: no button stays in its loading state,       *)
(* nothing is shown twice, a timeline that was loaded alone is a beginning *)
(* of the selected session, and the list misses no session at rest.  What  *)
(* appendUniqueById does is proved item by item, over the numbers of the   *)
(* items (FromZeroOn).                                                     *)
(***************************************************************************)
EXTENDS ConsolePage, FiniteSetTheorems, TLAPS

\* A suspended call is a record of these fields; which values they have does
\* not matter here.
IsLoad(k) ==
  \E id, kind, s, cursor, page, m :
    k = [id |-> id, kind |-> kind, session |-> s, cursor |-> cursor, page |-> page, moved |-> m]

\* The inductive invariant: the property, and the shape of the calls.
Inv == NoButtonIsStuck /\ \A k \in loads : IsLoad(k)

\* A new call has the shape, and the kind it is made with.
LEMMA NewLoad ==
  ASSUME NEW id, NEW kind, NEW s, NEW cursor
  PROVE  IsLoad(Load(id, kind, s, cursor)) /\ Load(id, kind, s, cursor).kind = kind
BY DEF Load, IsLoad, Awaited

\* A call keeps its kind when its answer comes, and when a session moves.
LEMMA AnsweredLoad ==
  ASSUME NEW k, IsLoad(k), NEW p
  PROVE  /\ IsLoad([k EXCEPT !.page = p]) /\ [k EXCEPT !.page = p].kind = k.kind
         /\ IsLoad([k EXCEPT !.moved = p]) /\ [k EXCEPT !.moved = p].kind = k.kind
<1>1. PICK id, kind, s, cursor, page, m :
        k = [id |-> id, kind |-> kind, session |-> s, cursor |-> cursor, page |-> page, moved |-> m]
  BY DEF IsLoad
<1>2. [k EXCEPT !.page = p] =
        [id |-> id, kind |-> kind, session |-> s, cursor |-> cursor, page |-> p, moved |-> m]
  BY <1>1
<1>3. [k EXCEPT !.moved = p] =
        [id |-> id, kind |-> kind, session |-> s, cursor |-> cursor, page |-> page, moved |-> p]
  BY <1>1
<1>4. [k EXCEPT !.page = p].kind = k.kind /\ [k EXCEPT !.moved = p].kind = k.kind
  BY <1>1
<1>5. IsLoad([k EXCEPT !.page = p])
  <2>1. IsLoad([id |-> id, kind |-> kind, session |-> s, cursor |-> cursor, page |-> p, moved |-> m])
    BY DEF IsLoad
  <2> QED BY <1>2, <2>1
<1>6. IsLoad([k EXCEPT !.moved = p])
  <2>1. IsLoad([id |-> id, kind |-> kind, session |-> s, cursor |-> cursor, page |-> page, moved |-> p])
    BY DEF IsLoad
  <2> QED BY <1>3, <2>1
<1> QED BY <1>4, <1>5, <1>6, Zenon

\* When no button changes, it is enough that the calls behind buttons stay.
LEMMA ButtonsKept ==
  ASSUME Inv,
         sessionLoadingMore' => sessionLoadingMore,
         sessionEventsLoadingMore' => sessionEventsLoadingMore,
         \A k \in loads : k.kind = "more" /\ sessionLoadingMore' =>
           \E l \in loads' : l.kind = "more",
         \A k \in loads : k.kind = "events" /\ sessionEventsLoadingMore' =>
           \E l \in loads' : l.kind = "events",
         \A k \in loads' : IsLoad(k)
  PROVE  Inv'
BY DEF Inv, NoButtonIsStuck

\* A list or a timeline is loaded without a button, so starting that takes the
\* place of a call that no button waits for.
LEMMA StartDetailKeepsInv ==
  ASSUME Inv, NEW s, NEW id, NEW others, others \subseteq loads,
         \A k \in loads \ others : k.kind \notin {"more", "events"},
         StartDetail(s, id, others), UNCHANGED sessionLoadingMore
  PROVE  Inv'
<1>1. \A k \in loads' : IsLoad(k)
  BY NewLoad DEF StartDetail, Inv
<1>2. \A k \in loads : k.kind = "more" => k \in loads'
  BY DEF StartDetail
<1> QED BY <1>1, <1>2, ButtonsKept DEF StartDetail

\* The inductive step, one case for each action.
\* Calls that learn that the list has changed go on.
LEMMA ShiftKeepsInv ==
  ASSUME Inv, NEW m, ListShifts(m)
  PROVE  Inv'
<1>1. UNCHANGED <<sessionLoadingMore, sessionEventsLoadingMore>>
  BY DEF ListShifts, timeline
<1> DEFINE told(k) == IF k.kind = "list" /\ k.page.answer = "ok"
                        THEN [k EXCEPT !.moved = @ \cup m] ELSE k
<1>2. loads' = {told(k) : k \in loads}
  BY DEF ListShifts
<1>3. \A k \in loads : IsLoad(told(k)) /\ told(k).kind = k.kind
  BY AnsweredLoad DEF Inv
<1> HIDE DEF told
<1>4. \A k \in loads : told(k) \in loads'
  BY <1>2
<1>5. \A k \in loads' : IsLoad(k)
  BY <1>2, <1>3
<1> QED BY <1>1, <1>3, <1>4, <1>5, ButtonsKept

LEMMA NextKeepsInv == Inv /\ [Next]_vars => Inv'
<1> SUFFICES ASSUME Inv, [Next]_vars PROVE Inv'
  OBVIOUS
<1>1. ASSUME NEW s \in Sessions, RecordEvent(s) PROVE Inv'
  BY <1>1, ShiftKeepsInv DEF RecordEvent
<1>2. ASSUME NEW s \in Sessions, ClickSession(s) PROVE Inv'
  BY <1>2, StartDetailKeepsInv DEF ClickSession, list
<1>3. ASSUME NEW k \in loads, Answer(k) PROVE Inv'
  <2>1. UNCHANGED <<sessionLoadingMore, sessionEventsLoadingMore>>
    BY <1>3 DEF Answer, list, timeline
  <2>2. PICK p : loads' = (loads \ {k}) \cup {[k EXCEPT !.page = p]}
    BY <1>3 DEF Answer
  <2>3. IsLoad([k EXCEPT !.page = p]) /\ [k EXCEPT !.page = p].kind = k.kind
    BY AnsweredLoad DEF Inv
  <2>4. \A l \in loads' : IsLoad(l)
    BY <2>2, <2>3 DEF Inv
  <2> QED BY <2>1, <2>2, <2>3, <2>4, ButtonsKept
<1>4. ASSUME NEW k \in loads, ShowList(k) PROVE Inv'
  <2>1. k.kind = "list" /\ UNCHANGED sessionLoadingMore
    BY <1>4 DEF ShowList
  <2>2. CASE \E s, id : StartDetail(s, id, loads \ {k})
    BY <2>1, <2>2, StartDetailKeepsInv
  <2>3. CASE loads' = loads \ {k} /\ UNCHANGED timeline
    BY <2>1, <2>3, ButtonsKept DEF timeline, Inv
  <2> QED BY <1>4, <2>2, <2>3 DEF ShowList
<1>5. ASSUME NEW k \in loads, ShowMore(k) PROVE Inv'
  <2>1. k.kind = "more" /\ ~sessionLoadingMore' /\ loads' = loads \ {k}
        /\ UNCHANGED sessionEventsLoadingMore
    BY <1>5 DEF ShowMore, timeline
  <2> QED BY <2>1, ButtonsKept DEF Inv
<1>6. ASSUME NEW k \in loads, ShowDetail(k) PROVE Inv'
  <2>1. k.kind = "detail" /\ loads' = loads \ {k}
        /\ UNCHANGED <<sessionLoadingMore, sessionEventsLoadingMore>>
    BY <1>6 DEF ShowDetail, list
  <2> QED BY <2>1, ButtonsKept DEF Inv
<1>7. ASSUME NEW k \in loads, ShowMoreEvents(k) PROVE Inv'
  <2>1. k.kind = "events" /\ ~sessionEventsLoadingMore' /\ loads' = loads \ {k}
        /\ UNCHANGED sessionLoadingMore
    BY <1>7 DEF ShowMoreEvents, list
  <2> QED BY <2>1, ButtonsKept DEF Inv
<1>8. ASSUME NEW k \in loads, GiveUp(k) PROVE Inv'
  <2>1. /\ loads' = loads \ {k}
        /\ sessionLoadingMore' = IF k.kind = "more" THEN FALSE ELSE sessionLoadingMore
        /\ sessionEventsLoadingMore' =
             IF k.kind = "events" THEN FALSE ELSE sessionEventsLoadingMore
    BY <1>8 DEF GiveUp
  <2> QED BY <2>1, ButtonsKept DEF Inv
<1>9. CASE ClickMoreSessions
  <2>1. PICK id, cursor : loads' = loads \cup {Load(id, "more", NoSession, cursor)}
    BY <1>9 DEF ClickMoreSessions
  <2>2. UNCHANGED sessionEventsLoadingMore
    BY <1>9 DEF ClickMoreSessions, timeline
  <2> QED BY <2>1, <2>2, NewLoad DEF Inv, NoButtonIsStuck
<1>10. CASE ClickMoreEvents
  <2>1. PICK id, cursor : loads' = loads \cup {Load(id, "events", selectedSessionId, cursor)}
    BY <1>10 DEF ClickMoreEvents
  <2>2. UNCHANGED sessionLoadingMore
    BY <1>10 DEF ClickMoreEvents, list
  <2> QED BY <2>1, <2>2, NewLoad DEF Inv, NoButtonIsStuck
<1>11. CASE ClickRefresh
  <2>1. PICK id : loads' = loads \cup {Load(id, "list", NoSession, 0)}
    BY <1>11 DEF ClickRefresh
  <2>2. UNCHANGED <<sessionLoadingMore, sessionEventsLoadingMore>>
    BY <1>11 DEF ClickRefresh, list, timeline
  <2> QED BY <2>1, <2>2, NewLoad, ButtonsKept DEF Inv
<1>12. CASE ChangeFilter
  BY <1>12 DEF ChangeFilter, list, timeline, Inv, NoButtonIsStuck
<1>13. CASE UNCHANGED vars
  BY <1>13 DEF vars, Inv, NoButtonIsStuck
<1>14. CASE Relist
  BY <1>14, ShiftKeepsInv DEF Relist
<1> QED BY <1>1, <1>2, <1>3, <1>4, <1>5, <1>6, <1>7, <1>8, <1>9, <1>10, <1>11, <1>12, <1>13,
           <1>14 DEF Next

\* However loads overlap, fail and come late, a button that says loading has a
\* call under way that will release it (the finally blocks of the loaders).
THEOREM ButtonsAreReleased == Spec => []NoButtonIsStuck
<1>1. Init => Inv
  BY NewLoad DEF Init, Inv, NoButtonIsStuck
<1>2. Inv => NoButtonIsStuck
  BY DEF Inv
<1> QED BY <1>1, <1>2, NextKeepsInv, PTL DEF Spec

-----------------------------------------------------------------------------
(* What is shown: the inductive invariant.                                 *)

Items == Sessions \X Nat

PageType ==
  [answer : {"none", "ok", "failed"}, items : Seq(Sessions) \cup Seq(Items), next : Nat]

LoadType ==
  [id : Nat, kind : {"list", "more", "detail", "events"},
   session : Sessions \cup {NoSession}, cursor : Nat, page : PageType,
   moved : SUBSET Sessions]

\* What a call may carry: a page without repetitions, of what its kind loads.
Sound(k) ==
  /\ k \in LoadType
  /\ IsInjective(k.page.items)
  /\ k.kind \in {"list", "more"} => k.page.items \in Seq(Sessions)
  /\ k.kind \in {"detail", "events"} => k.session \in Sessions /\ k.page.items \in Seq(Items)

ServerTypes ==
  /\ order \in Seq(Sessions) /\ IsInjective(order)
  /\ events \in [Sessions -> Nat]

ListTypes ==
  /\ sessions \in Seq(Sessions) /\ IsInjective(sessions)
  /\ sessionNextCursor \in Nat /\ moved \in SUBSET Sessions

TimelineTypes ==
  /\ selectedSessionId \in Sessions \cup {NoSession}
  /\ sessionDetail \in [of : Sessions \cup {NoSession}, items : Seq(Items)]
  /\ IsInjective(sessionDetail.items)
  /\ sessionEventsNextCursor \in Nat

LoadTypes == clicks \in Nat /\ \A k \in loads : Sound(k)

Types == ServerTypes /\ ListTypes /\ TimelineTypes /\ LoadTypes

\* A gapless beginning of a session's timeline, and where it goes on.
Beginning(items, next, s) ==
  /\ Len(items) <= events[s]
  /\ \A i \in 1..Len(items) : items[i] = <<s, i>>
  /\ next \in {Null, Len(items)}

\* The page that follows the first n events.
Continues(items, next, n, s) ==
  /\ n + Len(items) <= events[s]
  /\ \A i \in 1..Len(items) : items[i] = <<s, n + i>>
  /\ next \in {Null, n + Len(items)}

\* A timeline that was loaded alone: whose the call under way is, where its
\* page fits, and what is shown.
TimelineLoadFits(k) ==
  /\ k.session = selectedSessionId
  /\ k.kind = "detail" =>
       /\ sessionDetail = NoDetail
       /\ k.page.answer = "ok" => Beginning(k.page.items, k.page.next, k.session)
  /\ k.kind = "events" =>
       /\ sessionEventsLoadingMore
       /\ sessionDetail.of = k.session /\ k.cursor = Len(sessionDetail.items)
       /\ k.page.answer = "ok" => Continues(k.page.items, k.page.next, k.cursor, k.session)

TimelineInv ==
  ~mixedTimeline /\ selectedSessionId # NoSession =>
    /\ \A k, l \in TimelineLoads(loads) : k = l
    /\ \A k \in TimelineLoads(loads) : TimelineLoadFits(k)
    /\ \/ sessionDetail = NoDetail
       \/ /\ sessionDetail.of = selectedSessionId
          /\ Beginning(sessionDetail.items, sessionEventsNextCursor, selectedSessionId)

\* Every session of the list is known, had an event, or lies behind next.
Covers(known, next) ==
  \A i \in 1..Len(order) : order[i] \in known \/ (next # Null /\ i > next)

ListLoadFits(k) ==
  k.kind = "list" =>
    /\ k.cursor = 0
    /\ k.page.answer = "ok" => Covers(k.moved \cup ToSet(k.page.items), k.page.next)

MoreLoadFits(k) ==
  k.kind = "more" =>
    /\ sessions # <<>> /\ k.cursor = sessionNextCursor
    /\ k.page.answer = "ok" =>
         Covers(moved \cup ToSet(sessions) \cup ToSet(k.page.items), k.page.next)

ListInv ==
  /\ \A k \in loads : ListLoadFits(k)
  /\ \A k, l \in loads : k.kind = "more" /\ l.kind = "more" => k = l
  /\ \A k \in loads : k.kind = "more" => sessionLoadingMore
  /\ ~mixedList =>
       /\ sessions # <<>> => Covers(moved \cup ToSet(sessions), sessionNextCursor)
       /\ \A k \in loads : MoreLoadFits(k)

-----------------------------------------------------------------------------
(* Sequences.                                                              *)

\* A set that holds zero and every successor holds all numbers.
LEMMA FromZeroOn ==
  ASSUME NEW S, 0 \in S, \A n \in Nat : n \in S => n + 1 \in S
  PROVE  Nat \subseteq S
<1> SUFFICES ASSUME NEW x \in Nat \ S PROVE FALSE
  OBVIOUS
<1>1. PICK m \in Nat \ S : \A j \in Nat \ S : <<j, m>> \notin OpToRel(<, Nat)
  <2>1. Nat \ S \subseteq Nat /\ Nat \ S # {}
    OBVIOUS
  <2> QED BY <2>1, NatLessThanWellFounded, WFMin, Zenon
<1>2. m # 0 /\ m - 1 \in Nat /\ m - 1 < m /\ (m - 1) + 1 = m
  OBVIOUS
<1>3. m - 1 \in S
  BY <1>1, <1>2 DEF OpToRel
<1> QED BY <1>2, <1>3

\* The least of some numbers is one of them.
LEMMA MinIsOne ==
  ASSUME NEW S \in SUBSET Nat, S # {}
  PROVE  Min(S) \in S
<1>1. PICK i \in S : \A j \in S : <<j, i>> \notin OpToRel(<, Nat)
  BY NatLessThanWellFounded, WFMin, Zenon
<1>2. \A j \in S : ~(j < i)
  BY <1>1 DEF OpToRel
<1>3. \A j \in S : i <= j
  BY <1>2
<1> QED BY <1>3 DEF Min

\* The members of a sequence, and its repetitions, by their positions.
LEMMA ByPosition ==
  ASSUME NEW T, NEW q \in Seq(T)
  PROVE  /\ ToSet(q) = {q[i] : i \in 1..Len(q)} /\ ToSet(q) \subseteq T
         /\ IsInjective(q) <=> \A i, j \in 1..Len(q) : q[i] = q[j] => i = j
<1>1. DOMAIN q = 1..Len(q)
  OBVIOUS
<1>2. ToSet(q) = {q[i] : i \in 1..Len(q)}
  BY <1>1 DEF ToSet
<1> QED BY <1>1, <1>2 DEF IsInjective

LEMMA Appended ==
  ASSUME NEW T, NEW q \in Seq(T), NEW x \in T
  PROVE  /\ Append(q, x) \in Seq(T)
         /\ Len(Append(q, x)) = Len(q) + 1
         /\ Append(q, x)[Len(q) + 1] = x
         /\ \A i \in 1..Len(q) : Append(q, x)[i] = q[i]
         /\ ToSet(Append(q, x)) = ToSet(q) \cup {x}
         /\ IsInjective(q) /\ x \notin ToSet(q) => IsInjective(Append(q, x))
<1> DEFINE r == Append(q, x)
           n == Len(q)
<1>1. /\ r \in Seq(T) /\ n \in Nat /\ Len(r) = n + 1 /\ r[n + 1] = x
      /\ \A i \in 1..n : r[i] = q[i]
  OBVIOUS
<1> HIDE DEF r, n
<1>2. ToSet(q) = {q[i] : i \in 1..n} /\ ToSet(r) = {r[i] : i \in 1..(n + 1)}
  BY <1>1, ByPosition DEF n
<1>3. ToSet(r) = ToSet(q) \cup {x}
  BY <1>1, <1>2
<1>4. ASSUME IsInjective(q), x \notin ToSet(q) PROVE IsInjective(r)
  <2>1. \A i, j \in 1..n : q[i] = q[j] => i = j
    BY <1>4, ByPosition DEF n
  <2>2. \A i \in 1..n : r[i] # x
    BY <1>1, <1>2, <1>4
  <2>3. \A i, j \in 1..(n + 1) : r[i] = r[j] => i = j
    BY <1>1, <2>1, <2>2
  <2> QED BY <1>1, <2>3, ByPosition
<1> QED BY <1>1, <1>3, <1>4 DEF r, n

\* appendUniqueById item by item: f[n] is what it has after n items.
IsRun(f, items, incoming, N) ==
  f = [n \in 0..N |-> IF n = 0 THEN items
                      ELSE IF incoming[n] \in ToSet(f[n - 1]) THEN f[n - 1]
                      ELSE Append(f[n - 1], incoming[n])]

LEMMA RunStep ==
  ASSUME NEW f, NEW items, NEW incoming, NEW N \in Nat, IsRun(f, items, incoming, N)
  PROVE  /\ f[0] = items
         /\ \A n \in 1..N : f[n] = IF incoming[n] \in ToSet(f[n - 1]) THEN f[n - 1]
                                   ELSE Append(f[n - 1], incoming[n])
<1> DEFINE r(n) == IF n = 0 THEN items
                   ELSE IF incoming[n] \in ToSet(f[n - 1]) THEN f[n - 1]
                   ELSE Append(f[n - 1], incoming[n])
<1>1. f = [n \in 0..N |-> r(n)]
  BY DEF IsRun
<1> HIDE DEF r
<1>2. \A n \in 0..N : f[n] = r(n)
  BY <1>1
<1> QED BY <1>2 DEF r

LEMMA RunExists ==
  ASSUME NEW items, NEW incoming
  PROVE  \A N \in Nat : \E f : IsRun(f, items, incoming, N)
<1> DEFINE S == {N \in Nat : \E f : IsRun(f, items, incoming, N)}
<1>1. 0 \in S
  <2>1. IsRun([n \in 0..0 |-> items], items, incoming, 0)
    BY DEF IsRun
  <2> QED BY <2>1
<1>2. ASSUME NEW N \in Nat, N \in S PROVE N + 1 \in S
  <2>1. PICK f : IsRun(f, items, incoming, N)
    BY <1>2
  <2> DEFINE last == IF incoming[N + 1] \in ToSet(f[N]) THEN f[N]
                     ELSE Append(f[N], incoming[N + 1])
             g == [n \in 0..(N + 1) |-> IF n = N + 1 THEN last ELSE f[n]]
             h == [n \in 0..(N + 1) |-> IF n = 0 THEN items
                      ELSE IF incoming[n] \in ToSet(g[n - 1]) THEN g[n - 1]
                      ELSE Append(g[n - 1], incoming[n])]
  <2>2. ASSUME NEW n \in 0..(N + 1) PROVE g[n] = h[n]
    <3>1. CASE n = 0
      BY <2>1, <3>1 DEF IsRun
    <3>2. CASE n = N + 1
      BY <3>2
    <3>3. CASE n \in 1..N
      <4>1. f[n] = IF incoming[n] \in ToSet(f[n - 1]) THEN f[n - 1]
                   ELSE Append(f[n - 1], incoming[n])
        BY <2>1, <3>3, RunStep
      <4>2. g[n] = f[n] /\ g[n - 1] = f[n - 1]
        BY <3>3
      <4> QED BY <3>3, <4>1, <4>2
    <3> QED BY <3>1, <3>2, <3>3
  <2>3. g = h
    BY <2>2
  <2>4. IsRun(g, items, incoming, N + 1)
    BY <2>3 DEF IsRun
  <2> QED BY <2>4
<1> HIDE DEF S
<1>3. Nat \subseteq S
  BY <1>1, <1>2, FromZeroOn
<1> QED BY <1>3 DEF S

LEMMA AppendUniqueRuns ==
  ASSUME NEW items, NEW incoming, Len(incoming) \in Nat
  PROVE  \E f : /\ IsRun(f, items, incoming, Len(incoming))
                /\ AppendUnique(items, incoming) = f[Len(incoming)]
<1> DEFINE f == CHOOSE f : IsRun(f, items, incoming, Len(incoming))
<1>1. IsRun(f, items, incoming, Len(incoming))
  BY RunExists
<1>2. AppendUnique(items, incoming) = f[Len(incoming)]
  BY DEF AppendUnique, IsRun
<1> QED BY <1>1, <1>2

\* What appendUniqueById keeps: no repetitions, nothing lost, nothing made up.
LEMMA AppendUniqueKeeps ==
  ASSUME NEW T, NEW items \in Seq(T), NEW incoming \in Seq(T)
  PROVE  /\ AppendUnique(items, incoming) \in Seq(T)
         /\ IsInjective(items) => IsInjective(AppendUnique(items, incoming))
         /\ ToSet(AppendUnique(items, incoming)) = ToSet(items) \cup ToSet(incoming)
<1> DEFINE N == Len(incoming)
<1>1. N \in Nat /\ \A n \in 1..N : incoming[n] \in T
  OBVIOUS
<1>2. PICK f : IsRun(f, items, incoming, N) /\ AppendUnique(items, incoming) = f[N]
  BY <1>1, AppendUniqueRuns
<1> HIDE DEF N
<1> DEFINE Good(q, n) ==
             /\ q \in Seq(T)
             /\ IsInjective(items) => IsInjective(q)
             /\ ToSet(q) = ToSet(items) \cup {incoming[i] : i \in 1..n}
           S == {n \in Nat : n <= N => Good(f[n], n)}
<1>3. 0 \in S
  <2>1. f[0] = items
    BY <1>1, <1>2, RunStep
  <2> QED BY <2>1
<1>4. ASSUME NEW n \in Nat, n \in S PROVE n + 1 \in S
  <2> SUFFICES ASSUME n + 1 <= N PROVE Good(f[n + 1], n + 1)
    OBVIOUS
  <2>1. Good(f[n], n)
    BY <1>1, <1>4
  <2>2. f[n + 1] = IF incoming[n + 1] \in ToSet(f[n]) THEN f[n] ELSE Append(f[n], incoming[n + 1])
    <3>1. n + 1 \in 1..N /\ (n + 1) - 1 = n
      BY <1>1
    <3> QED BY <1>1, <1>2, <3>1, RunStep
  <2>3. incoming[n + 1] \in T
    BY <1>1
  <2>4. {incoming[i] : i \in 1..(n + 1)} = {incoming[i] : i \in 1..n} \cup {incoming[n + 1]}
    OBVIOUS
  <2>5. CASE incoming[n + 1] \in ToSet(f[n])
    BY <2>1, <2>2, <2>4, <2>5
  <2>6. CASE incoming[n + 1] \notin ToSet(f[n])
    <3>1. PICK q \in Seq(T) : q = f[n]
      BY <2>1
    <3>2. /\ Append(q, incoming[n + 1]) \in Seq(T)
          /\ ToSet(Append(q, incoming[n + 1])) = ToSet(q) \cup {incoming[n + 1]}
          /\ IsInjective(q) => IsInjective(Append(q, incoming[n + 1]))
      BY <2>3, <2>6, <3>1, Appended
    <3>3. f[n + 1] = Append(q, incoming[n + 1])
      BY <2>2, <2>6, <3>1
    <3> QED BY <2>1, <2>4, <3>1, <3>2, <3>3
  <2> QED BY <2>5, <2>6
<1> HIDE DEF S, Good
<1>5. Nat \subseteq S
  BY <1>3, <1>4, FromZeroOn
<1>6. Good(f[N], N)
  BY <1>1, <1>5 DEF S
<1>7. {incoming[i] : i \in 1..N} = ToSet(incoming)
  BY DEF N, ToSet
<1> QED BY <1>2, <1>6, <1>7 DEF Good

\* A page without repetitions and of other items is appended as it is.
LEMMA AppendUniqueOfNew ==
  ASSUME NEW T, NEW items \in Seq(T), NEW incoming \in Seq(T), IsInjective(incoming),
         \A i \in 1..Len(items), j \in 1..Len(incoming) : items[i] # incoming[j]
  PROVE  AppendUnique(items, incoming) = items \o incoming
<1> DEFINE N == Len(incoming)
           M == Len(items)
<1>1. N \in Nat /\ M \in Nat /\ \A n \in 1..N : incoming[n] \in T
  OBVIOUS
<1>2. PICK f : IsRun(f, items, incoming, N) /\ AppendUnique(items, incoming) = f[N]
  BY <1>1, AppendUniqueRuns
<1>3. \A i, j \in 1..N : incoming[i] = incoming[j] => i = j
  BY DEF IsInjective
<1> HIDE DEF N, M
<1> DEFINE Good(q, n) ==
             /\ q \in Seq(T) /\ Len(q) = M + n
             /\ \A i \in 1..M : q[i] = items[i]
             /\ \A i \in (M + 1)..(M + n) : q[i] = incoming[i - M]
           S == {n \in Nat : n <= N => Good(f[n], n)}
<1>4. 0 \in S
  <2>1. f[0] = items
    BY <1>1, <1>2, RunStep
  <2> QED BY <1>1, <2>1 DEF M
<1>5. ASSUME NEW n \in Nat, n \in S PROVE n + 1 \in S
  <2> SUFFICES ASSUME n + 1 <= N PROVE Good(f[n + 1], n + 1)
    OBVIOUS
  <2>1. Good(f[n], n)
    BY <1>1, <1>5
  <2>2. f[n + 1] = IF incoming[n + 1] \in ToSet(f[n]) THEN f[n] ELSE Append(f[n], incoming[n + 1])
    <3>1. n + 1 \in 1..N /\ (n + 1) - 1 = n
      BY <1>1
    <3> QED BY <1>1, <1>2, <3>1, RunStep
  <2>3. PICK q \in Seq(T) : q = f[n]
    BY <2>1
  <2>4. /\ Len(q) = M + n
        /\ \A i \in 1..M : q[i] = items[i]
        /\ \A i \in (M + 1)..(M + n) : q[i] = incoming[i - M]
    BY <2>1, <2>3
  <2>5. incoming[n + 1] \notin ToSet(q)
    <3> SUFFICES ASSUME NEW i \in 1..(M + n), q[i] = incoming[n + 1] PROVE FALSE
      BY <2>4, ByPosition
    <3>1. CASE i \in 1..M
      <4>1. n + 1 \in 1..N /\ q[i] = items[i]
        BY <1>1, <2>4, <3>1
      <4>2. i \in 1..Len(items) /\ n + 1 \in 1..Len(incoming)
        BY <3>1, <4>1 DEF N, M
      <4> QED BY <4>1, <4>2
    <3>2. CASE i \in (M + 1)..(M + n)
      <4>1. i - M \in 1..n
        BY <1>1, <3>2
      <4>2. q[i] = incoming[i - M]
        BY <1>1, <2>4, <3>2
      <4>3. i - M \in 1..N /\ n + 1 \in 1..N /\ i - M # n + 1
        BY <1>1, <4>1
      <4> QED BY <1>3, <4>2, <4>3
    <3> QED BY <1>1, <3>1, <3>2
  <2>6. f[n + 1] = Append(q, incoming[n + 1])
    BY <2>2, <2>5, <2>3
  <2>7. incoming[n + 1] \in T
    BY <1>1
  <2> DEFINE r == Append(q, incoming[n + 1])
  <2>8. /\ r \in Seq(T) /\ Len(r) = (M + n) + 1 /\ r[(M + n) + 1] = incoming[n + 1]
        /\ \A i \in 1..(M + n) : r[i] = q[i]
    BY <1>1, <2>4, <2>7
  <2> HIDE DEF r
  <2>9. \A i \in (M + 1)..(M + (n + 1)) : r[i] = incoming[i - M]
    <3> SUFFICES ASSUME NEW i \in (M + 1)..(M + (n + 1)) PROVE r[i] = incoming[i - M]
      OBVIOUS
    <3>1. CASE i = (M + n) + 1
      <4>1. i - M = n + 1
        BY <1>1, <3>1
      <4> QED BY <2>8, <3>1, <4>1
    <3>2. CASE i \in (M + 1)..(M + n)
      <4>1. i \in 1..(M + n)
        BY <1>1, <3>2
      <4> QED BY <1>1, <2>4, <2>8, <3>2, <4>1
    <3> QED BY <1>1, <3>1, <3>2
  <2>10. \A i \in 1..M : r[i] = items[i]
    BY <1>1, <2>4, <2>8
  <2>11. r \in Seq(T) /\ Len(r) = M + (n + 1)
    BY <1>1, <2>8
  <2> QED BY <2>6, <2>9, <2>10, <2>11 DEF r
<1> HIDE DEF S, Good
<1>6. Nat \subseteq S
  BY <1>4, <1>5, FromZeroOn
<1>7. Good(f[N], N)
  BY <1>1, <1>6 DEF S
<1>8. f[N] = items \o incoming
  <2> DEFINE q == f[N]
             r == items \o incoming
  <2>1. /\ q \in Seq(T) /\ Len(q) = M + N
        /\ \A i \in 1..M : q[i] = items[i]
        /\ \A i \in (M + 1)..(M + N) : q[i] = incoming[i - M]
    BY <1>7 DEF Good
  <2>2. /\ r \in Seq(T) /\ Len(r) = M + N
        /\ \A i \in 1..(M + N) : r[i] = IF i <= M THEN items[i] ELSE incoming[i - M]
    BY DEF N, M
  <2> HIDE DEF q, r
  <2>3. ASSUME NEW i \in 1..(M + N) PROVE q[i] = r[i]
    <3>1. CASE i <= M
      BY <1>1, <2>1, <2>2, <3>1
    <3>2. CASE i > M
      <4>1. i \in (M + 1)..(M + N) /\ ~(i <= M)
        BY <1>1, <3>2
      <4> QED BY <2>1, <2>2, <4>1
    <3> QED BY <1>1, <3>1, <3>2
  <2>4. q = r
    BY <1>1, <2>1, <2>2, <2>3
  <2> QED BY <2>4 DEF q, r
<1> QED BY <1>2, <1>8

-----------------------------------------------------------------------------
(* The list and its pages.                                                 *)

\* A session with a new event is listed first; no other moves forward.
LEMMA MovedToFront ==
  ASSUME NEW q \in Seq(Sessions), IsInjective(q), NEW s \in Sessions
  PROVE  /\ MoveToFront(q, s) \in Seq(Sessions)
         /\ IsInjective(MoveToFront(q, s))
         /\ \A j \in 1..Len(MoveToFront(q, s)) :
              \/ MoveToFront(q, s)[j] = s
              \/ \E i \in 1..Len(q) : i <= j /\ q[i] = MoveToFront(q, s)[j]
<1> DEFINE N == IF s \in ToSet(q) THEN Len(q) ELSE Len(q) + 1
           Behind(i) == \E j \in 1..(i - 1) : q[j] = s
           at(i) == IF i = 1 THEN s ELSE IF Behind(i) THEN q[i] ELSE q[i - 1]
<1>1. MoveToFront(q, s) = [i \in 1..N |-> at(i)]
  BY DEF MoveToFront
<1>2. Len(q) \in Nat /\ N \in Nat /\ (N = Len(q) \/ N = Len(q) + 1)
  OBVIOUS
<1>3. \A i, j \in 1..Len(q) : q[i] = q[j] => i = j
  BY ByPosition
<1>4. ASSUME NEW i \in 1..N, i # 1
      PROVE  \/ Behind(i) /\ i \in 1..Len(q) /\ at(i) = q[i]
             \/ ~Behind(i) /\ i - 1 \in 1..Len(q) /\ at(i) = q[i - 1]
  <2>1. CASE Behind(i)
    <3>1. PICK j \in 1..(i - 1) : q[j] = s
      BY <2>1
    <3>2. j \in 1..Len(q)
      BY <1>2, <1>4
    <3>3. s \in ToSet(q)
      BY <3>1, <3>2, ByPosition
    <3>4. i \in 1..Len(q)
      BY <1>2, <3>3
    <3> QED BY <1>4, <2>1, <3>4
  <2>2. CASE ~Behind(i)
    <3>1. i - 1 \in 1..Len(q)
      BY <1>2, <1>4
    <3> QED BY <1>4, <2>2, <3>1
  <2> QED BY <2>1, <2>2
<1>5. ASSUME NEW i \in 1..N, i # 1 PROVE at(i) # s
  <2>1. CASE Behind(i) /\ i \in 1..Len(q) /\ at(i) = q[i]
    <3>1. PICK j \in 1..(i - 1) : q[j] = s
      BY <2>1
    <3>2. j \in 1..Len(q) /\ j # i
      BY <1>2, <2>1
    <3> QED BY <1>3, <2>1, <3>1, <3>2
  <2>2. CASE ~Behind(i) /\ i - 1 \in 1..Len(q) /\ at(i) = q[i - 1]
    <3>1. i - 1 \in 1..(i - 1)
      BY <2>2
    <3> QED BY <2>2, <3>1
  <2> QED BY <1>4, <1>5, <2>1, <2>2
<1>6. ASSUME NEW i \in 1..N, NEW j \in 1..N, i # 1, j # 1, at(i) = at(j), i < j PROVE FALSE
  <2>1. Behind(i) => Behind(j)
    BY <1>6
  <2>2. CASE Behind(i) /\ i \in 1..Len(q) /\ at(i) = q[i]
    <3>1. j \in 1..Len(q) /\ at(j) = q[j]
      BY <1>4, <1>6, <2>1, <2>2
    <3> QED BY <1>3, <1>6, <2>2, <3>1
  <2>3. CASE ~Behind(i) /\ i - 1 \in 1..Len(q) /\ at(i) = q[i - 1]
    <3>1. CASE j \in 1..Len(q) /\ at(j) = q[j]
      BY <1>3, <1>6, <2>3, <3>1
    <3>2. CASE j - 1 \in 1..Len(q) /\ at(j) = q[j - 1]
      BY <1>3, <1>6, <2>3, <3>2
    <3> QED BY <1>4, <1>6, <3>1, <3>2
  <2> QED BY <1>4, <1>6, <2>2, <2>3
<1>7. \A i \in 1..N : at(i) \in Sessions
  BY <1>4
<1> HIDE DEF N, at
<1> DEFINE r == [i \in 1..N |-> at(i)]
<1>8. r \in Seq(Sessions) /\ Len(r) = N /\ \A i \in 1..N : r[i] = at(i)
  BY <1>2, <1>7
<1>9. at(1) = s
  BY DEF at
<1> HIDE DEF r
<1>10. \A i, j \in 1..N : at(i) = at(j) => i = j
  <2>1. SUFFICES ASSUME NEW i \in 1..N, NEW j \in 1..N, at(i) = at(j), i # j PROVE FALSE
    OBVIOUS
  <2>2. i # 1 /\ j # 1
    BY <1>5, <1>9, <2>1
  <2>3. i < j \/ j < i
    BY <1>2, <2>1
  <2> QED BY <1>6, <2>1, <2>2, <2>3
<1>11. IsInjective(r)
  BY <1>8, <1>10, ByPosition
<1>12. ASSUME NEW j \in 1..N
       PROVE  r[j] = s \/ \E i \in 1..Len(q) : i <= j /\ q[i] = r[j]
  <2>1. CASE j = 1
    BY <1>8, <1>9, <2>1
  <2>2. CASE j \in 1..Len(q) /\ at(j) = q[j]
    BY <1>8, <2>2
  <2>3. CASE j - 1 \in 1..Len(q) /\ at(j) = q[j - 1]
    BY <1>8, <2>3
  <2> QED BY <1>4, <2>1, <2>2, <2>3
<1> QED BY <1>1, <1>8, <1>11, <1>12 DEF r

\* A page holds what lies between its offset and its next cursor.
LEMMA PageHolds ==
  ASSUME NEW T, NEW q \in Seq(T), IsInjective(q), NEW c \in Nat, NEW l \in Nat \ {0}
  PROVE  /\ Page(q, c, l).answer = "ok"
         /\ Page(q, c, l).items \in Seq(T) /\ IsInjective(Page(q, c, l).items)
         /\ Page(q, c, l).next \in Nat
         /\ \A i \in 1..Len(Page(q, c, l).items) : Page(q, c, l).items[i] = q[c + i]
         /\ \A i \in 1..Len(q) :
              \/ i <= c \/ q[i] \in ToSet(Page(q, c, l).items)
              \/ Page(q, c, l).next # Null /\ i > Page(q, c, l).next
         /\ c <= Len(q) =>
              /\ c + Len(Page(q, c, l).items) <= Len(q)
              /\ Page(q, c, l).next \in {Null, c + Len(Page(q, c, l).items)}
<1> DEFINE N == Len(q)
           e == IF c + l < N THEN c + l ELSE N
           p == SubSeq(q, c + 1, e)
           next == IF c + l < N THEN c + l ELSE Null
<1>1. Page(q, c, l) = [answer |-> "ok", items |-> p, next |-> next]
  BY DEF Page, NextCursor
<1>2. N \in Nat /\ e \in Nat /\ e <= N /\ next \in Nat
  BY DEF Null
<1>3. /\ p \in Seq(T)
      /\ Len(p) = IF c + 1 <= e THEN e - c ELSE 0
      /\ \A i \in 1..Len(p) : p[i] = q[c + i]
  <2> HIDE DEF e
  <2>1. c + 1 \in 1..(N + 1)
        => /\ p \in Seq(T)
           /\ Len(p) = IF c + 1 <= e THEN e - c ELSE 0
           /\ \A i \in 1..Len(p) : p[i] = q[c + i]
    BY <1>2
  <2>2. c + 1 > e => p = <<>>
    BY <1>2
  <2> QED BY <1>2, <2>1, <2>2
<1>4. \A i, j \in 1..N : q[i] = q[j] => i = j
  BY ByPosition
<1>5. \A i \in 1..Len(p) : c + i \in 1..N
  <2> HIDE DEF p, e
  <2> QED BY <1>2, <1>3
<1>6. IsInjective(p)
  <2> HIDE DEF p
  <2>1. ASSUME NEW i \in 1..Len(p), NEW j \in 1..Len(p), p[i] = p[j] PROVE i = j
    <3>1. q[c + i] = q[c + j] /\ c + i \in 1..N /\ c + j \in 1..N
      BY <1>3, <1>5, <2>1
    <3>2. c + i = c + j
      BY <1>4, <3>1
    <3> QED BY <3>2
  <2> QED BY <1>3, <2>1, ByPosition
<1>7. ASSUME NEW i \in 1..N
      PROVE  i <= c \/ q[i] \in ToSet(p) \/ (next # Null /\ i > next)
  <2>1. CASE i > c /\ i <= e
    <3>1. i - c \in 1..Len(p) /\ c + (i - c) = i
      <4> HIDE DEF p, e
      <4> QED BY <1>2, <1>3, <2>1
    <3>2. p[i - c] = q[i]
      BY <1>3, <3>1
    <3> HIDE DEF p
    <3> QED BY <1>3, <3>1, <3>2, ByPosition
  <2>2. CASE i > e
    BY <1>2, <2>2 DEF Null
  <2> QED BY <1>2, <2>1, <2>2
<1>8. c <= N => c + Len(p) <= N /\ next \in {Null, c + Len(p)}
  <2> HIDE DEF p
  <2> QED BY <1>2, <1>3
<1> HIDE DEF p, next, N
<1> QED BY <1>1, <1>2, <1>3, <1>6, <1>7, <1>8 DEF N

\* A page of a timeline that starts within it.
LEMMA PageWithin ==
  ASSUME NEW T, NEW q \in Seq(T), IsInjective(q), NEW c \in Nat, c <= Len(q),
         NEW l \in Nat \ {0}, NEW r, r = Page(q, c, l)
  PROVE  /\ r.items \in Seq(T)
         /\ \A i \in 1..Len(r.items) : r.items[i] = q[c + i]
         /\ c + Len(r.items) <= Len(q) /\ r.next \in {Null, c + Len(r.items)}
<1>1. r.items \in Seq(T)
  BY PageHolds
<1>2. \A i \in 1..Len(r.items) : r.items[i] = q[c + i]
  BY PageHolds
<1>3. c + Len(r.items) <= Len(q) /\ r.next \in {Null, c + Len(r.items)}
  BY PageHolds
<1> QED BY <1>1, <1>2, <1>3

-----------------------------------------------------------------------------
(* What calls carry.                                                       *)

LEMMA Timeline ==
  ASSUME ServerTypes, NEW s \in Sessions
  PROVE  /\ EventsOf(s) \in Seq(Items) /\ IsInjective(EventsOf(s))
         /\ Len(EventsOf(s)) = events[s] /\ events[s] \in Nat
         /\ \A i \in 1..events[s] : EventsOf(s)[i] = <<s, i>>
<1> DEFINE n == events[s]
           q == [i \in 1..n |-> <<s, i>>]
<1>1. n \in Nat /\ EventsOf(s) = q
  BY DEF ServerTypes, EventsOf
<1> HIDE DEF n
<1>2. \A i \in 1..n : <<s, i>> \in Items
  BY <1>1 DEF Items
<1>3. q \in Seq(Items) /\ Len(q) = n /\ \A i \in 1..n : q[i] = <<s, i>>
  BY <1>1, <1>2
<1> HIDE DEF q
<1>4. \A i, j \in 1..n : q[i] = q[j] => i = j
  BY <1>3
<1>5. IsInjective(q)
  BY <1>3, <1>4, ByPosition
<1> QED BY <1>1, <1>3, <1>5 DEF n

LEMMA EmptyIsInjective == <<>> \in Seq(Sessions) /\ <<>> \in Seq(Items) /\ IsInjective(<<>>)
BY DEF IsInjective

LEMMA NewLoadIsSound ==
  ASSUME NEW id \in Nat, NEW kind \in {"list", "more", "detail", "events"},
         NEW s \in Sessions \cup {NoSession}, NEW cursor \in Nat,
         kind \in {"detail", "events"} => s \in Sessions
  PROVE  /\ Sound(Load(id, kind, s, cursor))
         /\ Load(id, kind, s, cursor).kind = kind
         /\ Load(id, kind, s, cursor).session = s
         /\ Load(id, kind, s, cursor).cursor = cursor
         /\ Load(id, kind, s, cursor).page.answer = "none"
<1>1. Awaited \in PageType /\ Awaited.items = <<>> /\ Awaited.answer = "none"
  BY EmptyIsInjective DEF Awaited, PageType, Null
<1>2. Load(id, kind, s, cursor) \in LoadType
  BY <1>1 DEF Load, LoadType
<1> QED BY <1>1, <1>2, EmptyIsInjective DEF Load, Sound

\* What a load of its kind may be answered.
Fits(kind, p) ==
  /\ p \in PageType /\ IsInjective(p.items)
  /\ kind \in {"list", "more"} => p.items \in Seq(Sessions)
  /\ kind \in {"detail", "events"} => p.items \in Seq(Items)

LEMMA AnswersFit ==
  ASSUME Types, NEW k \in loads, NEW p \in Answers(k)
  PROVE  Fits(k.kind, p)
<1>1. Sound(k)
  BY DEF Types, LoadTypes
<1>2. k.cursor \in Nat /\ k.kind \in {"list", "more", "detail", "events"}
  BY <1>1 DEF Sound, LoadType
<1>3. Fits(k.kind, Failed) /\ Fits(k.kind, Empty)
  BY EmptyIsInjective DEF Fits, Failed, Empty, PageType, Null
<1>4. ASSUME NEW T, T = Sessions \/ T = Items, NEW q \in Seq(T), IsInjective(q),
             NEW c \in Nat, NEW l \in Nat \ {0}
      PROVE  /\ Page(q, c, l) \in PageType /\ IsInjective(Page(q, c, l).items)
             /\ Page(q, c, l).items \in Seq(T)
  <2>1. /\ Page(q, c, l).items \in Seq(T) /\ IsInjective(Page(q, c, l).items)
        /\ Page(q, c, l).next \in Nat /\ Page(q, c, l).answer = "ok"
    BY <1>4, PageHolds
  <2>2. Page(q, c, l) = [answer |-> Page(q, c, l).answer, items |-> Page(q, c, l).items,
                         next |-> Page(q, c, l).next]
    BY DEF Page
  <2> QED BY <1>4, <2>1, <2>2 DEF PageType
<1>5. CASE k.kind \in {"list", "more"}
  <2>1. p \in {Failed, Page(order, k.cursor, PageLimit)}
    BY <1>5 DEF Answers
  <2>2. order \in Seq(Sessions) /\ IsInjective(order) /\ PageLimit \in Nat \ {0}
    BY LimitsAssumption DEF Types, ServerTypes
  <2>3. Fits(k.kind, Page(order, k.cursor, PageLimit))
    BY <1>2, <1>4, <1>5, <2>2 DEF Fits
  <2> QED BY <1>3, <2>1, <2>3
<1>6. CASE k.kind \in {"detail", "events"}
  <2>1. p \in {Failed, Empty, Page(EventsOf(k.session), 0, EventLimit),
               Page(EventsOf(k.session), k.cursor, EventLimit)}
    BY <1>6 DEF Answers
  <2>2. EventsOf(k.session) \in Seq(Items) /\ IsInjective(EventsOf(k.session))
    BY <1>1, <1>6, Timeline DEF Types, Sound
  <2>3. Fits(k.kind, Page(EventsOf(k.session), 0, EventLimit))
    BY <1>4, <1>6, <2>2, LimitsAssumption DEF Fits
  <2>4. Fits(k.kind, Page(EventsOf(k.session), k.cursor, EventLimit))
    BY <1>2, <1>4, <1>6, <2>2, LimitsAssumption DEF Fits
  <2> QED BY <1>3, <2>1, <2>3, <2>4
<1> QED BY <1>2, <1>5, <1>6

\* A call that is answered, or learns of a moved session, is otherwise the same.
LEMMA LoadAnswered ==
  ASSUME NEW k, Sound(k), NEW p, Fits(k.kind, p)
  PROVE  /\ Sound([k EXCEPT !.page = p])
         /\ [k EXCEPT !.page = p].kind = k.kind
         /\ [k EXCEPT !.page = p].session = k.session
         /\ [k EXCEPT !.page = p].cursor = k.cursor
         /\ [k EXCEPT !.page = p].page = p
         /\ [k EXCEPT !.page = p].moved = k.moved
<1>1. [k EXCEPT !.page = p] \in LoadType
  BY DEF Sound, LoadType, Fits
<1>2. /\ [k EXCEPT !.page = p].kind = k.kind
      /\ [k EXCEPT !.page = p].session = k.session
      /\ [k EXCEPT !.page = p].cursor = k.cursor
      /\ [k EXCEPT !.page = p].page = p
      /\ [k EXCEPT !.page = p].moved = k.moved
  BY DEF Sound, LoadType
<1> QED BY <1>1, <1>2 DEF Sound, Fits

LEMMA LoadTold ==
  ASSUME NEW k, Sound(k), NEW m \in SUBSET Sessions
  PROVE  /\ Sound([k EXCEPT !.moved = @ \cup m])
         /\ [k EXCEPT !.moved = @ \cup m].kind = k.kind
         /\ [k EXCEPT !.moved = @ \cup m].session = k.session
         /\ [k EXCEPT !.moved = @ \cup m].cursor = k.cursor
         /\ [k EXCEPT !.moved = @ \cup m].page = k.page
         /\ [k EXCEPT !.moved = @ \cup m].moved = k.moved \cup m
<1>1. [k EXCEPT !.moved = @ \cup m] \in LoadType
  BY DEF Sound, LoadType
<1>2. /\ [k EXCEPT !.moved = @ \cup m].kind = k.kind
      /\ [k EXCEPT !.moved = @ \cup m].session = k.session
      /\ [k EXCEPT !.moved = @ \cup m].cursor = k.cursor
      /\ [k EXCEPT !.moved = @ \cup m].page = k.page
      /\ [k EXCEPT !.moved = @ \cup m].moved = k.moved \cup m
  BY DEF Sound, LoadType
<1> QED BY <1>1, <1>2 DEF Sound

LEMMA SelectionIsListed ==
  ASSUME NEW q \in Seq(Sessions)
  PROVE  Selection(q) \in Sessions \cup {NoSession}
<1> DEFINE visible == {i \in DOMAIN q : q[i] \notin hidden}
           shown == {q[i] : i \in visible}
<1>1. visible \subseteq Nat /\ \A i \in visible : q[i] \in Sessions
  OBVIOUS
<1>2. visible # {} => Min(visible) \in visible
  <2> HIDE DEF visible
  <2> QED BY <1>1, MinIsOne
<1>3. shown \subseteq Sessions
  BY <1>1
<1>4. Selection(q) = IF selectedSessionId \in shown THEN selectedSessionId
                     ELSE IF visible = {} THEN NoSession
                     ELSE IF Initial \in shown THEN Initial
                     ELSE q[Min(visible)]
  BY DEF Selection
<1> HIDE DEF visible, shown
<1> QED BY <1>1, <1>2, <1>3, <1>4

-----------------------------------------------------------------------------
(* Nothing is shown twice.                                                 *)

LEMMA StartDetailTypes ==
  ASSUME Types, NEW s \in Sessions, NEW id \in Nat, NEW others, others \subseteq loads,
         StartDetail(s, id, others), clicks' \in Nat
  PROVE  TimelineTypes' /\ LoadTypes'
<1>1. Sound(Load(id, "detail", s, 0))
  BY NewLoadIsSound
<1>2. LoadTypes'
  BY <1>1 DEF StartDetail, Types, LoadTypes
<1>3. NoDetail \in [of : Sessions \cup {NoSession}, items : Seq(Items)] /\ IsInjective(NoDetail.items)
  BY EmptyIsInjective DEF NoDetail
<1>4. TimelineTypes'
  BY <1>3 DEF StartDetail, TimelineTypes, Null
<1> QED BY <1>2, <1>4

LEMMA InitTypes == Init => Types
<1> SUFFICES ASSUME Init PROVE Types
  OBVIOUS
<1>1. PICK listed \in SUBSET Sessions :
        order \in SetToSeqs(listed) /\ events \in [Sessions -> 0..MaxEvents]
  BY DEF Init
<1>2. ServerTypes
  <2> DEFINE n == Cardinality(listed)
  <2>1. n \in Nat
    BY <1>1, SessionsAssumption, FS_Subset, FS_CardinalityType
  <2>2. order \in [1..n -> listed] /\ \A i, j \in 1..n : i # j => order[i] # order[j]
    BY <1>1 DEF SetToSeqs
  <2> HIDE DEF n
  <2>3. order \in Seq(Sessions) /\ Len(order) = n
    BY <1>1, <2>1, <2>2
  <2>4. IsInjective(order)
    BY <2>2, <2>3, ByPosition
  <2>5. events \in [Sessions -> Nat]
    <3>1. 0..MaxEvents \subseteq Nat
      OBVIOUS
    <3> QED BY <1>1, <3>1
  <2> QED BY <2>3, <2>4, <2>5 DEF ServerTypes
<1>3. ListTypes /\ TimelineTypes
  BY EmptyIsInjective DEF Init, ListTypes, TimelineTypes, NoDetail, Null
<1>4. LoadTypes
  <2>1. Sound(Load(0, "list", NoSession, 0))
    BY NewLoadIsSound
  <2> QED BY <2>1 DEF Init, LoadTypes
<1> QED BY <1>2, <1>3, <1>4 DEF Types

\* The list that is given, and what came closer to its front.
LEMMA Relisted ==
  ASSUME ServerTypes, Relist
  PROVE  /\ order' \in Seq(Sessions) /\ IsInjective(order')
         /\ MovedUp(order, order') \in SUBSET Sessions
         /\ \A j \in 1..Len(order') :
              \/ order'[j] \in MovedUp(order, order')
              \/ \E i \in 1..Len(order) : i <= j /\ order[i] = order'[j]
<1>1. PICK S \in SUBSET Sessions : order' \in SetToSeqs(S)
  BY DEF Relist
<1>2. PICK c \in Nat : c = Cardinality(S)
  BY FS_Subset, FS_CardinalityType, SessionsAssumption
<1>3. order' \in [1..c -> S] /\ \A i, j \in 1..c : i # j => order'[i] # order'[j]
  BY <1>1, <1>2 DEF SetToSeqs
<1>4. PICK r \in [1..c -> Sessions] : r = order'
  BY <1>3
<1>5. r \in Seq(Sessions) /\ Len(r) = c /\ DOMAIN r = 1..c
  BY <1>4
<1>6. IsInjective(r)
  BY <1>3, <1>4, <1>5 DEF IsInjective
<1>7. DOMAIN order = 1..Len(order)
  BY DEF ServerTypes
<1>8. MovedUp(order, r) \in SUBSET Sessions
  BY <1>4, <1>5 DEF MovedUp
<1>9. ASSUME NEW j \in 1..c
      PROVE  r[j] \in MovedUp(order, r) \/ \E i \in 1..Len(order) : i <= j /\ order[i] = r[j]
  BY <1>5, <1>7, <1>9 DEF MovedUp
<1> QED BY <1>4, <1>5, <1>6, <1>8, <1>9

LEMMA ShiftTypes ==
  ASSUME Types, ServerTypes', NEW m \in SUBSET Sessions, ListShifts(m)
  PROVE  Types'
<1>1. ListTypes'
  BY DEF Types, ListShifts, ListTypes
<1>2. TimelineTypes'
  BY DEF Types, ListShifts, timeline, TimelineTypes
<1>3. LoadTypes'
  BY LoadTold DEF Types, ListShifts, LoadTypes
<1> QED BY <1>1, <1>2, <1>3 DEF Types

LEMMA StepTypes == Types /\ [Next]_vars => Types'
<1> SUFFICES ASSUME Types, [Next]_vars PROVE Types'
  OBVIOUS
<1> USE DEF Types
<1>1. ASSUME NEW s \in Sessions, RecordEvent(s) PROVE Types'
  <2>1. events' = [events EXCEPT ![s] = @ + 1] /\ order' = MoveToFront(order, s)
    BY <1>1 DEF RecordEvent
  <2>2. ServerTypes'
    BY <2>1, MovedToFront DEF ServerTypes
  <2> QED BY <1>1, <2>2, ShiftTypes DEF RecordEvent
<1>2. ASSUME NEW s \in Sessions, ClickSession(s) PROVE Types'
  <2>1. ServerTypes' /\ ListTypes'
    BY <1>2 DEF ClickSession, server, list, ServerTypes, ListTypes
  <2>2. PICK id \in Nat : id = clicks'
    BY <1>2 DEF ClickSession, Click, LoadTypes
  <2>3. StartDetail(s, id, loads)
    BY <1>2, <2>2 DEF ClickSession
  <2> QED BY <2>1, <2>2, <2>3, StartDetailTypes
<1>3. ASSUME NEW k \in loads, Answer(k) PROVE Types'
  <2>1. ServerTypes' /\ ListTypes' /\ TimelineTypes'
    BY <1>3 DEF Answer, server, list, timeline, ServerTypes, ListTypes, TimelineTypes
  <2>2. PICK p \in Answers(k) : loads' = (loads \ {k}) \cup {[k EXCEPT !.page = p]}
    BY <1>3 DEF Answer
  <2>3. Sound([k EXCEPT !.page = p])
    BY AnswersFit, LoadAnswered DEF LoadTypes
  <2>4. LoadTypes'
    BY <1>3, <2>2, <2>3 DEF Answer, LoadTypes
  <2> QED BY <2>1, <2>4
<1>4. ASSUME NEW k \in loads, ShowList(k) PROVE Types'
  <2>1. /\ k.page.items \in Seq(Sessions) /\ IsInjective(k.page.items) /\ k.page.next \in Nat
        /\ k.moved \in SUBSET Sessions /\ k.id \in Nat
    BY <1>4 DEF ShowList, LoadTypes, Sound, LoadType, PageType
  <2>2. ServerTypes' /\ ListTypes'
    BY <1>4, <2>1 DEF ShowList, server, ServerTypes, ListTypes
  <2>3. clicks' \in Nat
    BY <1>4 DEF ShowList, LoadTypes
  <2>4. CASE selectedSessionId' = NoSession /\ loads' = loads \ {k} /\ UNCHANGED timeline
    BY <2>2, <2>3, <2>4 DEF timeline, TimelineTypes, LoadTypes
  <2>5. CASE \E s \in Sessions : StartDetail(s, k.id, loads \ {k})
    <3>1. PICK s \in Sessions : StartDetail(s, k.id, loads \ {k})
      BY <2>5
    <3> QED BY <2>1, <2>2, <2>3, <3>1, StartDetailTypes
  <2>6. Selection(k.page.items) \in Sessions \cup {NoSession}
    BY <2>1, SelectionIsListed
  <2> QED BY <1>4, <2>4, <2>5, <2>6 DEF ShowList
<1>5. ASSUME NEW k \in loads, ShowMore(k) PROVE Types'
  <2>1. /\ k.page.items \in Seq(Sessions) /\ k.page.next \in Nat
    BY <1>5 DEF ShowMore, LoadTypes, Sound, LoadType, PageType
  <2>2. /\ AppendUnique(sessions, k.page.items) \in Seq(Sessions)
        /\ IsInjective(AppendUnique(sessions, k.page.items))
    BY <2>1, AppendUniqueKeeps DEF ListTypes
  <2>3. ListTypes'
    BY <1>5, <2>1, <2>2 DEF ShowMore, ListTypes
  <2>4. ServerTypes' /\ TimelineTypes' /\ LoadTypes'
    BY <1>5 DEF ShowMore, server, timeline, ServerTypes, TimelineTypes, LoadTypes
  <2> QED BY <2>3, <2>4
<1>6. ASSUME NEW k \in loads, ShowDetail(k) PROVE Types'
  <2>1. /\ k.page.items \in Seq(Items) /\ IsInjective(k.page.items) /\ k.page.next \in Nat
        /\ k.session \in Sessions
    BY <1>6 DEF ShowDetail, LoadTypes, Sound, LoadType, PageType
  <2>2. TimelineTypes'
    BY <1>6, <2>1 DEF ShowDetail, TimelineTypes
  <2>3. ServerTypes' /\ ListTypes' /\ LoadTypes'
    BY <1>6 DEF ShowDetail, server, list, ServerTypes, ListTypes, LoadTypes
  <2> QED BY <2>2, <2>3
<1>7. ASSUME NEW k \in loads, ShowMoreEvents(k) PROVE Types'
  <2>1. k.page.items \in Seq(Items) /\ k.page.next \in Nat
    BY <1>7 DEF ShowMoreEvents, LoadTypes, Sound, LoadType, PageType
  <2>2. /\ AppendUnique(sessionDetail.items, k.page.items) \in Seq(Items)
        /\ IsInjective(AppendUnique(sessionDetail.items, k.page.items))
    BY <2>1, AppendUniqueKeeps DEF TimelineTypes
  <2>3. TimelineTypes'
    BY <1>7, <2>1, <2>2 DEF ShowMoreEvents, TimelineTypes
  <2>4. ServerTypes' /\ ListTypes' /\ LoadTypes'
    BY <1>7 DEF ShowMoreEvents, server, list, ServerTypes, ListTypes, LoadTypes
  <2> QED BY <2>3, <2>4
<1>8. ASSUME NEW k \in loads, GiveUp(k) PROVE Types'
  BY <1>8 DEF GiveUp, server, ServerTypes, ListTypes, TimelineTypes, LoadTypes
<1>9. CASE ClickMoreSessions
  <2>1. clicks' \in Nat
    BY <1>9 DEF ClickMoreSessions, Click, LoadTypes
  <2>2. Sound(Load(clicks', "more", NoSession, sessionNextCursor))
    BY <2>1, NewLoadIsSound DEF ListTypes
  <2> QED BY <1>9, <2>1, <2>2 DEF ClickMoreSessions, server, timeline, ServerTypes, ListTypes,
                                 TimelineTypes, LoadTypes
<1>10. CASE ClickMoreEvents
  <2>1. clicks' \in Nat
    BY <1>10 DEF ClickMoreEvents, Click, LoadTypes
  <2>2. Sound(Load(clicks', "events", selectedSessionId, sessionEventsNextCursor))
    BY <1>10, <2>1, NewLoadIsSound DEF ClickMoreEvents, TimelineTypes
  <2> QED BY <1>10, <2>1, <2>2 DEF ClickMoreEvents, server, list, ServerTypes, ListTypes,
                                  TimelineTypes, LoadTypes
<1>11. CASE ClickRefresh
  <2>1. clicks' \in Nat
    BY <1>11 DEF ClickRefresh, Click, LoadTypes
  <2>2. Sound(Load(clicks', "list", NoSession, 0))
    BY <2>1, NewLoadIsSound
  <2> QED BY <1>11, <2>1, <2>2 DEF ClickRefresh, server, list, timeline, ServerTypes, ListTypes,
                                  TimelineTypes, LoadTypes
<1>12. CASE ChangeFilter
  BY <1>12 DEF ChangeFilter, Click, server, list, timeline, ServerTypes, ListTypes,
               TimelineTypes, LoadTypes
<1>13. CASE UNCHANGED vars
  BY <1>13 DEF vars, ServerTypes, ListTypes, TimelineTypes, LoadTypes
<1>14. CASE Relist
  <2>1. order' \in Seq(Sessions) /\ IsInjective(order') /\ MovedUp(order, order') \in SUBSET Sessions
    BY <1>14, Relisted
  <2>2. ServerTypes'
    BY <1>14, <2>1 DEF Relist, ServerTypes
  <2> QED BY <1>14, <2>1, <2>2, ShiftTypes DEF Relist
<1> QED BY <1>1, <1>2, <1>3, <1>4, <1>5, <1>6, <1>7, <1>8, <1>9, <1>10, <1>11, <1>12, <1>13,
           <1>14 DEF Next

LEMMA TypesAlways == Spec => []Types
BY InitTypes, StepTypes, PTL DEF Spec

\* However loads overlap and fail, and however sessions move between two pages,
\* no session is listed twice and no event is shown twice.
THEOREM NothingIsShownTwice == Spec => []NothingTwice
<1>1. Types => NothingTwice
  BY DEF Types, ListTypes, TimelineTypes, NothingTwice
<1> QED BY <1>1, TypesAlways, PTL

-----------------------------------------------------------------------------
(* The timeline that is shown.                                             *)

\* More events of a session leave a beginning of its timeline one.
LEMMA StillBeginning ==
  ASSUME ServerTypes, ServerTypes', \A s \in Sessions : events[s] <= events'[s],
         NEW s \in Sessions, NEW q \in Seq(Items), NEW next, NEW n \in Nat
  PROVE  /\ Beginning(q, next, s) => Beginning(q, next, s)'
         /\ Continues(q, next, n, s) => Continues(q, next, n, s)'
<1>1. events[s] \in Nat /\ events'[s] \in Nat /\ Len(q) \in Nat /\ events[s] <= events'[s]
  BY DEF ServerTypes
<1>2. Beginning(q, next, s) => Beginning(q, next, s)'
  BY <1>1 DEF Beginning
<1>3. Continues(q, next, n, s) => Continues(q, next, n, s)'
  BY <1>1 DEF Continues
<1> QED BY <1>2, <1>3

\* Nothing of the timeline changes, at most a call under way is gone.
LEMMA TimelineKept ==
  ASSUME Types, Types', TimelineInv, \A s \in Sessions : events[s] <= events'[s],
         UNCHANGED <<sessionDetail, sessionEventsNextCursor, mixedTimeline, selectedSessionId>>,
         TimelineLoads(loads') \subseteq TimelineLoads(loads),
         \A k \in TimelineLoads(loads') :
           k.kind = "events" /\ sessionEventsLoadingMore => sessionEventsLoadingMore'
  PROVE  TimelineInv'
<1> SUFFICES ASSUME ~mixedTimeline', selectedSessionId' # NoSession
             PROVE  /\ \A k, l \in TimelineLoads(loads') : k = l
                    /\ \A k \in TimelineLoads(loads') : TimelineLoadFits(k)'
                    /\ \/ sessionDetail' = NoDetail
                       \/ /\ sessionDetail'.of = selectedSessionId'
                          /\ Beginning(sessionDetail.items, sessionEventsNextCursor,
                                       selectedSessionId)'
  BY DEF TimelineInv, NoDetail
<1>1. \A k, l \in TimelineLoads(loads') : k = l
  BY DEF TimelineInv
<1>2. ASSUME NEW k \in TimelineLoads(loads') PROVE TimelineLoadFits(k)'
  <2>1. k \in TimelineLoads(loads) /\ TimelineLoadFits(k)
    BY <1>2 DEF TimelineInv
  <2>2. k \in loads /\ k.kind \in {"detail", "events"}
    BY <2>1 DEF TimelineLoads
  <2>3. k.session \in Sessions /\ k.page.items \in Seq(Items) /\ k.cursor \in Nat
    BY <2>2 DEF Types, LoadTypes, Sound, LoadType
  <2>4. /\ Beginning(k.page.items, k.page.next, k.session)
           => Beginning(k.page.items, k.page.next, k.session)'
        /\ Continues(k.page.items, k.page.next, k.cursor, k.session)
           => Continues(k.page.items, k.page.next, k.cursor, k.session)'
    BY <2>3, StillBeginning DEF Types
  <2> QED BY <1>2, <2>1, <2>4 DEF TimelineLoadFits
<1>3. CASE sessionDetail # NoDetail
  <2>1. PICK s \in Sessions : s = selectedSessionId
    BY DEF Types, TimelineTypes
  <2>2. PICK q \in Seq(Items) : q = sessionDetail.items
    BY DEF Types, TimelineTypes
  <2>3. PICK next : next = sessionEventsNextCursor
    OBVIOUS
  <2>4. sessionDetail.of = s /\ Beginning(q, next, s)
    BY <1>3, <2>1, <2>2, <2>3 DEF TimelineInv
  <2>5. Beginning(q, next, s)'
    BY <2>4, StillBeginning DEF Types
  <2>6. Beginning(sessionDetail.items, sessionEventsNextCursor, selectedSessionId)'
    BY <2>1, <2>2, <2>3, <2>5
  <2> QED BY <1>1, <1>2, <2>1, <2>4, <2>6
<1> QED BY <1>1, <1>2, <1>3

\* Selecting a session begins its timeline anew.
LEMMA StartDetailTimeline ==
  ASSUME NEW s \in Sessions, NEW id \in Nat, NEW others, StartDetail(s, id, others)
  PROVE  TimelineInv'
<1> SUFFICES ASSUME ~mixedTimeline'
             PROVE  /\ \A k, l \in TimelineLoads(loads') : k = l
                    /\ \A k \in TimelineLoads(loads') : TimelineLoadFits(k)'
                    /\ sessionDetail' = NoDetail
  BY DEF TimelineInv, NoDetail
<1>1. TimelineLoads(others) = {} /\ loads' = others \cup {Load(id, "detail", s, 0)}
  BY DEF StartDetail
<1>2. TimelineLoads(loads') \subseteq {Load(id, "detail", s, 0)}
  BY <1>1 DEF TimelineLoads
<1>3. PICK k : k = Load(id, "detail", s, 0)
  OBVIOUS
<1>4. k.kind = "detail" /\ k.session = s /\ k.page.answer = "none"
  BY <1>3, NewLoadIsSound
<1>5. selectedSessionId' = s /\ sessionDetail' = NoDetail
  BY DEF StartDetail
<1>6. TimelineLoadFits(k)'
  BY <1>4, <1>5 DEF TimelineLoadFits, NoDetail
<1> QED BY <1>2, <1>3, <1>5, <1>6

\* A page of a timeline continues it where it was asked for.
LEMMA PageContinues ==
  ASSUME ServerTypes, NEW s \in Sessions, NEW c \in Nat, c <= events[s]
  PROVE  Continues(Page(EventsOf(s), c, EventLimit).items,
                   Page(EventsOf(s), c, EventLimit).next, c, s)
<1>1. PICK q \in Seq(Items) : q = EventsOf(s)
  BY Timeline
<1>2. /\ IsInjective(q) /\ Len(q) = events[s] /\ events[s] \in Nat
      /\ \A i \in 1..events[s] : q[i] = <<s, i>>
  BY <1>1, Timeline
<1>3. PICK r : r = Page(q, c, EventLimit)
  OBVIOUS
<1>4. EventLimit \in Nat \ {0} /\ c <= Len(q)
  BY <1>2, LimitsAssumption
<1>5. r.items \in Seq(Items) /\ \A i \in 1..Len(r.items) : r.items[i] = q[c + i]
  BY <1>2, <1>3, <1>4, PageWithin
<1>6. c + Len(r.items) <= Len(q) /\ r.next \in {Null, c + Len(r.items)}
  BY <1>2, <1>3, <1>4, PageWithin
<1>7. \A i \in 1..Len(r.items) : c + i \in 1..events[s]
  BY <1>2, <1>5, <1>6
<1>8. \A i \in 1..Len(r.items) : r.items[i] = <<s, c + i>>
  BY <1>2, <1>5, <1>7
<1> QED BY <1>1, <1>2, <1>3, <1>6, <1>8 DEF Continues

\* An answer fits where it is awaited.
LEMMA AnswerTimeline ==
  ASSUME Types, Types', TimelineInv, NEW k \in loads, Answer(k)
  PROVE  TimelineInv'
<1>1. PICK p \in Answers(k) : loads' = (loads \ {k}) \cup {[k EXCEPT !.page = p]}
  BY DEF Answer
<1>2. PICK l : l = [k EXCEPT !.page = p]
  OBVIOUS
<1>3. Sound(k)
  BY DEF Types, LoadTypes
<1>4. /\ l.kind = k.kind /\ l.session = k.session /\ l.cursor = k.cursor /\ l.page = p
  BY <1>2, <1>3, AnswersFit, LoadAnswered
<1>5. UNCHANGED <<events, sessionDetail, sessionEventsNextCursor, sessionEventsLoadingMore,
                  mixedTimeline, selectedSessionId>>
  BY DEF Answer, server, timeline
<1>6. \A s \in Sessions : events[s] <= events'[s]
  BY <1>5 DEF Types, ServerTypes
<1>7. CASE k.kind \notin {"detail", "events"}
  <2>1. TimelineLoads(loads') \subseteq TimelineLoads(loads)
    BY <1>1, <1>2, <1>4, <1>7 DEF TimelineLoads
  <2> QED BY <1>5, <1>6, <2>1, TimelineKept
<1>8. CASE k.kind \in {"detail", "events"} /\ ~mixedTimeline /\ selectedSessionId # NoSession
  <2>1. k \in TimelineLoads(loads)
    BY <1>8 DEF TimelineLoads
  <2>2. TimelineLoads(loads) = {k} /\ TimelineLoadFits(k)
    BY <1>8, <2>1 DEF TimelineInv
  <2>3. TimelineLoads(loads') \subseteq {l}
    BY <1>1, <1>2, <2>2 DEF TimelineLoads
  <2>4. PICK s \in Sessions : s = k.session
    BY <1>3, <1>8 DEF Sound
  <2>5. s = selectedSessionId /\ s # NoSession
    BY <1>8, <2>2, <2>4 DEF TimelineLoadFits
  <2>6. PICK q \in Seq(Items) : q = EventsOf(s)
    BY Timeline DEF Types
  <2>7. /\ IsInjective(q) /\ Len(q) = events[s] /\ events[s] \in Nat
        /\ \A i \in 1..events[s] : q[i] = <<s, i>>
    BY <2>6, Timeline DEF Types
  <2>8. EventLimit \in Nat \ {0}
    BY LimitsAssumption
  <2>9. CASE k.kind = "detail"
    <3>1. p = Failed \/ p = Empty \/ p = Page(q, 0, EventLimit)
      BY <2>4, <2>6, <2>9 DEF Answers
    <3>2. Beginning(Empty.items, Empty.next, s)
      BY <2>7 DEF Empty, Beginning
    <3>3. Beginning(Page(q, 0, EventLimit).items, Page(q, 0, EventLimit).next, s)
      <4>1. PICK r : r = Page(q, 0, EventLimit)
        OBVIOUS
      <4>2. /\ r.items \in Seq(Items)
            /\ \A i \in 1..Len(r.items) : r.items[i] = q[0 + i]
            /\ 0 + Len(r.items) <= Len(q) /\ r.next \in {Null, 0 + Len(r.items)}
        <5>1. 0 \in Nat /\ 0 <= Len(q)
          BY <2>7
        <5> QED BY <2>7, <2>8, <4>1, <5>1, PageWithin
      <4>3. Len(r.items) \in Nat
        BY <4>2
      <4>4. \A i \in 1..Len(r.items) : 0 + i = i /\ i \in 1..events[s]
        BY <2>7, <4>2, <4>3
      <4>5. \A i \in 1..Len(r.items) : r.items[i] = <<s, i>>
        BY <2>7, <4>2, <4>4
      <4>6. Len(r.items) <= events[s] /\ r.next \in {Null, Len(r.items)}
        BY <2>7, <4>2, <4>3
      <4> QED BY <4>1, <4>5, <4>6 DEF Beginning
    <3>4. p.answer = "ok" => Beginning(p.items, p.next, s)
      BY <3>1, <3>2, <3>3 DEF Failed
    <3>5. p.answer = "ok" => Beginning(p.items, p.next, s)'
      BY <1>5, <3>4 DEF Beginning
    <3>6. sessionDetail' = NoDetail
      BY <1>5, <2>2, <2>9 DEF TimelineLoadFits
    <3>7. TimelineLoadFits(l)'
      BY <1>4, <1>5, <2>4, <2>5, <2>9, <3>5, <3>6 DEF TimelineLoadFits, NoDetail
    <3> QED BY <2>3, <3>6, <3>7 DEF TimelineInv, NoDetail
  <2>10. CASE k.kind = "events"
    <3>1. /\ sessionEventsLoadingMore /\ sessionDetail.of = s
          /\ k.cursor = Len(sessionDetail.items)
      BY <2>2, <2>4, <2>10 DEF TimelineLoadFits
    <3>2. sessionDetail # NoDetail
      BY <2>5, <3>1 DEF NoDetail
    <3>3. Beginning(sessionDetail.items, sessionEventsNextCursor, s)
      BY <1>8, <2>5, <3>2 DEF TimelineInv
    <3>4. k.cursor <= events[s] /\ k.cursor \in Nat
      BY <1>3, <3>1, <3>3 DEF Beginning, Sound, LoadType
    <3>5. p = Failed \/ p = Page(q, k.cursor, EventLimit)
      BY <2>4, <2>6, <2>10 DEF Answers
    <3>6. Continues(Page(q, k.cursor, EventLimit).items, Page(q, k.cursor, EventLimit).next,
                    k.cursor, s)
      BY <2>6, <3>4, PageContinues DEF Types
    <3>7. p.answer = "ok" => Continues(p.items, p.next, k.cursor, s)
      BY <3>5, <3>6 DEF Failed
    <3>8. p.answer = "ok" => Continues(p.items, p.next, k.cursor, s)'
      BY <1>5, <3>7 DEF Continues
    <3>9. TimelineLoadFits(l)'
      BY <1>4, <1>5, <2>4, <2>5, <2>10, <3>1, <3>8 DEF TimelineLoadFits
    <3>10. Beginning(sessionDetail.items, sessionEventsNextCursor, selectedSessionId)'
      BY <1>5, <2>5, <3>3 DEF Beginning
    <3> QED BY <1>5, <2>3, <2>5, <3>1, <3>9, <3>10 DEF TimelineInv
  <2> QED BY <1>8, <2>9, <2>10
<1> QED BY <1>5, <1>7, <1>8 DEF TimelineInv

\* The timeline of the selected session comes.
LEMMA ShowDetailTimeline ==
  ASSUME Types, TimelineInv, NEW k \in loads, ShowDetail(k)
  PROVE  TimelineInv'
<1> SUFFICES ASSUME ~mixedTimeline', selectedSessionId' # NoSession PROVE TimelineInv'
  BY DEF TimelineInv
<1>1. /\ k.kind = "detail" /\ k.page.answer = "ok" /\ loads' = loads \ {k}
      /\ sessionDetail' = [of |-> k.session, items |-> k.page.items]
      /\ sessionEventsNextCursor' = k.page.next
      /\ UNCHANGED <<mixedTimeline, selectedSessionId, events>>
  BY DEF ShowDetail, server
<1>2. k \in TimelineLoads(loads)
  BY <1>1 DEF TimelineLoads
<1>3. TimelineLoads(loads) = {k} /\ TimelineLoadFits(k)
  BY <1>1, <1>2 DEF TimelineInv
<1>4. TimelineLoads(loads') = {}
  BY <1>1, <1>3 DEF TimelineLoads
<1>5. k.session = selectedSessionId /\ Beginning(k.page.items, k.page.next, k.session)
  BY <1>1, <1>3 DEF TimelineLoadFits
<1>6. Beginning(k.page.items, k.page.next, k.session)'
  BY <1>1, <1>5 DEF Beginning
<1>7. Beginning(sessionDetail.items, sessionEventsNextCursor, selectedSessionId)'
  BY <1>1, <1>5, <1>6
<1> QED BY <1>1, <1>4, <1>5, <1>7 DEF TimelineInv

\* A beginning and the page that continues it.
LEMMA Joined ==
  ASSUME ServerTypes, NEW s \in Sessions, NEW q \in Seq(Items), NEW r \in Seq(Items),
         NEW m, NEW next, Beginning(q, m, s), Continues(r, next, Len(q), s), IsInjective(r)
  PROVE  Beginning(AppendUnique(q, r), next, s)
<1>1. Len(q) \in Nat /\ Len(r) \in Nat /\ events[s] \in Nat
  BY DEF ServerTypes
<1>2. /\ \A i \in 1..Len(q) : q[i] = <<s, i>>
      /\ \A i \in 1..Len(r) : r[i] = <<s, Len(q) + i>>
      /\ Len(q) + Len(r) <= events[s] /\ next \in {Null, Len(q) + Len(r)}
  BY DEF Beginning, Continues
<1>3. \A i \in 1..Len(q), j \in 1..Len(r) : q[i] # r[j]
  <2> SUFFICES ASSUME NEW i \in 1..Len(q), NEW j \in 1..Len(r), q[i] = r[j] PROVE FALSE
    OBVIOUS
  <2>1. <<s, i>> = <<s, Len(q) + j>>
    BY <1>2
  <2>2. i = Len(q) + j
    BY <2>1
  <2> QED BY <1>1, <2>2
<1>4. AppendUnique(q, r) = q \o r
  BY <1>3, AppendUniqueOfNew
<1>5. PICK t \in Seq(Items) : t = q \o r
  <2>1. q \o r \in Seq(Items)
    OBVIOUS
  <2> QED BY <2>1
<1>6. Len(t) = Len(q) + Len(r)
  BY <1>5
<1>7. ASSUME NEW i \in 1..Len(t) PROVE t[i] = <<s, i>>
  <2>1. CASE i \in 1..Len(q)
    BY <1>2, <1>5, <2>1
  <2>2. CASE i \in (Len(q) + 1)..(Len(q) + Len(r))
    <3>1. i - Len(q) \in 1..Len(r) /\ Len(q) + (i - Len(q)) = i
      BY <1>1, <2>2
    <3>2. t[i] = r[i - Len(q)]
      BY <1>1, <1>5, <2>2
    <3> QED BY <1>2, <3>1, <3>2
  <2> QED BY <1>1, <1>6, <2>1, <2>2
<1> QED BY <1>2, <1>4, <1>5, <1>6, <1>7 DEF Beginning

\* More events come for the timeline that is shown.
LEMMA ShowMoreEventsTimeline ==
  ASSUME Types, TimelineInv, NEW k \in loads, ShowMoreEvents(k)
  PROVE  TimelineInv'
<1> SUFFICES ASSUME ~mixedTimeline', selectedSessionId' # NoSession PROVE TimelineInv'
  BY DEF TimelineInv
<1>1. /\ k.kind = "events" /\ k.page.answer = "ok" /\ loads' = loads \ {k}
      /\ UNCHANGED <<mixedTimeline, selectedSessionId, events>>
  BY DEF ShowMoreEvents, server
<1>2. k \in TimelineLoads(loads)
  BY <1>1 DEF TimelineLoads
<1>3. TimelineLoads(loads) = {k} /\ TimelineLoadFits(k)
  BY <1>1, <1>2 DEF TimelineInv
<1>4. TimelineLoads(loads') = {}
  BY <1>1, <1>3 DEF TimelineLoads
<1>5. PICK s \in Sessions : s = selectedSessionId
  BY <1>1 DEF Types, TimelineTypes
<1>6. /\ k.session = s /\ sessionDetail.of = s /\ k.cursor = Len(sessionDetail.items)
      /\ Continues(k.page.items, k.page.next, k.cursor, s)
  BY <1>1, <1>3, <1>5 DEF TimelineLoadFits
<1>7. sessionDetail # NoDetail
  BY <1>1, <1>5, <1>6 DEF NoDetail
<1>8. /\ sessionDetail' = [sessionDetail EXCEPT !.items = AppendUnique(@, k.page.items)]
      /\ sessionEventsNextCursor' = k.page.next
  BY <1>7 DEF ShowMoreEvents
<1>9. PICK q \in Seq(Items) : q = sessionDetail.items
  BY DEF Types, TimelineTypes
<1>10. PICK r \in Seq(Items) : r = k.page.items /\ IsInjective(r)
  BY <1>1 DEF Types, LoadTypes, Sound
<1>11. Beginning(q, sessionEventsNextCursor, s)
  BY <1>1, <1>5, <1>7, <1>9 DEF TimelineInv
<1>12. Continues(r, k.page.next, Len(q), s)
  BY <1>6, <1>9, <1>10
<1>13. PICK next : next = k.page.next
  OBVIOUS
<1>14. Beginning(AppendUnique(q, r), next, s)
  <2>1. PICK m : m = sessionEventsNextCursor
    OBVIOUS
  <2> QED BY <1>10, <1>11, <1>12, <1>13, <2>1, Joined DEF Types
<1>15. PICK t : t = AppendUnique(q, r)
  OBVIOUS
<1>16. sessionDetail'.items = t /\ sessionDetail'.of = s
  BY <1>6, <1>8, <1>9, <1>10, <1>15 DEF Types, TimelineTypes
<1>17. Beginning(t, next, s)'
  BY <1>1, <1>14, <1>15 DEF Beginning
<1>18. Beginning(sessionDetail.items, sessionEventsNextCursor, selectedSessionId)'
  BY <1>1, <1>5, <1>8, <1>13, <1>16, <1>17
<1> QED BY <1>1, <1>4, <1>5, <1>16, <1>18 DEF TimelineInv

\* More events are asked for where the timeline ends.
LEMMA ClickMoreEventsTimeline ==
  ASSUME Types, TimelineInv, ClickMoreEvents
  PROVE  TimelineInv'
<1> SUFFICES ASSUME ~mixedTimeline', selectedSessionId' # NoSession PROVE TimelineInv'
  BY DEF TimelineInv
<1>1. /\ sessionDetail # NoDetail /\ ~sessionEventsLoadingMore
      /\ sessionEventsNextCursor # Null /\ sessionEventsLoadingMore'
      /\ UNCHANGED <<mixedTimeline, selectedSessionId, sessionDetail,
                     sessionEventsNextCursor, events>>
  BY DEF ClickMoreEvents, server
<1>2. TimelineLoads(loads) = {}
  <2> SUFFICES ASSUME NEW l \in TimelineLoads(loads) PROVE FALSE
    OBVIOUS
  <2>1. TimelineLoadFits(l) /\ l.kind \in {"detail", "events"}
    BY <1>1 DEF TimelineInv, TimelineLoads
  <2> QED BY <1>1, <2>1 DEF TimelineLoadFits
<1>3. PICK id \in Nat : id = clicks'
  BY DEF ClickMoreEvents, Click, Types, LoadTypes
<1>4. PICK s \in Sessions : s = selectedSessionId
  BY <1>1 DEF Types, TimelineTypes
<1>5. PICK c \in Nat : c = sessionEventsNextCursor
  BY DEF Types, TimelineTypes
<1>6. PICK k : k = Load(id, "events", s, c)
  OBVIOUS
<1>7. loads' = loads \cup {k}
  BY <1>3, <1>4, <1>5, <1>6 DEF ClickMoreEvents
<1>8. k.kind = "events" /\ k.session = s /\ k.cursor = c /\ k.page.answer = "none"
  BY <1>6, NewLoadIsSound
<1>9. TimelineLoads(loads') = {k}
  BY <1>2, <1>7, <1>8 DEF TimelineLoads
<1>10. /\ sessionDetail.of = s
       /\ Beginning(sessionDetail.items, sessionEventsNextCursor, s)
  BY <1>1, <1>4 DEF TimelineInv
<1>11. c = Len(sessionDetail.items)
  BY <1>1, <1>5, <1>10 DEF Beginning
<1>12. TimelineLoadFits(k)'
  BY <1>1, <1>4, <1>8, <1>10, <1>11 DEF TimelineLoadFits
<1>13. Beginning(sessionDetail.items, sessionEventsNextCursor, selectedSessionId)'
  BY <1>1, <1>4, <1>10 DEF Beginning
<1> QED BY <1>1, <1>4, <1>9, <1>10, <1>12, <1>13 DEF TimelineInv

\* A list that changes does not touch the timeline.
LEMMA ShiftTimeline ==
  ASSUME Types, Types', TimelineInv, NEW m \in SUBSET Sessions, ListShifts(m),
         \A s \in Sessions : events[s] <= events'[s]
  PROVE  TimelineInv'
<1>1. TimelineLoads(loads') \subseteq TimelineLoads(loads)
  <2> SUFFICES ASSUME NEW l \in loads', l.kind \in {"detail", "events"} PROVE l \in loads
    BY DEF TimelineLoads
  <2>1. PICK k \in loads :
          l = IF k.kind = "list" /\ k.page.answer = "ok" THEN [k EXCEPT !.moved = @ \cup m] ELSE k
    BY DEF ListShifts
  <2>2. CASE k.kind = "list" /\ k.page.answer = "ok"
    BY <2>1, <2>2, LoadTold DEF Types, LoadTypes
  <2> QED BY <2>1, <2>2
<1> QED BY <1>1, TimelineKept DEF ListShifts, timeline

LEMMA StepTimeline == Types /\ TimelineInv /\ [Next]_vars => TimelineInv'
<1> SUFFICES ASSUME Types, TimelineInv, [Next]_vars PROVE TimelineInv'
  OBVIOUS
<1>1. Types'
  BY StepTypes
<1> DEFINE Quiet ==
      /\ UNCHANGED <<events, sessionDetail, sessionEventsNextCursor, mixedTimeline,
                     selectedSessionId>>
      /\ TimelineLoads(loads') \subseteq TimelineLoads(loads)
      /\ \A k \in TimelineLoads(loads') :
           k.kind = "events" /\ sessionEventsLoadingMore => sessionEventsLoadingMore'
<1>2. ASSUME Quiet PROVE TimelineInv'
  <2>1. \A s \in Sessions : events[s] <= events'[s]
    BY <1>2 DEF Types, ServerTypes
  <2> QED BY <1>1, <1>2, <2>1, TimelineKept
<1>3. ASSUME NEW s \in Sessions, RecordEvent(s) PROVE TimelineInv'
  <2>1. \A r \in Sessions : events[r] <= events'[r]
    BY <1>3 DEF RecordEvent, Types, ServerTypes
  <2> QED BY <1>1, <1>3, <2>1, ShiftTimeline DEF RecordEvent
<1>11. CASE Relist
  <2>1. \A r \in Sessions : events[r] <= events'[r]
    BY <1>11 DEF Relist, Types, ServerTypes
  <2>2. MovedUp(order, order') \in SUBSET Sessions
    BY <1>11, Relisted DEF Types
  <2> QED BY <1>1, <1>11, <2>1, <2>2, ShiftTimeline DEF Relist
<1>4. ASSUME NEW s \in Sessions, ClickSession(s) PROVE TimelineInv'
  <2>1. PICK id \in Nat : id = clicks'
    BY <1>1 DEF Types, LoadTypes
  <2>2. StartDetail(s, id, loads)
    BY <1>4, <2>1 DEF ClickSession
  <2> QED BY <2>2, StartDetailTimeline
<1>5. ASSUME NEW k \in loads, ShowList(k) PROVE TimelineInv'
  <2>1. k.page.items \in Seq(Sessions) /\ k.id \in Nat
    BY <1>5 DEF ShowList, Types, LoadTypes, Sound, LoadType
  <2>2. Selection(k.page.items) \in Sessions \cup {NoSession}
    BY <2>1, SelectionIsListed
  <2>3. CASE selectedSessionId' = NoSession
    BY <2>3 DEF TimelineInv
  <2>4. CASE \E s \in Sessions : StartDetail(s, k.id, loads \ {k})
    BY <2>1, <2>4, StartDetailTimeline
  <2> QED BY <1>5, <2>2, <2>3, <2>4 DEF ShowList
<1>6. ASSUME NEW k \in loads, ShowMore(k) PROVE TimelineInv'
  BY <1>2, <1>6 DEF ShowMore, server, timeline, TimelineLoads
<1>7. ASSUME NEW k \in loads, GiveUp(k) PROVE TimelineInv'
  <2>1. CASE k.kind # "events"
    BY <1>2, <1>7, <2>1 DEF GiveUp, server, TimelineLoads
  <2>2. CASE k.kind = "events" /\ ~mixedTimeline /\ selectedSessionId # NoSession
    <3>1. TimelineLoads(loads) = {k}
      BY <2>2 DEF TimelineInv, TimelineLoads
    <3>2. TimelineLoads(loads') = {}
      BY <1>7, <3>1 DEF GiveUp, TimelineLoads
    <3> QED BY <1>2, <1>7, <3>2 DEF GiveUp, server
  <2> QED BY <1>7, <2>1, <2>2 DEF GiveUp, TimelineInv
<1>8. CASE ClickMoreSessions
  <2>1. PICK id \in Nat : id = clicks'
    BY <1>1 DEF Types, LoadTypes
  <2>2. PICK c \in Nat : c = sessionNextCursor
    BY DEF Types, ListTypes
  <2>3. loads' = loads \cup {Load(id, "more", NoSession, c)}
    BY <1>8, <2>1, <2>2 DEF ClickMoreSessions
  <2>4. Load(id, "more", NoSession, c).kind = "more"
    BY NewLoadIsSound
  <2> QED BY <1>2, <1>8, <2>3, <2>4 DEF ClickMoreSessions, server, timeline, TimelineLoads
<1>9. CASE ClickRefresh
  <2>1. PICK id \in Nat : id = clicks'
    BY <1>1 DEF Types, LoadTypes
  <2>2. loads' = loads \cup {Load(id, "list", NoSession, 0)}
    BY <1>9, <2>1 DEF ClickRefresh
  <2>3. Load(id, "list", NoSession, 0).kind = "list"
    BY NewLoadIsSound
  <2> QED BY <1>2, <1>9, <2>2, <2>3 DEF ClickRefresh, server, timeline, TimelineLoads
<1>10. CASE ChangeFilter \/ UNCHANGED vars
  BY <1>2, <1>10 DEF ChangeFilter, server, timeline, vars
<1> QED BY <1>1, <1>3, <1>4, <1>5, <1>6, <1>7, <1>8, <1>9, <1>10, <1>11, AnswerTimeline,
           ShowDetailTimeline, ShowMoreEventsTimeline, ClickMoreEventsTimeline DEF Next

\* A timeline that was loaded alone belongs to the selected session and is a
\* gapless beginning of it, whatever failed and whatever agents record meanwhile.
THEOREM TimelineOfSelection == Spec => []TimelineIsOfSelection
<1>1. Init => TimelineInv
  BY DEF Init, TimelineInv
<1>2. ASSUME Types, TimelineInv, ~mixedTimeline, TimelineLoads(loads) = {},
             selectedSessionId # NoSession, sessionDetail # NoDetail
      PROVE  /\ sessionDetail.of = selectedSessionId
             /\ IsPrefix(sessionDetail.items, EventsOf(selectedSessionId))
             /\ sessionEventsNextCursor \in {Null, Len(sessionDetail.items)}
  <2>1. PICK s \in Sessions : s = selectedSessionId
    BY <1>2 DEF Types, TimelineTypes
  <2>2. PICK q \in Seq(Items) : q = sessionDetail.items
    BY <1>2 DEF Types, TimelineTypes
  <2>3. PICK t \in Seq(Items) : t = EventsOf(s)
    BY <1>2, Timeline DEF Types
  <2>4. /\ sessionDetail.of = s /\ Beginning(q, sessionEventsNextCursor, s)
    BY <1>2, <2>1, <2>2 DEF TimelineInv
  <2>5. Len(t) = events[s] /\ \A i \in 1..events[s] : t[i] = <<s, i>>
    BY <1>2, <2>3, Timeline DEF Types
  <2>6. Len(q) \in Nat /\ Len(t) \in Nat /\ Len(q) <= Len(t)
    BY <2>4, <2>5 DEF Beginning
  <2>7. \A i \in 1..Len(q) : q[i] = t[i]
    <3>1. \A i \in 1..Len(q) : q[i] = <<s, i>>
      BY <2>4 DEF Beginning
    <3>2. \A i \in 1..Len(q) : i \in 1..Len(t)
      BY <2>6
    <3> QED BY <2>5, <3>1, <3>2
  <2>8. SubSeq(q, 1, Len(q)) = SubSeq(t, 1, Len(q))
    BY <2>6, <2>7
  <2>9. IsPrefix(q, t)
    BY <2>6, <2>8 DEF IsPrefix
  <2> QED BY <2>1, <2>2, <2>3, <2>4, <2>9 DEF Beginning
<1>3. Types /\ TimelineInv => TimelineIsOfSelection
  BY <1>2 DEF TimelineIsOfSelection
<1> QED BY <1>1, <1>3, InitTypes, StepTypes, StepTimeline, PTL DEF Spec

-----------------------------------------------------------------------------
(* The list of sessions.                                                   *)

\* The list is another, in which the sessions of m came closer to the front.
Shifted(m) ==
  /\ order' \in Seq(Sessions)
  /\ \A j \in 1..Len(order') :
       order'[j] \in m \/ \E i \in 1..Len(order) : i <= j /\ order[i] = order'[j]

\* What was covered stays so when it is known which sessions came closer.
LEMMA StillCovers ==
  ASSUME ServerTypes, NEW m \in SUBSET Sessions, Shifted(m),
         NEW known, NEW next \in Nat, Covers(known, next)
  PROVE  Covers(known \cup m, next)'
<1>1. PICK q \in Seq(Sessions) : q = order /\ IsInjective(q)
  BY DEF ServerTypes
<1>2. PICK r \in Seq(Sessions) : r = order'
  BY DEF Shifted
<1>3. \A j \in 1..Len(r) : r[j] \in m \/ \E i \in 1..Len(q) : i <= j /\ q[i] = r[j]
  BY <1>1, <1>2 DEF Shifted
<1>4. \A i \in 1..Len(q) : q[i] \in known \/ (next # Null /\ i > next)
  BY <1>1 DEF Covers
<1>5. ASSUME NEW j \in 1..Len(r), r[j] \notin m
      PROVE  r[j] \in known \/ (next # Null /\ j > next)
  <2>1. PICK i \in 1..Len(q) : i <= j /\ q[i] = r[j]
    BY <1>3, <1>5
  <2>2. i > next => j > next
    BY <2>1
  <2> QED BY <1>4, <2>1, <2>2
<1> QED BY <1>2, <1>5 DEF Covers

\* A page is added to what was covered up to its offset.
LEMMA PageCovers ==
  ASSUME ServerTypes, NEW known, NEW c \in Nat, c = 0 \/ Covers(known, c)
  PROVE  Covers(known \cup ToSet(Page(order, c, PageLimit).items), Page(order, c, PageLimit).next)
<1>1. PICK q \in Seq(Sessions) : q = order /\ IsInjective(q)
  BY DEF ServerTypes
<1>2. PICK r : r = Page(q, c, PageLimit)
  OBVIOUS
<1>3. PageLimit \in Nat \ {0}
  BY LimitsAssumption
<1>4. \A i \in 1..Len(q) : i <= c \/ q[i] \in ToSet(r.items) \/ (r.next # Null /\ i > r.next)
  BY <1>1, <1>2, <1>3, PageHolds
<1>5. c # 0 => \A i \in 1..Len(q) : q[i] \in known \/ (c # Null /\ i > c)
  BY <1>1 DEF Covers
<1>6. ASSUME NEW i \in 1..Len(q)
      PROVE  q[i] \in known \cup ToSet(r.items) \/ (r.next # Null /\ i > r.next)
  <2>1. i > c => ~(i <= c)
    OBVIOUS
  <2>2. c = 0 => ~(i <= c)
    OBVIOUS
  <2> QED BY <1>4, <1>5, <2>1, <2>2
<1> QED BY <1>1, <1>2, <1>6 DEF Covers

\* Nothing of the list changes; calls that come are not yet answered.
LEMMA ListKept ==
  ASSUME ListInv, UNCHANGED <<order, sessions, sessionNextCursor, mixedList, moved>>,
         \A l \in loads' : \/ l \in loads
                           \/ /\ l.kind # "more"
                              /\ l.kind = "list" => l.cursor = 0 /\ l.page.answer # "ok",
         \A l \in loads' : l.kind = "more" /\ sessionLoadingMore => sessionLoadingMore'
  PROVE  ListInv'
<1>1. ASSUME NEW l \in loads' PROVE ListLoadFits(l)'
  <2>1. CASE l \in loads
    BY <2>1 DEF ListInv, ListLoadFits, Covers
  <2>2. CASE l.kind = "list" => l.cursor = 0 /\ l.page.answer # "ok"
    BY <2>2 DEF ListLoadFits
  <2> QED BY <2>1, <2>2
<1>2. \A l \in loads' : l.kind = "more" => l \in loads
  OBVIOUS
<1>3. /\ \A k, l \in loads' : k.kind = "more" /\ l.kind = "more" => k = l
      /\ \A k \in loads' : k.kind = "more" => sessionLoadingMore'
  BY <1>2 DEF ListInv
<1>4. ASSUME ~mixedList'
      PROVE  /\ sessions' # <<>> => Covers(moved \cup ToSet(sessions), sessionNextCursor)'
             /\ \A k \in loads' : MoreLoadFits(k)'
  <2>1. sessions' # <<>> => Covers(moved \cup ToSet(sessions), sessionNextCursor)'
    BY <1>4 DEF ListInv, Covers
  <2>2. ASSUME NEW k \in loads' PROVE MoreLoadFits(k)'
    <3>1. k.kind = "more" => MoreLoadFits(k)
      BY <1>2, <1>4 DEF ListInv
    <3> QED BY <3>1 DEF MoreLoadFits, Covers
  <2> QED BY <2>1, <2>2
<1> QED BY <1>1, <1>3, <1>4 DEF ListInv

\* The list shifts: what is suspended, and what is shown, know of it.
LEMMA ShiftList ==
  ASSUME Types, ListInv, NEW m \in SUBSET Sessions, Shifted(m), ListShifts(m)
  PROVE  ListInv'
<1> DEFINE told(k) == IF k.kind = "list" /\ k.page.answer = "ok"
                        THEN [k EXCEPT !.moved = @ \cup m] ELSE k
<1>1. /\ loads' = {told(k) : k \in loads}
      /\ moved' = moved \cup m
      /\ UNCHANGED <<sessions, sessionNextCursor, sessionLoadingMore, mixedList>>
  BY DEF ListShifts
<1>2. ASSUME NEW k \in loads
      PROVE  /\ told(k).kind = k.kind /\ told(k).cursor = k.cursor /\ told(k).page = k.page
             /\ k.kind = "list" /\ k.page.answer = "ok" => told(k).moved = k.moved \cup m
             /\ k.kind = "more" => told(k) = k
             /\ k.page.next \in Nat
  <2>1. Sound(k)
    BY DEF Types, LoadTypes
  <2> QED BY <2>1, LoadTold DEF Sound, LoadType, PageType
<1> HIDE DEF told
<1>3. ASSUME NEW l \in loads' PROVE ListLoadFits(l)'
  <2>1. PICK k \in loads : l = told(k)
    BY <1>1
  <2>2. CASE k.kind = "list" /\ k.page.answer = "ok"
    <3>1. k.cursor = 0 /\ Covers(k.moved \cup ToSet(k.page.items), k.page.next)
      BY <2>2 DEF ListInv, ListLoadFits
    <3>2. PICK known : known = k.moved \cup ToSet(k.page.items)
      OBVIOUS
    <3>3. PICK next \in Nat : next = k.page.next
      BY <1>2
    <3>4. Covers(known \cup m, next)'
      BY <1>1, <3>1, <3>2, <3>3, StillCovers DEF Types
    <3>5. known \cup m = l.moved \cup ToSet(l.page.items) /\ next = l.page.next
          /\ l.kind = "list" /\ l.cursor = 0
      BY <1>2, <2>1, <2>2, <3>1, <3>2, <3>3
    <3>6. Covers(l.moved \cup ToSet(l.page.items), l.page.next)'
      BY <3>4, <3>5
    <3> QED BY <3>5, <3>6 DEF ListLoadFits
  <2>3. CASE k.kind # "list" \/ k.page.answer # "ok"
    <3>1. k.kind = "list" => k.cursor = 0
      BY DEF ListInv, ListLoadFits
    <3> QED BY <1>2, <2>1, <2>3, <3>1 DEF ListLoadFits
  <2> QED BY <2>2, <2>3
<1>4. \A l \in loads' : l.kind = "more" => l \in loads
  BY <1>1, <1>2
<1>5. ASSUME NEW known, NEW next \in Nat, Covers(known, next)
      PROVE  Covers(known \cup m, next)'
  BY <1>1, <1>5, StillCovers DEF Types
<1>6. ASSUME ~mixedList', sessions' # <<>>
      PROVE  Covers(moved \cup ToSet(sessions), sessionNextCursor)'
  <2>1. PICK known : known = moved \cup ToSet(sessions)
    OBVIOUS
  <2>2. PICK next \in Nat : next = sessionNextCursor
    BY DEF Types, ListTypes
  <2>3. Covers(known, next)
    BY <1>1, <1>6, <2>1, <2>2 DEF ListInv
  <2>4. Covers(known \cup m, next)'
    BY <1>5, <2>3
  <2>5. known \cup m = moved' \cup ToSet(sessions') /\ next = sessionNextCursor'
    BY <1>1, <2>1, <2>2
  <2> QED BY <2>4, <2>5
<1>7. ASSUME ~mixedList', NEW l \in loads' PROVE MoreLoadFits(l)'
  <2> SUFFICES ASSUME l.kind = "more" PROVE MoreLoadFits(l)'
    BY DEF MoreLoadFits
  <2>1. l \in loads /\ MoreLoadFits(l)
    BY <1>1, <1>4, <1>7 DEF ListInv
  <2>2. sessions # <<>> /\ l.cursor = sessionNextCursor
    BY <2>1 DEF MoreLoadFits
  <2>3. ASSUME l.page.answer = "ok"
        PROVE  Covers(moved \cup ToSet(sessions) \cup ToSet(l.page.items), l.page.next)'
    <3>1. PICK known : known = moved \cup ToSet(sessions) \cup ToSet(l.page.items)
      OBVIOUS
    <3>2. PICK next \in Nat : next = l.page.next
      BY <1>2, <2>1
    <3>3. Covers(known, next)
      BY <2>1, <2>3, <3>1, <3>2 DEF MoreLoadFits
    <3>4. Covers(known \cup m, next)'
      BY <1>5, <3>3
    <3>5. known \cup m = moved' \cup ToSet(sessions') \cup ToSet(l.page.items)
      BY <1>1, <3>1
    <3> QED BY <3>2, <3>4, <3>5
  <2> QED BY <1>1, <2>2, <2>3 DEF MoreLoadFits
<1> QED BY <1>1, <1>3, <1>4, <1>6, <1>7 DEF ListInv

\* A page of the list fits behind what was loaded before it.
LEMMA AnswerList ==
  ASSUME Types, ListInv, NEW k \in loads, Answer(k)
  PROVE  ListInv'
<1>1. PICK p \in Answers(k) : loads' = (loads \ {k}) \cup {[k EXCEPT !.page = p]}
  BY DEF Answer
<1>2. PICK l : l = [k EXCEPT !.page = p]
  OBVIOUS
<1>3. Sound(k)
  BY DEF Types, LoadTypes
<1>4. l.kind = k.kind /\ l.cursor = k.cursor /\ l.page = p /\ k.page.answer = "none"
  BY <1>2, <1>3, AnswersFit, LoadAnswered DEF Answer
<1>5. UNCHANGED <<order, sessions, sessionNextCursor, sessionLoadingMore, mixedList, moved>>
  BY DEF Answer, server, list
<1>6. \A m \in loads' : m \in loads \/ m = l
  BY <1>1, <1>2
<1>7. CASE k.kind \notin {"list", "more"}
  BY <1>4, <1>5, <1>6, <1>7, ListKept
<1>8. CASE k.kind = "list"
  <2>1. k.cursor = 0
    BY <1>8 DEF ListInv, ListLoadFits
  <2>2. p = Failed \/ p = Page(order, 0, PageLimit)
    BY <1>8, <2>1 DEF Answers
  <2>3. PICK known : known = l.moved
    OBVIOUS
  <2>4. Covers(known \cup ToSet(Page(order, 0, PageLimit).items), Page(order, 0, PageLimit).next)
    BY PageCovers DEF Types
  <2>5. p.answer = "ok" => Covers(l.moved \cup ToSet(p.items), p.next)
    <3>1. CASE p = Failed
      BY <3>1 DEF Failed
    <3>2. CASE p = Page(order, 0, PageLimit)
      BY <2>3, <2>4, <3>2
    <3> QED BY <2>2, <3>1, <3>2
  <2>6. ListLoadFits(l)'
    BY <1>4, <1>5, <1>8, <2>1, <2>5 DEF ListLoadFits, Covers
  <2>7. \A m \in loads' : ListLoadFits(m)'
    BY <1>5, <1>6, <2>6 DEF ListInv, ListLoadFits, Covers
  <2>8. \A m \in loads' : m.kind = "more" => m \in loads
    BY <1>4, <1>6, <1>8
  <2>9. ~mixedList' =>
          /\ sessions' # <<>> => Covers(moved \cup ToSet(sessions), sessionNextCursor)'
          /\ \A m \in loads' : MoreLoadFits(m)'
    BY <1>5, <2>8 DEF ListInv, MoreLoadFits, Covers
  <2> QED BY <1>5, <2>7, <2>8, <2>9 DEF ListInv
<1>9. CASE k.kind = "more"
  <2>1. \A m \in loads' : m.kind = "more" => m = l
    BY <1>1, <1>2, <1>9 DEF ListInv
  <2>2. sessionLoadingMore'
    BY <1>5, <1>9 DEF ListInv
  <2>3. \A m \in loads' : ListLoadFits(m)'
    BY <1>4, <1>5, <1>6, <1>9 DEF ListInv, ListLoadFits, Covers
  <2>4. ASSUME ~mixedList'
        PROVE  /\ sessions' # <<>> => Covers(moved \cup ToSet(sessions), sessionNextCursor)'
               /\ MoreLoadFits(l)'
    <3>1. MoreLoadFits(k) /\ (sessions # <<>> => Covers(moved \cup ToSet(sessions), sessionNextCursor))
      BY <1>5, <2>4 DEF ListInv
    <3>2. sessions # <<>> /\ k.cursor = sessionNextCursor
      BY <1>9, <3>1 DEF MoreLoadFits
    <3>3. PICK c \in Nat : c = k.cursor
      BY <1>3 DEF Sound, LoadType
    <3>4. p = Failed \/ p = Page(order, c, PageLimit)
      BY <1>9, <3>3 DEF Answers
    <3>5. PICK known : known = moved \cup ToSet(sessions)
      OBVIOUS
    <3>6. Covers(known \cup ToSet(Page(order, c, PageLimit).items), Page(order, c, PageLimit).next)
      BY <3>1, <3>2, <3>3, <3>5, PageCovers DEF Types
    <3>7. p.answer = "ok" => Covers(moved \cup ToSet(sessions) \cup ToSet(p.items), p.next)
      <4>1. CASE p = Failed
        BY <4>1 DEF Failed
      <4>2. CASE p = Page(order, c, PageLimit)
        BY <3>5, <3>6, <4>2
      <4> QED BY <3>4, <4>1, <4>2
    <3> QED BY <1>4, <1>5, <3>1, <3>2, <3>7 DEF MoreLoadFits, Covers
  <2>5. \A m \in loads' : ~mixedList' => MoreLoadFits(m)'
    BY <2>1, <2>4 DEF MoreLoadFits
  <2> QED BY <2>1, <2>2, <2>3, <2>4, <2>5 DEF ListInv
<1> QED BY <1>3, <1>7, <1>8, <1>9 DEF Sound, LoadType

\* The list is taken anew.
LEMMA ShowListList ==
  ASSUME Types, ListInv, NEW k \in loads, ShowList(k)
  PROVE  ListInv'
<1>1. /\ k.kind = "list" /\ k.page.answer = "ok"
      /\ sessions' = k.page.items /\ sessionNextCursor' = k.page.next /\ moved' = k.moved
      /\ mixedList' = (ListLoads(loads \ {k}) # {})
      /\ UNCHANGED <<order, sessionLoadingMore>>
  BY DEF ShowList, server
<1>2. \A l \in loads' : l \in loads \ {k} \/ l.kind = "detail"
  <2>1. CASE loads' = loads \ {k}
    BY <2>1
  <2>2. CASE \E s : StartDetail(s, k.id, loads \ {k})
    <3>1. PICK s : loads' = (loads \ {k}) \cup {Load(k.id, "detail", s, 0)}
      BY <2>2 DEF StartDetail
    <3>2. Load(k.id, "detail", s, 0).kind = "detail"
      BY DEF Load
    <3> QED BY <3>1, <3>2
  <2> QED BY <2>1, <2>2 DEF ShowList
<1>3. \A l \in loads' : ListLoadFits(l)'
  BY <1>1, <1>2 DEF ListInv, ListLoadFits, Covers
<1>4. /\ \A l, m \in loads' : l.kind = "more" /\ m.kind = "more" => l = m
      /\ \A l \in loads' : l.kind = "more" => sessionLoadingMore'
  BY <1>1, <1>2 DEF ListInv
<1>5. ~mixedList' => \A l \in loads' : l.kind # "more"
  BY <1>1, <1>2 DEF ListLoads
<1>6. Covers(k.moved \cup ToSet(k.page.items), k.page.next)
  BY <1>1 DEF ListInv, ListLoadFits
<1>7. Covers(moved \cup ToSet(sessions), sessionNextCursor)'
  BY <1>1, <1>6 DEF Covers
<1> QED BY <1>3, <1>4, <1>5, <1>7 DEF ListInv, MoreLoadFits

\* A next page is added to the list.
LEMMA ShowMoreList ==
  ASSUME Types, ListInv, NEW k \in loads, ShowMore(k)
  PROVE  ListInv'
<1>1. /\ k.kind = "more" /\ k.page.answer = "ok" /\ loads' = loads \ {k}
      /\ sessions' = AppendUnique(sessions, k.page.items) /\ sessionNextCursor' = k.page.next
      /\ UNCHANGED <<order, mixedList, moved>>
  BY DEF ShowMore, server
<1>2. \A l \in loads' : l.kind # "more"
  BY <1>1 DEF ListInv
<1>3. \A l \in loads' : ListLoadFits(l)'
  BY <1>1 DEF ListInv, ListLoadFits, Covers
<1>4. ASSUME ~mixedList' PROVE Covers(moved \cup ToSet(sessions), sessionNextCursor)'
  <2>1. MoreLoadFits(k)
    BY <1>1, <1>4 DEF ListInv
  <2>2. Covers(moved \cup ToSet(sessions) \cup ToSet(k.page.items), k.page.next)
    BY <1>1, <2>1 DEF MoreLoadFits
  <2>3. k.page.items \in Seq(Sessions) /\ sessions \in Seq(Sessions)
    BY <1>1 DEF Types, ListTypes, LoadTypes, Sound
  <2>4. ToSet(sessions') = ToSet(sessions) \cup ToSet(k.page.items)
    BY <1>1, <2>3, AppendUniqueKeeps
  <2>5. moved' \cup ToSet(sessions') = moved \cup ToSet(sessions) \cup ToSet(k.page.items)
    BY <1>1, <2>4
  <2> QED BY <1>1, <2>2, <2>5 DEF Covers
<1> QED BY <1>2, <1>3, <1>4 DEF ListInv, MoreLoadFits

\* A next page is asked for where the list ends.
LEMMA ClickMoreSessionsList ==
  ASSUME Types, ListInv, ClickMoreSessions
  PROVE  ListInv'
<1>1. /\ ~sessionLoadingMore /\ sessionLoadingMore'
      /\ UNCHANGED <<order, sessions, sessionNextCursor, mixedList, moved>>
  BY DEF ClickMoreSessions, server
<1>2. PICK id \in Nat : id = clicks'
  BY DEF ClickMoreSessions, Click, Types, LoadTypes
<1>3. PICK c \in Nat : c = sessionNextCursor
  BY DEF Types, ListTypes
<1>4. PICK k : k = Load(id, "more", NoSession, c)
  OBVIOUS
<1>5. loads' = loads \cup {k}
  BY <1>2, <1>3, <1>4 DEF ClickMoreSessions
<1>6. k.kind = "more" /\ k.cursor = c /\ k.page.answer = "none"
  BY <1>4, NewLoadIsSound
<1>7. \A l \in loads : l.kind # "more"
  BY <1>1 DEF ListInv
<1>8. sessions # <<>>
  <2>1. PICK s : s \in ToSet(sessions)
    BY DEF ClickMoreSessions, Visible
  <2> QED BY <2>1 DEF ToSet
<1>9. \A l \in loads' : ListLoadFits(l)'
  BY <1>1, <1>5, <1>6 DEF ListInv, ListLoadFits, Covers
<1>10. \A l \in loads' : MoreLoadFits(l)'
  BY <1>1, <1>3, <1>5, <1>6, <1>7, <1>8 DEF MoreLoadFits
<1>11. ~mixedList' => Covers(moved \cup ToSet(sessions), sessionNextCursor)'
  BY <1>1, <1>8 DEF ListInv, Covers
<1> QED BY <1>1, <1>5, <1>7, <1>9, <1>10, <1>11 DEF ListInv

LEMMA StepList == Types /\ ListInv /\ [Next]_vars => ListInv'
<1> SUFFICES ASSUME Types, ListInv, [Next]_vars PROVE ListInv'
  OBVIOUS
<1> DEFINE Quiet ==
      /\ UNCHANGED <<order, sessions, sessionNextCursor, mixedList, moved>>
      /\ \A l \in loads' : \/ l \in loads
                           \/ /\ l.kind # "more"
                              /\ l.kind = "list" => l.cursor = 0 /\ l.page.answer # "ok"
      /\ \A l \in loads' : l.kind = "more" /\ sessionLoadingMore => sessionLoadingMore'
<1>1. ASSUME Quiet PROVE ListInv'
  BY <1>1, ListKept
<1>2. PICK id \in Nat : id = clicks'
  BY StepTypes DEF Types, LoadTypes
<1>3. ASSUME NEW s \in Sessions, ClickSession(s) PROVE ListInv'
  <2>1. loads' = loads \cup {Load(id, "detail", s, 0)}
    BY <1>2, <1>3 DEF ClickSession, StartDetail
  <2>2. Load(id, "detail", s, 0).kind = "detail"
    BY NewLoadIsSound
  <2> QED BY <1>1, <1>3, <2>1, <2>2 DEF ClickSession, server, list
<1>4. ASSUME NEW k \in loads, ShowDetail(k) \/ ShowMoreEvents(k) PROVE ListInv'
  BY <1>1, <1>4 DEF ShowDetail, ShowMoreEvents, server, list
<1>5. ASSUME NEW k \in loads, GiveUp(k) PROVE ListInv'
  <2>1. \A l \in loads' : l \in loads
    BY <1>5 DEF GiveUp
  <2>2. \A l \in loads' : l.kind = "more" /\ sessionLoadingMore => sessionLoadingMore'
    <3>1. CASE k.kind = "more"
      BY <1>5, <3>1 DEF GiveUp, ListInv
    <3>2. CASE k.kind # "more"
      BY <1>5, <3>2 DEF GiveUp
    <3> QED BY <3>1, <3>2
  <2> QED BY <1>1, <1>5, <2>1, <2>2 DEF GiveUp, server
<1>6. CASE ClickMoreEvents
  <2>1. PICK s \in Sessions : s = selectedSessionId
    BY <1>6 DEF ClickMoreEvents, Types, TimelineTypes
  <2>2. PICK c \in Nat : c = sessionEventsNextCursor
    BY DEF Types, TimelineTypes
  <2>3. loads' = loads \cup {Load(id, "events", s, c)}
    BY <1>2, <1>6, <2>1, <2>2 DEF ClickMoreEvents
  <2>4. Load(id, "events", s, c).kind = "events"
    BY DEF Load
  <2> QED BY <1>1, <1>6, <2>3, <2>4 DEF ClickMoreEvents, server, list
<1>7. CASE ClickRefresh
  <2>1. loads' = loads \cup {Load(id, "list", NoSession, 0)}
    BY <1>2, <1>7 DEF ClickRefresh
  <2>2. PICK k : k = Load(id, "list", NoSession, 0)
    OBVIOUS
  <2>3. k.kind = "list" /\ k.cursor = 0 /\ k.page.answer = "none"
    BY <2>2, NewLoadIsSound
  <2> QED BY <1>1, <1>7, <2>1, <2>2, <2>3 DEF ClickRefresh, server, list
<1>8. CASE ChangeFilter \/ UNCHANGED vars
  BY <1>1, <1>8 DEF ChangeFilter, server, list, vars
<1>9. ASSUME NEW s \in Sessions, RecordEvent(s) PROVE ListInv'
  <2>1. /\ MoveToFront(order, s) \in Seq(Sessions)
        /\ \A j \in 1..Len(MoveToFront(order, s)) :
             \/ MoveToFront(order, s)[j] = s
             \/ \E i \in 1..Len(order) : i <= j /\ order[i] = MoveToFront(order, s)[j]
    BY MovedToFront DEF Types, ServerTypes
  <2>2. Shifted({s})
    BY <1>9, <2>1 DEF RecordEvent, Shifted
  <2> QED BY <1>9, <2>2, ShiftList DEF RecordEvent
<1>10. CASE Relist
  <2>1. Shifted(MovedUp(order, order')) /\ MovedUp(order, order') \in SUBSET Sessions
    BY <1>10, Relisted DEF Types, Shifted
  <2> QED BY <1>10, <2>1, ShiftList DEF Relist
<1> QED BY <1>3, <1>4, <1>5, <1>6, <1>7, <1>8, <1>9, <1>10, AnswerList, ShowListList,
           ShowMoreList, ClickMoreSessionsList DEF Next

\* While agents move sessions to the front of the list, sessions leave it and
\* come back, and pages are cut by offset, a list whose loads did not overlap
\* misses before its next cursor only sessions that have come closer to the
\* front since it was taken.
THEOREM RestingSessionsAreFound == Spec => []RestingSessionsAreListed
<1>1. Init => ListInv
  <2> SUFFICES ASSUME Init PROVE ListInv
    OBVIOUS
  <2>1. PICK k : k = Load(0, "list", NoSession, 0)
    OBVIOUS
  <2>2. k.kind = "list" /\ k.cursor = 0 /\ k.page.answer = "none"
    BY <2>1 DEF Load, Awaited
  <2> QED BY <2>1, <2>2 DEF Init, ListInv, ListLoadFits, MoreLoadFits
<1>2. ListInv => RestingSessionsAreListed
  BY DEF ListInv, Covers, RestingSessionsAreListed
<1> QED BY <1>1, <1>2, InitTypes, StepTypes, StepList, PTL DEF Spec
=============================================================================
