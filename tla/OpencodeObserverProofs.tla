------------------------ MODULE OpencodeObserverProofs ------------------------
(***************************************************************************)
(* Theorems about a run of the opencode observer, for any number of        *)
(* sessions, endpoints and message parts and for any limits.               *)
(***************************************************************************)
EXTENDS OpencodeObserver, FiniteSetTheorems, SequenceTheorems, TLAPS

Labels == {"initialize", "list", "capabilities", "sessions", "write", "follow", "done",
           "failed"}

\* What the run collects, and what the requests for global events bring.
Collectable == [kind : {"capability", "unknown", "thread", "item", "tool"},
                of : Sessions \cup Endpoints]
Globals == {Event("global", n) : n \in Nat} \cup {Event("unknown", 0)}

TypeOK ==
  /\ parts \in [Sessions -> Seq(PartKinds)]
  /\ pc \in Labels
  /\ listed \in Seq(Sessions) /\ asked \in Seq(Sessions)
  /\ remaining \in Nat /\ emitted \in Nat /\ polled \in Nat
  /\ events \in Seq(Collectable) /\ collected \in Seq(Collectable)
  /\ pending \in Seq(Globals)
  /\ artifact \in Seq(Collectable \cup Globals)

\* The places of q with a message part.
PartPlaces(q) == {n \in 1 .. Len(q) : q[n].kind \in PartKinds}

\* Each endpoint has its event in q.
EndpointsIn(q) == \A e \in Endpoints : \E n \in 1 .. Len(q) : q[n].of = e

\* The first m of the sessions to be collected, and no others, are in q, in order.
ThreadsIn(q, m) ==
  \E at \in [1 .. m -> 1 .. Len(q)] :
    /\ \A i, j \in 1 .. m : i < j => at[i] < at[j]
    /\ \A i \in 1 .. m : q[at[i]] = Event("thread", asked[i])
    /\ \A n \in 1 .. Len(q) : q[n].kind = "thread" => \E i \in 1 .. m : at[i] = n

\* Of each session q has a beginning of the parts, in one piece.
PartsIn(q) ==
  \A s \in Sessions : \E at \in 0 .. Len(q), k \in 0 .. Len(parts[s]) : HoldsParts(q, s, at, k)

\* Only the first m sessions have parts in q.
PartsOfFirst(q, m) ==
  \A n \in PartPlaces(q) : \E i \in 1 .. m : q[n].of = asked[i]

Gathered(q, m) ==
  EndpointsIn(q) /\ ThreadsIn(q, m) /\ PartsIn(q) /\ PartsOfFirst(q, m)

\* At most as many sessions as allowed are collected, and none twice.
AskedOnce ==
  /\ Len(asked) <= SessionLimit
  /\ \A i, j \in 1 .. Len(asked) : asked[i] = asked[j] => i = j

Early == {"initialize", "list", "capabilities", "sessions"}
Taken == Len(asked) - Len(listed)
Cut == Truncated(collected)

\* The sessions still listed are the last of those to be collected, and the parts
\* collected and the budget left make up the limit.
SomeCollected ==
  /\ Len(listed) <= Len(asked)
  /\ \A j \in 1 .. Len(listed) : listed[j] = asked[Taken + j]
  /\ Gathered(events, Taken)
  /\ Cardinality(PartPlaces(events)) + remaining = MessageLimit
AllCollected ==
  /\ Gathered(collected, Len(asked))
  /\ Cardinality(PartPlaces(collected)) <= MessageLimit

CollectInv ==
  /\ pc \in Early => artifact = <<>> /\ collected = <<>> /\ emitted = 0
  /\ pc \in {"initialize", "list"} => events = <<>> /\ asked = <<>>
  /\ pc \in {"initialize", "list", "capabilities"} => remaining = MessageLimit
  /\ pc = "capabilities" =>
       /\ listed = asked
       /\ \A n \in 1 .. Len(events) : events[n].kind \in {"capability", "unknown"}
  /\ AskedOnce
  /\ pc = "sessions" => SomeCollected
  /\ pc \notin Early => PartsIn(collected)
  /\ pc \in {"write", "follow", "done"} => AllCollected

ItemPlaces(q) == {n \in 1 .. Len(q) : q[n].kind = "item"}

\* Writing: the artifact has what was collected and not cut, from the first on,
\* and only after all of it what the requests for global events brought.
WriteInv ==
  /\ \A i \in 1 .. Len(artifact) :
       IF i <= Len(Cut) THEN artifact[i] = Cut[i] ELSE artifact[i] \in Globals
  /\ pc = "write" =>
       /\ Len(artifact) + Len(events) = Len(Cut)
       /\ \A i \in 1 .. Len(events) : events[i] = Cut[Len(artifact) + i]
       /\ emitted = Cardinality(ItemPlaces(artifact))
  /\ pc \in {"follow", "done"} => events = <<>> /\ Len(Cut) <= Len(artifact)

IInv == TypeOK /\ CollectInv /\ WriteInv

-----------------------------------------------------------------------------
(* Types.                                                                   *)

LEMMA EventFields ==
  /\ \A k, o : Event(k, o).kind = k /\ Event(k, o).of = o
  /\ \A s \in Sessions \cup Endpoints, k \in {"capability", "unknown", "thread", "item", "tool"} :
       Event(k, s) \in Collectable
  /\ \A n \in Nat : Event("global", n) \in Globals
  /\ Event("unknown", 0) \in Globals
BY DEF Event, Collectable, Globals

\* What a session brings: its first parts, within the budget.
LEMMA PartEventsAre ==
  ASSUME TypeOK, NEW s \in Sessions
  PROVE  /\ PartEvents(s) \in Seq(Collectable)
         /\ Len(PartEvents(s)) \in Nat
         /\ Len(PartEvents(s)) <= remaining /\ Len(PartEvents(s)) <= Len(parts[s])
         /\ \A i \in 1 .. Len(PartEvents(s)) :
              PartEvents(s)[i] = Event(parts[s][i], s) /\ parts[s][i] \in PartKinds
         /\ LeftOfBudget(PartEvents(s)) \in Nat
         /\ LeftOfBudget(PartEvents(s)) = remaining - Len(PartEvents(s))
<1>1. PICK p \in Seq(PartKinds) : p = parts[s]
  BY DEF TypeOK
<1>2. remaining \in Nat
  BY DEF TypeOK
<1>3. PICK n \in Nat : n = IF Len(p) < remaining THEN Len(p) ELSE remaining
  BY <1>1, <1>2
<1>4. n <= Len(p) /\ n <= remaining
  BY <1>1, <1>2, <1>3
<1>5. PartEvents(s) = [i \in 1 .. n |-> Event(p[i], s)]
  BY <1>1, <1>3 DEF PartEvents
<1>6. \A i \in 1 .. n : p[i] \in PartKinds /\ Event(p[i], s) \in Collectable
  <2>1. \A i \in 1 .. n : p[i] \in PartKinds
    BY <1>1, <1>4
  <2> QED BY <2>1, EventFields DEF PartKinds
<1>7. /\ [i \in 1 .. n |-> Event(p[i], s)] \in Seq(Collectable)
      /\ Len([i \in 1 .. n |-> Event(p[i], s)]) = n
  BY <1>6
<1> QED BY <1>1, <1>2, <1>4, <1>5, <1>6, <1>7 DEF LeftOfBudget

LEMMA FetchedAreGlobal == TypeOK => Fetched \subseteq Seq(Globals)
<1>1. ASSUME NEW n \in Nat PROVE GlobalEvents(n) \in Seq(Globals)
  BY EventFields DEF GlobalEvents
<1>2. <<Event("unknown", 0)>> \in Seq(Globals)
  BY EventFields
<1>3. \A n \in 0 .. MaxBatch : GlobalEvents(n) \in Seq(Globals)
  BY <1>1, LimitsAssumption
<1>4. GlobalAnswers \subseteq Seq(Globals)
  BY <1>2, <1>3 DEF GlobalAnswers
<1> QED BY <1>4 DEF Fetched, TypeOK

LEMMA InitInvariant == Init => IInv
<1> SUFFICES ASSUME Init PROVE IInv
  OBVIOUS
<1>1. TypeOK
  BY LimitsAssumption DEF Init, TypeOK, Labels
<1>2. Cut = <<>>
  BY LimitsAssumption DEF Init, Cut, Truncated
<1>3. CollectInv
  BY LimitsAssumption DEF Init, CollectInv, Early, AskedOnce
<1>4. WriteInv
  BY <1>2 DEF Init, WriteInv
<1> QED BY <1>1, <1>3, <1>4 DEF IInv

LEMMA TypeStep ==
  ASSUME TypeOK, [Next]_vars
  PROVE  TypeOK'
<1> USE DEF TypeOK, Labels
<1>1. CASE UNCHANGED vars
  BY <1>1 DEF vars
<1>2. ASSUME NEW s \in Sessions, AddPart(s) PROVE TypeOK'
  <2>1. PICK k \in PartKinds : parts' = [parts EXCEPT ![s] = Append(@, k)]
    BY <1>2 DEF AddPart
  <2>2. parts' \in [Sessions -> Seq(PartKinds)]
    BY <2>1
  <2> QED BY <1>2, <2>2 DEF AddPart
<1>3. CASE Initialize
  BY <1>3 DEF Initialize, Fails
<1>4. CASE ListSessions
  <2>1. CASE Fails
    BY <2>1 DEF Fails
  <2>2. CASE ~Fails
    <3>1. PICK all \in UNION {SetToSeqs(S) : S \in SUBSET Sessions} :
            listed' = SubSeq(all, 1, IF Len(all) < SessionLimit THEN Len(all) ELSE SessionLimit)
      BY <1>4, <2>2 DEF ListSessions
    <3>2. PICK S \in SUBSET Sessions : all \in SetToSeqs(S)
      BY <3>1
    <3>3. all \in [1 .. Cardinality(S) -> S] /\ Cardinality(S) \in Nat
      <4>1. IsFiniteSet(S)
        BY FS_Subset, SetsAssumption
      <4> QED BY <3>2, <4>1, FS_CardinalityType DEF SetToSeqs
    <3>4. all \in Seq(Sessions)
      <4>1. PICK c \in Nat : c = Cardinality(S)
        BY <3>3
      <4>2. all \in [1 .. c -> Sessions]
        BY <3>3, <4>1
      <4> QED BY <4>2
    <3>5. listed' \in Seq(Sessions)
      BY <3>1, <3>4, LimitsAssumption
    <3> QED BY <1>4, <2>2, <3>5 DEF ListSessions
  <2> QED BY <2>1, <2>2
<1>5. CASE AskCapability
  <2>1. PICK e \in Endpoints, kind \in {"capability", "unknown"} :
          events' = Append(events, Event(kind, e))
    BY <1>5 DEF AskCapability
  <2>2. events' \in Seq(Collectable)
    BY <2>1, EventFields
  <2> QED BY <1>5, <2>2 DEF AskCapability
<1>6. CASE CollectSession
  <2>1. Head(listed) \in Sessions /\ Tail(listed) \in Seq(Sessions)
    BY <1>6 DEF CollectSession
  <2>2. ASSUME NEW more \in Seq(Collectable), TakeUp(Head(listed), more)
        PROVE  events' \in Seq(Collectable) /\ listed' \in Seq(Sessions)
    BY <2>1, <2>2, EventFields DEF TakeUp
  <2>3. <<Event("unknown", Head(listed))>> \in Seq(Collectable)
    BY <2>1, EventFields
  <2>4. /\ PartEvents(Head(listed)) \in Seq(Collectable)
        /\ LeftOfBudget(PartEvents(Head(listed))) \in Nat
    BY <2>1, PartEventsAre
  <2>5. /\ events' \in Seq(Collectable) /\ listed' \in Seq(Sessions)
        /\ remaining' \in Nat
    BY <1>6, <2>2, <2>3, <2>4 DEF CollectSession
  <2> QED BY <1>6, <2>5 DEF CollectSession
<1>7. CASE Truncate
  <2>1. events' \in Seq(Collectable)
    <3>1. SessionLimit + MessageLimit \in Nat
      BY LimitsAssumption
    <3> QED BY <1>7, <3>1 DEF Truncate, Truncated
  <2> QED BY <1>7, <2>1 DEF Truncate
<1>8. CASE WriteEvent
  <2>1. /\ Head(events) \in Collectable /\ events' \in Seq(Collectable)
    BY <1>8 DEF WriteEvent
  <2>2. Append(artifact, Head(events)) \in Seq(Collectable \cup Globals)
    BY <2>1
  <2>3. \/ UNCHANGED <<emitted, artifact, pc>>
        \/ /\ emitted' \in {emitted, emitted + 1}
           /\ artifact' \in {artifact, Append(artifact, Head(events))}
           /\ pc' \in {pc, "failed"}
    BY <1>8 DEF WriteEvent, Write
  <2>4. artifact' \in Seq(Collectable \cup Globals)
    BY <2>2, <2>3
  <2>5. pc' \in Labels /\ emitted' \in Nat
    BY <2>3
  <2>6. UNCHANGED <<parts, listed, remaining, polled, pending, asked, collected>>
    BY <1>8 DEF WriteEvent
  <2> QED BY <2>1, <2>4, <2>5, <2>6
<1>9. CASE StartFollowing
  BY <1>9 DEF StartFollowing
<1>10. CASE NextEvent
  <2>1. PICK q \in Fetched :
          IF q = <<>> THEN pc' = "done" /\ UNCHANGED <<pending, artifact>>
                      ELSE pending' = Tail(q) /\ Write(Head(q))
    BY <1>10 DEF NextEvent
  <2>2. Fetched \subseteq Seq(Globals)
    BY FetchedAreGlobal
  <2>3. q \in Seq(Globals)
    BY <2>1, <2>2
  <2>4. CASE q = <<>>
    BY <1>10, <2>1, <2>4 DEF NextEvent
  <2>5. CASE q # <<>>
    <3>1. Head(q) \in Globals /\ Tail(q) \in Seq(Globals)
      BY <2>3, <2>5
    <3>2. Append(artifact, Head(q)) \in Seq(Collectable \cup Globals)
      BY <3>1
    <3>3. artifact' \in {artifact, Append(artifact, Head(q))} /\ pc' \in {pc, "failed"}
          /\ pending' = Tail(q)
      BY <2>1, <2>5 DEF Write
    <3>4. artifact' \in Seq(Collectable \cup Globals) /\ pc' \in Labels
      BY <3>2, <3>3
    <3>5. UNCHANGED <<parts, listed, remaining, events, emitted, asked, collected>>
          /\ polled' \in Nat /\ pending' \in Seq(Globals)
      BY <1>10, <3>1, <3>3 DEF NextEvent
    <3> QED BY <3>4, <3>5
  <2> QED BY <2>4, <2>5
<1>11. CASE Stop
  BY <1>11 DEF Stop
<1> QED BY <1>1, <1>2, <1>3, <1>4, <1>5, <1>6, <1>7, <1>8, <1>9, <1>10, <1>11 DEF Next

-----------------------------------------------------------------------------
(* Collecting.                                                              *)

\* The session that comes after the first m; what it brings, k parts first.
ComesNext(m, s) == m + 1 \in 1 .. Len(asked) /\ asked[m + 1] = s
Joined(q, s, more) == Append(q, Event("thread", s)) \o more
Brings(more, s, k) ==
  /\ k <= Len(more) /\ k <= Len(parts[s])
  /\ \A i \in 1 .. k : more[i] = Event(parts[s][i], s) /\ parts[s][i] \in PartKinds
  /\ \A i \in k + 1 .. Len(more) : more[i].kind = "unknown"

LEMMA Extended ==
  ASSUME NEW S, NEW p \in Seq(S), NEW e \in S, NEW more \in Seq(S),
         NEW q, q = Append(p, e) \o more
  PROVE  /\ q \in Seq(S) /\ Len(q) = Len(p) + 1 + Len(more)
         /\ Len(p) \in Nat /\ Len(more) \in Nat
         /\ \A i \in 1 .. Len(p) : q[i] = p[i]
         /\ q[Len(p) + 1] = e
         /\ \A i \in 1 .. Len(more) : q[Len(p) + 1 + i] = more[i]
<1>1. /\ Append(p, e) \in Seq(S) /\ Len(Append(p, e)) = Len(p) + 1
      /\ Append(p, e)[Len(p) + 1] = e
      /\ \A i \in 1 .. Len(p) : Append(p, e)[i] = p[i]
  BY AppendProperties
<1>2. PICK r \in Seq(S) : r = Append(p, e)
  BY <1>1
<1>3. /\ Len(r) = Len(p) + 1 /\ r[Len(p) + 1] = e
      /\ \A i \in 1 .. Len(p) : r[i] = p[i]
  BY <1>1, <1>2
<1>4. q = r \o more
  BY <1>2
<1>5. /\ q \in Seq(S) /\ Len(q) = Len(r) + Len(more)
      /\ \A i \in 1 .. Len(r) + Len(more) :
           q[i] = IF i <= Len(r) THEN r[i] ELSE more[i - Len(r)]
  BY <1>4, ConcatProperties
<1>6. Len(p) \in Nat /\ Len(more) \in Nat
  OBVIOUS
<1>7. \A i \in 1 .. Len(p) + 1 : q[i] = r[i]
  BY <1>3, <1>5, <1>6
<1>8. \A i \in 1 .. Len(more) : q[Len(p) + 1 + i] = more[i]
  <2> TAKE i \in 1 .. Len(more)
  <2>1. PICK n \in Nat : n = Len(p) + 1 + i
    BY <1>6
  <2>2. n \in 1 .. Len(r) + Len(more) /\ ~(n <= Len(r)) /\ n - Len(r) = i
    BY <1>3, <1>6, <2>1
  <2>3. q[n] = more[n - Len(r)]
    BY <1>5, <2>2
  <2> QED BY <2>1, <2>2, <2>3
<1> QED BY <1>3, <1>5, <1>6, <1>7, <1>8

\* With its entry and what follows it, a session not yet taken up joins the others.
LEMMA TakingUpGathers ==
  ASSUME TypeOK, NEW p \in Seq(Collectable), NEW m \in Nat, Gathered(p, m),
         NEW s \in Sessions, ComesNext(m, s), AskedOnce,
         NEW more \in Seq(Collectable), NEW k \in Nat, Brings(more, s, k),
         NEW q, q = Joined(p, s, more)
  PROVE  /\ Gathered(q, m + 1)
         /\ PartPlaces(q) = PartPlaces(p) \cup (Len(p) + 2 .. Len(p) + 1 + k)
<1> DEFINE L == Len(p)
<1>1. L \in Nat /\ Len(more) \in Nat /\ k <= Len(more)
  BY DEF Brings
<1>2. /\ q \in Seq(Collectable) /\ Len(q) = L + 1 + Len(more)
      /\ \A i \in 1 .. L : q[i] = p[i]
      /\ q[L + 1] = Event("thread", s)
      /\ \A i \in 1 .. Len(more) : q[L + 1 + i] = more[i]
  <2>1. Event("thread", s) \in Collectable
    BY EventFields
  <2>2. q = Append(p, Event("thread", s)) \o more
    BY DEF Joined
  <2> QED BY <2>1, <2>2, Extended
<1> HIDE DEF L
<1>3. \A n \in L + 2 .. L + 1 + k : /\ n \in 1 .. Len(q)
                                    /\ q[n] = Event(parts[s][n - L - 1], s)
                                    /\ parts[s][n - L - 1] \in PartKinds
  <2> TAKE n \in L + 2 .. L + 1 + k
  <2>1. PICK i \in 1 .. k : n = L + 1 + i /\ i = n - L - 1 /\ i \in 1 .. Len(more)
    <3>1. n - L - 1 \in 1 .. k /\ n - L - 1 \in 1 .. Len(more) /\ n = L + 1 + (n - L - 1)
      BY <1>1
    <3> QED BY <3>1
  <2>2. n \in 1 .. Len(q)
    BY <1>1, <1>2
  <2>3. q[n] = more[i]
    BY <1>2, <2>1
  <2>4. more[i] = Event(parts[s][i], s) /\ parts[s][i] \in PartKinds
    BY <2>1 DEF Brings
  <2> QED BY <2>1, <2>2, <2>3, <2>4
<1>4. \A n \in 1 .. Len(q) : \/ n \in 1 .. L /\ q[n] = p[n]
                             \/ n = L + 1
                             \/ n \in L + 2 .. L + 1 + k
                             \/ q[n].kind = "unknown"
  <2> TAKE n \in 1 .. Len(q)
  <2>1. CASE n > L + 1 + k
    <3>1. PICK i \in k + 1 .. Len(more) : n = L + 1 + i /\ i \in 1 .. Len(more)
      <4>1. PICK len \in Nat : len = Len(more)
        BY <1>1
      <4>2. n \in Nat /\ n <= L + 1 + len
        BY <1>1, <1>2, <4>1
      <4>3. n - L - 1 \in k + 1 .. len /\ n = L + 1 + (n - L - 1) /\ n - L - 1 \in 1 .. len
        BY <1>1, <2>1, <4>2
      <4> QED BY <4>1, <4>3
    <3>2. q[n] = more[i]
      BY <1>2, <3>1
    <3>3. more[i].kind = "unknown"
      BY <3>1 DEF Brings
    <3> QED BY <3>2, <3>3
  <2> QED BY <1>1, <1>2, <2>1
<1>5. \A n \in L + 2 .. L + 1 + k : q[n].of = s /\ q[n].kind \in PartKinds
  <2> TAKE n \in L + 2 .. L + 1 + k
  <2>1. PICK x : x = parts[s][n - L - 1]
    OBVIOUS
  <2>2. q[n] = Event(x, s) /\ x \in PartKinds
    BY <1>3, <2>1
  <2>3. Event(x, s).kind = x /\ Event(x, s).of = s
    BY DEF Event
  <2>4. q[n].kind = x /\ q[n].of = s
    BY <2>2, <2>3, Zenon
  <2> QED BY <2>2, <2>4, Zenon
<1>6. q[L + 1].kind = "thread" /\ q[L + 1].of = s /\ L + 1 \in 1 .. Len(q)
  BY <1>1, <1>2, EventFields
<1>7. PartPlaces(q) = PartPlaces(p) \cup (L + 2 .. L + 1 + k)
  <2>1. ASSUME NEW n \in PartPlaces(q) PROVE n \in PartPlaces(p) \cup (L + 2 .. L + 1 + k)
    <3>1. n \in 1 .. Len(q) /\ q[n].kind \in PartKinds
      BY <2>1 DEF PartPlaces
    <3>2. q[n].kind # "unknown" /\ n # L + 1
      BY <1>6, <3>1 DEF PartKinds
    <3> QED BY <1>4, <3>1, <3>2 DEF PartPlaces, L
  <2>2. ASSUME NEW n \in PartPlaces(p) PROVE n \in PartPlaces(q)
    <3>1. n \in 1 .. L /\ p[n].kind \in PartKinds
      BY <2>2 DEF PartPlaces, L
    <3> QED BY <1>1, <1>2, <3>1 DEF PartPlaces
  <2>3. ASSUME NEW n \in L + 2 .. L + 1 + k PROVE n \in PartPlaces(q)
    BY <1>3, <1>5, <2>3 DEF PartPlaces
  <2> QED BY <2>1, <2>2, <2>3
<1>8. EndpointsIn(q)
  <2> SUFFICES ASSUME NEW e \in Endpoints PROVE \E n \in 1 .. Len(q) : q[n].of = e
    BY DEF EndpointsIn
  <2>1. PICK n \in 1 .. L : p[n].of = e
    BY DEF Gathered, EndpointsIn, L
  <2> QED BY <1>1, <1>2, <2>1
<1>9. ThreadsIn(q, m + 1)
  <2>1. PICK at \in [1 .. m -> 1 .. L] :
          /\ \A i, j \in 1 .. m : i < j => at[i] < at[j]
          /\ \A i \in 1 .. m : p[at[i]] = Event("thread", asked[i])
          /\ \A n \in 1 .. L : p[n].kind = "thread" => \E i \in 1 .. m : at[i] = n
    BY DEF Gathered, ThreadsIn, L
  <2> DEFINE to == [i \in 1 .. m + 1 |-> IF i = m + 1 THEN L + 1 ELSE at[i]]
  <2>2. \A i \in 1 .. m : i \in 1 .. m + 1 /\ i # m + 1 /\ to[i] = at[i] /\ at[i] \in 1 .. L
    BY <2>1
  <2>3. to[m + 1] = L + 1 /\ m + 1 \in 1 .. m + 1
    OBVIOUS
  <2>4. \A i \in 1 .. m + 1 : i \in 1 .. m \/ i = m + 1
    OBVIOUS
  <2>5. to \in [1 .. m + 1 -> 1 .. Len(q)]
    <3>1. \A i \in 1 .. m + 1 : to[i] \in 1 .. Len(q)
      BY <1>1, <1>2, <2>2, <2>3, <2>4
    <3> QED BY <3>1
  <2> HIDE DEF to
  <2>6. \A i, j \in 1 .. m + 1 : i < j => to[i] < to[j]
    <3> SUFFICES ASSUME NEW i \in 1 .. m + 1, NEW j \in 1 .. m + 1, i < j PROVE to[i] < to[j]
      OBVIOUS
    <3>1. i \in 1 .. m /\ to[i] = at[i] /\ at[i] \in 1 .. L
      BY <2>2
    <3>2. CASE j = m + 1
      BY <1>1, <2>3, <3>1, <3>2
    <3>3. CASE j \in 1 .. m
      BY <2>1, <2>2, <3>1, <3>3
    <3> QED BY <2>4, <3>2, <3>3
  <2>7. \A i \in 1 .. m + 1 : q[to[i]] = Event("thread", asked[i])
    <3> TAKE i \in 1 .. m + 1
    <3>1. CASE i = m + 1
      BY <1>2, <2>3, <3>1 DEF ComesNext
    <3>2. CASE i \in 1 .. m
      <4>1. p[at[i]] = Event("thread", asked[i]) /\ to[i] = at[i] /\ at[i] \in 1 .. L
        BY <2>1, <2>2, <3>2
      <4>2. q[at[i]] = p[at[i]]
        BY <1>2, <4>1
      <4> QED BY <4>1, <4>2
    <3> QED BY <2>4, <3>1, <3>2
  <2>8. \A n \in 1 .. Len(q) : q[n].kind = "thread" => \E i \in 1 .. m + 1 : to[i] = n
    <3> SUFFICES ASSUME NEW n \in 1 .. Len(q), q[n].kind = "thread"
                 PROVE  \E i \in 1 .. m + 1 : to[i] = n
      OBVIOUS
    <3>1. n \notin L + 2 .. L + 1 + k
      BY <1>5 DEF PartKinds
    <3>2. CASE n = L + 1
      BY <2>3, <3>2
    <3>3. CASE n \in 1 .. L /\ q[n] = p[n]
      <4>1. PICK i \in 1 .. m : at[i] = n
        BY <2>1, <3>3
      <4> QED BY <2>2, <4>1
    <3> QED BY <1>4, <3>1, <3>2, <3>3
  <2> QED BY <2>5, <2>6, <2>7, <2>8 DEF ThreadsIn
<1>10. PartsIn(q)
  <2> SUFFICES ASSUME NEW r \in Sessions
               PROVE  \E at \in 0 .. Len(q), j \in 0 .. Len(parts[r]) : HoldsParts(q, r, at, j)
    BY DEF PartsIn
  <2>1. DOMAIN q = 1 .. Len(q) /\ DOMAIN p = 1 .. L
    BY <1>2 DEF L
  <2>2. CASE r = s
    <3>1. ASSUME NEW n \in 1 .. L, p[n].of = s, p[n].kind \in PartKinds PROVE FALSE
      <4>1. PICK i \in 1 .. m : p[n].of = asked[i]
        BY <3>1 DEF Gathered, PartsOfFirst, PartPlaces, L
      <4>2. i \in 1 .. Len(asked) /\ i # m + 1 /\ asked[i] = asked[m + 1]
        BY <1>1, <3>1, <4>1 DEF ComesNext, TypeOK
      <4>3. m + 1 \in 1 .. Len(asked)
        BY DEF ComesNext
      <4> QED BY <4>2, <4>3 DEF AskedOnce
    <3>2. {n \in DOMAIN q : q[n].of = s /\ q[n].kind \in PartKinds} = L + 1 + 1 .. L + 1 + k
      <4>1. ASSUME NEW n \in 1 .. Len(q), q[n].of = s, q[n].kind \in PartKinds
            PROVE  n \in L + 2 .. L + 1 + k
        <5>1. q[n].kind # "unknown" /\ n # L + 1
          BY <1>6, <4>1 DEF PartKinds
        <5>2. ~(n \in 1 .. L /\ q[n] = p[n])
          BY <3>1, <4>1
        <5> QED BY <1>4, <4>1, <5>1, <5>2
      <4>2. L + 1 + 1 .. L + 1 + k = L + 2 .. L + 1 + k
        BY <1>1
      <4>3. \A n \in L + 2 .. L + 1 + k : n \in 1 .. Len(q)
        BY <1>3
      <4> QED BY <1>5, <2>1, <4>1, <4>2, <4>3
    <3>3. \A i \in 1 .. k : q[L + 1 + i].kind = parts[s][i]
      <4> TAKE i \in 1 .. k
      <4>1. L + 1 + i \in L + 2 .. L + 1 + k /\ (L + 1 + i) - L - 1 = i
        BY <1>1
      <4>2. q[L + 1 + i] = Event(parts[s][i], s)
        BY <1>3, <4>1
      <4> QED BY <4>2, EventFields
    <3>4. L + 1 > 0 /\ L + 1 \in 0 .. Len(q)
      BY <1>1, <1>6
    <3>5. HoldsParts(q, s, L + 1, k)
      BY <1>2, <3>2, <3>3, <3>4 DEF HoldsParts
    <3>6. k \in 0 .. Len(parts[s])
      BY DEF TypeOK, Brings
    <3> QED BY <2>2, <3>4, <3>5, <3>6
  <2>3. CASE r # s
    <3>1. PICK at \in 0 .. L, j \in 0 .. Len(parts[r]) : HoldsParts(p, r, at, j)
      BY DEF Gathered, PartsIn, L
    <3>2. {n \in DOMAIN p : p[n].of = r /\ p[n].kind \in PartKinds} = at + 1 .. at + j
      BY <3>1 DEF HoldsParts
    <3>3. {n \in DOMAIN q : q[n].of = r /\ q[n].kind \in PartKinds} = at + 1 .. at + j
      <4>1. ASSUME NEW n \in 1 .. Len(q), q[n].of = r, q[n].kind \in PartKinds
            PROVE  n \in 1 .. L /\ q[n] = p[n]
        <5>1. q[n].kind # "unknown" /\ n # L + 1 /\ n \notin L + 2 .. L + 1 + k
          BY <1>5, <1>6, <2>3, <4>1 DEF PartKinds
        <5> QED BY <1>4, <4>1, <5>1
      <4>2. \A n \in 1 .. L : n \in 1 .. Len(q) /\ q[n] = p[n]
        BY <1>1, <1>2
      <4> QED BY <2>1, <3>2, <4>1, <4>2
    <3>4. \A i \in 1 .. j : at + i \in 1 .. L
      <4> TAKE i \in 1 .. j
      <4>1. at + i \in at + 1 .. at + j
        OBVIOUS
      <4> QED BY <2>1, <3>2, <4>1
    <3>5. \A i \in 1 .. j : q[at + i].kind = parts[r][i]
      BY <1>2, <3>1, <3>4 DEF HoldsParts
    <3>6. j > 0 => at > 0 /\ q[at] = Event("thread", r)
      <4> SUFFICES ASSUME j > 0 PROVE at > 0 /\ q[at] = Event("thread", r)
        OBVIOUS
      <4>1. at > 0 /\ p[at] = Event("thread", r)
        BY <3>1 DEF HoldsParts
      <4>2. at \in 1 .. L
        BY <1>1, <4>1
      <4> QED BY <1>2, <4>1, <4>2
    <3>7. at \in 0 .. Len(q)
      BY <1>1, <1>2
    <3> QED BY <3>3, <3>5, <3>6, <3>7 DEF HoldsParts
  <2> QED BY <2>2, <2>3
<1>11. PartsOfFirst(q, m + 1)
  <2> SUFFICES ASSUME NEW n \in PartPlaces(q) PROVE \E i \in 1 .. m + 1 : q[n].of = asked[i]
    BY DEF PartsOfFirst
  <2>1. CASE n \in PartPlaces(p)
    <3>1. PICK i \in 1 .. m : p[n].of = asked[i]
      BY <2>1 DEF Gathered, PartsOfFirst
    <3>2. q[n] = p[n]
      BY <1>2, <2>1 DEF PartPlaces, L
    <3>3. i \in 1 .. m + 1
      OBVIOUS
    <3> QED BY <3>1, <3>2, <3>3
  <2>2. CASE n \in L + 2 .. L + 1 + k
    <3>1. q[n].of = s
      BY <1>5, <2>2
    <3>2. s = asked[m + 1] /\ m + 1 \in 1 .. m + 1
      BY DEF ComesNext
    <3> QED BY <3>1, <3>2
  <2> QED BY <1>7, <2>1, <2>2
<1> QED BY <1>7, <1>8, <1>9, <1>10, <1>11 DEF Gathered, L

\* Events without a part hold a beginning, of no parts, of every session.
LEMMA NoPartsYet ==
  ASSUME TypeOK, NEW q \in Seq(Collectable), PartPlaces(q) = {}
  PROVE  PartsIn(q)
<1> SUFFICES ASSUME NEW s \in Sessions
             PROVE  \E at \in 0 .. Len(q), k \in 0 .. Len(parts[s]) : HoldsParts(q, s, at, k)
  BY DEF PartsIn
<1>1. 0 \in 0 .. Len(q) /\ 0 \in 0 .. Len(parts[s])
  BY DEF TypeOK
<1>2. {n \in DOMAIN q : q[n].of = s /\ q[n].kind \in PartKinds} = 0 + 1 .. 0 + 0
  BY DEF PartPlaces
<1>3. HoldsParts(q, s, 0, 0)
  BY <1>2 DEF HoldsParts
<1> QED BY <1>1, <1>3

\* The server only adds parts, behind those that were read.
LEMMA PartsOnlyGrow ==
  ASSUME TypeOK, NEW s \in Sessions, AddPart(s), NEW q \in Seq(Collectable), PartsIn(q)
  PROVE  PartsIn(q)'
<1> SUFFICES ASSUME NEW r \in Sessions
             PROVE  \E at \in 0 .. Len(q), k \in 0 .. Len(parts'[r]) : HoldsParts(q, r, at, k)'
  BY DEF PartsIn
<1>1. PICK x \in PartKinds : parts' = [parts EXCEPT ![s] = Append(@, x)]
  BY DEF AddPart
<1>2. PICK at \in 0 .. Len(q), k \in 0 .. Len(parts[r]) : HoldsParts(q, r, at, k)
  BY DEF PartsIn
<1>3. PICK old \in Seq(PartKinds) : old = parts[r]
  BY DEF TypeOK
<1>4. parts'[r] = old \/ parts'[r] = Append(old, x)
  BY <1>1, <1>3 DEF TypeOK
<1>5. Len(parts'[r]) \in Nat /\ Len(parts'[r]) >= Len(old)
      /\ \A i \in 1 .. Len(old) : parts'[r][i] = old[i]
  <2>1. /\ Len(Append(old, x)) = Len(old) + 1 /\ Len(old) \in Nat
        /\ \A i \in 1 .. Len(old) : Append(old, x)[i] = old[i]
    BY <1>1, <1>3, AppendProperties
  <2> QED BY <1>4, <2>1
<1>6. k \in 0 .. Len(parts'[r]) /\ \A i \in 1 .. k : parts'[r][i] = parts[r][i]
  BY <1>2, <1>3, <1>5
<1>7. HoldsParts(q, r, at, k)'
  BY <1>2, <1>6 DEF HoldsParts
<1> QED BY <1>2, <1>6, <1>7

LEMMA GatheredStays ==
  ASSUME NEW q, NEW m, Gathered(q, m), UNCHANGED <<parts, asked>>
  PROVE  Gathered(q, m)'
<1>1. EndpointsIn(q)'
  BY DEF Gathered, EndpointsIn
<1>2. ThreadsIn(q, m)'
  <2>1. ThreadsIn(q, m)
    BY DEF Gathered
  <2> QED BY <2>1 DEF ThreadsIn
<1>3. PartsIn(q)'
  BY DEF Gathered, PartsIn, HoldsParts
<1>4. PartsOfFirst(q, m)'
  BY DEF Gathered, PartsOfFirst, PartPlaces
<1> QED BY <1>1, <1>2, <1>3, <1>4 DEF Gathered

\* Once the run has collected, its collection is never touched again.
LEMMA CollectedStays ==
  ASSUME TypeOK, CollectInv, pc \in {"write", "follow"}, pc' \in {"write", "follow", "done", "failed"},
         UNCHANGED <<parts, asked, collected>>
  PROVE  CollectInv'
<1>1. pc' \notin Early /\ pc \notin Early
  BY DEF Early
<1>2. PartsIn(collected)'
  BY <1>1 DEF CollectInv, PartsIn, HoldsParts
<1>3. pc \in {"write", "follow", "done"} /\ AllCollected
  BY DEF CollectInv
<1>4. AllCollected'
  <2>1. PICK q, m : q = collected /\ m = Len(asked)
    OBVIOUS
  <2>2. Gathered(q, m)'
    BY <1>3, <2>1, GatheredStays DEF AllCollected
  <2>3. q = collected' /\ m = Len(asked')
    BY <2>1
  <2>4. Gathered(collected, Len(asked))'
    BY <2>2, <2>3
  <2>5. (Cardinality(PartPlaces(collected)) <= MessageLimit)'
    BY <1>3 DEF AllCollected, PartPlaces
  <2> QED BY <2>4, <2>5 DEF AllCollected
<1>5. AskedOnce'
  BY DEF CollectInv, AskedOnce
<1> QED BY <1>1, <1>2, <1>4, <1>5 DEF CollectInv, Early

LEMMA NothingFailed ==
  ASSUME TypeOK, CollectInv, pc \in {"initialize", "list"}, Fails
  PROVE  CollectInv'
<1>1. collected = <<>> /\ artifact = <<>>
  BY DEF CollectInv, Early
<1>2. PartsIn(<<>>)
  <2>1. <<>> \in Seq(Collectable) /\ PartPlaces(<<>>) = {}
    BY DEF PartPlaces
  <2> QED BY <2>1, NoPartsYet
<1>3. PartsIn(collected)'
  BY <1>1, <1>2 DEF Fails, PartsIn, HoldsParts
<1>4. AskedOnce'
  BY DEF CollectInv, AskedOnce, Fails
<1> QED BY <1>3, <1>4 DEF CollectInv, Early, Fails

\* Sessions are listed once each.
LEMMA ListingStep ==
  ASSUME TypeOK, CollectInv, ListSessions
  PROVE  CollectInv'
<1>1. CASE Fails
  BY <1>1, NothingFailed DEF ListSessions
<1>2. CASE ~Fails
  <2>1. PICK all \in UNION {SetToSeqs(S) : S \in SUBSET Sessions} :
          listed' = SubSeq(all, 1, IF Len(all) < SessionLimit THEN Len(all) ELSE SessionLimit)
    BY <1>2 DEF ListSessions
  <2>2. PICK S \in SUBSET Sessions : all \in SetToSeqs(S)
    BY <2>1
  <2>3. PICK c \in Nat : c = Cardinality(S)
    BY FS_Subset, FS_CardinalityType, SetsAssumption
  <2>4. all \in [1 .. c -> Sessions] /\ \A i, j \in 1 .. c : i # j => all[i] # all[j]
    BY <2>2, <2>3 DEF SetToSeqs
  <2>5. all \in Seq(Sessions) /\ Len(all) = c
    BY <2>4
  <2>6. PICK n \in 0 .. c : listed' = SubSeq(all, 1, n) /\ n <= SessionLimit
    <3>1. PICK n \in 0 .. c : /\ n = IF c < SessionLimit THEN c ELSE SessionLimit
                             /\ n <= SessionLimit
      BY LimitsAssumption
    <3> QED BY <2>1, <2>5, <3>1
  <2>7. Len(listed') = n /\ \A i \in 1 .. n : listed'[i] = all[i]
    <3>1. \A i \in 1 .. n : all[i] \in Sessions
      BY <2>4
    <3>2. /\ Len(SubSeq(all, 1, n)) = IF 1 <= n THEN n - 1 + 1 ELSE 0
          /\ \A i \in 1 .. n - 1 + 1 : SubSeq(all, 1, n)[i] = all[1 + i - 1]
      BY <3>1, SubSeqProperties
    <3>3. \A i \in 1 .. n : i \in 1 .. n - 1 + 1 /\ 1 + i - 1 = i
      OBVIOUS
    <3> QED BY <2>6, <3>2, <3>3
  <2>8. asked' = listed' /\ pc = "list" /\ pc' = "capabilities"
        /\ UNCHANGED <<parts, remaining, events, emitted, polled, pending, artifact, collected>>
    BY <1>2 DEF ListSessions
  <2>9. AskedOnce'
    BY <2>4, <2>6, <2>7, <2>8 DEF AskedOnce
  <2>10. events = <<>> /\ remaining = MessageLimit
         /\ artifact = <<>> /\ collected = <<>> /\ emitted = 0
    BY <2>8 DEF CollectInv, Early
  <2>11. \A j \in 1 .. Len(events') : events'[j].kind \in {"capability", "unknown"}
    BY <2>8, <2>10
  <2>12. pc' = "capabilities" /\ artifact' = <<>> /\ collected' = <<>> /\ emitted' = 0
         /\ remaining' = MessageLimit /\ listed' = asked'
    BY <2>8, <2>10
  <2> QED BY <2>9, <2>11, <2>12 DEF CollectInv, Early
<1> QED BY <1>1, <1>2

\* With the last answer every endpoint has its event.
LEMMA AskingStep ==
  ASSUME TypeOK, CollectInv, AskCapability
  PROVE  CollectInv'
<1>1. PICK e \in Endpoints, kind \in {"capability", "unknown"} :
        events' = Append(events, Event(kind, e))
  BY DEF AskCapability
<1>2. /\ pc = "capabilities" /\ pc' \in {"capabilities", "sessions"}
      /\ pc' = "sessions" => Endpoints = {events'[n].of : n \in DOMAIN events'}
      /\ UNCHANGED <<parts, listed, remaining, emitted, polled, pending, artifact, asked, collected>>
  BY DEF AskCapability
<1>3. /\ listed = asked /\ remaining = MessageLimit
      /\ artifact = <<>> /\ collected = <<>> /\ emitted = 0
      /\ \A n \in 1 .. Len(events) : events[n].kind \in {"capability", "unknown"}
  BY <1>2 DEF CollectInv, Early
<1>4. PICK q \in Seq(Collectable) : q = events'
  <2>1. events \in Seq(Collectable) /\ Event(kind, e) \in Collectable
    BY EventFields DEF TypeOK
  <2> QED BY <1>1, <2>1, AppendProperties
<1>5. \A n \in 1 .. Len(q) : q[n].kind \in {"capability", "unknown"}
  <2>1. PICK ev \in Seq(Collectable) : ev = events
    BY DEF TypeOK
  <2>2. Event(kind, e) \in Collectable /\ Event(kind, e).kind = kind
    BY EventFields
  <2>3. /\ Len(q) = Len(ev) + 1 /\ Len(ev) \in Nat
        /\ \A n \in 1 .. Len(ev) : q[n] = ev[n]
        /\ q[Len(ev) + 1] = Event(kind, e)
    BY <1>1, <1>4, <2>1, <2>2, AppendProperties
  <2> TAKE n \in 1 .. Len(q)
  <2>4. CASE n \in 1 .. Len(ev)
    BY <1>3, <2>1, <2>3, <2>4
  <2>5. CASE n = Len(ev) + 1
    BY <2>2, <2>3, <2>5
  <2> QED BY <2>3, <2>4, <2>5
<1>6. AskedOnce'
  BY <1>2 DEF CollectInv, AskedOnce
<1>7. ASSUME pc' = "sessions" PROVE SomeCollected'
  <2>1. PartPlaces(q) = {}
    BY <1>5 DEF PartPlaces, PartKinds
  <2>2. Gathered(q, 0)
    <3>1. DOMAIN q = 1 .. Len(q)
      BY <1>4
    <3>2. EndpointsIn(q)
      BY <1>2, <1>4, <1>7, <3>1 DEF EndpointsIn
    <3>3. ThreadsIn(q, 0)
      <4> DEFINE none == [i \in 1 .. 0 |-> 1]
      <4>1. none \in [1 .. 0 -> 1 .. Len(q)]
        OBVIOUS
      <4>2. \A n \in 1 .. Len(q) : q[n].kind # "thread"
        BY <1>5
      <4>3. \A i \in 1 .. 0 : FALSE
        OBVIOUS
      <4> HIDE DEF none
      <4> QED BY <4>1, <4>2, <4>3 DEF ThreadsIn
    <3>4. PartsIn(q) /\ PartsOfFirst(q, 0)
      BY <1>4, <2>1, NoPartsYet DEF PartsOfFirst
    <3> QED BY <3>2, <3>3, <3>4 DEF Gathered
  <2>3. Gathered(q, 0)'
    BY <1>2, <2>2, GatheredStays
  <2>4. Taken' = 0
    BY <1>2, <1>3 DEF Taken, TypeOK
  <2>5. Gathered(events, Taken)'
    BY <1>4, <2>3, <2>4
  <2>6. Cardinality(PartPlaces(events')) + remaining' = MessageLimit
    BY <1>2, <1>3, <1>4, <2>1, FS_EmptySet, LimitsAssumption
  <2>7. (Cardinality(PartPlaces(events)) + remaining = MessageLimit)'
    BY <2>6 DEF PartPlaces
  <2>8. /\ Len(listed') <= Len(asked')
        /\ \A j \in 1 .. Len(listed') : listed'[j] = asked'[Taken' + j]
    BY <1>2, <1>3, <2>4 DEF TypeOK
  <2> QED BY <2>5, <2>7, <2>8 DEF SomeCollected
<1>8. \A n \in 1 .. Len(events') : events'[n].kind \in {"capability", "unknown"}
  BY <1>4, <1>5
<1> QED BY <1>2, <1>3, <1>6, <1>7, <1>8 DEF CollectInv, Early

\* A session taken up costs the budget the parts it brought.
LEMMA CollectingStep ==
  ASSUME TypeOK, CollectInv, CollectSession
  PROVE  CollectInv'
<1>1. /\ pc = "sessions" /\ pc' = "sessions" /\ listed # <<>>
      /\ UNCHANGED <<parts, emitted, polled, pending, artifact, asked, collected>>
  BY DEF CollectSession
<1>2. /\ SomeCollected /\ AskedOnce /\ artifact = <<>> /\ collected = <<>> /\ emitted = 0
  BY <1>1 DEF CollectInv, Early
<1>3. PICK m \in Nat : m = Taken
  <2>1. Len(asked) \in Nat /\ Len(listed) \in Nat /\ Len(listed) <= Len(asked)
    BY <1>2 DEF TypeOK, SomeCollected
  <2>2. Len(asked) - Len(listed) \in Nat
    BY <2>1
  <2> QED BY <2>2 DEF Taken
<1>4. PICK rest \in Seq(Sessions) : rest = listed
  BY DEF TypeOK
<1>5. PICK s \in Sessions : s = Head(listed)
  BY <1>1, <1>4
<1>6. /\ Len(rest) \in Nat \ {0} /\ Len(asked) \in Nat /\ Len(asked) = m + Len(rest)
      /\ rest[1] = s
  BY <1>1, <1>2, <1>3, <1>4, <1>5 DEF TypeOK, Taken, SomeCollected
<1>7. ComesNext(m, s)
  <2>1. rest[1] = asked[m + 1]
    BY <1>2, <1>3, <1>4, <1>6 DEF SomeCollected
  <2> QED BY <1>6, <2>1 DEF ComesNext
<1>8. PICK more \in Seq(Collectable), k \in Nat :
        /\ TakeUp(s, more) /\ Brings(more, s, k) /\ remaining' = remaining - k
  <2>1. CASE /\ TakeUp(s, PartEvents(s)) /\ remaining' = LeftOfBudget(PartEvents(s))
    <3>1. PICK more \in Seq(Collectable) : more = PartEvents(s)
      BY PartEventsAre
    <3>2. /\ Len(more) \in Nat /\ Len(more) <= Len(parts[s])
          /\ \A i \in 1 .. Len(more) : more[i] = Event(parts[s][i], s) /\ parts[s][i] \in PartKinds
          /\ LeftOfBudget(more) = remaining - Len(more)
      BY <3>1, PartEventsAre
    <3>3. Brings(more, s, Len(more))
      <4>1. \A i \in Len(more) + 1 .. Len(more) : FALSE
        BY <3>2
      <4> QED BY <3>2, <4>1 DEF Brings
    <3> QED BY <2>1, <3>1, <3>2, <3>3
  <2>2. CASE /\ TakeUp(s, <<Event("unknown", s)>>) /\ UNCHANGED remaining
    <3>1. PICK more \in Seq(Collectable) : more = <<Event("unknown", s)>>
      <4>1. Event("unknown", s) \in Collectable
        BY EventFields
      <4>2. <<Event("unknown", s)>> \in Seq(Collectable)
        BY <4>1
      <4> QED BY <4>2
    <3>2. Len(more) = 1 /\ more[1] = Event("unknown", s)
      BY <3>1
    <3>3. more[1].kind = "unknown"
      BY <3>2, EventFields
    <3>4. Brings(more, s, 0)
      BY <3>2, <3>3 DEF Brings, TypeOK
    <3>5. remaining' = remaining - 0
      BY <2>2 DEF TypeOK
    <3> QED BY <2>2, <3>1, <3>4, <3>5
  <2> QED BY <1>5, <2>1, <2>2 DEF CollectSession
<1>9. PICK p \in Seq(Collectable) : p = events
  BY DEF TypeOK
<1>10. Gathered(p, m) /\ Cardinality(PartPlaces(p)) + remaining = MessageLimit
  BY <1>2, <1>3, <1>9 DEF SomeCollected
<1>11. PICK q : q = Joined(p, s, more)
  OBVIOUS
<1>12. /\ Gathered(q, m + 1)
       /\ PartPlaces(q) = PartPlaces(p) \cup (Len(p) + 2 .. Len(p) + 1 + k)
  <2>1. Brings(more, s, k)
    BY <1>8
  <2>2. Gathered(p, m) /\ AskedOnce
    BY <1>2, <1>10
  <2> QED BY <1>7, <1>11, <2>1, <2>2, TakingUpGathers
<1>13. events' = q /\ listed' = Tail(listed)
  BY <1>8, <1>9, <1>11 DEF TakeUp, Joined
<1>14. Len(listed') = Len(rest) - 1 /\ \A j \in 1 .. Len(listed') : listed'[j] = rest[j + 1]
  BY <1>1, <1>4, <1>13, HeadTailProperties
<1>15. Taken' = m + 1 /\ Len(listed') <= Len(asked')
  BY <1>1, <1>6, <1>14 DEF Taken
<1>16. \A j \in 1 .. Len(listed') : listed'[j] = asked'[Taken' + j]
  <2> TAKE j \in 1 .. Len(listed')
  <2>1. j + 1 \in 1 .. Len(rest) /\ m + (j + 1) = Taken' + j
    BY <1>6, <1>14, <1>15
  <2>2. rest[j + 1] = asked[m + (j + 1)]
    BY <1>2, <1>3, <1>4, <2>1 DEF SomeCollected
  <2> QED BY <1>1, <1>14, <2>1, <2>2
<1>17. Gathered(q, m + 1)'
  BY <1>1, <1>12, GatheredStays
<1>18. Gathered(events, Taken)'
  BY <1>13, <1>15, <1>17
<1>19. Cardinality(PartPlaces(q)) = Cardinality(PartPlaces(p)) + k
  <2>1. PICK len \in Nat : len = Len(p)
    OBVIOUS
  <2>2. /\ IsFiniteSet(1 .. len) /\ PartPlaces(p) \subseteq 1 .. len
    BY <2>1, FS_Interval DEF PartPlaces
  <2>3. IsFiniteSet(PartPlaces(p))
    BY <2>2, FS_Subset
  <2>4. /\ IsFiniteSet(len + 2 .. len + 1 + k)
        /\ Cardinality(len + 2 .. len + 1 + k) = k
    <3>1. len + 2 \in Int /\ len + 1 + k \in Int
      BY <1>8
    <3>2. (IF len + 2 > len + 1 + k THEN 0 ELSE (len + 1 + k) - (len + 2) + 1) = k
      BY <1>8
    <3> QED BY <3>1, <3>2, FS_Interval
  <2>5. PartPlaces(p) \cap (len + 2 .. len + 1 + k) = {}
    BY <2>2
  <2>6. Cardinality(PartPlaces(p)) \in Nat
    BY <2>3, FS_CardinalityType
  <2>7. PICK A, B : A = PartPlaces(p) /\ B = len + 2 .. len + 1 + k
    OBVIOUS
  <2>8. PartPlaces(q) = A \cup B /\ A \cap B = {}
    BY <1>12, <2>1, <2>5, <2>7
  <2>9. IsFiniteSet(A) /\ IsFiniteSet(B) /\ Cardinality(B) = k
    BY <2>3, <2>4, <2>7
  <2>10. Cardinality(A \cup B) = Cardinality(A) + Cardinality(B) - Cardinality(A \cap B)
    BY <2>9, FS_Union
  <2>11. Cardinality(A \cap B) = 0
    BY <2>8, FS_EmptySet
  <2> QED BY <2>6, <2>7, <2>8, <2>9, <2>10, <2>11
<1>20. Cardinality(PartPlaces(q)) + remaining' = MessageLimit
  <2>1. Cardinality(PartPlaces(p)) \in Nat
    <3>1. IsFiniteSet(1 .. Len(p)) /\ PartPlaces(p) \subseteq 1 .. Len(p)
      BY FS_Interval DEF PartPlaces
    <3> QED BY <3>1, FS_Subset, FS_CardinalityType
  <2>2. remaining \in Nat /\ MessageLimit \in Nat
    BY LimitsAssumption DEF TypeOK
  <2> QED BY <1>8, <1>10, <1>19, <2>1, <2>2
<1>21. (Cardinality(PartPlaces(events)) + remaining = MessageLimit)'
  BY <1>13, <1>20 DEF PartPlaces
<1>22. SomeCollected'
  BY <1>15, <1>16, <1>18, <1>21 DEF SomeCollected
<1>23. AskedOnce'
  BY <1>1, <1>2 DEF AskedOnce
<1> QED BY <1>1, <1>2, <1>22, <1>23 DEF CollectInv, Early

\* When no session is left, all of them are collected.
LEMMA TruncatingStep ==
  ASSUME TypeOK, CollectInv, Truncate
  PROVE  CollectInv'
<1>1. /\ pc = "sessions" /\ pc' = "write" /\ listed = <<>> /\ collected' = events
      /\ UNCHANGED <<parts, listed, remaining, emitted, polled, pending, artifact, asked>>
  BY DEF Truncate
<1>2. SomeCollected /\ AskedOnce
  BY <1>1 DEF CollectInv
<1>3. PICK m \in Nat : m = Len(asked) /\ m = Taken
  BY <1>1 DEF TypeOK, Taken
<1>4. PICK q \in Seq(Collectable) : q = events
  BY DEF TypeOK
<1>5. Gathered(q, m)'
  BY <1>1, <1>2, <1>3, <1>4, GatheredStays DEF SomeCollected
<1>6. Gathered(collected, Len(asked))' /\ PartsIn(collected)'
  BY <1>1, <1>3, <1>4, <1>5 DEF Gathered
<1>7. Cardinality(PartPlaces(q)) <= MessageLimit
  <2>1. Cardinality(PartPlaces(q)) \in Nat
    <3>1. IsFiniteSet(1 .. Len(q)) /\ PartPlaces(q) \subseteq 1 .. Len(q)
      BY FS_Interval DEF PartPlaces
    <3> QED BY <3>1, FS_Subset, FS_CardinalityType
  <2> QED BY <1>2, <1>4, <2>1, LimitsAssumption DEF SomeCollected, TypeOK
<1>8. (Cardinality(PartPlaces(collected)) <= MessageLimit)'
  BY <1>1, <1>4, <1>7 DEF PartPlaces
<1>9. AskedOnce'
  BY <1>1, <1>2 DEF AskedOnce
<1> QED BY <1>1, <1>6, <1>8, <1>9 DEF CollectInv, Early, AllCollected

LEMMA CollectStep ==
  ASSUME TypeOK, CollectInv, [Next]_vars
  PROVE  CollectInv'
<1>1. CASE UNCHANGED vars
  <2>1. UNCHANGED <<parts, pc, listed, remaining, events, emitted, artifact, asked, collected>>
    BY <1>1 DEF vars
  <2>2. SomeCollected => SomeCollected'
    <3>1. PICK q, m : q = events /\ m = Taken
      OBVIOUS
    <3>2. q = events' /\ m = Taken'
      BY <2>1, <3>1 DEF Taken
    <3>3. Gathered(events, Taken) => Gathered(events, Taken)'
      BY <2>1, <3>1, <3>2, GatheredStays
    <3> QED BY <2>1, <3>1, <3>2, <3>3 DEF SomeCollected, PartPlaces
  <2>3. AllCollected => AllCollected'
    <3>1. PICK q, m : q = collected /\ m = Len(asked)
      OBVIOUS
    <3>2. q = collected' /\ m = Len(asked')
      BY <2>1, <3>1
    <3>3. Gathered(collected, Len(asked)) => Gathered(collected, Len(asked))'
      BY <2>1, <3>1, <3>2, GatheredStays
    <3> QED BY <2>1, <3>3 DEF AllCollected, PartPlaces
  <2>4. PartsIn(collected) => PartsIn(collected)'
    <3>1. PICK q : q = collected
      OBVIOUS
    <3>2. q = collected'
      BY <2>1, <3>1
    <3>3. PartsIn(q) => PartsIn(q)'
      BY <2>1 DEF PartsIn, HoldsParts
    <3> QED BY <3>1, <3>2, <3>3
  <2>5. AskedOnce'
    BY <2>1 DEF CollectInv, AskedOnce
  <2>6. /\ pc' \in Early => artifact' = <<>> /\ collected' = <<>> /\ emitted' = 0
        /\ pc' \in {"initialize", "list"} => events' = <<>> /\ asked' = <<>>
        /\ pc' \in {"initialize", "list", "capabilities"} => remaining' = MessageLimit
        /\ pc' = "capabilities" =>
             /\ listed' = asked'
             /\ \A n \in 1 .. Len(events') : events'[n].kind \in {"capability", "unknown"}
    BY <2>1 DEF CollectInv
  <2>7. /\ pc' = "sessions" => SomeCollected'
        /\ pc' \notin Early => PartsIn(collected)'
        /\ pc' \in {"write", "follow", "done"} => AllCollected'
    BY <2>1, <2>2, <2>3, <2>4 DEF CollectInv
  <2> QED BY <2>5, <2>6, <2>7 DEF CollectInv, Early
<1>2. ASSUME NEW s \in Sessions, AddPart(s) PROVE CollectInv'
  <2>1. /\ pc \in Early /\ pc' = pc
        /\ UNCHANGED <<listed, remaining, events, emitted, polled, pending, artifact, asked, collected>>
    BY <1>2 DEF AddPart, Early
  <2>2. SomeCollected => SomeCollected'
    <3>1. PICK q \in Seq(Collectable), m \in {Taken} : q = events /\ m = Taken
      BY DEF TypeOK
    <3>2. Gathered(q, m) => Gathered(q, m)'
      <4> SUFFICES ASSUME Gathered(q, m) PROVE Gathered(q, m)'
        OBVIOUS
      <4>1. PartsIn(q)'
        BY <1>2, PartsOnlyGrow DEF Gathered
      <4>2. ThreadsIn(q, m)'
        <5>1. ThreadsIn(q, m)
          BY DEF Gathered
        <5> QED BY <2>1, <5>1 DEF ThreadsIn
      <4>3. EndpointsIn(q)' /\ PartsOfFirst(q, m)'
        BY <2>1 DEF Gathered, EndpointsIn, PartsOfFirst, PartPlaces
      <4> QED BY <4>1, <4>2, <4>3 DEF Gathered
    <3>3. q = events' /\ m = Taken'
      BY <2>1, <3>1 DEF Taken
    <3>4. Gathered(events, Taken) => Gathered(events, Taken)'
      BY <3>1, <3>2, <3>3
    <3> QED BY <2>1, <3>1, <3>3, <3>4 DEF SomeCollected, PartPlaces
  <2>3. AskedOnce'
    BY <2>1 DEF CollectInv, AskedOnce
  <2> QED BY <2>1, <2>2, <2>3 DEF CollectInv, Early
<1>3. CASE Initialize
  <2>1. CASE Fails
    BY <1>3, <2>1, NothingFailed DEF Initialize
  <2>2. CASE ~Fails
    <3>1. /\ pc = "initialize" /\ pc' = "list"
          /\ UNCHANGED <<parts, listed, remaining, events, emitted, polled, pending,
                         artifact, asked, collected>>
      BY <1>3, <2>2 DEF Initialize
    <3>2. AskedOnce'
      BY <3>1 DEF CollectInv, AskedOnce
    <3> QED BY <3>1, <3>2 DEF CollectInv, Early
  <2> QED BY <2>1, <2>2
<1>4. CASE ListSessions
  BY <1>4, ListingStep
<1>5. CASE AskCapability
  BY <1>5, AskingStep
<1>6. CASE CollectSession
  BY <1>6, CollectingStep
<1>7. CASE Truncate
  BY <1>7, TruncatingStep
<1>8. CASE WriteEvent
  <2>1. pc' \in {"write", "failed"} /\ pc = "write" /\ UNCHANGED <<parts, asked, collected>>
    BY <1>8 DEF WriteEvent, Write
  <2> QED BY <2>1, CollectedStays
<1>9. CASE StartFollowing
  BY <1>9, CollectedStays DEF StartFollowing
<1>10. CASE NextEvent
  <2>1. /\ pc' \in {"follow", "done", "failed"} /\ pc = "follow"
        /\ UNCHANGED <<parts, asked, collected>>
    BY <1>10 DEF NextEvent, Write
  <2> QED BY <2>1, CollectedStays
<1>11. CASE Stop
  BY <1>11, CollectedStays DEF Stop
<1> QED BY <1>1, <1>2, <1>3, <1>4, <1>5, <1>6, <1>7, <1>8, <1>9, <1>10, <1>11 DEF Next

-----------------------------------------------------------------------------
(* Writing.                                                                 *)

LEMMA TruncatedIsABeginning ==
  ASSUME NEW q \in Seq(Collectable)
  PROVE  /\ Truncated(q) \in Seq(Collectable) /\ Len(Truncated(q)) \in Nat /\ Len(q) \in Nat
         /\ Len(Truncated(q)) <= Len(q)
         /\ \A i \in 1 .. Len(Truncated(q)) : Truncated(q)[i] = q[i]
         /\ Len(Truncated(q)) < SessionLimit + MessageLimit => Truncated(q) = q
<1>1. PICK most \in Nat : most = SessionLimit + MessageLimit
  BY LimitsAssumption
<1>2. PICK len \in Nat : len = Len(q)
  OBVIOUS
<1>3. CASE len > most
  <2>1. Truncated(q) = SubSeq(q, 1, most)
    BY <1>1, <1>2, <1>3 DEF Truncated
  <2>2. \A i \in 1 .. most : q[i] \in Collectable
    BY <1>2, <1>3
  <2>3. /\ SubSeq(q, 1, most) \in Seq(Collectable)
        /\ Len(SubSeq(q, 1, most)) = IF 1 <= most THEN most - 1 + 1 ELSE 0
        /\ \A i \in 1 .. most - 1 + 1 : SubSeq(q, 1, most)[i] = q[1 + i - 1]
    BY <2>2, SubSeqProperties
  <2>4. \A i \in 1 .. most : i \in 1 .. most - 1 + 1 /\ 1 + i - 1 = i
    OBVIOUS
  <2>5. Len(SubSeq(q, 1, most)) = most
    BY <2>3
  <2> QED BY <1>1, <1>2, <1>3, <2>1, <2>3, <2>4, <2>5
<1>4. CASE ~(len > most)
  BY <1>1, <1>2, <1>4 DEF Truncated
<1> QED BY <1>3, <1>4

\* Nothing is written before all is collected.
LEMMA NotWriting ==
  ASSUME artifact' = <<>>, pc' \notin {"write", "follow", "done"}
  PROVE  WriteInv'
BY DEF WriteInv

\* Whatever comes after all that is kept leaves the beginning of the artifact alone.
LEMMA FollowedBy ==
  ASSUME TypeOK, WriteInv, pc \in {"follow"}, pc' \in {"follow", "done", "failed"},
         UNCHANGED <<events, collected>>,
         artifact' = artifact \/ \E g \in Globals : artifact' = Append(artifact, g)
  PROVE  WriteInv'
<1>1. events = <<>> /\ Len(Cut) <= Len(artifact)
  BY DEF WriteInv
<1>2. Cut' = Cut
  BY DEF Cut, Truncated
<1>3. PICK c : c = Cut
  OBVIOUS
<1>4. Len(c) \in Nat
  BY <1>3, TruncatedIsABeginning DEF TypeOK, Cut
<1>5. \A i \in 1 .. Len(artifact) : IF i <= Len(c) THEN artifact[i] = c[i] ELSE artifact[i] \in Globals
  BY <1>3 DEF WriteInv
<1>6. /\ \A i \in 1 .. Len(artifact') :
           IF i <= Len(c) THEN artifact'[i] = c[i] ELSE artifact'[i] \in Globals
      /\ Len(c) <= Len(artifact')
  <2>1. CASE artifact' = artifact
    BY <1>1, <1>3, <1>5, <2>1
  <2>2. CASE artifact' # artifact
    <3>1. PICK g \in Globals : artifact' = Append(artifact, g)
      BY <2>2
    <3>2. PICK a \in Seq(Collectable \cup Globals) : a = artifact
      BY DEF TypeOK
    <3>3. /\ Len(artifact') = Len(a) + 1 /\ Len(a) \in Nat
          /\ \A i \in 1 .. Len(a) : artifact'[i] = a[i]
          /\ artifact'[Len(a) + 1] = g
      BY <3>1, <3>2, AppendProperties
    <3> QED BY <1>1, <1>3, <1>4, <1>5, <3>1, <3>2, <3>3
  <2> QED BY <2>1, <2>2
<1> QED BY <1>1, <1>2, <1>3, <1>6 DEF WriteInv

\* An event is written behind those before it; the count of items never withholds one.
LEMMA WritingStep ==
  ASSUME TypeOK, CollectInv, WriteInv, WriteEvent
  PROVE  WriteInv'
<1>1. /\ pc = "write" /\ events # <<>> /\ events' = Tail(events)
      /\ UNCHANGED <<parts, collected>>
  BY DEF WriteEvent
<1>2. PICK ev \in Seq(Collectable) : ev = events
  BY DEF TypeOK
<1>3. PICK a \in Seq(Collectable \cup Globals) : a = artifact
  BY DEF TypeOK
<1>4. PICK q \in Seq(Collectable) : q = collected
  BY DEF TypeOK
<1>5. PICK c \in Seq(Collectable) : c = Cut
  BY <1>4, TruncatedIsABeginning DEF Cut
<1>6. /\ Len(c) <= Len(q) /\ Len(c) \in Nat /\ Len(q) \in Nat
      /\ \A i \in 1 .. Len(c) : c[i] = q[i]
  BY <1>4, <1>5, TruncatedIsABeginning DEF Cut
<1>7. Cut' = c
  BY <1>1, <1>5 DEF Cut, Truncated
<1>8. /\ Len(a) + Len(ev) = Len(c) /\ Len(a) \in Nat /\ Len(ev) \in Nat \ {0}
      /\ \A i \in 1 .. Len(ev) : ev[i] = c[Len(a) + i]
      /\ emitted = Cardinality(ItemPlaces(a))
      /\ \A i \in 1 .. Len(a) : a[i] = c[i]
  BY <1>1, <1>2, <1>3, <1>5 DEF WriteInv
<1>9. PICK x \in Collectable : x = Head(ev)
  BY <1>1, <1>2
<1>10. x = c[Len(a) + 1]
  BY <1>8, <1>9
<1>11. /\ Len(events') = Len(ev) - 1
       /\ \A i \in 1 .. Len(events') : events'[i] = ev[i + 1]
  BY <1>1, <1>2, HeadTailProperties
<1>12. /\ IsFiniteSet(ItemPlaces(a)) /\ ItemPlaces(a) \subseteq 1 .. Len(a)
  <2>1. IsFiniteSet(1 .. Len(a)) /\ ItemPlaces(a) \subseteq 1 .. Len(a)
    BY <1>8, FS_Interval DEF ItemPlaces
  <2> QED BY <2>1, FS_Subset
<1>13. Cardinality(ItemPlaces(a) \cup {Len(a) + 1}) = Cardinality(ItemPlaces(a)) + 1
  <2>1. Len(a) + 1 \notin ItemPlaces(a)
    BY <1>8, <1>12
  <2> QED BY <1>12, <2>1, FS_AddElement
<1>14. ~(x.kind = "item" /\ emitted >= MessageLimit)
  <2> SUFFICES ASSUME x.kind = "item", emitted >= MessageLimit PROVE FALSE
    OBVIOUS
  <2>1. ItemPlaces(a) \cup {Len(a) + 1} \subseteq PartPlaces(q)
    <3>1. ASSUME NEW n \in ItemPlaces(a) PROVE n \in PartPlaces(q)
      <4>1. n \in 1 .. Len(a) /\ a[n].kind = "item"
        BY <3>1 DEF ItemPlaces
      <4>2. n \in 1 .. Len(q) /\ q[n] = a[n]
        BY <1>6, <1>8, <4>1
      <4> QED BY <4>1, <4>2 DEF PartPlaces, PartKinds
    <3>2. Len(a) + 1 \in 1 .. Len(q) /\ q[Len(a) + 1] = x
      BY <1>6, <1>8, <1>10
    <3> QED BY <3>1, <3>2 DEF PartPlaces, PartKinds
  <2>2. IsFiniteSet(PartPlaces(q)) /\ Cardinality(PartPlaces(q)) \in Nat
    <3>1. IsFiniteSet(1 .. Len(q)) /\ PartPlaces(q) \subseteq 1 .. Len(q)
      BY <1>6, FS_Interval DEF PartPlaces
    <3> QED BY <3>1, FS_Subset, FS_CardinalityType
  <2>3. Cardinality(ItemPlaces(a) \cup {Len(a) + 1}) <= Cardinality(PartPlaces(q))
    BY <2>1, <2>2, FS_Subset
  <2>4. Cardinality(PartPlaces(q)) <= MessageLimit
    BY <1>1, <1>4 DEF CollectInv, AllCollected
  <2>5. emitted \in Nat /\ MessageLimit \in Nat
    BY LimitsAssumption DEF TypeOK
  <2> QED BY <1>8, <1>13, <2>2, <2>3, <2>4, <2>5
<1>15. /\ emitted' = IF x.kind = "item" THEN emitted + 1 ELSE emitted
       /\ \/ artifact' = Append(a, x) /\ pc' = "write"
          \/ artifact' \in {a, Append(a, x)} /\ pc' = "failed"
  BY <1>1, <1>2, <1>3, <1>9, <1>14 DEF WriteEvent, Write
<1>16. CASE artifact' = a
  <2>1. pc' = "failed" \/ artifact' = Append(a, x)
    BY <1>15
  <2>2. Append(a, x) # a
    BY <1>8, AppendProperties
  <2>3. pc' = "failed"
    BY <1>16, <2>1, <2>2
  <2> QED BY <1>7, <1>8, <1>16, <2>3 DEF WriteInv
<1>17. CASE artifact' = Append(a, x)
  <2>1. /\ Len(artifact') = Len(a) + 1
        /\ \A i \in 1 .. Len(a) : artifact'[i] = a[i]
        /\ artifact'[Len(a) + 1] = x
    BY <1>17, AppendProperties
  <2>2. \A i \in 1 .. Len(artifact') : i <= Len(c) /\ artifact'[i] = c[i]
    <3> TAKE i \in 1 .. Len(artifact')
    <3>1. Len(a) + 1 <= Len(c)
      BY <1>8
    <3>2. CASE i = Len(a) + 1
      BY <1>10, <2>1, <3>1, <3>2
    <3>3. CASE i \in 1 .. Len(a)
      BY <1>8, <2>1, <3>3
    <3> QED BY <1>8, <2>1, <3>2, <3>3
  <2>3. Len(artifact') + Len(events') = Len(c)
    <3>1. PICK m, n \in Nat : m = Len(a) /\ n = Len(ev)
      BY <1>8
    <3>2. Len(artifact') = m + 1 /\ Len(events') = n - 1 /\ m + n = Len(c)
      BY <1>8, <1>11, <2>1, <3>1
    <3> QED BY <3>1, <3>2
  <2>4. \A i \in 1 .. Len(events') : events'[i] = c[Len(artifact') + i]
    <3> TAKE i \in 1 .. Len(events')
    <3>1. i + 1 \in 1 .. Len(ev) /\ Len(a) + (i + 1) = Len(artifact') + i
      BY <1>8, <1>11, <2>1
    <3> QED BY <1>8, <1>11, <3>1
  <2>5. emitted' = Cardinality(ItemPlaces(artifact'))
    <3>1. CASE x.kind = "item"
      <4>1. ItemPlaces(artifact') = ItemPlaces(a) \cup {Len(a) + 1}
        BY <1>8, <2>1, <3>1 DEF ItemPlaces
      <4> QED BY <1>8, <1>13, <1>15, <3>1, <4>1
    <3>2. CASE x.kind # "item"
      <4>1. ItemPlaces(artifact') = ItemPlaces(a)
        BY <1>8, <2>1, <3>2 DEF ItemPlaces
      <4> QED BY <1>8, <1>15, <3>2, <4>1
    <3> QED BY <3>1, <3>2
  <2>6. (emitted = Cardinality(ItemPlaces(artifact)))'
    BY <2>5 DEF ItemPlaces
  <2>7. pc' \in {"write", "failed"}
    BY <1>15
  <2> QED BY <1>7, <2>2, <2>3, <2>4, <2>6, <2>7 DEF WriteInv
<1> QED BY <1>15, <1>16, <1>17

LEMMA WriteStep ==
  ASSUME TypeOK, CollectInv, WriteInv, [Next]_vars
  PROVE  WriteInv'
<1>1. CASE UNCHANGED vars
  <2>1. UNCHANGED <<pc, events, emitted, artifact, collected>>
    BY <1>1 DEF vars
  <2>2. Cut' = Cut
    BY <2>1 DEF Cut, Truncated
  <2> QED BY <2>1, <2>2 DEF WriteInv, ItemPlaces
<1>2. ASSUME pc \in Early, pc' \notin {"write", "follow", "done"}, UNCHANGED artifact
      PROVE  WriteInv'
  <2>1. artifact' = <<>>
    BY <1>2 DEF CollectInv
  <2> QED BY <1>2, <2>1, NotWriting
<1>3. ASSUME NEW s \in Sessions, AddPart(s) PROVE WriteInv'
  BY <1>2, <1>3 DEF AddPart, Early
<1>4. CASE Initialize
  BY <1>2, <1>4 DEF Initialize, Fails, Early
<1>5. CASE ListSessions
  BY <1>2, <1>5 DEF ListSessions, Fails, Early
<1>6. CASE AskCapability
  <2>1. pc = "capabilities" /\ pc' \in {"capabilities", "sessions"} /\ UNCHANGED artifact
    BY <1>6 DEF AskCapability
  <2> QED BY <1>2, <2>1 DEF Early
<1>7. CASE CollectSession
  BY <1>2, <1>7 DEF CollectSession, Early
<1>8. CASE Truncate
  <2>1. /\ pc' = "write" /\ artifact' = <<>> /\ emitted' = 0
        /\ collected' = events /\ events' = Truncated(events)
    BY <1>8 DEF Truncate, CollectInv, Early
  <2>2. PICK q \in Seq(Collectable) : q = events
    BY DEF TypeOK
  <2>3. events' \in Seq(Collectable) /\ Cut' = events'
    BY <2>1, <2>2, TruncatedIsABeginning DEF Cut, Truncated
  <2>4. Len(artifact') = 0 /\ Len(events') \in Nat
    BY <2>1, <2>3
  <2>5. /\ Len(artifact') + Len(events') = Len(Cut')
        /\ \A i \in 1 .. Len(events') : events'[i] = Cut'[Len(artifact') + i]
    BY <2>3, <2>4
  <2>6. ItemPlaces(artifact') = {}
    BY <2>4 DEF ItemPlaces
  <2>7. emitted' = Cardinality(ItemPlaces(artifact'))
    BY <2>1, <2>6, FS_EmptySet
  <2>8. (emitted = Cardinality(ItemPlaces(artifact)))'
    BY <2>7 DEF ItemPlaces
  <2>9. pc' \notin {"follow", "done"} /\ \A i \in 1 .. Len(artifact') : FALSE
    BY <2>1, <2>4
  <2> QED BY <2>5, <2>8, <2>9 DEF WriteInv
<1>9. CASE WriteEvent
  BY <1>9, WritingStep
<1>10. CASE StartFollowing
  <2>1. /\ pc = "write" /\ pc' = "follow" /\ events = <<>>
        /\ UNCHANGED <<events, artifact, collected>>
    BY <1>10 DEF StartFollowing
  <2>2. Cut' = Cut
    BY <2>1 DEF Cut, Truncated
  <2>3. Len(artifact) = Len(Cut)
    BY <2>1 DEF WriteInv, TypeOK
  <2>4. Len(Cut) <= Len(artifact)
    BY <2>3 DEF TypeOK
  <2> QED BY <2>1, <2>2, <2>4 DEF WriteInv
<1>11. CASE NextEvent
  <2>1. PICK q \in Fetched :
          IF q = <<>> THEN pc' = "done" /\ UNCHANGED <<pending, artifact>>
                      ELSE pending' = Tail(q) /\ Write(Head(q))
    BY <1>11 DEF NextEvent
  <2>2. q \in Seq(Globals)
    BY <2>1, FetchedAreGlobal
  <2>3. artifact' = artifact \/ \E g \in Globals : artifact' = Append(artifact, g)
    <3>1. CASE q = <<>>
      BY <2>1, <3>1
    <3>2. CASE q # <<>>
      <4>1. Head(q) \in Globals
        BY <2>2, <3>2
      <4> QED BY <2>1, <3>2, <4>1 DEF Write
    <3> QED BY <3>1, <3>2
  <2>4. /\ pc = "follow" /\ pc' \in {"follow", "done", "failed"}
        /\ UNCHANGED <<events, collected>>
    BY <1>11 DEF NextEvent, Write
  <2> QED BY <2>3, <2>4, FollowedBy
<1>12. CASE Stop
  BY <1>12, FollowedBy DEF Stop
<1> QED BY <1>1, <1>3, <1>4, <1>5, <1>6, <1>7, <1>8, <1>9, <1>10, <1>11, <1>12 DEF Next

THEOREM Invariant == Spec => []IInv
<1>1. Init => IInv
  BY InitInvariant
<1>2. IInv /\ [Next]_vars => IInv'
  BY TypeStep, CollectStep, WriteStep DEF IInv
<1> QED BY <1>1, <1>2, PTL DEF Spec

-----------------------------------------------------------------------------
(* What the artifact holds.                                                 *)

\* The places of the artifact that hold what was collected.
Kept == IF Len(artifact) < Len(Cut) THEN Len(artifact) ELSE Len(Cut)

LEMMA KeptAreCollected ==
  ASSUME IInv
  PROVE  /\ Kept \in Nat /\ Kept <= Len(artifact) /\ Kept <= Len(Cut) /\ Kept <= Len(collected)
         /\ Len(artifact) \in Nat /\ Len(Cut) \in Nat /\ Len(collected) \in Nat
         /\ DOMAIN artifact = 1 .. Len(artifact) /\ DOMAIN collected = 1 .. Len(collected)
         /\ \A i \in 1 .. Kept : artifact[i] = Cut[i] /\ artifact[i] = collected[i]
         /\ \A i \in Kept + 1 .. Len(artifact) : artifact[i] \in Globals
<1>1. PICK q \in Seq(Collectable) : q = collected
  BY DEF IInv, TypeOK
<1>2. PICK c \in Seq(Collectable) : c = Cut
  BY <1>1, TruncatedIsABeginning DEF Cut
<1>3. /\ Len(c) <= Len(q) /\ Len(c) \in Nat /\ Len(q) \in Nat
      /\ \A i \in 1 .. Len(c) : c[i] = q[i]
  BY <1>1, <1>2, TruncatedIsABeginning DEF Cut
<1>4. PICK a \in Seq(Collectable \cup Globals) : a = artifact
  BY DEF IInv, TypeOK
<1>5. \A i \in 1 .. Len(a) : IF i <= Len(c) THEN a[i] = c[i] ELSE a[i] \in Globals
  BY <1>2, <1>4 DEF IInv, WriteInv
<1>6. PICK k \in Nat : k = Kept /\ k = IF Len(a) < Len(c) THEN Len(a) ELSE Len(c)
  BY <1>2, <1>3, <1>4 DEF Kept
<1>7. k <= Len(a) /\ k <= Len(c) /\ Len(a) \in Nat
  BY <1>3, <1>6
<1>8. \A i \in 1 .. k : a[i] = c[i] /\ c[i] = q[i]
  BY <1>3, <1>5, <1>7
<1>9. \A i \in k + 1 .. Len(a) : a[i] \in Globals
  BY <1>3, <1>5, <1>6
<1> QED BY <1>1, <1>2, <1>3, <1>4, <1>6, <1>7, <1>8, <1>9

\* Of what is collected only the entries that are neither a session nor a part of
\* a message go beyond the limits.
LEMMA BeyondTheLimits ==
  ASSUME IInv, Collected
  PROVE  /\ Cardinality(NeitherSessionNorPart) \in Nat
         /\ Len(collected) <=
              SessionLimit + MessageLimit + Cardinality(NeitherSessionNorPart)
<1>1. PICK q \in Seq(Collectable) : q = collected
  BY DEF IInv, TypeOK
<1>2. PICK m \in Nat : m = Len(asked) /\ m <= SessionLimit
  BY DEF IInv, TypeOK, CollectInv, AskedOnce
<1>3. PICK len \in Nat : len = Len(q) /\ DOMAIN q = 1 .. len
  BY <1>1
<1> DEFINE T == {n \in 1 .. len : q[n].kind = "thread"}
           P == PartPlaces(q)
           N == {n \in 1 .. len : q[n].kind \in {"capability", "unknown"}}
<1>4. Gathered(q, m) /\ Cardinality(P) <= MessageLimit
  BY <1>1, <1>2 DEF IInv, CollectInv, Collected, AllCollected
<1>5. N = NeitherSessionNorPart
  BY <1>1, <1>3 DEF NeitherSessionNorPart
<1>6. (T \cup P) \cup N = 1 .. len
  <2>1. \A n \in 1 .. len : q[n].kind \in {"capability", "unknown", "thread", "item", "tool"}
    <3> TAKE n \in 1 .. len
    <3>1. q[n] \in Collectable
      BY <1>1, <1>3
    <3> QED BY <3>1 DEF Collectable
  <2> QED BY <1>3, <2>1 DEF PartPlaces, PartKinds
<1>7. T \subseteq 1 .. len /\ P \subseteq 1 .. len /\ N \subseteq 1 .. len
  BY <1>3 DEF PartPlaces
<1>8. IsFiniteSet(1 .. len) /\ Cardinality(1 .. len) = len
  BY FS_Interval
<1>9. Cardinality(T) <= m
  <2>1. PICK at \in [1 .. m -> 1 .. len] :
          /\ \A i \in 1 .. m : q[at[i]] = Event("thread", asked[i])
          /\ \A n \in 1 .. len : q[n].kind = "thread" => \E i \in 1 .. m : at[i] = n
    BY <1>3, <1>4 DEF Gathered, ThreadsIn
  <2>2. at \in [1 .. m -> T]
    BY <2>1, EventFields
  <2>3. at \in Surjection(1 .. m, T)
    BY <2>1, <2>2 DEF Surjection
  <2>4. ExistsSurjection(1 .. m, T)
    BY <2>3 DEF ExistsSurjection
  <2> HIDE DEF T
  <2> QED BY <2>4, FS_SurjCardinalityBound
<1>10. IsFiniteSet(T) /\ IsFiniteSet(P) /\ IsFiniteSet(N)
  BY <1>7, <1>8, FS_Subset
<1> HIDE DEF T, P, N
<1>11. /\ Cardinality(T) \in Nat /\ Cardinality(P) \in Nat /\ Cardinality(N) \in Nat
       /\ IsFiniteSet(T \cup P) /\ Cardinality(T \cup P) \in Nat
       /\ Cardinality(T \cap P) \in Nat /\ Cardinality((T \cup P) \cap N) \in Nat
  <2>1. IsFiniteSet(T \cup P) /\ IsFiniteSet(T \cap P) /\ IsFiniteSet((T \cup P) \cap N)
    BY <1>10, FS_Union, FS_Intersection
  <2> QED BY <1>10, <2>1, FS_CardinalityType
<1>12. Cardinality(T \cup P) = Cardinality(T) + Cardinality(P) - Cardinality(T \cap P)
  BY <1>10, FS_Union
<1>13. Cardinality((T \cup P) \cup N)
         = Cardinality(T \cup P) + Cardinality(N) - Cardinality((T \cup P) \cap N)
  BY <1>10, <1>11, FS_Union
<1>14. len <= m + MessageLimit + Cardinality(N)
  <2>1. Cardinality((T \cup P) \cup N) = len
    BY <1>6, <1>8
  <2>2. PICK t, c, n, u, x, y \in Nat :
          /\ t = Cardinality(T) /\ c = Cardinality(P) /\ n = Cardinality(N)
          /\ u = Cardinality(T \cup P)
          /\ x = Cardinality(T \cap P) /\ y = Cardinality((T \cup P) \cap N)
    BY <1>11
  <2>3. t <= m /\ c <= MessageLimit /\ u = t + c - x /\ len = u + n - y
    BY <1>4, <1>9, <1>12, <1>13, <2>1, <2>2
  <2>4. len <= m + MessageLimit + n
    BY <2>3, LimitsAssumption
  <2> QED BY <2>2, <2>4
<1>15. PICK n \in Nat : n = Cardinality(N)
  BY <1>11
<1>16. len <= SessionLimit + MessageLimit + n
  BY <1>2, <1>14, <1>15, LimitsAssumption
<1> QED BY <1>1, <1>3, <1>5, <1>15, <1>16

\* However many requests fail and whatever the server does meanwhile, every endpoint
\* and every session has its event, in order, and each failure pushes at most one
\* event off the end of what is written (collect_capability_events and the cut).
THEOREM FailuresCostNobodyElse == Spec => []FailuresLeaveOthersAlone
<1>1. ASSUME IInv, Collected PROVE FailuresLeaveOthersAlone
  <2>1. PICK q \in Seq(Collectable) : q = collected
    BY <1>1 DEF IInv, TypeOK
  <2>2. PICK m \in Nat : m = Len(asked)
    BY <1>1 DEF IInv, TypeOK
  <2>3. EndpointsIn(q) /\ ThreadsIn(q, m)
    BY <1>1, <2>1, <2>2 DEF IInv, CollectInv, Collected, AllCollected, Gathered
  <2>4. DOMAIN q = 1 .. Len(q) /\ DOMAIN asked = 1 .. m
    BY <1>1, <2>2 DEF IInv, TypeOK
  <2>5. \A e \in Endpoints : \E n \in DOMAIN q : q[n].of = e
    BY <2>3, <2>4 DEF EndpointsIn
  <2>6. PICK at \in [1 .. m -> 1 .. Len(q)] :
          /\ \A i, j \in 1 .. m : i < j => at[i] < at[j]
          /\ \A i \in 1 .. m : q[at[i]] = Event("thread", asked[i])
          /\ \A n \in 1 .. Len(q) : q[n].kind = "thread" => \E i \in 1 .. m : at[i] = n
    BY <2>3 DEF ThreadsIn
  <2>7. /\ at \in [DOMAIN asked -> DOMAIN q]
        /\ \A i, j \in DOMAIN asked : i < j => at[i] < at[j]
        /\ \A i \in DOMAIN asked : q[at[i]] = Event("thread", asked[i])
        /\ \A n \in DOMAIN q : q[n].kind = "thread" => \E i \in DOMAIN asked : at[i] = n
    BY <2>4, <2>6
  <2>8. /\ at \in [DOMAIN asked -> DOMAIN collected]
        /\ \A i, j \in DOMAIN asked : i < j => at[i] < at[j]
        /\ \A i \in DOMAIN asked : collected[at[i]] = Event("thread", asked[i])
        /\ \A n \in DOMAIN collected :
             collected[n].kind = "thread" => \E i \in DOMAIN asked : at[i] = n
    BY <2>1, <2>7
  <2>9. \A e \in Endpoints : \E n \in DOMAIN collected : collected[n].of = e
    BY <2>1, <2>5
  <2>10. ASSUME pc \in {"follow", "done"}, NEW i \in DOMAIN collected,
                i + Cardinality(NeitherSessionNorPart) <= Len(collected)
         PROVE  i <= Len(artifact) /\ artifact[i] = collected[i]
    <3>1. i \in 1 .. Len(q) /\ i <= SessionLimit + MessageLimit
      BY <1>1, <2>1, <2>10, BeyondTheLimits, LimitsAssumption
    <3>2. i <= Len(Cut)
      BY <2>1, <3>1, TruncatedIsABeginning, LimitsAssumption DEF Cut
    <3>3. Len(Cut) <= Len(artifact)
      BY <1>1, <2>10 DEF IInv, WriteInv
    <3>4. Kept = Len(Cut)
      BY <1>1, <3>3, KeptAreCollected DEF Kept
    <3>5. i \in 1 .. Kept
      BY <3>1, <3>2, <3>4
    <3>6. Len(artifact) \in Nat /\ Len(Cut) \in Nat
      BY <1>1, KeptAreCollected
    <3> QED BY <1>1, <3>1, <3>2, <3>3, <3>5, <3>6, KeptAreCollected
  <2> QED BY <2>8, <2>9, <2>10 DEF FailuresLeaveOthersAlone
<1>2. IInv => FailuresLeaveOthersAlone
  BY <1>1 DEF FailuresLeaveOthersAlone
<1> QED BY <1>2, Invariant, PTL

LEMMA GlobalsAreNotCollected ==
  ASSUME NEW g \in Globals
  PROVE  g \notin Collectable /\ g.kind \notin PartKinds
<1>1. PICK k, o : g = Event(k, o) /\ (k = "global" \/ (k = "unknown" /\ o = 0))
  BY DEF Globals
<1>2. g.kind = k /\ g.of = o
  BY <1>1 DEF Event
<1>3. g.kind \notin PartKinds
  BY <1>1, <1>2 DEF PartKinds
<1>4. ASSUME g \in Collectable PROVE FALSE
  <2>1. g.kind # "global" /\ g.of \in Sessions \cup Endpoints
    BY <1>4 DEF Collectable
  <2> QED BY <1>1, <1>2, <2>1, SetsAssumption
<1> QED BY <1>3, <1>4

LEMMA SameSequence ==
  ASSUME NEW S, NEW T, NEW q \in Seq(S), NEW r \in Seq(T), Len(q) = Len(r),
         \A i \in 1 .. Len(r) : q[i] = r[i]
  PROVE  q = r
<1>1. PICK n \in Nat : n = Len(q) /\ n = Len(r)
  OBVIOUS
<1>2. \A i \in 1 .. n : q[i] = r[i]
  BY <1>1
<1>3. q = [i \in 1 .. n |-> q[i]]
  BY <1>1
<1>4. r = [i \in 1 .. n |-> r[i]]
  BY <1>1
<1> QED BY <1>2, <1>3, <1>4

\* What is written and what is still to be written are together what was kept.
LEMMA WrittenIsABeginning ==
  ASSUME IInv, Collected
  PROVE  OnlyTheEndIsCut
<1>1. PICK q \in Seq(Collectable) : q = collected
  BY DEF IInv, TypeOK
<1>2. PICK c \in Seq(Collectable) : c = Cut
  BY <1>1, TruncatedIsABeginning DEF Cut
<1>3. /\ Len(c) <= Len(q) /\ Len(c) \in Nat /\ Len(q) \in Nat
      /\ \A i \in 1 .. Len(c) : c[i] = q[i]
      /\ Len(c) < SessionLimit + MessageLimit => c = q
  BY <1>1, <1>2, TruncatedIsABeginning DEF Cut
<1>4. PICK a \in Seq(Collectable \cup Globals) : a = artifact
  BY DEF IInv, TypeOK
<1>5. PICK n \in Nat : n = Kept
  BY KeptAreCollected
<1>6. /\ n <= Len(a) /\ n <= Len(c) /\ Len(a) \in Nat
      /\ \A i \in 1 .. n : a[i] = c[i]
      /\ \A i \in n + 1 .. Len(a) : a[i] \in Globals
  BY <1>2, <1>4, <1>5, KeptAreCollected
<1>7. PICK ev \in Seq(Collectable) : ev = events
  BY DEF IInv, TypeOK
<1>8. n + Len(ev) = Len(c) /\ \A i \in 1 .. Len(ev) : ev[i] = c[n + i]
  <2>1. CASE pc = "write"
    <3>1. Len(a) + Len(ev) = Len(c) /\ \A i \in 1 .. Len(ev) : ev[i] = c[Len(a) + i]
      BY <1>2, <1>4, <1>7, <2>1 DEF IInv, WriteInv
    <3>2. n = Len(a)
      BY <1>2, <1>3, <1>4, <1>5, <1>7, <3>1 DEF Kept
    <3> QED BY <3>1, <3>2
  <2>2. CASE pc \in {"follow", "done"}
    <3>1. ev = <<>> /\ Len(c) <= Len(a)
      BY <1>2, <1>4, <1>7, <2>2 DEF IInv, WriteInv
    <3>2. n = Len(c)
      BY <1>2, <1>3, <1>4, <1>5, <1>6, <3>1 DEF Kept
    <3> QED BY <1>3, <3>1, <3>2
  <2> QED BY <2>1, <2>2 DEF Collected
<1>9. PICK p \in Seq(Collectable \cup Globals) : p = SubSeq(a, 1, n)
  <2>1. \A i \in 1 .. n : a[i] \in Collectable \cup Globals
    BY <1>6
  <2>2. SubSeq(a, 1, n) \in Seq(Collectable \cup Globals)
    BY <2>1, SubSeqProperties
  <2> QED BY <2>2
<1>10. Len(p) = n /\ \A i \in 1 .. n : p[i] = c[i]
  <2>1. \A i \in 1 .. n : a[i] \in Collectable \cup Globals
    BY <1>6
  <2>2. /\ Len(p) = IF 1 <= n THEN n - 1 + 1 ELSE 0
        /\ \A i \in 1 .. n - 1 + 1 : p[i] = a[1 + i - 1]
    BY <1>9, <2>1, SubSeqProperties
  <2>3. \A i \in 1 .. n : i \in 1 .. n - 1 + 1 /\ 1 + i - 1 = i
    OBVIOUS
  <2> QED BY <1>6, <2>2, <2>3
<1>11. p \o ev = c
  <2>1. ev \in Seq(Collectable \cup Globals) /\ Len(ev) \in Nat
    BY <1>7
  <2>2. /\ p \o ev \in Seq(Collectable \cup Globals) /\ Len(p \o ev) = n + Len(ev)
        /\ \A i \in 1 .. n + Len(ev) : (p \o ev)[i] = IF i <= n THEN p[i] ELSE ev[i - n]
    BY <1>10, <2>1, ConcatProperties
  <2>3. PICK r \in Seq(Collectable \cup Globals) : r = p \o ev
    BY <2>2
  <2>4. Len(r) = Len(c)
    BY <1>8, <2>2, <2>3
  <2>5. \A i \in 1 .. Len(c) : r[i] = c[i]
    <3> TAKE i \in 1 .. Len(c)
    <3>1. CASE i <= n
      BY <1>8, <1>10, <2>2, <2>3, <3>1
    <3>2. CASE ~(i <= n)
      <4>1. i - n \in 1 .. Len(ev) /\ n + (i - n) = i
        BY <1>3, <1>8, <2>1, <3>2
      <4> QED BY <1>8, <2>2, <2>3, <3>2, <4>1
    <3> QED BY <3>1, <3>2
  <2>6. r = c
    BY <2>4, <2>5, SameSequence
  <2> QED BY <2>3, <2>6
<1>12. IsPrefix(c, q)
  <2>1. SubSeq(c, 1, Len(c)) = c
    BY SubSeqFull
  <2>2. SubSeq(q, 1, Len(c)) = c
    <3>1. \A i \in 1 .. Len(c) : q[i] \in Collectable
      BY <1>3
    <3>2. /\ SubSeq(q, 1, Len(c)) \in Seq(Collectable)
          /\ Len(SubSeq(q, 1, Len(c))) = IF 1 <= Len(c) THEN Len(c) - 1 + 1 ELSE 0
          /\ \A i \in 1 .. Len(c) - 1 + 1 : SubSeq(q, 1, Len(c))[i] = q[1 + i - 1]
      BY <1>3, <3>1, SubSeqProperties
    <3>3. PICK r \in Seq(Collectable) : r = SubSeq(q, 1, Len(c))
      BY <3>2
    <3>4. Len(r) = Len(c)
      BY <1>3, <3>2, <3>3
    <3>5. \A i \in 1 .. Len(c) : i \in 1 .. Len(c) - 1 + 1 /\ 1 + i - 1 = i
      BY <1>3
    <3>6. \A i \in 1 .. Len(c) : r[i] = c[i]
      BY <1>3, <3>2, <3>3, <3>5
    <3>7. r = c
      BY <3>4, <3>6
    <3> QED BY <3>3, <3>7
  <2> QED BY <1>3, <2>1, <2>2 DEF IsPrefix
<1>13. \A i \in n + 1 .. Len(a) : a[i] \notin ToSet(q)
  <2>1. ToSet(q) \subseteq Collectable
    <3>1. \A i \in DOMAIN q : q[i] \in Collectable
      BY <1>1
    <3> QED BY <3>1 DEF ToSet
  <2> QED BY <1>6, <2>1, GlobalsAreNotCollected
<1>14. n \in 0 .. Len(a) /\ SubSeq(a, 1, n) \o ev = c
  BY <1>6, <1>9, <1>11
<1>15. /\ n \in 0 .. Len(artifact) /\ SubSeq(artifact, 1, n) \o events = c
       /\ \A i \in n + 1 .. Len(artifact) : artifact[i] \notin ToSet(collected)
       /\ IsPrefix(c, collected)
       /\ Len(c) < SessionLimit + MessageLimit => c = collected
  BY <1>1, <1>3, <1>4, <1>7, <1>12, <1>13, <1>14
<1> QED BY <1>15 DEF OnlyTheEndIsCut

\* Whatever fails, and whenever the server adds parts or the budget runs out, what
\* is recorded of a session is a beginning of its messages, right after the session
\* itself, and what is recorded of all is a beginning of what was collected; so the
\* count of written items (run_opencode_observer) never drops one.
THEOREM WhatIsRecordedBegins == Spec => []RecordedIsABeginning
<1>1. ASSUME IInv PROVE OnlyTheEndIsCut
  BY <1>1, WrittenIsABeginning DEF OnlyTheEndIsCut
<1>2. ASSUME IInv, NEW s \in Sessions
      PROVE  \E at \in 0 .. Len(artifact), k \in 0 .. Len(parts[s]) : HoldsParts(artifact, s, at, k)
  <2>1. PartsIn(collected)
    <3>1. CASE pc \in Early
      <4>1. collected = <<>> /\ TypeOK
        BY <1>2, <3>1 DEF IInv, CollectInv
      <4>2. <<>> \in Seq(Collectable) /\ PartPlaces(<<>>) = {}
        BY DEF PartPlaces
      <4> QED BY <4>1, <4>2, NoPartsYet
    <3>2. CASE pc \notin Early
      BY <1>2, <3>2 DEF IInv, CollectInv
    <3> QED BY <3>1, <3>2
  <2>2. PICK at \in 0 .. Len(collected), k \in 0 .. Len(parts[s]) : HoldsParts(collected, s, at, k)
    BY <2>1 DEF PartsIn
  <2>3. PICK L \in Nat : L = Kept
    BY <1>2, KeptAreCollected
  <2>4. Len(parts[s]) \in Nat /\ Len(collected) \in Nat /\ Len(artifact) \in Nat
        /\ L <= Len(artifact) /\ L <= Len(collected)
        /\ DOMAIN artifact = 1 .. Len(artifact) /\ DOMAIN collected = 1 .. Len(collected)
        /\ \A i \in 1 .. L : artifact[i] = collected[i]
    BY <1>2, <2>3, KeptAreCollected DEF IInv, TypeOK
  <2>5. at \in Nat /\ k \in Nat
    BY <2>2, <2>4
  <2>6. \A i \in L + 1 .. Len(artifact) : artifact[i].kind \notin PartKinds
    BY <1>2, <2>3, KeptAreCollected, GlobalsAreNotCollected
  <2>7. {n \in DOMAIN collected : collected[n].of = s /\ collected[n].kind \in PartKinds}
          = at + 1 .. at + k
    BY <2>2 DEF HoldsParts
  <2>8. {n \in DOMAIN artifact : artifact[n].of = s /\ artifact[n].kind \in PartKinds}
          = {n \in at + 1 .. at + k : n <= L}
    <3>1. ASSUME NEW n \in DOMAIN artifact, artifact[n].of = s, artifact[n].kind \in PartKinds
          PROVE  n \in at + 1 .. at + k /\ n <= L
      <4>1. n \in 1 .. L
        BY <2>4, <2>6, <3>1
      <4> QED BY <2>4, <2>7, <3>1, <4>1
    <3>2. ASSUME NEW n \in at + 1 .. at + k, n <= L
          PROVE  n \in DOMAIN artifact /\ artifact[n].of = s /\ artifact[n].kind \in PartKinds
      <4>1. n \in 1 .. L /\ n \in DOMAIN artifact
        BY <2>4, <2>5, <3>2
      <4>2. collected[n].of = s /\ collected[n].kind \in PartKinds
        BY <2>7
      <4> QED BY <2>4, <4>1, <4>2
    <3> QED BY <3>1, <3>2
  <2>9. CASE at + 1 <= L /\ k > 0
    <3>1. PICK j \in 1 .. k : j = IF at + k <= L THEN k ELSE L - at
      <4>1. (IF at + k <= L THEN k ELSE L - at) \in 1 .. k
        BY <2>5, <2>9
      <4> QED BY <4>1
    <3>2. {n \in at + 1 .. at + k : n <= L} = at + 1 .. at + j
      BY <2>5, <3>1
    <3>3. at > 0 /\ artifact[at] = Event("thread", s)
      <4>1. at > 0 /\ collected[at] = Event("thread", s)
        BY <2>2, <2>9 DEF HoldsParts
      <4>2. at \in 1 .. L
        BY <2>5, <2>9, <4>1
      <4> QED BY <2>4, <4>1, <4>2
    <3>4. \A i \in 1 .. j : artifact[at + i].kind = parts[s][i]
      <4> TAKE i \in 1 .. j
      <4>1. at + i \in 1 .. L /\ i \in 1 .. k
        BY <2>5, <3>1
      <4>2. collected[at + i].kind = parts[s][i]
        BY <2>2, <4>1 DEF HoldsParts
      <4> QED BY <2>4, <4>1, <4>2
    <3>5. at \in 0 .. Len(artifact) /\ j \in 0 .. Len(parts[s])
      BY <2>2, <2>4, <2>5, <2>9, <3>1
    <3>6. HoldsParts(artifact, s, at, j)
      BY <2>8, <3>2, <3>3, <3>4 DEF HoldsParts
    <3> QED BY <3>5, <3>6
  <2>10. CASE ~(at + 1 <= L /\ k > 0)
    <3>1. {n \in at + 1 .. at + k : n <= L} = 0 + 1 .. 0 + 0
      BY <2>5, <2>10
    <3>2. HoldsParts(artifact, s, 0, 0)
      BY <2>8, <3>1 DEF HoldsParts
    <3>3. 0 \in 0 .. Len(artifact) /\ 0 \in 0 .. Len(parts[s])
      BY <2>4
    <3> QED BY <3>2, <3>3
  <2> QED BY <2>9, <2>10
<1>3. IInv => RecordedIsABeginning
  BY <1>1, <1>2 DEF RecordedIsABeginning
<1> QED BY <1>3, Invariant, PTL
=============================================================================
