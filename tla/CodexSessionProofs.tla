------------------------- MODULE CodexSessionProofs -------------------------
(***************************************************************************)
(* Theorems about a Codex session and the search for its source, for any   *)
(* number of sockets, sources, methods, events and lines, and every set of *)
(* hazards.  That no line is lost rests on where the lines read are        *)
(* (LinesInv: in an event or pending, but for the answer to the            *)
(* handshake), that every method is reported on what is known of the       *)
(* requests in flight (MethodsInv), that the newest socket is chosen on    *)
(* what is left to be looked at (SearchInv).                               *)
(***************************************************************************)
EXTENDS MCCodexObserver, Integers, WellFoundedInduction, TLAPS

Kinds == {"answer", "error", "notice", "request", "garbage"}
Message == [seq : Nat, kind : Kinds, id : Nat]
Event == [of : Nat, unavailable : BOOLEAN, seq : Nat]

\* The lines the session has read from the channel.
Read == serial - Len(channel)

TypeOK ==
  /\ source \in Nat
  /\ phase \in {"connect", "initialize", "ask", "wait", "follow", "done", "failed"}
  /\ alive \in BOOLEAN
  /\ outstanding \subseteq Nat
  /\ serial \in Nat
  /\ channel \in Seq(Message) /\ pending \in Seq(Message)
  /\ awaiting \in Nat \ {0}
  /\ inflight \subseteq Nat
  /\ events \in Seq(Event) /\ log \in Seq(Event)
  /\ followed \in Nat

\* What each phase knows of the session.
Phases ==
  /\ phase \in {"connect", "initialize"} =>
       awaiting = InitializeId /\ pending = <<>> /\ Read = 0
  /\ phase \in {"connect", "initialize", "ask", "wait"} => log = <<>>
  /\ phase \in {"follow", "done"} => events = <<>> /\ awaiting = LastMethod + 1
  /\ phase = "ask" => awaiting > InitializeId /\ awaiting <= LastMethod + 1
  /\ phase = "wait" => awaiting <= LastMethod
  /\ awaiting = InitializeId => events = <<>> /\ log = <<>>
  /\ \A i \in 1..Len(events) : events[i].of # NoId

\* The channel holds the last lines written, in their order.
ChannelInOrder ==
  /\ Len(channel) <= serial
  /\ \A i \in 1..Len(channel) : channel[i].seq = Read + i

\* The lines pending were read in the order in which they wait.
Increasing(q) == \A i, j \in 1..Len(q) : i < j => q[i].seq < q[j].seq
PendingInOrder == Increasing(pending)

\* A line is in one event at most.
OneEach(q) == \A i, j \in 1..Len(q) : q[i].seq = q[j].seq => i = j \/ q[i].seq = 0
InOneEvent == OneEach(Gathered)

\* The lines read are pending or in an event, and only the answer to the
\* handshake is in neither.
KeptOf(g, p, lines) ==
  (Seqs(g) \ {0}) \cup Seqs(p) = lines /\ Seqs(g) \cap Seqs(p) = {}
Kept(lines) == KeptOf(Gathered, pending, lines)

ReadIsKept ==
  phase # "failed" =>
    IF awaiting = InitializeId
      THEN Kept(1..Read)
      ELSE \E handshake \in 1..Read : Kept((1..Read) \ {handshake})

\* Notices in the log are older than what is still to be logged.
NoticesAreOlder ==
  \A i \in 1..Len(log) : log[i].of = NoId =>
    /\ log[i].seq <= Read
    /\ \A n \in Seqs(pending) : log[i].seq < n

LinesInv ==
  /\ ChannelInOrder /\ PendingInOrder /\ InOneEvent
  /\ ReadIsKept /\ NoticesAreOlder /\ NoticesInOrder

-----------------------------------------------------------------------------
(* Methods.                                                                *)

AboutOf(g, id) == {i \in 1..Len(g) : g[i].of = id}
KnownOf(g, id) == {i \in AboutOf(g, id) : ~g[i].unavailable}
About(id) == AboutOf(Gathered, id)
Known(id) == KnownOf(Gathered, id)

\* A method whose request is in flight is not known; once it is, nothing more
\* is said about it.
MethodReports(id) ==
  /\ id \in inflight =>
       /\ Known(id) = {} /\ id <= awaiting
       /\ id = awaiting => phase = "wait" /\ About(id) = {}
  /\ id >= awaiting => About(id) = {}
  /\ id < awaiting => About(id) # {} /\ (Known(id) = {} => id \in inflight)
  /\ \A i \in About(id), k \in Known(id) : i <= k

MethodsInv ==
  /\ inflight \subseteq FirstMethod..LastMethod
  /\ phase = "wait" /\ awaiting # InitializeId => awaiting \in inflight
  /\ phase # "failed" => \A id \in FirstMethod..LastMethod : MethodReports(id)

-----------------------------------------------------------------------------
(* Sequences.                                                              *)

\* r is q without its element k.
DropsAt(q, k, r) ==
  /\ Len(r) = Len(q) - 1
  /\ \A j \in 1..(Len(q) - 1) : r[j] = IF j < k THEN q[j] ELSE q[j + 1]

LEMMA TailDrops ==
  ASSUME NEW q \in Seq(Message), q # <<>>
  PROVE  /\ Tail(q) \in Seq(Message) /\ Head(q) \in Message
         /\ 1 \in 1..Len(q) /\ Head(q) = q[1] /\ DropsAt(q, 1, Tail(q))
<1>1. /\ Tail(q) \in Seq(Message) /\ Head(q) \in Message /\ Head(q) = q[1]
      /\ Len(q) \in Nat /\ Len(q) # 0 /\ Len(Tail(q)) = Len(q) - 1
      /\ \A j \in 1..(Len(q) - 1) : Tail(q)[j] = q[j + 1]
  OBVIOUS
<1>2. \A j \in 1..(Len(q) - 1) : ~(j < 1)
  OBVIOUS
<1> QED BY <1>1, <1>2 DEF DropsAt

LEMMA WithoutIndexDrops ==
  ASSUME NEW q \in Seq(Message), NEW k \in 1..Len(q)
  PROVE  WithoutIndex(q, k) \in Seq(Message) /\ DropsAt(q, k, WithoutIndex(q, k))
<1> DEFINE a == SubSeq(q, 1, k - 1)
           b == SubSeq(q, k + 1, Len(q))
<1>1. Len(q) \in Nat /\ k \in Nat
  OBVIOUS
<1>2. a \in Seq(Message) /\ Len(a) = k - 1 /\ \A j \in 1..(k - 1) : a[j] = q[j]
  OBVIOUS
<1>3. /\ b \in Seq(Message) /\ Len(b) = Len(q) - k
      /\ \A j \in 1..(Len(q) - k) : b[j] = q[k + j]
  OBVIOUS
<1> HIDE DEF a, b
<1>4. a \in Seq(Message) /\ b \in Seq(Message)
  BY <1>2, <1>3
<1>5. a \o b \in Seq(Message) /\ Len(a \o b) = Len(a) + Len(b)
  BY <1>4
<1>6. Len(a \o b) = Len(q) - 1
  BY <1>1, <1>2, <1>3, <1>5
<1>7. ASSUME NEW j \in 1..(Len(q) - 1)
      PROVE  (a \o b)[j] = IF j < k THEN q[j] ELSE q[j + 1]
  <2>1. CASE j < k
    <3>1. (a \o b)[j] = a[j] /\ j \in 1..(k - 1)
      BY <1>1, <1>2, <1>3, <2>1
    <3> QED BY <1>2, <2>1, <3>1
  <2>2. CASE ~(j < k)
    <3>1. (a \o b)[j] = b[j - (k - 1)] /\ j - (k - 1) \in 1..(Len(q) - k)
      BY <1>1, <1>2, <1>3, <2>2
    <3>2. k + (j - (k - 1)) = j + 1
      BY <1>1
    <3> QED BY <1>3, <2>2, <3>1, <3>2
  <2> QED BY <2>1, <2>2
<1> QED BY <1>5, <1>6, <1>7 DEF WithoutIndex, DropsAt, a, b

\* Dropping an element of an increasing sequence.
LEMMA DropsSeqs ==
  ASSUME NEW q \in Seq(Message), NEW k \in 1..Len(q), NEW r \in Seq(Message),
         DropsAt(q, k, r), Increasing(q)
  PROVE  /\ Increasing(r)
         /\ Seqs(q) = Seqs(r) \cup {q[k].seq}
         /\ q[k].seq \notin Seqs(r)
<1>1. Len(q) \in Nat /\ k \in Nat /\ Len(r) = Len(q) - 1
  BY DEF DropsAt
<1>2. \A i \in 1..Len(q) : q[i].seq \in Nat
  <2>1. \A i \in 1..Len(q) : q[i] \in Message
    OBVIOUS
  <2> QED BY <2>1 DEF Message
<1>3. \A j \in 1..Len(r) :
        \E i \in 1..Len(q) :
          r[j] = q[i] /\ i = (IF j < k THEN j ELSE j + 1) /\ i # k
  <2> TAKE j \in 1..Len(r)
  <2>1. PICK i \in 1..Len(q) : i = (IF j < k THEN j ELSE j + 1) /\ i # k
    BY <1>1
  <2> QED BY <1>1, <2>1 DEF DropsAt
<1>4. Increasing(r)
  <2> SUFFICES ASSUME NEW a \in 1..Len(r), NEW b \in 1..Len(r), a < b
               PROVE  r[a].seq < r[b].seq
    BY DEF Increasing
  <2>1. PICK i \in 1..Len(q) : r[a] = q[i] /\ i = (IF a < k THEN a ELSE a + 1)
    BY <1>3
  <2>2. PICK j \in 1..Len(q) : r[b] = q[j] /\ j = (IF b < k THEN b ELSE b + 1)
    BY <1>3
  <2>3. i < j
    BY <1>1, <2>1, <2>2
  <2> QED BY <2>1, <2>2, <2>3 DEF Increasing
<1>5. ASSUME NEW i \in 1..Len(q), i # k PROVE \E j \in 1..Len(r) : r[j] = q[i]
  <2>1. CASE i < k
    <3>1. i \in 1..Len(r) /\ i \in 1..(Len(q) - 1)
      BY <1>1, <2>1
    <3>2. r[i] = q[i]
      BY <2>1, <3>1 DEF DropsAt
    <3> QED BY <3>1, <3>2
  <2>2. CASE ~(i < k)
    <3>1. PICK j \in 1..Len(r) : j = i - 1 /\ j \in 1..(Len(q) - 1) /\ ~(j < k) /\ j + 1 = i
      BY <1>1, <1>5, <2>2
    <3>2. r[j] = q[j + 1]
      BY <3>1 DEF DropsAt
    <3> QED BY <3>1, <3>2
  <2> QED BY <2>1, <2>2
<1>6. Seqs(q) = Seqs(r) \cup {q[k].seq}
  <2>1. ASSUME NEW i \in 1..Len(q) PROVE q[i].seq \in Seqs(r) \cup {q[k].seq}
    BY <1>5 DEF Seqs
  <2>2. ASSUME NEW j \in 1..Len(r) PROVE r[j].seq \in Seqs(q)
    BY <1>3 DEF Seqs
  <2>3. q[k].seq \in Seqs(q)
    BY DEF Seqs
  <2> QED BY <2>1, <2>2, <2>3 DEF Seqs
<1>7. ASSUME NEW j \in 1..Len(r) PROVE r[j].seq # q[k].seq
  <2>1. PICK i \in 1..Len(q) : r[j] = q[i] /\ i # k
    BY <1>3
  <2>2. q[i].seq < q[k].seq \/ q[k].seq < q[i].seq
    BY <1>1, <2>1 DEF Increasing
  <2> QED BY <1>2, <2>1, <2>2
<1> QED BY <1>4, <1>6, <1>7 DEF Seqs

LEMMA SeqsAppend ==
  ASSUME NEW T, NEW q \in Seq(T), NEW e \in T
  PROVE  Seqs(Append(q, e)) = Seqs(q) \cup {e.seq}
<1>1. /\ Len(q) \in Nat /\ Len(Append(q, e)) = Len(q) + 1
      /\ Append(q, e)[Len(q) + 1] = e
      /\ \A i \in 1..Len(q) : Append(q, e)[i] = q[i]
  OBVIOUS
<1>2. \A i : i \in 1..(Len(q) + 1) <=> i \in 1..Len(q) \/ i = Len(q) + 1
  BY <1>1
<1> QED BY <1>1, <1>2 DEF Seqs

LEMMA OneEachAppend ==
  ASSUME NEW q \in Seq(Event), NEW e \in Event, OneEach(q),
         e.seq = 0 \/ e.seq \notin Seqs(q)
  PROVE  OneEach(Append(q, e))
<1>1. /\ Len(q) \in Nat /\ Len(Append(q, e)) = Len(q) + 1
      /\ Append(q, e)[Len(q) + 1] = e
      /\ \A i \in 1..Len(q) : Append(q, e)[i] = q[i]
  OBVIOUS
<1>2. \A i \in 1..(Len(q) + 1) : i \in 1..Len(q) \/ i = Len(q) + 1
  BY <1>1
<1>3. ASSUME NEW i \in 1..Len(q), q[i].seq = e.seq PROVE e.seq = 0
  BY <1>3 DEF Seqs
<1> QED BY <1>1, <1>2, <1>3 DEF OneEach

LEMMA IncreasingAppend ==
  ASSUME NEW q \in Seq(Message), NEW m \in Message, Increasing(q),
         \A s \in Seqs(q) : s < m.seq
  PROVE  Increasing(Append(q, m))
<1>1. /\ Len(q) \in Nat /\ Len(Append(q, m)) = Len(q) + 1
      /\ Append(q, m)[Len(q) + 1] = m
      /\ \A i \in 1..Len(q) : Append(q, m)[i] = q[i]
  OBVIOUS
<1>2. ASSUME NEW i \in 1..(Len(q) + 1), NEW j \in 1..(Len(q) + 1), i < j
      PROVE  i \in 1..Len(q) /\ (j \in 1..Len(q) \/ j = Len(q) + 1)
  BY <1>1, <1>2
<1>3. \A i \in 1..Len(q) : q[i].seq < m.seq
  BY DEF Seqs
<1> QED BY <1>1, <1>2, <1>3 DEF Increasing

-----------------------------------------------------------------------------
(* Types, phases and the channel.                                          *)

Base == TypeOK /\ Phases /\ ChannelInOrder

LEMMA InitBase == Init => Base
<1> SUFFICES ASSUME Init PROVE Base
  OBVIOUS
<1>1. TypeOK
  <2>1. /\ channel \in Seq(Message) /\ pending \in Seq(Message)
        /\ events \in Seq(Event) /\ log \in Seq(Event)
    BY DEF Init
  <2>2. alive \in BOOLEAN
    BY DEF Init
  <2>3. /\ source \in Nat /\ serial \in Nat /\ awaiting \in Nat \ {0} /\ followed \in Nat
        /\ outstanding \subseteq Nat /\ inflight \subseteq Nat
        /\ phase \in {"connect", "initialize", "ask", "wait", "follow", "done", "failed"}
    BY DEF Init, InitializeId
  <2> QED BY <2>1, <2>2, <2>3 DEF TypeOK
<1>2. Len(channel) = 0 /\ Len(events) = 0 /\ Read = 0
  <2>1. Len(channel) = 0 /\ Len(events) = 0 /\ serial = 0
    BY DEF Init
  <2> QED BY <2>1 DEF Read
<1>3. Phases
  BY <1>2, BoundsAssumption DEF Init, Phases
<1>4. ChannelInOrder
  BY <1>2, BoundsAssumption DEF Init, ChannelInOrder
<1> QED BY <1>1, <1>3, <1>4 DEF Base

LEMMA ReadNat == Base => Read \in Nat /\ Len(channel) \in Nat /\ serial \in Nat
<1> SUFFICES ASSUME Base PROVE Read \in Nat /\ Len(channel) \in Nat /\ serial \in Nat
  OBVIOUS
<1>1. Len(channel) \in Nat /\ serial \in Nat /\ Len(channel) <= serial
  BY DEF Base, TypeOK, ChannelInOrder
<1> QED BY <1>1 DEF Read

LEMMA ReadNatNext ==
  ASSUME Base'
  PROVE  Read' \in Nat
<1>1. Len(channel') \in Nat /\ serial' \in Nat /\ Len(channel') <= serial'
  BY DEF Base, TypeOK, ChannelInOrder
<1> QED BY <1>1 DEF Read

\* The app server writes a line.
LEMMA ServerWrites ==
  ASSUME TypeOK, AppServer, ~Die
  PROVE  /\ \E m \in Message : m.seq = serial + 1 /\ channel' = Append(channel, m)
         /\ serial' = serial + 1 /\ outstanding' \subseteq Nat /\ Running
         /\ UNCHANGED <<source, phase, alive, pending, awaiting, inflight, collected>>
<1>1. ASSUME NEW kind \in Kinds, NEW id \in Nat
      PROVE  /\ Line(kind, id) \in Message /\ Line(kind, id).seq = serial + 1
  <2>1. serial + 1 \in Nat
    BY DEF TypeOK
  <2> QED BY <2>1 DEF Line, Message
<1>2. CASE \E id \in outstanding : Answer(id)
  <2>1. PICK id \in Nat, kind \in Kinds : Write(Line(kind, id)) /\ Answer(id)
    BY <1>2 DEF Answer, TypeOK, Kinds
  <2>2. outstanding' \subseteq Nat
    BY <2>1 DEF Answer, TypeOK
  <2> QED BY <1>1, <2>1, <2>2 DEF Write, Answer, AppServer
<1>3. CASE Notify
  BY <1>1, <1>3 DEF Write, Notify, AppServer, TypeOK, Kinds, NoId
<1>4. CASE ServerRequest
  <2>1. PICK id \in 1..LastMethod : Write(Line("request", id))
    BY <1>4 DEF ServerRequest
  <2>2. id \in Nat /\ "request" \in Kinds
    BY BoundsAssumption DEF LastMethod, Kinds
  <2> QED BY <1>1, <1>4, <2>1, <2>2 DEF Write, ServerRequest, AppServer, TypeOK
<1>5. CASE WriteGarbage
  BY <1>1, <1>5 DEF Write, WriteGarbage, AppServer, TypeOK, Kinds, NoId
<1> QED BY <1>2, <1>3, <1>4, <1>5 DEF AppServer

\* A line that is appended is the next one; reading the head moves on by one.
LEMMA ChannelGrows ==
  ASSUME Base, NEW m \in Message, m.seq = serial + 1,
         channel' = Append(channel, m), serial' = serial + 1
  PROVE  ChannelInOrder' /\ Read' = Read /\ channel' \in Seq(Message)
<1>1. PICK c \in Seq(Message), n \in Nat : c = channel /\ n = serial
  BY DEF Base, TypeOK
<1>2. /\ Len(c) \in Nat /\ Append(c, m) \in Seq(Message)
      /\ Len(Append(c, m)) = Len(c) + 1
      /\ Append(c, m)[Len(c) + 1] = m
      /\ \A i \in 1..Len(c) : Append(c, m)[i] = c[i]
  OBVIOUS
<1>3. Len(c) <= n /\ \A i \in 1..Len(c) : c[i].seq = (n - Len(c)) + i
  BY <1>1 DEF Base, ChannelInOrder, Read
<1>4. /\ Len(c) + 1 <= n + 1 /\ (n + 1) - (Len(c) + 1) = n - Len(c)
      /\ (n - Len(c)) + (Len(c) + 1) = n + 1
  BY <1>2, <1>3
<1>5. ASSUME NEW i \in 1..(Len(c) + 1)
      PROVE  Append(c, m)[i].seq = (n - Len(c)) + i
  <2>1. i \in 1..Len(c) \/ i = Len(c) + 1
    BY <1>2
  <2> QED BY <1>1, <1>2, <1>3, <1>4, <2>1
<1>6. channel' = Append(c, m) /\ serial' = n + 1
  BY <1>1
<1>7. Read = n - Len(c) /\ Read' = n - Len(c)
  BY <1>1, <1>2, <1>4, <1>6 DEF Read
<1> QED BY <1>2, <1>4, <1>5, <1>6, <1>7 DEF ChannelInOrder

LEMMA ChannelRead ==
  ASSUME Base, channel # <<>>, channel' = Tail(channel), serial' = serial
  PROVE  /\ ChannelInOrder' /\ Read' = Read + 1 /\ channel' \in Seq(Message)
         /\ Head(channel) \in Message /\ Head(channel).seq = Read + 1
<1>1. PICK c \in Seq(Message), n \in Nat : c = channel /\ n = serial
  BY DEF Base, TypeOK
<1>2. /\ Len(c) \in Nat /\ Len(c) # 0 /\ Tail(c) \in Seq(Message) /\ Head(c) \in Message
      /\ Len(Tail(c)) = Len(c) - 1 /\ Head(c) = c[1]
      /\ \A i \in 1..(Len(c) - 1) : Tail(c)[i] = c[i + 1]
  BY <1>1
<1>3. Len(c) <= n /\ \A i \in 1..Len(c) : c[i].seq = (n - Len(c)) + i
  BY <1>1 DEF Base, ChannelInOrder, Read
<1>4. /\ Len(c) - 1 <= n /\ n - (Len(c) - 1) = (n - Len(c)) + 1 /\ 1 \in 1..Len(c)
  BY <1>2, <1>3
<1>5. ASSUME NEW i \in 1..(Len(c) - 1)
      PROVE  Tail(c)[i].seq = ((n - Len(c)) + 1) + i
  <2>1. i + 1 \in 1..Len(c) /\ (n - Len(c)) + (i + 1) = ((n - Len(c)) + 1) + i
    BY <1>2
  <2> QED BY <1>2, <1>3, <2>1
<1>6. channel' = Tail(c) /\ serial' = n
  BY <1>1
<1>7. Read = n - Len(c) /\ Read' = (n - Len(c)) + 1
  BY <1>1, <1>2, <1>4, <1>6 DEF Read
<1> QED BY <1>1, <1>2, <1>3, <1>4, <1>5, <1>6, <1>7 DEF ChannelInOrder

\* A failed source leaves nothing behind.
LEMMA NextSourceIsNew ==
  ASSUME Base, awaiting = InitializeId, TryNextSource
  PROVE  Base' /\ phase' \in {"connect", "failed"} /\ Read' = 0 /\ events' = <<>> /\ log' = <<>>
<1>1. /\ source' \in Nat /\ phase' \in {"connect", "failed"}
      /\ alive' = FALSE /\ outstanding' = {} /\ serial' = 0
      /\ channel' = <<>> /\ pending' = <<>> /\ awaiting' = InitializeId
      /\ UNCHANGED <<inflight, collected>>
      /\ events = <<>> /\ log = <<>>
  BY DEF TryNextSource, Base, TypeOK, Phases
<1>2. Len(channel') = 0 /\ Len(events') = 0
  BY <1>1 DEF collected
<1>3. Read' = 0
  <2>1. serial' = 0 /\ Len(channel') = 0
    BY <1>1, <1>2
  <2> QED BY <2>1 DEF Read
<1>4. channel' \in Seq(Message) /\ pending' \in Seq(Message)
  BY <1>1
<1>5. TypeOK'
  BY <1>1, <1>4 DEF Base, TypeOK, collected, InitializeId
<1>6. Phases' /\ ChannelInOrder'
  BY <1>1, <1>2, <1>3 DEF Phases, ChannelInOrder, collected
<1> QED BY <1>1, <1>3, <1>5, <1>6 DEF Base, collected

\* An event about the method that is awaited.
LEMMA ReportAwaited ==
  ASSUME Base, phase = "wait", awaiting # InitializeId,
         NEW e \in Event, e.of = awaiting, events' = Append(events, e)
  PROVE  /\ events' \in Seq(Event)
         /\ \A i \in 1..Len(events') : events'[i].of # NoId
<1>1. PICK q \in Seq(Event) : q = events
  BY DEF Base, TypeOK
<1>2. /\ Append(q, e) \in Seq(Event) /\ Len(Append(q, e)) = Len(q) + 1 /\ Len(q) \in Nat
      /\ Append(q, e)[Len(q) + 1] = e
      /\ \A i \in 1..Len(q) : Append(q, e)[i] = q[i]
  OBVIOUS
<1>3. \A i \in 1..(Len(q) + 1) : i \in 1..Len(q) \/ i = Len(q) + 1
  BY <1>2
<1>4. e.of # NoId
  BY DEF Base, TypeOK, NoId
<1>5. \A i \in 1..Len(q) : q[i].of # NoId
  BY <1>1 DEF Base, Phases
<1> QED BY <1>1, <1>2, <1>3, <1>4, <1>5

LEMMA TakeBase ==
  ASSUME Base, phase = "wait", NEW m \in Message, Take(m),
         channel' \in Seq(Message), pending' \in Seq(Message), ChannelInOrder'
  PROVE  Base'
<1>1. /\ awaiting \in Nat \ {0} /\ awaiting <= LastMethod /\ LastMethod \in Nat
      /\ inflight \subseteq Nat /\ inflight' \subseteq Nat
      /\ awaiting' = awaiting + 1 /\ phase' = "ask" /\ log = <<>>
      /\ UNCHANGED <<source, server, log, followed>>
  <2>1. /\ awaiting \in Nat \ {0} /\ awaiting <= LastMethod /\ log = <<>>
        /\ inflight \subseteq Nat
    BY DEF Base, TypeOK, Phases
  <2>2. LastMethod \in Nat
    BY BoundsAssumption DEF LastMethod
  <2>3. /\ inflight' \subseteq inflight
        /\ awaiting' = awaiting + 1 /\ phase' = "ask"
        /\ UNCHANGED <<source, server, log, followed>>
    BY DEF Take
  <2> QED BY <2>1, <2>2, <2>3
<1>2. events' \in Seq(Event) /\ \A i \in 1..Len(events') : events'[i].of # NoId
  <2>1. CASE awaiting = InitializeId
    <3>1. events' = events
      BY <2>1 DEF Take
    <3> QED BY <3>1 DEF Base, TypeOK, Phases
  <2>2. CASE awaiting # InitializeId
    <3>1. /\ CapabilityEvent(awaiting, m) \in Event /\ CapabilityEvent(awaiting, m).of = awaiting
      BY <1>1 DEF CapabilityEvent, Event, Message
    <3>2. events' = Append(events, CapabilityEvent(awaiting, m))
      BY <2>2 DEF Take
    <3> QED BY <2>2, <3>1, <3>2, ReportAwaited
  <2> QED BY <2>1, <2>2
<1>3. awaiting' \in Nat \ {0} /\ awaiting' > InitializeId /\ awaiting' <= LastMethod + 1
  BY <1>1 DEF InitializeId
<1>4. TypeOK'
  BY <1>1, <1>2, <1>3 DEF Base, TypeOK, server
<1>5. Phases'
  BY <1>1, <1>2, <1>3 DEF Base, Phases, InitializeId
<1> QED BY <1>4, <1>5 DEF Base

\* A method's request failed, or its answer could not be read.
LEMMA MethodFailsBase ==
  ASSUME Base, NEW n \in Nat, MethodFails(n), channel' \in Seq(Message), ChannelInOrder'
  PROVE  Base'
<1>1. /\ awaiting \in Nat \ {0} /\ awaiting <= LastMethod /\ LastMethod \in Nat
      /\ phase = "wait" /\ awaiting # InitializeId
      /\ awaiting' = awaiting + 1 /\ phase' = "ask" /\ log = <<>>
      /\ events' = Append(events, UnavailableEvent(awaiting, n))
      /\ UNCHANGED <<source, server, pending, inflight, log, followed>>
  BY BoundsAssumption DEF MethodFails, Base, TypeOK, Phases, LastMethod
<1>2. events' \in Seq(Event) /\ \A i \in 1..Len(events') : events'[i].of # NoId
  <2>1. UnavailableEvent(awaiting, n) \in Event /\ UnavailableEvent(awaiting, n).of = awaiting
    BY <1>1 DEF UnavailableEvent, Event
  <2> QED BY <1>1, <2>1, ReportAwaited
<1>3. awaiting' \in Nat \ {0} /\ awaiting' > InitializeId /\ awaiting' <= LastMethod + 1
  BY <1>1 DEF InitializeId
<1>4. TypeOK'
  BY <1>1, <1>2, <1>3 DEF Base, TypeOK, server
<1>5. Phases'
  BY <1>1, <1>2, <1>3 DEF Base, Phases, InitializeId
<1> QED BY <1>4, <1>5 DEF Base

LEMMA NormalizedIsEvent ==
  ASSUME Base, NEW m \in Message
  PROVE  /\ Normalized(m) \in Event /\ Normalized(m).seq = m.seq
         /\ Normalized(m).of = (IF m.id \in inflight THEN m.id ELSE NoId)
         /\ ~Normalized(m).unavailable
<1>1. m.id \in Nat /\ m.seq \in Nat
  BY DEF Message
<1>2. CASE m.id \in inflight
  <2>1. Normalized(m) = [of |-> m.id, unavailable |-> FALSE, seq |-> m.seq]
    BY <1>2 DEF Normalized, CapabilityEvent
  <2> QED BY <1>1, <1>2, <2>1 DEF Event
<1>3. CASE m.id \notin inflight
  <2>1. Normalized(m) = [of |-> NoId, unavailable |-> FALSE, seq |-> m.seq]
    BY <1>3 DEF Normalized, ServerEvent
  <2> QED BY <1>1, <1>3, <2>1 DEF Event, NoId
<1> QED BY <1>2, <1>3

LEMMA ReturnEventBase ==
  ASSUME Base, NEW m \in Message, ReturnEvent(m),
         channel' \in Seq(Message), pending' \in Seq(Message), ChannelInOrder'
  PROVE  Base'
<1>1. /\ phase = "follow" /\ phase' \in {"follow", "done"} /\ followed' \in Nat
      /\ inflight' \subseteq Nat /\ log' = Append(log, Normalized(m))
      /\ UNCHANGED <<source, server, awaiting, events>>
      /\ events = <<>> /\ awaiting = LastMethod + 1
  <2>1. /\ inflight \subseteq Nat /\ followed \in Nat
    BY DEF Base, TypeOK
  <2>2. /\ phase = "follow" /\ phase' \in {"follow", "done"} /\ followed' = followed + 1
        /\ inflight' \subseteq inflight /\ log' = Append(log, Normalized(m))
        /\ UNCHANGED <<source, server, awaiting, events>>
    BY DEF ReturnEvent
  <2>3. events = <<>> /\ awaiting = LastMethod + 1
    BY <2>2 DEF Base, Phases
  <2> QED BY <2>1, <2>2, <2>3
<1>2. log' \in Seq(Event)
  BY <1>1, NormalizedIsEvent DEF Base, TypeOK
<1>3. TypeOK'
  BY <1>1, <1>2 DEF Base, TypeOK, server
<1>4. awaiting # InitializeId
  BY <1>1, BoundsAssumption DEF LastMethod, InitializeId
<1>5. Phases'
  BY <1>1, <1>4 DEF Base, Phases
<1> QED BY <1>3, <1>5 DEF Base

\* Steps that read no line and report nothing.
QuietStep ==
  \/ AppServer /\ Die
  \/ Connect /\ ~TryNextSource
  \/ Initialize /\ ~TryNextSource
  \/ AskMethod \/ FollowUnreadable \/ IdleTimeout \/ UNCHANGED vars

LEMMA QuietLeavesLines ==
  ASSUME Base, QuietStep
  PROVE  /\ UNCHANGED <<serial, channel, pending, events, log, awaiting>>
         /\ phase' = "failed" => phase # "connect"
         /\ phase = "failed" => phase' = "failed"
<1>1. phase \in {"connect", "initialize", "ask", "wait", "follow", "done", "failed"}
  BY DEF Base, TypeOK
<1> QED BY <1>1 DEF QuietStep, AppServer, Running, Die, Connect, Initialize, AskMethod, SendRequest,
          FollowUnreadable, Fail, IdleTimeout, vars, server, collected

LEMMA QuietBase ==
  ASSUME Base, QuietStep
  PROVE  Base' /\ Read' = Read
<1>1. UNCHANGED <<serial, channel, pending, events, log, awaiting>>
  BY QuietLeavesLines
<1>2. Read' = Read /\ ChannelInOrder'
  BY <1>1 DEF Read, ChannelInOrder, Base
<1>3. /\ awaiting \in Nat \ {0} /\ outstanding \subseteq Nat /\ inflight \subseteq Nat
      /\ alive \in BOOLEAN
  BY DEF Base, TypeOK
<1>4. /\ outstanding' = outstanding \/ outstanding' = {}
           \/ outstanding' = outstanding \cup {InitializeId}
           \/ outstanding' = outstanding \cup {awaiting}
      /\ inflight' = inflight \/ inflight' = inflight \cup {awaiting}
      /\ source' = source /\ followed' = followed
  BY DEF QuietStep, AppServer, Die, Connect, Initialize, AskMethod, SendRequest,
              FollowUnreadable, Fail, IdleTimeout, vars, server, collected
<1>5. alive' = alive \/ alive' = TRUE \/ alive' = FALSE
  BY DEF QuietStep, AppServer, Die, Connect, Initialize, AskMethod, SendRequest,
         FollowUnreadable, Fail, IdleTimeout, vars, server
<1>6. \/ phase' = phase
      \/ phase = "connect" /\ phase' = "initialize"
      \/ phase = "initialize" /\ phase' = "wait"
      \/ phase = "ask" /\ awaiting <= LastMethod /\ phase' = "wait"
      \/ phase' = "failed"
      \/ phase = "follow" /\ phase' = "done"
  BY DEF QuietStep, AppServer, Die, Connect, Initialize, AskMethod, SendRequest,
         FollowUnreadable, Fail, IdleTimeout, vars
<1>7. TypeOK'
  <2>1. alive' \in BOOLEAN
    BY <1>3, <1>5
  <2>2. outstanding' \subseteq Nat /\ inflight' \subseteq Nat
    <3>1. awaiting \in Nat /\ InitializeId \in Nat
      BY <1>3 DEF InitializeId
    <3>2. outstanding' \subseteq Nat
      BY <1>3, <1>4, <3>1
    <3>3. inflight' \subseteq Nat
      BY <1>3, <1>4, <3>1
    <3> QED BY <3>2, <3>3
  <2> QED BY <1>1, <1>4, <1>6, <2>1, <2>2 DEF Base, TypeOK
<1>8. Phases'
  <2>1. InitializeId <= LastMethod
    BY BoundsAssumption DEF InitializeId, LastMethod
  <2> QED BY <1>1, <1>2, <1>6, <2>1 DEF Base, Phases
<1> QED BY <1>2, <1>7, <1>8 DEF Base

\* The session waits for the awaited response.
LEMMA FirstMatching ==
  ASSUME Base, Matching # {}
  PROVE  First(Matching) \in 1..Len(pending) /\ pending[First(Matching)].id = awaiting
<1>1. Matching \subseteq Nat
  BY DEF Matching
<1>2. \E i \in Matching : \A j \in Matching : i <= j
  <2>1. PICK i \in Matching : \A j \in Matching : <<j, i>> \notin OpToRel(<, Nat)
    BY <1>1, NatLessThanWellFounded, WFMin, Zenon
  <2>2. \A j \in Matching : ~(j < i)
    BY <1>1, <2>1 DEF OpToRel
  <2> QED BY <1>1, <2>2
<1> QED BY <1>2 DEF First, Matching

-----------------------------------------------------------------------------
(* Where the lines read are.                                               *)

\* A pending line goes into an event.
LEMMA PendingReported ==
  ASSUME NEW g \in Seq(Event), NEW p \in Seq(Message), NEW k \in 1..Len(p),
         NEW r \in Seq(Message), DropsAt(p, k, r), Increasing(p), OneEach(g),
         NEW lines \in SUBSET (Nat \ {0}), KeptOf(g, p, lines),
         NEW e \in Event, e.seq = p[k].seq
  PROVE  KeptOf(Append(g, e), r, lines) /\ OneEach(Append(g, e))
<1>1. /\ Seqs(Append(g, e)) = Seqs(g) \cup {e.seq}
      /\ Seqs(p) = Seqs(r) \cup {e.seq} /\ e.seq \notin Seqs(r)
  BY SeqsAppend, DropsSeqs
<1>2. e.seq \in lines /\ e.seq # 0 /\ e.seq \notin Seqs(g)
  BY <1>1 DEF KeptOf
<1> QED BY <1>1, <1>2, OneEachAppend DEF KeptOf

\* A line read from the channel goes into an event.
LEMMA LineReported ==
  ASSUME NEW g \in Seq(Event), NEW p \in Seq(Message), OneEach(g),
         NEW lines \in SUBSET (Nat \ {0}), KeptOf(g, p, lines),
         NEW e \in Event, e.seq # 0, e.seq \notin lines
  PROVE  KeptOf(Append(g, e), p, lines \cup {e.seq}) /\ OneEach(Append(g, e))
<1>1. Seqs(Append(g, e)) = Seqs(g) \cup {e.seq}
  BY SeqsAppend
<1>2. e.seq \notin Seqs(g) /\ e.seq \notin Seqs(p)
  BY DEF KeptOf
<1> QED BY <1>1, <1>2, OneEachAppend DEF KeptOf

\* An event that no line was read for.
LEMMA NothingReported ==
  ASSUME NEW g \in Seq(Event), NEW p \in Seq(Message), OneEach(g),
         NEW lines \in SUBSET (Nat \ {0}), KeptOf(g, p, lines),
         NEW e \in Event, e.seq = 0
  PROVE  KeptOf(Append(g, e), p, lines) /\ OneEach(Append(g, e))
<1>1. Seqs(Append(g, e)) = Seqs(g) \cup {0}
  BY SeqsAppend
<1>2. 0 \notin Seqs(p)
  BY DEF KeptOf
<1> QED BY <1>1, <1>2, OneEachAppend DEF KeptOf

\* A line read from the channel becomes pending.
LEMMA LinePostponed ==
  ASSUME NEW g \in Seq(Event), NEW p \in Seq(Message),
         NEW lines \in SUBSET (Nat \ {0}), KeptOf(g, p, lines),
         NEW m \in Message, m.seq # 0, m.seq \notin lines
  PROVE  KeptOf(g, Append(p, m), lines \cup {m.seq})
<1>1. Seqs(Append(p, m)) = Seqs(p) \cup {m.seq}
  BY SeqsAppend
<1>2. m.seq \notin Seqs(g)
  BY DEF KeptOf
<1> QED BY <1>1, <1>2 DEF KeptOf

\* The answer to the handshake leaves the pending lines.
LEMMA HandshakeTaken ==
  ASSUME NEW g \in Seq(Event), Seqs(g) = {}, NEW p \in Seq(Message), NEW k \in 1..Len(p),
         NEW r \in Seq(Message), DropsAt(p, k, r), Increasing(p),
         NEW lines, KeptOf(g, p, lines)
  PROVE  KeptOf(g, r, lines \ {p[k].seq}) /\ p[k].seq \in lines
<1>1. Seqs(p) = Seqs(r) \cup {p[k].seq} /\ p[k].seq \notin Seqs(r)
  BY DropsSeqs
<1> QED BY <1>1 DEF KeptOf

\* The events gathered.
LEMMA GatheredType == Base => Gathered \in Seq(Event)
BY DEF Base, TypeOK, Gathered

LEMMA GatherEvent ==
  ASSUME Base, NEW e \in Event, events' = Append(events, e), log' = log
  PROVE  Gathered' = Append(Gathered, e)
<1>1. PICK p \in Seq(Event), q \in Seq(Event) : p = log /\ q = events
  BY DEF Base, TypeOK
<1>2. p \o Append(q, e) = Append(p \o q, e)
  <2>1. p \o Append(q, e) \in Seq(Event) /\ Append(p \o q, e) \in Seq(Event)
    OBVIOUS
  <2>2. Len(p \o Append(q, e)) = Len(Append(p \o q, e))
    OBVIOUS
  <2>3. ASSUME NEW i \in 1..Len(Append(p \o q, e))
        PROVE  (p \o Append(q, e))[i] = Append(p \o q, e)[i]
    OBVIOUS
  <2> QED BY <2>1, <2>2, <2>3
<1> QED BY <1>1, <1>2 DEF Gathered

LEMMA GatherLogged ==
  ASSUME Base, NEW e \in Event, log' = Append(log, e), events = <<>>, events' = events
  PROVE  Gathered = log /\ Gathered' = Append(Gathered, e)
<1>1. PICK p \in Seq(Event) : p = log
  BY DEF Base, TypeOK
<1>2. p \o <<>> = p /\ Append(p, e) \o <<>> = Append(p, e)
  OBVIOUS
<1> QED BY <1>1, <1>2 DEF Gathered

LEMMA OneMoreLine ==
  ASSUME NEW n \in Nat, NEW h \in 1..n
  PROVE  /\ ((1..n) \ {h}) \cup {n + 1} = (1..(n + 1)) \ {h}
         /\ h \in 1..(n + 1) /\ n + 1 \notin (1..n) \ {h} /\ n + 1 # 0
         /\ (1..n) \ {h} \in SUBSET (Nat \ {0})
OBVIOUS

\* Steps that log nothing, and after which only younger lines are pending.
LEMMA LogStays ==
  ASSUME Base, Base', NoticesAreOlder, NoticesInOrder, log' = log, Read' >= Read,
         \A n \in Seqs(pending') : n \in Seqs(pending) \/ n > Read
  PROVE  NoticesAreOlder' /\ NoticesInOrder'
<1>1. /\ Read \in Nat /\ Read' \in Nat /\ \A i \in 1..Len(log) : log[i].seq \in Nat
      /\ \A n \in Seqs(pending') : n \in Nat
  <2>1. Read \in Nat /\ Read' \in Nat
    BY ReadNat, ReadNatNext
  <2>2. \A i \in 1..Len(log) : log[i] \in Event
    BY DEF Base, TypeOK
  <2>3. \A i \in 1..Len(pending') : pending'[i] \in Message
    BY DEF Base, TypeOK
  <2>4. \A n \in Seqs(pending') : n \in Nat
    BY <2>3 DEF Seqs, Message
  <2> QED BY <2>1, <2>2, <2>4 DEF Event
<1>2. NoticesInOrder'
  BY DEF NoticesInOrder
<1>3. ASSUME NEW i \in 1..Len(log), log[i].of = NoId
      PROVE  log[i].seq <= Read' /\ \A n \in Seqs(pending') : log[i].seq < n
  <2>1. log[i].seq <= Read /\ \A n \in Seqs(pending) : log[i].seq < n
    BY <1>3 DEF NoticesAreOlder
  <2> QED BY <1>1, <2>1
<1> QED BY <1>2, <1>3 DEF NoticesAreOlder

\* Steps that log the oldest line not yet logged.
LEMMA LogGrows ==
  ASSUME Base, Base', NoticesAreOlder, NoticesInOrder, Read' >= Read,
         NEW e \in Event, log' = Append(log, e), e.seq <= Read',
         e.seq \in Seqs(pending) \/ e.seq > Read,
         \A n \in Seqs(pending') : n \in Seqs(pending) /\ e.seq < n
  PROVE  NoticesAreOlder' /\ NoticesInOrder'
<1>1. PICK q \in Seq(Event) : q = log
  BY DEF Base, TypeOK
<1>2. /\ Len(q) \in Nat /\ Len(Append(q, e)) = Len(q) + 1
      /\ Append(q, e)[Len(q) + 1] = e
      /\ \A i \in 1..Len(q) : Append(q, e)[i] = q[i]
  OBVIOUS
<1>3. \A i \in 1..(Len(q) + 1) : i \in 1..Len(q) \/ i = Len(q) + 1
  BY <1>2
<1>4. /\ Read \in Nat /\ Read' \in Nat /\ \A i \in 1..Len(q) : q[i].seq \in Nat
      /\ e.seq \in Nat
  <2>1. Read \in Nat /\ Read' \in Nat
    BY ReadNat, ReadNatNext
  <2>2. \A i \in 1..Len(q) : q[i] \in Event
    OBVIOUS
  <2> QED BY <2>1, <2>2 DEF Event
<1>5. ASSUME NEW i \in 1..Len(q), q[i].of = NoId
      PROVE  /\ q[i].seq <= Read' /\ q[i].seq < e.seq
             /\ \A n \in Seqs(pending') : q[i].seq < n
  <2>1. q[i].seq <= Read /\ \A n \in Seqs(pending) : q[i].seq < n
    BY <1>1, <1>5 DEF NoticesAreOlder
  <2>2. q[i].seq <= Read'
    BY <1>4, <2>1
  <2>3. q[i].seq < e.seq
    BY <1>4, <2>1
  <2> QED BY <2>1, <2>2, <2>3
<1>6. NoticesAreOlder'
  <2>1. \A i \in 1..(Len(q) + 1) : Append(q, e)[i].of = NoId =>
          /\ Append(q, e)[i].seq <= Read'
          /\ \A n \in Seqs(pending') : Append(q, e)[i].seq < n
    BY <1>2, <1>3, <1>5
  <2> QED BY <1>1, <1>2, <2>1 DEF NoticesAreOlder
<1>7. NoticesInOrder'
  <2> SUFFICES ASSUME NEW i \in 1..(Len(q) + 1), NEW j \in 1..(Len(q) + 1), i < j,
                      Append(q, e)[i].of = NoId, Append(q, e)[j].of = NoId
               PROVE  Append(q, e)[i].seq < Append(q, e)[j].seq
    BY <1>1, <1>2 DEF NoticesInOrder
  <2>1. i \in 1..Len(q)
    BY <1>2
  <2>2. CASE j \in 1..Len(q)
    BY <1>1, <1>2, <2>1, <2>2 DEF NoticesInOrder
  <2>3. CASE j = Len(q) + 1
    BY <1>2, <1>5, <2>1, <2>3
  <2> QED BY <1>3, <2>2, <2>3
<1> QED BY <1>6, <1>7

LEMMA EmptySeqs == Seqs(<<>>) = {}
BY DEF Seqs

\* The phase in which a step is taken tells what is kept.
LEMMA KeptWhileAwaiting ==
  ASSUME Base, LinesInv, phase # "failed", awaiting # InitializeId
  PROVE  \E h \in 1..Read : Kept((1..Read) \ {h})
BY DEF LinesInv, ReadIsKept

LEMMA QuietLines ==
  ASSUME Base, LinesInv, QuietStep
  PROVE  LinesInv'
<1>1. UNCHANGED <<serial, channel, pending, events, log, awaiting>>
  BY QuietLeavesLines
<1>2. phase = "failed" => phase' = "failed"
  BY QuietLeavesLines
<1>3. Base' /\ Read' = Read
  BY QuietBase
<1>4. Gathered' = Gathered
  BY <1>1 DEF Gathered
<1>5. ReadIsKept'
  BY <1>1, <1>2, <1>3, <1>4 DEF LinesInv, ReadIsKept, Kept
<1>6. ChannelInOrder' /\ PendingInOrder' /\ InOneEvent' /\ NoticesAreOlder' /\ NoticesInOrder'
  BY <1>1, <1>3, <1>4 DEF Base, LinesInv, PendingInOrder, InOneEvent, NoticesAreOlder, NoticesInOrder
<1> QED BY <1>5, <1>6 DEF LinesInv

LEMMA ServerLines ==
  ASSUME Base, LinesInv, AppServer, ~Die
  PROVE  Base' /\ LinesInv'
<1>1. PICK m \in Message : m.seq = serial + 1 /\ channel' = Append(channel, m)
  BY ServerWrites DEF Base
<1>2. /\ serial' = serial + 1 /\ outstanding' \subseteq Nat /\ Running
      /\ UNCHANGED <<source, phase, alive, pending, awaiting, inflight, collected>>
  BY ServerWrites DEF Base
<1>3. ChannelInOrder' /\ Read' = Read /\ channel' \in Seq(Message)
  BY <1>1, <1>2, ChannelGrows
<1>4. TypeOK'
  <2>1. serial' \in Nat
    BY <1>2 DEF Base, TypeOK
  <2> QED BY <1>2, <1>3, <2>1 DEF Base, TypeOK, collected
<1>5. Phases'
  BY <1>2, <1>3 DEF Base, Phases, collected
<1>6. Gathered' = Gathered
  BY <1>2 DEF Gathered, collected
<1>7. ReadIsKept'
  BY <1>2, <1>3, <1>6 DEF LinesInv, ReadIsKept, Kept
<1>8. PendingInOrder' /\ InOneEvent' /\ NoticesAreOlder' /\ NoticesInOrder'
  BY <1>2, <1>3, <1>6 DEF LinesInv, PendingInOrder, InOneEvent, NoticesAreOlder,
                          NoticesInOrder, collected
<1> QED BY <1>3, <1>4, <1>5, <1>7, <1>8 DEF Base, LinesInv

LEMMA NextSourceLines ==
  ASSUME Base, LinesInv, awaiting = InitializeId, TryNextSource
  PROVE  LinesInv'
<1>1. /\ Base' /\ Read' = 0 /\ events' = <<>> /\ log' = <<>> /\ pending' = <<>>
      /\ awaiting' = InitializeId
  BY NextSourceIsNew DEF TryNextSource
<1>2. Gathered' = <<>> /\ Len(pending') = 0 /\ Len(log') = 0 /\ Len(Gathered') = 0
  BY <1>1 DEF Gathered
<1>3. ReadIsKept'
  <2>1. 1..0 = {}
    OBVIOUS
  <2> QED BY <1>1, <1>2, <2>1, EmptySeqs DEF ReadIsKept, Kept, KeptOf
<1>4. PendingInOrder' /\ InOneEvent' /\ NoticesAreOlder' /\ NoticesInOrder'
  BY <1>2 DEF PendingInOrder, Increasing, InOneEvent, OneEach, NoticesAreOlder, NoticesInOrder
<1> QED BY <1>1, <1>3, <1>4 DEF Base, LinesInv

LEMMA PostponeLines ==
  ASSUME Base, LinesInv, PostponeNext
  PROVE  Base' /\ LinesInv'
<1> DEFINE m == Head(channel)
<1>1. /\ phase = "wait" /\ channel # <<>> /\ pending' = Append(pending, m)
      /\ channel' = Tail(channel)
      /\ UNCHANGED <<source, phase, server, awaiting, inflight, collected>>
  BY DEF PostponeNext
<1>2. /\ ChannelInOrder' /\ Read' = Read + 1 /\ channel' \in Seq(Message)
      /\ m \in Message /\ m.seq = Read + 1
  BY <1>1, ChannelRead DEF server
<1>3. pending \in Seq(Message) /\ Read \in Nat /\ Gathered \in Seq(Event)
  BY ReadNat, GatheredType DEF Base, TypeOK
<1> HIDE DEF m
<1>4. pending' \in Seq(Message)
  BY <1>1, <1>2, <1>3
<1>5. Base'
  <2>1. TypeOK'
    BY <1>1, <1>2, <1>4 DEF Base, TypeOK, server, collected
  <2>2. Phases'
    BY <1>1 DEF Base, Phases, collected
  <2> QED BY <1>2, <2>1, <2>2 DEF Base
<1>6. Gathered' = Gathered
  BY <1>1 DEF Gathered, collected
<1>7. ASSUME NEW lines \in SUBSET (Nat \ {0}), lines \subseteq 1..Read, Kept(lines)
      PROVE  KeptOf(Gathered', pending', lines \cup {Read + 1}) /\ PendingInOrder'
             /\ \A n \in Seqs(pending') : n \in Seqs(pending) \/ n > Read
  <2>1. m.seq # 0 /\ m.seq \notin lines
    BY <1>2, <1>3, <1>7
  <2>2. KeptOf(Gathered, Append(pending, m), lines \cup {m.seq})
    BY <1>2, <1>3, <1>7, <2>1, LinePostponed DEF Kept
  <2>3. Increasing(Append(pending, m))
    <3>1. \A n \in Seqs(pending) : n \in 1..Read
      BY <1>7 DEF Kept, KeptOf
    <3>2. \A n \in Seqs(pending) : n < m.seq
      BY <1>2, <1>3, <3>1
    <3> QED BY <1>2, <1>3, <3>2, IncreasingAppend DEF LinesInv, PendingInOrder
  <2>4. Seqs(Append(pending, m)) = Seqs(pending) \cup {Read + 1}
    BY <1>2, <1>3, SeqsAppend
  <2>5. Read + 1 > Read
    BY <1>3
  <2>6. KeptOf(Gathered', pending', lines \cup {Read + 1})
    BY <1>1, <1>2, <1>6, <2>2
  <2> QED BY <1>1, <2>3, <2>4, <2>5, <2>6 DEF PendingInOrder
<1>8. ReadIsKept' /\ PendingInOrder' /\ \A n \in Seqs(pending') : n \in Seqs(pending) \/ n > Read
  <2>1. CASE awaiting = InitializeId
    <3>1. Kept(1..Read)
      BY <1>1, <2>1 DEF LinesInv, ReadIsKept
    <3>2. 1..Read \in SUBSET (Nat \ {0}) /\ (1..Read) \cup {Read + 1} = 1..(Read + 1)
      BY <1>3
    <3>3. KeptOf(Gathered', pending', 1..(Read + 1)) /\ PendingInOrder'
          /\ \A n \in Seqs(pending') : n \in Seqs(pending) \/ n > Read
      BY <1>7, <3>1, <3>2
    <3> QED BY <1>1, <1>2, <2>1, <3>3 DEF ReadIsKept, Kept
  <2>2. CASE awaiting # InitializeId
    <3>1. PICK h \in 1..Read : Kept((1..Read) \ {h})
      BY <1>1, <2>2, KeptWhileAwaiting
    <3>2. /\ ((1..Read) \ {h}) \cup {Read + 1} = (1..(Read + 1)) \ {h}
          /\ h \in 1..(Read + 1) /\ (1..Read) \ {h} \in SUBSET (Nat \ {0})
      BY <1>3, OneMoreLine
    <3>3. KeptOf(Gathered', pending', (1..(Read + 1)) \ {h}) /\ PendingInOrder'
          /\ \A n \in Seqs(pending') : n \in Seqs(pending) \/ n > Read
      BY <1>7, <3>1, <3>2
    <3> QED BY <1>1, <1>2, <2>2, <3>2, <3>3 DEF ReadIsKept, Kept
  <2> QED BY <2>1, <2>2
<1>9. InOneEvent' /\ log' = log /\ Read' >= Read
  BY <1>1, <1>2, <1>3, <1>6 DEF LinesInv, InOneEvent, collected
<1>10. NoticesAreOlder' /\ NoticesInOrder'
  BY <1>5, <1>8, <1>9, LogStays DEF LinesInv
<1> QED BY <1>5, <1>8, <1>9, <1>10 DEF Base, LinesInv

LEMMA KeptNext ==
  ASSUME awaiting' # InitializeId, NEW h \in 1..Read',
         KeptOf(Gathered', pending', (1..Read') \ {h})
  PROVE  ReadIsKept'
BY DEF ReadIsKept, Kept

\* What holds when the session awaits a response.
LEMMA WhileWaiting ==
  ASSUME Base, LinesInv, phase = "wait"
  PROVE  /\ pending \in Seq(Message) /\ Read \in Nat /\ Gathered \in Seq(Event)
         /\ awaiting \in Nat \ {0} /\ awaiting + 1 # InitializeId
         /\ Increasing(pending) /\ OneEach(Gathered)
         /\ IF awaiting = InitializeId
              THEN Seqs(Gathered) = {} /\ Kept(1..Read)
              ELSE \E h \in 1..Read : Kept((1..Read) \ {h})
<1>1. /\ pending \in Seq(Message) /\ Read \in Nat /\ Gathered \in Seq(Event)
      /\ awaiting \in Nat \ {0}
  BY ReadNat, GatheredType DEF Base, TypeOK
<1>2. awaiting + 1 # InitializeId
  BY <1>1 DEF InitializeId
<1>3. Increasing(pending) /\ OneEach(Gathered)
  BY DEF LinesInv, PendingInOrder, InOneEvent
<1>4. CASE awaiting = InitializeId
  <2>1. Gathered = <<>>
    BY <1>4 DEF Base, Phases, Gathered
  <2>2. Kept(1..Read)
    BY <1>4 DEF LinesInv, ReadIsKept
  <2> QED BY <1>1, <1>2, <1>3, <1>4, <2>1, <2>2, EmptySeqs
<1>5. CASE awaiting # InitializeId
  BY <1>1, <1>2, <1>3, <1>5, KeptWhileAwaiting
<1> QED BY <1>4, <1>5

LEMMA TakenIsEvent ==
  ASSUME Base, NEW m \in Message
  PROVE  /\ CapabilityEvent(awaiting, m) \in Event
         /\ CapabilityEvent(awaiting, m).seq = m.seq
<1>1. awaiting \in Nat /\ m.seq \in Nat
  BY DEF Base, TypeOK, Message
<1> QED BY <1>1 DEF CapabilityEvent, Event

LEMMA TakePendingLines ==
  ASSUME Base, LinesInv, TakePending
  PROVE  Base' /\ LinesInv'
<1> DEFINE k == First(Matching)
           m == pending[k]
           r == WithoutIndex(pending, k)
<1>1. /\ phase = "wait" /\ Matching # {} /\ Take(m) /\ pending' = r /\ UNCHANGED channel
      /\ UNCHANGED <<source, server, log, followed>> /\ awaiting' = awaiting + 1
  BY DEF TakePending, Take
<1>2. k \in 1..Len(pending)
  BY <1>1, FirstMatching
<1>3. /\ pending \in Seq(Message) /\ Read \in Nat /\ Gathered \in Seq(Event)
      /\ awaiting' # InitializeId /\ Increasing(pending) /\ OneEach(Gathered)
  BY <1>1, WhileWaiting
<1>4. m \in Message /\ r \in Seq(Message) /\ DropsAt(pending, k, r)
  BY <1>2, <1>3, WithoutIndexDrops
<1>5. /\ Increasing(r) /\ Seqs(pending) = Seqs(r) \cup {m.seq}
  BY <1>2, <1>3, <1>4, DropsSeqs
<1>6. channel' \in Seq(Message) /\ ChannelInOrder' /\ Read' = Read
  BY <1>1 DEF Base, TypeOK, ChannelInOrder, Read, server
<1> HIDE DEF k, m, r
<1>7. Base'
  <2>1. pending' \in Seq(Message)
    BY <1>1, <1>4
  <2> QED BY <1>1, <1>4, <1>6, <2>1, TakeBase
<1>8. ReadIsKept' /\ OneEach(Gathered')
  <2>1. CASE awaiting = InitializeId
    <3>1. Seqs(Gathered) = {} /\ KeptOf(Gathered, pending, 1..Read)
      BY <1>1, <2>1, WhileWaiting DEF Kept
    <3>2. KeptOf(Gathered, r, (1..Read) \ {m.seq}) /\ m.seq \in 1..Read
      BY <1>2, <1>3, <1>4, <3>1, HandshakeTaken DEF m
    <3>3. Gathered' = Gathered
      BY <1>1, <2>1 DEF Take, Gathered
    <3>4. m.seq \in 1..Read' /\ KeptOf(Gathered', pending', (1..Read') \ {m.seq})
      BY <1>1, <1>6, <3>2, <3>3
    <3> QED BY <1>3, <3>3, <3>4, KeptNext
  <2>2. CASE awaiting # InitializeId
    <3>1. PICK h \in 1..Read : KeptOf(Gathered, pending, (1..Read) \ {h})
      BY <1>1, <2>2, WhileWaiting DEF Kept
    <3>2. (1..Read) \ {h} \in SUBSET (Nat \ {0})
      BY <1>3, OneMoreLine
    <3>3. PICK e \in Event : e = CapabilityEvent(awaiting, m) /\ e.seq = pending[k].seq
      BY <1>4, TakenIsEvent DEF m
    <3>4. Gathered' = Append(Gathered, e)
      BY <1>1, <2>2, <3>3, GatherEvent DEF Take
    <3>5. KeptOf(Append(Gathered, e), r, (1..Read) \ {h}) /\ OneEach(Append(Gathered, e))
      BY <1>2, <1>3, <1>4, <3>1, <3>2, <3>3, PendingReported
    <3>6. h \in 1..Read' /\ KeptOf(Gathered', pending', (1..Read') \ {h})
      BY <1>1, <1>6, <3>4, <3>5
    <3> QED BY <1>3, <3>4, <3>5, <3>6, KeptNext
  <2> QED BY <2>1, <2>2
<1>9. NoticesAreOlder' /\ NoticesInOrder'
  <2>1. Read' >= Read
    BY <1>3, <1>6
  <2> QED BY <1>1, <1>5, <1>7, <2>1, LogStays DEF LinesInv
<1>10. PendingInOrder' /\ InOneEvent'
  BY <1>1, <1>5, <1>8 DEF PendingInOrder, InOneEvent
<1> QED BY <1>6, <1>7, <1>8, <1>9, <1>10 DEF LinesInv

LEMMA TakeNextLines ==
  ASSUME Base, LinesInv, TakeNext
  PROVE  Base' /\ LinesInv'
<1> DEFINE m == Head(channel)
<1>1. /\ phase = "wait" /\ channel # <<>> /\ Take(m) /\ channel' = Tail(channel)
      /\ UNCHANGED <<source, server, log, followed>> /\ awaiting' = awaiting + 1
      /\ pending' = pending
  BY DEF TakeNext, Take
<1>2. /\ ChannelInOrder' /\ Read' = Read + 1 /\ channel' \in Seq(Message)
      /\ m \in Message /\ m.seq = Read + 1
  BY <1>1, ChannelRead DEF server
<1>3. /\ pending \in Seq(Message) /\ Read \in Nat /\ Gathered \in Seq(Event)
      /\ awaiting' # InitializeId /\ Increasing(pending) /\ OneEach(Gathered)
  BY <1>1, WhileWaiting
<1> HIDE DEF m
<1>4. Base'
  BY <1>1, <1>2, <1>3, TakeBase
<1>5. ReadIsKept' /\ OneEach(Gathered')
  <2>1. CASE awaiting = InitializeId
    <3>1. KeptOf(Gathered, pending, 1..Read)
      BY <1>1, <2>1, WhileWaiting DEF Kept
    <3>2. 1..Read = (1..(Read + 1)) \ {Read + 1} /\ Read + 1 \in 1..(Read + 1)
      BY <1>3
    <3>3. Gathered' = Gathered
      BY <1>1, <2>1 DEF Take, Gathered
    <3>4. Read + 1 \in 1..Read' /\ KeptOf(Gathered', pending', (1..Read') \ {Read + 1})
      BY <1>1, <1>2, <3>1, <3>2, <3>3
    <3> QED BY <1>3, <3>3, <3>4, KeptNext
  <2>2. CASE awaiting # InitializeId
    <3>1. PICK h \in 1..Read : KeptOf(Gathered, pending, (1..Read) \ {h})
      BY <1>1, <2>2, WhileWaiting DEF Kept
    <3>2. PICK e \in Event : e = CapabilityEvent(awaiting, m) /\ e.seq = Read + 1
      BY <1>2, TakenIsEvent
    <3>3. Gathered' = Append(Gathered, e)
      BY <1>1, <2>2, <3>2, GatherEvent DEF Take
    <3>4. /\ ((1..Read) \ {h}) \cup {Read + 1} = (1..(Read + 1)) \ {h}
          /\ h \in 1..(Read + 1) /\ Read + 1 \notin (1..Read) \ {h} /\ Read + 1 # 0
          /\ (1..Read) \ {h} \in SUBSET (Nat \ {0})
      BY <1>3, OneMoreLine
    <3>5. /\ KeptOf(Append(Gathered, e), pending, ((1..Read) \ {h}) \cup {e.seq})
          /\ OneEach(Append(Gathered, e))
      BY <1>3, <3>1, <3>2, <3>4, LineReported
    <3>6. h \in 1..Read' /\ KeptOf(Gathered', pending', (1..Read') \ {h})
      BY <1>1, <1>2, <3>2, <3>3, <3>4, <3>5
    <3> QED BY <1>3, <3>3, <3>5, <3>6, KeptNext
  <2> QED BY <2>1, <2>2
<1>6. NoticesAreOlder' /\ NoticesInOrder'
  <2>1. Read' >= Read
    BY <1>2, <1>3
  <2> QED BY <1>1, <1>4, <2>1, LogStays DEF LinesInv
<1>7. PendingInOrder' /\ InOneEvent'
  BY <1>1, <1>3, <1>5 DEF PendingInOrder, InOneEvent
<1> QED BY <1>2, <1>4, <1>5, <1>6, <1>7 DEF LinesInv

LEMMA UnavailableIsEvent ==
  ASSUME Base, NEW n \in Nat
  PROVE  /\ UnavailableEvent(awaiting, n) \in Event
         /\ UnavailableEvent(awaiting, n).seq = n
<1>1. awaiting \in Nat
  BY DEF Base, TypeOK
<1> QED BY <1>1 DEF UnavailableEvent, Event

LEMMA TimesOutLines ==
  ASSUME Base, LinesInv, ResponseTimesOut
  PROVE  Base' /\ LinesInv'
<1>1. /\ phase = "wait" /\ awaiting # InitializeId /\ MethodFails(0) /\ channel' = channel
      /\ UNCHANGED <<source, server, pending, inflight, log, followed>>
      /\ events' = Append(events, UnavailableEvent(awaiting, 0)) /\ awaiting' = awaiting + 1
  BY DEF ResponseTimesOut, MethodFails
<1>2. channel' \in Seq(Message) /\ ChannelInOrder' /\ Read' = Read
  BY <1>1 DEF Base, TypeOK, ChannelInOrder, Read, server
<1>3. /\ pending \in Seq(Message) /\ Read \in Nat /\ Gathered \in Seq(Event)
      /\ awaiting' # InitializeId /\ Increasing(pending) /\ OneEach(Gathered)
  BY <1>1, WhileWaiting
<1>4. Base'
  BY <1>1, <1>2, MethodFailsBase
<1>5. ReadIsKept' /\ OneEach(Gathered')
  <2>1. PICK h \in 1..Read : KeptOf(Gathered, pending, (1..Read) \ {h})
    BY <1>1, WhileWaiting DEF Kept
  <2>2. PICK e \in Event : e = UnavailableEvent(awaiting, 0) /\ e.seq = 0
    BY UnavailableIsEvent
  <2>3. Gathered' = Append(Gathered, e)
    BY <1>1, <2>2, GatherEvent
  <2>4. (1..Read) \ {h} \in SUBSET (Nat \ {0})
    BY <1>3, OneMoreLine
  <2>5. KeptOf(Append(Gathered, e), pending, (1..Read) \ {h}) /\ OneEach(Append(Gathered, e))
    BY <1>3, <2>1, <2>2, <2>4, NothingReported
  <2>6. h \in 1..Read' /\ KeptOf(Gathered', pending', (1..Read') \ {h})
    BY <1>1, <1>2, <2>3, <2>5
  <2> QED BY <1>3, <2>3, <2>5, <2>6, KeptNext
<1>6. NoticesAreOlder' /\ NoticesInOrder'
  <2>1. Read' >= Read
    BY <1>2, <1>3
  <2> QED BY <1>1, <1>4, <2>1, LogStays DEF LinesInv
<1>7. PendingInOrder' /\ InOneEvent'
  BY <1>1, <1>3, <1>5 DEF PendingInOrder, InOneEvent
<1> QED BY <1>2, <1>4, <1>5, <1>6, <1>7 DEF LinesInv

LEMMA UnreadableLines ==
  ASSUME Base, LinesInv, ResponseUnreadable
  PROVE  Base' /\ LinesInv'
<1> DEFINE n == Head(channel).seq
<1>1. /\ phase = "wait" /\ awaiting # InitializeId /\ MethodFails(n)
      /\ channel # <<>> /\ channel' = Tail(channel)
      /\ UNCHANGED <<source, server, pending, inflight, log, followed>>
      /\ events' = Append(events, UnavailableEvent(awaiting, n)) /\ awaiting' = awaiting + 1
  BY DEF ResponseUnreadable, MethodFails
<1>2. /\ ChannelInOrder' /\ Read' = Read + 1 /\ channel' \in Seq(Message)
      /\ n = Read + 1
  BY <1>1, ChannelRead DEF server
<1>3. /\ pending \in Seq(Message) /\ Read \in Nat /\ Gathered \in Seq(Event)
      /\ awaiting' # InitializeId /\ Increasing(pending) /\ OneEach(Gathered)
  BY <1>1, WhileWaiting
<1> HIDE DEF n
<1>4. n \in Nat
  BY <1>2, <1>3
<1>5. Base'
  BY <1>1, <1>2, <1>4, MethodFailsBase
<1>6. ReadIsKept' /\ OneEach(Gathered')
  <2>1. PICK h \in 1..Read : KeptOf(Gathered, pending, (1..Read) \ {h})
    BY <1>1, WhileWaiting DEF Kept
  <2>2. PICK e \in Event : e = UnavailableEvent(awaiting, n) /\ e.seq = Read + 1
    BY <1>2, <1>4, UnavailableIsEvent
  <2>3. Gathered' = Append(Gathered, e)
    BY <1>1, <2>2, GatherEvent
  <2>4. /\ ((1..Read) \ {h}) \cup {Read + 1} = (1..(Read + 1)) \ {h}
        /\ h \in 1..(Read + 1) /\ Read + 1 \notin (1..Read) \ {h} /\ Read + 1 # 0
        /\ (1..Read) \ {h} \in SUBSET (Nat \ {0})
    BY <1>3, OneMoreLine
  <2>5. /\ KeptOf(Append(Gathered, e), pending, ((1..Read) \ {h}) \cup {e.seq})
        /\ OneEach(Append(Gathered, e))
    BY <1>3, <2>1, <2>2, <2>4, LineReported
  <2>6. h \in 1..Read' /\ KeptOf(Gathered', pending', (1..Read') \ {h})
    BY <1>1, <1>2, <2>2, <2>3, <2>4, <2>5
  <2> QED BY <1>3, <2>3, <2>5, <2>6, KeptNext
<1>7. NoticesAreOlder' /\ NoticesInOrder'
  <2>1. Read' >= Read
    BY <1>2, <1>3
  <2> QED BY <1>1, <1>5, <2>1, LogStays DEF LinesInv
<1>8. PendingInOrder' /\ InOneEvent'
  BY <1>1, <1>3, <1>6 DEF PendingInOrder, InOneEvent
<1> QED BY <1>2, <1>5, <1>6, <1>7, <1>8 DEF LinesInv

\* What holds in the follow loop.
LEMMA WhileFollowing ==
  ASSUME Base, LinesInv, NEW m \in Message, ReturnEvent(m)
  PROVE  /\ pending \in Seq(Message) /\ Read \in Nat /\ Gathered \in Seq(Event)
         /\ awaiting # InitializeId /\ awaiting' # InitializeId /\ phase = "follow"
         /\ Increasing(pending) /\ OneEach(Gathered)
         /\ \E h \in 1..Read : Kept((1..Read) \ {h})
         /\ \E e \in Event : /\ e.seq = m.seq /\ log' = Append(log, e)
                             /\ Gathered' = Append(Gathered, e)
         /\ UNCHANGED <<source, server, awaiting, events>>
<1>1. /\ pending \in Seq(Message) /\ Read \in Nat /\ Gathered \in Seq(Event)
  BY ReadNat, GatheredType DEF Base, TypeOK
<1>2. /\ phase = "follow" /\ log' = Append(log, Normalized(m)) /\ events = <<>>
      /\ UNCHANGED <<source, server, awaiting, events>>
  BY DEF ReturnEvent, Base, Phases
<1>3. awaiting # InitializeId
  BY <1>2, BoundsAssumption DEF Base, Phases, LastMethod, InitializeId
<1>4. Increasing(pending) /\ OneEach(Gathered)
  BY DEF LinesInv, PendingInOrder, InOneEvent
<1>5. PICK e \in Event : e = Normalized(m) /\ e.seq = m.seq
  BY NormalizedIsEvent
<1>6. log' = Append(log, e) /\ Gathered' = Append(Gathered, e)
  BY <1>2, <1>5, GatherLogged
<1>7. \E h \in 1..Read : Kept((1..Read) \ {h})
  BY <1>2, <1>3, KeptWhileAwaiting
<1> QED BY <1>1, <1>2, <1>3, <1>4, <1>5, <1>6, <1>7

LEMMA FollowPendingLines ==
  ASSUME Base, LinesInv, FollowPending
  PROVE  Base' /\ LinesInv'
<1> DEFINE m == Head(pending)
           r == Tail(pending)
<1>1. pending # <<>> /\ ReturnEvent(m) /\ pending' = r /\ UNCHANGED channel
  BY DEF FollowPending
<1>2. pending \in Seq(Message)
  BY DEF Base, TypeOK
<1>3. PICK k \in Nat : k = 1
  OBVIOUS
<1>4. /\ r \in Seq(Message) /\ m \in Message
      /\ k \in 1..Len(pending) /\ m = pending[k] /\ DropsAt(pending, k, r)
  BY <1>1, <1>2, <1>3, TailDrops
<1> HIDE DEF m, r
<1>5. /\ Read \in Nat /\ Gathered \in Seq(Event)
      /\ awaiting # InitializeId /\ awaiting' # InitializeId /\ phase = "follow"
      /\ Increasing(pending) /\ OneEach(Gathered)
      /\ UNCHANGED <<source, server, awaiting, events>>
  BY <1>1, <1>4, WhileFollowing
<1>6. PICK h \in 1..Read : KeptOf(Gathered, pending, (1..Read) \ {h})
  BY <1>1, <1>4, WhileFollowing DEF Kept
<1>7. PICK e \in Event : /\ e.seq = m.seq /\ log' = Append(log, e)
                         /\ Gathered' = Append(Gathered, e)
  BY <1>1, <1>4, WhileFollowing
<1>8. channel' \in Seq(Message) /\ ChannelInOrder' /\ Read' = Read
  BY <1>1, <1>5 DEF Base, TypeOK, ChannelInOrder, Read, server
<1>9. Base'
  <2>1. pending' \in Seq(Message)
    BY <1>1, <1>4
  <2> QED BY <1>1, <1>4, <1>8, <2>1, ReturnEventBase
<1>10. KeptOf(Append(Gathered, e), r, (1..Read) \ {h}) /\ OneEach(Append(Gathered, e))
  <2>1. (1..Read) \ {h} \in SUBSET (Nat \ {0})
    BY <1>5, OneMoreLine
  <2>2. e.seq = pending[k].seq
    BY <1>4, <1>7
  <2> QED BY <1>2, <1>4, <1>5, <1>6, <2>1, <2>2, PendingReported
<1>11. ReadIsKept' /\ InOneEvent'
  <2>1. h \in 1..Read' /\ KeptOf(Gathered', pending', (1..Read') \ {h})
    BY <1>1, <1>7, <1>8, <1>10
  <2> QED BY <1>5, <1>7, <1>10, <2>1, KeptNext DEF InOneEvent
<1>12. PendingInOrder' /\ Seqs(pending) = Seqs(r) \cup {m.seq}
  BY <1>1, <1>2, <1>4, <1>5, DropsSeqs DEF PendingInOrder
<1>13. \A n \in Seqs(r) : m.seq < n
  <2>1. ASSUME NEW j \in 1..Len(r) PROVE m.seq < r[j].seq
    <3>1. /\ j \in 1..(Len(pending) - 1) /\ ~(j < 1) /\ 1 < j + 1
          /\ j + 1 \in 1..Len(pending) /\ 1 \in 1..Len(pending)
      BY <1>2, <1>4 DEF DropsAt
    <3>2. r[j] = pending[j + 1]
      BY <1>3, <1>4, <3>1 DEF DropsAt
    <3>3. pending[1].seq < pending[j + 1].seq
      BY <1>5, <3>1 DEF Increasing
    <3> QED BY <1>3, <1>4, <3>2, <3>3
  <2> QED BY <2>1 DEF Seqs
<1>14. NoticesAreOlder' /\ NoticesInOrder'
  <2>1. e.seq \in Seqs(pending) /\ \A n \in Seqs(pending') : n \in Seqs(pending) /\ e.seq < n
    BY <1>1, <1>7, <1>12, <1>13
  <2>2. e.seq <= Read' /\ Read' >= Read
    <3>1. e.seq \in 1..Read
      BY <1>6, <2>1 DEF KeptOf
    <3> QED BY <1>5, <1>8, <3>1
  <2> QED BY <1>7, <1>9, <2>1, <2>2, LogGrows DEF LinesInv
<1> QED BY <1>8, <1>9, <1>11, <1>12, <1>14 DEF LinesInv

LEMMA FollowNextLines ==
  ASSUME Base, LinesInv, FollowNext
  PROVE  Base' /\ LinesInv'
<1> DEFINE m == Head(channel)
<1>1. /\ pending = <<>> /\ channel # <<>> /\ ReturnEvent(m)
      /\ channel' = Tail(channel) /\ pending' = pending /\ serial' = serial
  BY DEF FollowNext, ReturnEvent, server
<1>2. /\ ChannelInOrder' /\ Read' = Read + 1 /\ channel' \in Seq(Message)
      /\ m \in Message /\ m.seq = Read + 1
  BY <1>1, ChannelRead
<1> HIDE DEF m
<1>3. /\ Read \in Nat /\ Gathered \in Seq(Event) /\ pending \in Seq(Message)
      /\ awaiting # InitializeId /\ awaiting' # InitializeId /\ phase = "follow"
      /\ Increasing(pending) /\ OneEach(Gathered)
  BY <1>1, <1>2, WhileFollowing
<1>4. PICK h \in 1..Read : KeptOf(Gathered, pending, (1..Read) \ {h})
  BY <1>1, <1>2, WhileFollowing DEF Kept
<1>5. PICK e \in Event : /\ e.seq = m.seq /\ log' = Append(log, e)
                         /\ Gathered' = Append(Gathered, e)
  BY <1>1, <1>2, WhileFollowing
<1>6. Base'
  BY <1>1, <1>2, <1>3, ReturnEventBase
<1>7. /\ ((1..Read) \ {h}) \cup {Read + 1} = (1..(Read + 1)) \ {h}
      /\ h \in 1..(Read + 1) /\ Read + 1 \notin (1..Read) \ {h} /\ Read + 1 # 0
      /\ (1..Read) \ {h} \in SUBSET (Nat \ {0})
  BY <1>3, OneMoreLine
<1>8. /\ KeptOf(Append(Gathered, e), pending, ((1..Read) \ {h}) \cup {e.seq})
      /\ OneEach(Append(Gathered, e))
  BY <1>2, <1>3, <1>4, <1>5, <1>7, LineReported
<1>9. ReadIsKept' /\ InOneEvent'
  <2>1. h \in 1..Read' /\ KeptOf(Gathered', pending', (1..Read') \ {h})
    BY <1>1, <1>2, <1>5, <1>7, <1>8
  <2> QED BY <1>3, <1>5, <1>8, <2>1, KeptNext DEF InOneEvent
<1>10. NoticesAreOlder' /\ NoticesInOrder'
  <2>1. Seqs(pending') = {}
    BY <1>1, EmptySeqs
  <2>2. e.seq <= Read' /\ e.seq > Read /\ Read' >= Read
    BY <1>2, <1>3, <1>5
  <2> QED BY <1>5, <1>6, <2>1, <2>2, LogGrows DEF LinesInv
<1>11. PendingInOrder'
  BY <1>1 DEF LinesInv, PendingInOrder
<1> QED BY <1>2, <1>6, <1>9, <1>10, <1>11 DEF LinesInv

LEMMA PublishLines ==
  ASSUME Base, LinesInv, PublishCapabilities
  PROVE  Base' /\ LinesInv'
<1>1. /\ phase = "ask" /\ awaiting > LastMethod /\ log' = log \o events /\ events' = <<>>
      /\ phase' = "follow" /\ log = <<>>
      /\ UNCHANGED <<source, server, channel, pending, awaiting, inflight, followed>>
  BY DEF PublishCapabilities, Base, Phases
<1>2. events \in Seq(Event) /\ awaiting \in Nat /\ awaiting <= LastMethod + 1 /\ LastMethod \in Nat
  BY <1>1, BoundsAssumption DEF Base, TypeOK, Phases, LastMethod
<1>3. log' = events
  <2>1. <<>> \o events = events
    BY <1>2
  <2> QED BY <1>1, <2>1
<1>4. Gathered = events /\ Gathered' = events
  <2>1. <<>> \o events = events /\ events \o <<>> = events
    BY <1>2
  <2> QED BY <1>1, <1>3, <2>1 DEF Gathered
<1>5. channel' \in Seq(Message) /\ ChannelInOrder' /\ Read' = Read
  BY <1>1 DEF Base, TypeOK, ChannelInOrder, Read, server
<1>6. Base'
  <2>1. TypeOK'
    <3>1. events' \in Seq(Event)
      BY <1>1
    <3> QED BY <1>1, <1>2, <1>3, <1>5, <3>1 DEF Base, TypeOK, server
  <2>2. Phases'
    <3>1. awaiting' = LastMethod + 1 /\ awaiting # InitializeId
      BY <1>1, <1>2 DEF Base, Phases
    <3>2. Len(events') = 0
      BY <1>1
    <3> QED BY <1>1, <3>1, <3>2 DEF Phases
  <2> QED BY <1>5, <2>1, <2>2 DEF Base
<1>7. ReadIsKept' /\ InOneEvent' /\ PendingInOrder'
  BY <1>1, <1>4, <1>5 DEF LinesInv, ReadIsKept, Kept, InOneEvent, PendingInOrder
<1>8. NoticesAreOlder' /\ NoticesInOrder'
  BY <1>3 DEF Base, Phases, NoticesAreOlder, NoticesInOrder
<1> QED BY <1>5, <1>6, <1>7, <1>8 DEF LinesInv

-----------------------------------------------------------------------------
(* Every line read is kept.                                                *)

LEMMA InitLines == Init => Base /\ LinesInv
<1> SUFFICES ASSUME Init PROVE Base /\ LinesInv
  OBVIOUS
<1>1. Base
  BY InitBase
<1>2. /\ Gathered = <<>> /\ Len(Gathered) = 0 /\ pending = <<>> /\ Len(pending) = 0
      /\ log = <<>> /\ Len(log) = 0 /\ awaiting = InitializeId /\ Read = 0
  <2>1. /\ log = <<>> /\ events = <<>> /\ pending = <<>> /\ channel = <<>>
        /\ serial = 0 /\ awaiting = InitializeId
    BY DEF Init
  <2>2. <<>> \o <<>> = <<>> /\ Len(<<>>) = 0
    OBVIOUS
  <2>3. Gathered = <<>>
    BY <2>1, <2>2 DEF Gathered
  <2>4. Len(Gathered) = 0 /\ Len(pending) = 0 /\ Len(log) = 0
    BY <2>1, <2>2, <2>3
  <2>5. Read = 0 - 0
    BY <2>1, <2>2 DEF Read
  <2> QED BY <2>1, <2>3, <2>4, <2>5
<1>3. ReadIsKept
  <2>1. 1..0 = {}
    OBVIOUS
  <2> QED BY <1>2, <2>1, EmptySeqs DEF ReadIsKept, Kept, KeptOf
<1>4. PendingInOrder /\ InOneEvent /\ NoticesAreOlder /\ NoticesInOrder
  BY <1>2 DEF PendingInOrder, Increasing, InOneEvent, OneEach, NoticesAreOlder, NoticesInOrder
<1> QED BY <1>1, <1>3, <1>4 DEF Base, LinesInv

LEMMA StepLines ==
  ASSUME Base, LinesInv, [Next]_vars
  PROVE  Base' /\ LinesInv'
<1>1. CASE QuietStep
  BY <1>1, QuietBase, QuietLines
<1>2. CASE AppServer /\ ~Die
  BY <1>2, ServerLines
<1>3. CASE (Connect \/ Initialize \/ InitializeFails) /\ TryNextSource
  <2>1. awaiting = InitializeId
    BY <1>3 DEF Connect, Initialize, InitializeFails, Base, Phases
  <2> QED BY <1>3, <2>1, NextSourceIsNew, NextSourceLines
<1>4. CASE TakePending
  BY <1>4, TakePendingLines
<1>5. CASE TakeNext
  BY <1>5, TakeNextLines
<1>6. CASE PostponeNext
  BY <1>6, PostponeLines
<1>7. CASE ResponseTimesOut
  BY <1>7, TimesOutLines
<1>8. CASE ResponseUnreadable
  BY <1>8, UnreadableLines
<1>9. CASE FollowPending
  BY <1>9, FollowPendingLines
<1>10. CASE FollowNext
  BY <1>10, FollowNextLines
<1>11. CASE PublishCapabilities
  BY <1>11, PublishLines
<1>12. InitializeFails => TryNextSource
  BY DEF InitializeFails
<1> QED BY <1>1, <1>2, <1>3, <1>4, <1>5, <1>6, <1>7, <1>8, <1>9, <1>10, <1>11, <1>12
        DEF Next, Observer, Await, Follow, QuietStep

LEMMA LinesAlways == Spec => [](Base /\ LinesInv)
BY InitLines, StepLines, PTL DEF Spec

\* Once the handshake is done, every line of the app server that was read is
\* in an event or pending, in one place only and in its order, whatever lines
\* were taken out of their order in between and whichever requests failed.
THEOREM LinesAreKept == Spec => []EveryLineReadIsKept
<1>1. ASSUME Base, LinesInv PROVE EveryLineReadIsKept
  <2> SUFFICES ASSUME phase \in {"ask", "wait", "follow", "done"}, awaiting > InitializeId
               PROVE  EveryLineReadIsKept
    BY DEF EveryLineReadIsKept
  <2>1. phase # "failed" /\ awaiting # InitializeId
    BY DEF Base, TypeOK, InitializeId
  <2>2. PICK h \in 1..Read : Kept((1..Read) \ {h})
    BY <1>1, <2>1, KeptWhileAwaiting
  <2> QED BY <1>1, <2>2 DEF EveryLineReadIsKept, Read, Kept, KeptOf, LinesInv, PendingInOrder,
                            Increasing, InOneEvent, OneEach
<1> QED BY <1>1, LinesAlways, PTL

-----------------------------------------------------------------------------
(* Every method is reported.                                               *)

LEMMA AppendElements ==
  ASSUME NEW g \in Seq(Event), NEW e \in Event
  PROVE  /\ Len(g) \in Nat /\ Len(Append(g, e)) = Len(g) + 1
         /\ Append(g, e)[Len(g) + 1] = e
         /\ \A i \in 1..Len(g) : Append(g, e)[i] = g[i]
         /\ \A i : i \in 1..(Len(g) + 1) <=> i \in 1..Len(g) \/ i = Len(g) + 1
OBVIOUS

LEMMA OthersReported ==
  ASSUME NEW g \in Seq(Event), NEW e \in Event, NEW id, e.of # id
  PROVE  AboutOf(Append(g, e), id) = AboutOf(g, id) /\ KnownOf(Append(g, e), id) = KnownOf(g, id)
<1>1. AboutOf(Append(g, e), id) = AboutOf(g, id)
  BY AppendElements DEF AboutOf
<1>2. \A i \in AboutOf(g, id) : Append(g, e)[i] = g[i]
  BY AppendElements DEF AboutOf
<1> QED BY <1>1, <1>2 DEF KnownOf

LEMMA MethodReported ==
  ASSUME NEW g \in Seq(Event), NEW e \in Event, KnownOf(g, e.of) = {}
  PROVE  /\ AboutOf(Append(g, e), e.of) # {}
         /\ e.unavailable => KnownOf(Append(g, e), e.of) = {}
         /\ ~e.unavailable => KnownOf(Append(g, e), e.of) # {}
         /\ \A i \in AboutOf(Append(g, e), e.of), k \in KnownOf(Append(g, e), e.of) : i <= k
<1> DEFINE h == Append(g, e)
<1>1. AboutOf(h, e.of) = AboutOf(g, e.of) \cup {Len(g) + 1}
  BY AppendElements DEF AboutOf
<1>2. \A i \in AboutOf(g, e.of) : h[i] = g[i] /\ i \in 1..Len(g)
  BY AppendElements DEF AboutOf
<1>3. h[Len(g) + 1] = e
  BY AppendElements
<1> HIDE DEF h
<1>4. \A k \in KnownOf(h, e.of) : k = Len(g) + 1
  BY <1>1, <1>2 DEF KnownOf
<1>5. e.unavailable => KnownOf(h, e.of) = {}
  BY <1>1, <1>3, <1>4 DEF KnownOf
<1>6. ~e.unavailable => Len(g) + 1 \in KnownOf(h, e.of)
  BY <1>1, <1>3 DEF KnownOf
<1>7. \A i \in AboutOf(h, e.of) : i <= Len(g) + 1
  BY <1>1, <1>2, AppendElements
<1> QED BY <1>1, <1>4, <1>5, <1>6, <1>7 DEF h

\* Steps that report nothing and leave every request as it is.
LEMMA MethodsStay ==
  ASSUME Base, MethodsInv, Gathered' = Gathered, UNCHANGED <<inflight, awaiting>>,
         phase # "failed" \/ phase' = "failed",
         \/ phase' \in {phase, "failed"}
         \/ awaiting = InitializeId
         \/ phase # "wait" /\ phase' # "wait"
  PROVE  MethodsInv'
<1>1. \A id \in FirstMethod..LastMethod : id # InitializeId
  BY DEF FirstMethod, InitializeId
<1>2. phase' = "wait" /\ awaiting # InitializeId => awaiting \in inflight
  BY DEF MethodsInv
<1>3. ASSUME NEW id \in FirstMethod..LastMethod, phase' # "failed"
      PROVE  MethodReports(id)'
  <2>1. MethodReports(id)
    BY <1>3 DEF MethodsInv
  <2>2. About(id)' = About(id) /\ Known(id)' = Known(id)
    BY DEF About, Known
  <2>3. id \in inflight /\ id = awaiting => phase' = "wait"
    BY <1>1, <1>3, <2>1 DEF MethodReports
  <2> QED BY <2>1, <2>2, <2>3 DEF MethodReports
<1> QED BY <1>2, <1>3 DEF MethodsInv

\* The handshake is done.
LEMMA MethodsStart ==
  ASSUME Base, MethodsInv, Gathered' = Gathered, inflight' = inflight,
         awaiting = InitializeId, awaiting' = awaiting + 1, phase' = "ask", phase = "wait"
  PROVE  MethodsInv'
<1>1. ASSUME NEW id \in FirstMethod..LastMethod
      PROVE  MethodReports(id)' /\ id \notin inflight
  <2>1. id > awaiting /\ id \in Nat /\ id >= awaiting + 1 /\ awaiting \in Nat
    BY BoundsAssumption DEF FirstMethod, InitializeId, LastMethod
  <2>2. MethodReports(id)
    BY DEF MethodsInv
  <2>3. About(id) = {} /\ id \notin inflight
    BY <2>1, <2>2 DEF MethodReports
  <2>4. About(id)' = {} /\ Known(id)' = {}
    BY <2>3 DEF About, Known, KnownOf
  <2>5. ~(id < awaiting')
    BY <2>1
  <2> QED BY <2>3, <2>4, <2>5 DEF MethodReports
<1> QED BY <1>1 DEF MethodsInv

\* The method awaited is reported, as known or as unavailable.
LEMMA AwaitedReported ==
  ASSUME Base, MethodsInv, phase = "wait", awaiting # InitializeId,
         NEW e \in Event, e.of = awaiting, Gathered' = Append(Gathered, e),
         inflight' = (IF e.unavailable THEN inflight ELSE inflight \ {awaiting}),
         awaiting' = awaiting + 1, phase' = "ask"
  PROVE  MethodsInv'
<1>1. awaiting \in Nat /\ LastMethod \in Nat /\ awaiting <= LastMethod /\ awaiting \in inflight
      /\ inflight' \subseteq inflight /\ Gathered \in Seq(Event)
  BY BoundsAssumption, GatheredType DEF Base, TypeOK, Phases, LastMethod, MethodsInv
<1>2. ASSUME NEW id \in FirstMethod..LastMethod
      PROVE  MethodReports(id)'
  <2>1. MethodReports(id) /\ id \in Nat
    BY <1>1 DEF MethodsInv, FirstMethod
  <2>2. CASE id = awaiting
    <3>1. KnownOf(Gathered, e.of) = {}
      BY <1>1, <2>1, <2>2 DEF MethodReports, Known
    <3>2. /\ About(id)' # {}
          /\ e.unavailable => Known(id)' = {}
          /\ ~e.unavailable => Known(id)' # {}
          /\ \A i \in About(id)', k \in Known(id)' : i <= k
      BY <1>1, <2>2, <3>1, MethodReported DEF About, Known
    <3>3. (id \in inflight') <=> e.unavailable
      BY <1>1, <2>2
    <3>4. id <= awaiting' /\ id # awaiting' /\ ~(id >= awaiting')
      BY <1>1, <2>2
    <3> QED BY <3>2, <3>3, <3>4 DEF MethodReports
  <2>3. CASE id # awaiting
    <3>1. About(id)' = About(id) /\ Known(id)' = Known(id)
      BY <1>1, <2>3, OthersReported DEF About, Known
    <3>2. (id \in inflight') <=> (id \in inflight)
      BY <2>3
    <3>3. /\ id >= awaiting' => id >= awaiting
          /\ id < awaiting' => id < awaiting
          /\ id <= awaiting => id <= awaiting' /\ id # awaiting'
      BY <1>1, <2>1, <2>3
    <3> QED BY <2>1, <3>1, <3>2, <3>3 DEF MethodReports
  <2> QED BY <2>2, <2>3
<1> QED BY <1>1, <1>2 DEF MethodsInv

\* A method is asked.
LEMMA MethodAsked ==
  ASSUME Base, MethodsInv, AskMethod
  PROVE  MethodsInv'
<1>1. /\ phase = "ask" /\ awaiting <= LastMethod /\ awaiting > InitializeId
      /\ awaiting \in Nat /\ LastMethod \in Nat
      /\ UNCHANGED <<awaiting, collected>>
  BY BoundsAssumption DEF AskMethod, SendRequest, Fail, Base, TypeOK, Phases, LastMethod
<1>2. Gathered' = Gathered
  BY <1>1 DEF Gathered, collected
<1>3. CASE phase' = "failed"
  <2>1. inflight' = inflight
    BY <1>3 DEF AskMethod, SendRequest, Fail
  <2> QED BY <1>1, <1>2, <1>3, <2>1, MethodsStay
<1>4. CASE phase' = "wait" /\ inflight' = inflight \cup {awaiting}
  <2>1. awaiting \in FirstMethod..LastMethod
    BY <1>1 DEF InitializeId, FirstMethod
  <2>2. ASSUME NEW id \in FirstMethod..LastMethod PROVE MethodReports(id)'
    <3>1. MethodReports(id) /\ id \in Nat
      BY <1>1 DEF MethodsInv, FirstMethod
    <3>2. About(id)' = About(id) /\ Known(id)' = Known(id)
      BY <1>2 DEF About, Known
    <3>3. CASE id = awaiting
      <4>1. id >= awaiting /\ id <= awaiting /\ ~(id < awaiting)
        BY <3>1, <3>3
      <4>2. About(id) = {} /\ Known(id) = {}
        BY <3>1, <4>1 DEF MethodReports, About, Known, KnownOf
      <4> QED BY <1>1, <1>4, <3>2, <4>1, <4>2 DEF MethodReports
    <3>4. CASE id # awaiting
      BY <1>1, <1>4, <3>1, <3>2, <3>4 DEF MethodReports
    <3> QED BY <3>3, <3>4
  <2> QED BY <1>1, <1>4, <2>1, <2>2 DEF MethodsInv
<1> QED BY <1>3, <1>4 DEF AskMethod, SendRequest, Fail

\* An event of the follow loop.
LEMMA FollowReported ==
  ASSUME Base, MethodsInv, NEW m \in Message, ReturnEvent(m)
  PROVE  MethodsInv'
<1>1. /\ phase = "follow" /\ phase' # "wait" /\ phase' # "failed" /\ awaiting = LastMethod + 1
      /\ LastMethod \in Nat /\ awaiting' = awaiting /\ inflight' = inflight \ {m.id}
      /\ Gathered \in Seq(Event)
  BY BoundsAssumption, GatheredType DEF ReturnEvent, Base, Phases, LastMethod
<1>2. PICK e \in Event : /\ e = Normalized(m) /\ ~e.unavailable
                         /\ e.of = (IF m.id \in inflight THEN m.id ELSE NoId)
  BY NormalizedIsEvent
<1>3. Gathered' = Append(Gathered, e)
  BY <1>2, GatherLogged DEF ReturnEvent, Base, Phases
<1>4. ASSUME NEW id \in FirstMethod..LastMethod PROVE MethodReports(id)'
  <2>1. MethodReports(id) /\ id \in Nat /\ id # NoId /\ id < awaiting /\ id # awaiting
        /\ ~(id >= awaiting) /\ id <= awaiting
    BY <1>1 DEF MethodsInv, FirstMethod, NoId
  <2>2. CASE e.of = id
    <3>1. id \in inflight /\ id = m.id
      BY <1>2, <2>1, <2>2
    <3>2. KnownOf(Gathered, e.of) = {}
      BY <2>1, <2>2, <3>1 DEF MethodReports, Known
    <3>3. About(id)' # {} /\ Known(id)' # {} /\ \A i \in About(id)', k \in Known(id)' : i <= k
      BY <1>1, <1>2, <1>3, <2>2, <3>2, MethodReported DEF About, Known
    <3>4. id \notin inflight'
      BY <1>1, <3>1
    <3> QED BY <1>1, <2>1, <3>3, <3>4 DEF MethodReports
  <2>3. CASE e.of # id
    <3>1. About(id)' = About(id) /\ Known(id)' = Known(id)
      BY <1>1, <1>3, <2>3, OthersReported DEF About, Known
    <3>2. (id \in inflight') <=> (id \in inflight)
      BY <1>1, <1>2, <2>3
    <3> QED BY <1>1, <2>1, <3>1, <3>2 DEF MethodReports
  <2> QED BY <2>2, <2>3
<1> QED BY <1>1, <1>4 DEF MethodsInv

\* The response awaited is taken.
LEMMA TakenReported ==
  ASSUME Base, MethodsInv, NEW m \in Message, phase = "wait", Take(m)
  PROVE  MethodsInv'
<1>1. awaiting' = awaiting + 1 /\ phase' = "ask" /\ log' = log
  BY DEF Take
<1>2. CASE awaiting = InitializeId
  <2>1. Gathered' = Gathered /\ inflight' = inflight
    BY <1>1, <1>2 DEF Take, Gathered
  <2> QED BY <1>1, <1>2, <2>1, MethodsStart
<1>3. CASE awaiting # InitializeId
  <2>1. PICK e \in Event : e = CapabilityEvent(awaiting, m)
    BY TakenIsEvent
  <2>2. e.of = awaiting /\ ~e.unavailable
    BY <2>1 DEF CapabilityEvent
  <2>3. Gathered' = Append(Gathered, e) /\ inflight' = inflight \ {awaiting}
    BY <1>1, <1>3, <2>1, GatherEvent DEF Take
  <2> QED BY <1>1, <1>3, <2>2, <2>3, AwaitedReported
<1> QED BY <1>2, <1>3

LEMMA FailureReported ==
  ASSUME Base, MethodsInv, NEW n \in Nat, MethodFails(n)
  PROVE  MethodsInv'
<1>1. /\ phase = "wait" /\ awaiting # InitializeId /\ awaiting' = awaiting + 1 /\ phase' = "ask"
      /\ events' = Append(events, UnavailableEvent(awaiting, n))
      /\ inflight' = inflight /\ log' = log
  BY DEF MethodFails
<1>2. PICK e \in Event : e = UnavailableEvent(awaiting, n)
  BY UnavailableIsEvent
<1>3. e.of = awaiting /\ e.unavailable
  BY <1>2 DEF UnavailableEvent
<1>4. Gathered' = Append(Gathered, e)
  BY <1>1, <1>2, GatherEvent
<1> QED BY <1>1, <1>3, <1>4, AwaitedReported

LEMMA InitMethods == Init => MethodsInv
<1> SUFFICES ASSUME Init PROVE MethodsInv
  OBVIOUS
<1>1. Gathered = <<>> /\ inflight = {} /\ phase = "connect" /\ awaiting = InitializeId
  BY DEF Init, Gathered
<1>2. ASSUME NEW id \in FirstMethod..LastMethod PROVE MethodReports(id)
  <2>1. About(id) = {} /\ Known(id) = {}
    BY <1>1 DEF About, AboutOf, Known, KnownOf
  <2>2. ~(id < awaiting)
    BY <1>1 DEF InitializeId, FirstMethod
  <2> QED BY <1>1, <2>1, <2>2 DEF MethodReports
<1> QED BY <1>1, <1>2 DEF MethodsInv

LEMMA StepMethods ==
  ASSUME Base, MethodsInv, [Next]_vars
  PROVE  MethodsInv'
<1>1. CASE AskMethod
  BY <1>1, MethodAsked
<1>2. CASE QuietStep /\ ~AskMethod
  <2>1. UNCHANGED <<events, log, awaiting>> /\ (phase = "failed" => phase' = "failed")
    BY <1>2, QuietLeavesLines
  <2>2. Gathered' = Gathered
    BY <2>1 DEF Gathered
  <2>3. inflight' = inflight
    BY <1>2 DEF QuietStep, AppServer, Die, Connect, Initialize, SendRequest,
                FollowUnreadable, Fail, IdleTimeout, vars
  <2>4. \/ phase' = phase \/ phase' = "failed" \/ phase = "initialize"
        \/ phase = "connect" /\ phase' = "initialize"
        \/ phase = "follow" /\ phase' = "done"
    BY <1>2 DEF QuietStep, AppServer, Die, Connect, Initialize,
                FollowUnreadable, Fail, IdleTimeout, vars
  <2>5. phase = "initialize" => awaiting = InitializeId
    BY DEF Base, Phases
  <2> QED BY <2>1, <2>2, <2>3, <2>4, <2>5, MethodsStay
<1>3. CASE AppServer /\ ~Die
  <2>1. UNCHANGED <<phase, awaiting, inflight, collected>>
    BY <1>3, ServerWrites DEF Base
  <2> QED BY <2>1, MethodsStay DEF Gathered, collected
<1>4. CASE (Connect \/ Initialize \/ InitializeFails) /\ TryNextSource
  <2>1. awaiting = InitializeId /\ awaiting' = InitializeId /\ phase # "failed"
        /\ UNCHANGED <<inflight, collected>>
    BY <1>4 DEF Connect, Initialize, InitializeFails, Base, Phases, TryNextSource
  <2> QED BY <2>1, MethodsStay DEF Gathered, collected
<1>5. CASE TakePending
  <2>1. pending[First(Matching)] \in Message
    BY <1>5, FirstMatching DEF TakePending, Base, TypeOK
  <2> QED BY <1>5, <2>1, TakenReported DEF TakePending
<1>6. CASE TakeNext
  <2>1. Head(channel) \in Message
    BY <1>6 DEF TakeNext, Base, TypeOK
  <2> QED BY <1>6, <2>1, TakenReported DEF TakeNext
<1>7. CASE PostponeNext
  BY <1>7, MethodsStay DEF PostponeNext, Gathered, collected
<1>8. CASE ResponseTimesOut
  BY <1>8, FailureReported DEF ResponseTimesOut
<1>9. CASE ResponseUnreadable
  <2>1. Head(channel) \in Message
    BY <1>9 DEF ResponseUnreadable, Base, TypeOK
  <2>2. Head(channel).seq \in Nat
    BY <2>1 DEF Message
  <2> QED BY <1>9, <2>2, FailureReported DEF ResponseUnreadable
<1>10. CASE FollowPending
  <2>1. Head(pending) \in Message
    BY <1>10 DEF FollowPending, Base, TypeOK
  <2> QED BY <1>10, <2>1, FollowReported DEF FollowPending
<1>11. CASE FollowNext
  <2>1. Head(channel) \in Message
    BY <1>11 DEF FollowNext, Base, TypeOK
  <2> QED BY <1>11, <2>1, FollowReported DEF FollowNext
<1>12. CASE PublishCapabilities
  <2>1. /\ log = <<>> /\ log' = log \o events /\ events' = <<>> /\ events \in Seq(Event)
        /\ phase = "ask" /\ phase' = "follow" /\ UNCHANGED <<awaiting, inflight>>
    BY <1>12 DEF PublishCapabilities, Base, TypeOK, Phases
  <2>2. Gathered' = Gathered
    <3>1. (<<>> \o events) \o <<>> = <<>> \o events
      BY <2>1
    <3> QED BY <2>1, <3>1 DEF Gathered
  <2> QED BY <2>1, <2>2, MethodsStay
<1>13. InitializeFails => TryNextSource
  BY DEF InitializeFails
<1> QED BY <1>1, <1>2, <1>3, <1>4, <1>5, <1>6, <1>7, <1>8, <1>9, <1>10, <1>11, <1>12, <1>13
        DEF Next, Observer, Await, Follow, QuietStep

\* When the follow loop starts, every method was reported; an answer that
\* comes later is reported once, as the method it answers, and is the last
\* word about it.
THEOREM MethodsAreReported == Spec => []EveryMethodIsReported
<1>1. ASSUME Base, MethodsInv PROVE EveryMethodIsReported
  <2> SUFFICES ASSUME phase \in {"follow", "done"}, NEW id \in FirstMethod..LastMethod
               PROVE  /\ AboutOf(log, id) # {}
                      /\ KnownOf(log, id) = {} => id \in inflight
                      /\ \A i \in AboutOf(log, id), k \in KnownOf(log, id) : i <= k
    BY DEF EveryMethodIsReported, AboutOf, KnownOf
  <2>1. events = <<>> /\ awaiting = LastMethod + 1 /\ log \in Seq(Event)
    BY <1>1 DEF Base, TypeOK, Phases
  <2>2. Gathered = log
    BY <2>1 DEF Gathered
  <2>3. id < awaiting
    BY <2>1, BoundsAssumption DEF LastMethod, FirstMethod
  <2>4. MethodReports(id)
    BY <1>1 DEF MethodsInv
  <2> QED BY <2>2, <2>3, <2>4 DEF MethodReports, About, Known
<1>2. Init => Base /\ LinesInv /\ MethodsInv
  BY InitLines, InitMethods
<1>3. Base /\ LinesInv /\ MethodsInv /\ [Next]_vars => Base' /\ LinesInv' /\ MethodsInv'
  BY StepLines, StepMethods
<1> QED BY <1>1, <1>2, <1>3, PTL DEF Spec

-----------------------------------------------------------------------------
(* The search for a source.                                                 *)

\* Until a source is tried, a desktop socket that has been there since the listing
\* is still to be looked at or asked about.
SearchInv ==
  /\ pc = "build" => steady = {} /\ sources = <<>>
  /\ pc = "look" => sources = <<>> /\ steady \subseteq listed \cup found
  /\ NewestDesktopSocketIsChosen

LEMMA SearchStarts == S!Init => SearchInv
BY DEF S!Init, SearchInv, NewestDesktopSocketIsChosen, S!NewestDesktopSocketIsChosen

\* With fewer sockets to compare with, or once a source was tried, nothing can go
\* wrong any more.
LEMMA SearchGoesOn ==
  ASSUME SearchInv, pc' = pc \/ pc' \notin {"build", "look"},
         steady' \subseteq steady, UNCHANGED <<named, listed, found>>,
         UNCHANGED <<sources, tried>> \/ (pc' \notin {"build", "look"} /\ tried' # {})
  PROVE  SearchInv'
BY DEF SearchInv, NewestDesktopSocketIsChosen, S!NewestDesktopSocketIsChosen

LEMMA SearchStep ==
  ASSUME SearchInv, [S!Next]_(S!vars)
  PROVE  SearchInv'
<1> USE DEF SearchInv, NewestDesktopSocketIsChosen, S!NewestDesktopSocketIsChosen, S!Goto, S!files,
            S!Standalone
<1>1. CASE UNCHANGED S!vars
  BY <1>1, SearchGoesOn DEF S!vars
<1>2. CASE S!UseNamed
  BY <1>2 DEF S!UseNamed
<1>3. CASE S!List
  <2>1. /\ pc' = "look" /\ sources' = <<>> /\ listed' = present
        /\ steady' = {s \in present : owner[s] = "desktop"}
    BY <1>3 DEF S!List
  <2> QED BY <2>1
<1>4. ASSUME NEW s \in S!Sockets, S!Look(s) PROVE SearchInv'
  <2>1. /\ pc = "look" /\ pc' = "look" /\ UNCHANGED <<sources, steady>>
        /\ listed' = listed \ {s} /\ found' = found \cup {s}
    BY <1>4 DEF S!Look
  <2>2. steady' \subseteq listed' \cup found'
    BY <2>1
  <2> QED BY <2>1, <2>2
<1>5. CASE S!BuildFails
  <2>1. /\ pc \in {"build", "look"} /\ pc' = "failed" /\ UNCHANGED <<sources, steady, named, tried>>
    BY <1>5 DEF S!BuildFails
  <2> QED BY <2>1
<1>6. CASE S!AskOwner
  <2>1. PICK s \in S!NewestOf(found) :
          \/ /\ sources' = <<s, S!Standalone>> /\ pc' = "try" /\ UNCHANGED steady
          \/ /\ found' = found \ {s} /\ steady' = steady \ {s} /\ UNCHANGED <<sources, pc>>
    BY <1>6 DEF S!AskOwner
  <2>2. pc = "look" /\ listed = {} /\ UNCHANGED <<listed, named, tried>>
    BY <1>6 DEF S!AskOwner
  <2>3. steady \subseteq found /\ \A t \in found : s >= t
    BY <2>1, <2>2 DEF S!NewestOf
  <2>4. CASE sources' = <<s, S!Standalone>> /\ pc' = "try" /\ UNCHANGED steady
    <3>1. Head(sources') = s
      BY <2>4
    <3>2. \A t \in steady' : t <= s
      BY <2>3, <2>4
    <3> QED BY <2>4, <3>1, <3>2
  <2>5. CASE found' = found \ {s} /\ steady' = steady \ {s} /\ UNCHANGED <<sources, pc>>
    BY <2>2, <2>3, <2>5
  <2> QED BY <2>1, <2>4, <2>5
<1>7. CASE S!NoneFound
  BY <1>7 DEF S!NoneFound
<1>8. CASE S!Try
  <2>1. /\ pc = "try" /\ pc' \in {"failed", "spawn", "connect"}
        /\ UNCHANGED <<named, listed, found, steady>>
        /\ UNCHANGED <<sources, tried>> \/ tried' # {}
    BY <1>8 DEF S!Try
  <2> QED BY <2>1, SearchGoesOn
<1>9. CASE S!ConnectSocket \/ S!RequestRefused \/ S!ReadAnswer \/ S!ReadTimesOut \/ S!Initialize
  <2>1. pc' \in {"read", "try", "spawn", "running"}
        /\ UNCHANGED <<sources, tried, named, listed, found, steady>>
    BY <1>9 DEF S!ConnectSocket, S!RequestRefused, S!ReadAnswer, S!ReadTimesOut, S!Initialize
  <2> QED BY <2>1, SearchGoesOn
<1>10. CASE S!WritePiece
  BY <1>10, SearchGoesOn DEF S!WritePiece
<1>11. ASSUME NEW s \in S!Sockets, S!Replace(s) \/ S!TakeOver(s) PROVE SearchInv'
  <2>1. steady' = steady \ {s} /\ UNCHANGED <<pc, sources, tried, named, listed, found>>
    BY <1>11 DEF S!Replace, S!TakeOver
  <2> QED BY <2>1, SearchGoesOn
<1> QED BY <1>1, <1>2, <1>3, <1>4, <1>5, <1>6, <1>7, <1>8, <1>9, <1>10, <1>11 DEF S!Next, S!Observer

\* Whatever comes, goes and changes hands while the directory is looked through, for
\* any number of sockets: the socket that is tried first is not older than one that
\* the desktop app has held the whole time (discover_latest_codex_socket).
THEOREM NewestIsChosen == MCSpec => []NewestDesktopSocketIsChosen
<1>1. MCInit => SearchInv
  BY SearchStarts DEF MCInit
<1>2. SearchInv /\ [MCNext]_MCvars => SearchInv'
  <2>1. CASE UNCHANGED sourceVars
    BY <2>1, SearchStep DEF sourceVars, S!vars
  <2>2. CASE SourcesOnly /\ S!Next
    BY <2>2, SearchStep
  <2>3. [MCNext]_MCvars => UNCHANGED sourceVars \/ (SourcesOnly /\ S!Next)
    BY DEF MCNext, MCvars, SessionOnly
  <2> QED BY <2>1, <2>2, <2>3
<1>3. SearchInv => NewestDesktopSocketIsChosen
  BY DEF SearchInv
<1> QED BY <1>1, <1>2, <1>3, PTL DEF MCSpec
=============================================================================
