----------------------------- MODULE CaptureProofs -----------------------------
(***************************************************************************)
(* Theorems about a capture, for any number of calls, lines and times,     *)
(* whether or not files can be written.                                    *)
(***************************************************************************)
EXTENDS Capture, SequenceTheorems, FiniteSetTheorems, FunctionTheorems, TLAPS

MessageLine == [type : {"request", "response"}, exchange : Exchanges, at : Nat]
PlainLine ==
  [type : {"none", "heartbeat", "rest", "detach_ack", "disconnected", "timeout"}]
Lines == MessageLine \cup PlainLine

Capturing == {"fill", "fill tools", "report"}

TypeOK ==
  /\ now \in Nat
  /\ calls \in [Exchanges -> {"none", "open", "answered"}]
  /\ hooked \in BOOLEAN
  /\ stream \in Seq(Lines) /\ channel \in Seq(Lines)
  /\ consumer \in {"loop", "fill", "fill tools", "report", "join", "done"}
  /\ held \in Lines
  /\ consumer \in Capturing => held \in MessageLine
  /\ sequence \in Nat \ {0}
  /\ hints \subseteq Exchanges

\* The exchanges with a line of a type in a queue; whether a line is one.
On(q, type) ==
  {e \in Exchanges : \E i \in 1..Len(q) : q[i].type = type /\ q[i].exchange = e}
Holds(type) == {e \in Exchanges : held.type = type /\ held.exchange = e}

\* The exchanges whose response was taken from the channel.
Replied == {r.exchange : r \in responses} \cup Holds("response")

-----------------------------------------------------------------------------
(* Files.                                                                  *)

\* A number is used for the files of one capture only.
Older(f) == f.id.pid # 0 \/ f.id.sequence < sequence
OwnId(f) ==
  /\ f.id.sequence \in Nat
  /\ Older(f) \/ (f.id.sequence = sequence /\ f.exchange = held.exchange /\ consumer # "loop")
FilesInv ==
  /\ \A f \in requests \cup responses \cup visibility : OwnId(f)
  /\ consumer = "fill" => \A f \in visibility : Older(f)

-----------------------------------------------------------------------------
(* Requests come before their responses.                                   *)

RequestsFirstIn(q) ==
  \A i, j \in 1..Len(q) :
    i < j /\ q[i].type = "response" /\ q[j].type = "request" => q[i].exchange # q[j].exchange

RequestsFirst ==
  /\ RequestsFirstIn(stream) /\ RequestsFirstIn(channel)
  /\ On(channel, "response") \cap On(stream, "request") = {}
  /\ Replied \cap (On(stream, "request") \cup On(channel, "request") \cup Holds("request")) = {}
  /\ \A e \in Exchanges : calls[e] = "none" =>
       e \notin Replied \cup On(channel, "response") \cup On(stream, "response")

Unanswered == (Exchanges \cap Captured(requests)) \ Captured(responses)

HintsInv ==
  /\ consumer \in {"loop", "fill"} => hints = Unanswered
  /\ consumer \in {"fill tools", "report"} =>
       IF held.type = "request" THEN hints \cup {held.exchange} = Unanswered
                                ELSE hints \ {held.exchange} = Unanswered
  /\ \A e \in Replied : e \in ByHost \/ e \in Captured(requests)

-----------------------------------------------------------------------------
(* Nothing is on the way behind an acknowledgement.                        *)

AcksLastIn(q) ==
  \A i, j \in 1..Len(q) : i < j /\ q[i].type = "detach_ack" => q[j].type # "request"
HasAck(q) == \E i \in 1..Len(q) : q[i].type = "detach_ack"

AcksLast ==
  /\ AcksLastIn(stream) /\ AcksLastIn(channel)
  /\ HasAck(stream) \/ HasAck(channel) \/ exit = "DetachAck" => ~hooked
  /\ HasAck(channel) \/ exit = "DetachAck" => On(stream, "request") = {}
  /\ exit = "DetachAck" => On(channel, "request") = {}
  /\ exit = "none" <=> consumer \notin {"join", "done"}

FileWritten(e) ==
  e \in Captured(requests) /\ (e \in WithTools => e \in Captured(visibility))
InHand(e) ==
  /\ held.type = "request" /\ held.exchange = e
  /\ \/ consumer = "fill"
     \/ consumer = "fill tools" /\ e \in Captured(requests)

OnTheWay ==
  exit \in {"none", "DetachAck"} =>
    \A e \in (ByHost \cup ByBody) \ unseen : calls[e] # "none" =>
      \/ e \in On(stream, "request") \cup On(channel, "request")
      \/ InHand(e)
      \/ FileWritten(e)

CaptureInv == TypeOK /\ FilesInv /\ RequestsFirst /\ HintsInv /\ AcksLast /\ OnTheWay

-----------------------------------------------------------------------------
(* Queues of lines.                                                        *)

LineOn(l, type) == {e \in Exchanges : l.type = type /\ l.exchange = e}

LEMMA MessageTypes ==
  ASSUME NEW l \in Lines, l.type \in {"request", "response"}
  PROVE  l \in MessageLine /\ l.exchange \in Exchanges
BY DEF Lines, MessageLine, PlainLine

LEMMA PlainIsLine ==
  ASSUME NEW t \in {"none", "heartbeat", "rest", "detach_ack", "disconnected", "timeout"}
  PROVE  Plain(t) \in Lines /\ Plain(t).type = t
BY DEF Plain, Lines, PlainLine

LEMMA MessageIsLine ==
  ASSUME TypeOK, NEW t \in {"request", "response"}, NEW e \in Exchanges
  PROVE  Message(t, e) \in Lines /\ Message(t, e).type = t /\ Message(t, e).exchange = e
<1>1. now \in Nat
  BY DEF TypeOK
<1> QED BY <1>1 DEF Message, Lines, MessageLine

LEMMA QueueGrows ==
  ASSUME NEW q \in Seq(Lines), NEW l \in Lines
  PROVE  /\ Append(q, l) \in Seq(Lines)
         /\ \A t : On(Append(q, l), t) = On(q, t) \cup LineOn(l, t)
         /\ HasAck(Append(q, l)) <=> HasAck(q) \/ l.type = "detach_ack"
         /\ RequestsFirstIn(q) /\ (l.type = "request" => l.exchange \notin On(q, "response"))
              => RequestsFirstIn(Append(q, l))
         /\ AcksLastIn(q) /\ (HasAck(q) => l.type # "request") => AcksLastIn(Append(q, l))
<1>1. /\ Append(q, l) \in Seq(Lines) /\ Len(q) \in Nat
      /\ Len(Append(q, l)) = Len(q) + 1 /\ Append(q, l)[Len(q) + 1] = l
      /\ \A i \in 1..Len(q) : Append(q, l)[i] = q[i] /\ q[i] \in Lines
  OBVIOUS
<1>2. \A i : i \in 1..(Len(q) + 1) <=> i \in 1..Len(q) \/ i = Len(q) + 1
  BY <1>1
<1>3. ASSUME NEW i \in 1..(Len(q) + 1), NEW j \in 1..(Len(q) + 1), i < j
      PROVE  i \in 1..Len(q) /\ (j \in 1..Len(q) \/ j = Len(q) + 1)
  BY <1>1, <1>3
<1>4. \A t : On(Append(q, l), t) = On(q, t) \cup LineOn(l, t)
  BY <1>1, <1>2 DEF On, LineOn
<1>5. HasAck(Append(q, l)) <=> HasAck(q) \/ l.type = "detach_ack"
  BY <1>1, <1>2 DEF HasAck
<1>6. ASSUME RequestsFirstIn(q), l.type = "request" => l.exchange \notin On(q, "response")
      PROVE  RequestsFirstIn(Append(q, l))
  <2>1. ASSUME NEW i \in 1..Len(q), q[i].type = "response", l.type = "request"
        PROVE  q[i].exchange # l.exchange
    <3>1. q[i].exchange \in On(q, "response")
      BY <1>1, <2>1, MessageTypes DEF On
    <3> QED BY <1>6, <2>1, <3>1
  <2> QED BY <1>1, <1>3, <1>6, <2>1 DEF RequestsFirstIn
<1>7. ASSUME AcksLastIn(q), HasAck(q) => l.type # "request"
      PROVE  AcksLastIn(Append(q, l))
  BY <1>1, <1>3, <1>7 DEF AcksLastIn, HasAck
<1> QED BY <1>1, <1>4, <1>5, <1>6, <1>7

LEMMA QueueShrinks ==
  ASSUME NEW q \in Seq(Lines), q # <<>>
  PROVE  /\ Tail(q) \in Seq(Lines) /\ Head(q) \in Lines
         /\ \A t : On(q, t) = On(Tail(q), t) \cup LineOn(Head(q), t)
         /\ HasAck(q) <=> HasAck(Tail(q)) \/ Head(q).type = "detach_ack"
         /\ RequestsFirstIn(q) =>
              /\ RequestsFirstIn(Tail(q))
              /\ Head(q).type = "response" => Head(q).exchange \notin On(Tail(q), "request")
         /\ AcksLastIn(q) =>
              /\ AcksLastIn(Tail(q))
              /\ Head(q).type = "detach_ack" => On(Tail(q), "request") = {}
<1>1. /\ Tail(q) \in Seq(Lines) /\ Head(q) \in Lines /\ Head(q) = q[1]
      /\ Len(q) \in Nat /\ Len(q) # 0 /\ Len(Tail(q)) = Len(q) - 1
      /\ \A i \in 1..(Len(q) - 1) : Tail(q)[i] = q[i + 1]
  OBVIOUS
<1>2. \A i \in 1..(Len(q) - 1) : i + 1 \in 1..Len(q) /\ 1 < i + 1
  BY <1>1
<1>3. \A i \in 1..Len(q) : i = 1 \/ \E j \in 1..(Len(q) - 1) : i = j + 1
  <2> TAKE i \in 1..Len(q)
  <2>1. i # 1 => i - 1 \in 1..(Len(q) - 1) /\ i = (i - 1) + 1
    BY <1>1
  <2> QED BY <2>1
<1>4. 1 \in 1..Len(q)
  BY <1>1
<1>5. ASSUME NEW t PROVE On(q, t) = On(Tail(q), t) \cup LineOn(Head(q), t)
  <2>1. ASSUME NEW e \in On(q, t) PROVE e \in On(Tail(q), t) \cup LineOn(Head(q), t)
    <3>1. PICK i \in 1..Len(q) : q[i].type = t /\ q[i].exchange = e /\ e \in Exchanges
      BY <2>1 DEF On
    <3> QED BY <1>1, <1>3, <3>1 DEF On, LineOn
  <2>2. ASSUME NEW e \in On(Tail(q), t) \cup LineOn(Head(q), t) PROVE e \in On(q, t)
    BY <1>1, <1>2, <1>4, <2>2 DEF On, LineOn
  <2> QED BY <2>1, <2>2
<1>6. HasAck(q) <=> HasAck(Tail(q)) \/ Head(q).type = "detach_ack"
  BY <1>1, <1>2, <1>3, <1>4 DEF HasAck
<1>7. \A i, j \in 1..(Len(q) - 1) : i < j => i + 1 < j + 1
  BY <1>1
<1>8. ASSUME RequestsFirstIn(q)
      PROVE  /\ RequestsFirstIn(Tail(q))
             /\ Head(q).type = "response" => Head(q).exchange \notin On(Tail(q), "request")
  BY <1>1, <1>2, <1>4, <1>7, <1>8 DEF RequestsFirstIn, On
<1>9. ASSUME AcksLastIn(q)
      PROVE  /\ AcksLastIn(Tail(q))
             /\ Head(q).type = "detach_ack" => On(Tail(q), "request") = {}
  BY <1>1, <1>2, <1>4, <1>7, <1>9 DEF AcksLastIn, On
<1> QED BY <1>1, <1>5, <1>6, <1>8, <1>9

\* A read that times out leaves the rest of a line.
LEMMA CutQueue ==
  ASSUME NEW q \in Seq(Lines), q # <<>>
  PROVE  LET r == <<Plain("rest")>> \o Tail(q)
         IN  /\ r \in Seq(Lines) /\ Len(r) = Len(q) /\ Len(q) \in Nat /\ Len(q) # 0
             /\ r[1] = Plain("rest") /\ Head(q) = q[1] /\ Head(q) \in Lines
             /\ \A i \in 1..Len(q) : i # 1 => r[i] = q[i]
<1>1. PICK x \in Lines : x = Plain("rest")
  BY PlainIsLine
<1>2. PICK p \in Seq(Lines) :
        p = Tail(q) /\ Len(p) = Len(q) - 1 /\ \A i \in 1..(Len(q) - 1) : p[i] = q[i + 1]
  <2>1. Tail(q) \in Seq(Lines) /\ Len(Tail(q)) = Len(q) - 1
    OBVIOUS
  <2>2. \A i \in 1..(Len(q) - 1) : Tail(q)[i] = q[i + 1]
    OBVIOUS
  <2> QED BY <2>1, <2>2
<1>3. /\ <<x>> \in Seq(Lines) /\ Len(<<x>>) = 1 /\ <<x>>[1] = x
      /\ Len(q) \in Nat /\ Len(q) # 0 /\ Head(q) = q[1] /\ Head(q) \in Lines
  OBVIOUS
<1>4. <<x>> \o p \in Seq(Lines) /\ Len(<<x>> \o p) = 1 + Len(p)
  BY <1>3
<1>5. (<<x>> \o p)[1] = x
  <2>1. Len(p) \in Nat /\ 1 <= 1 + Len(p) /\ 1 <= Len(<<x>>)
    BY <1>3
  <2>2. 1 \in 1..(Len(<<x>>) + Len(p))
    BY <1>3, <2>1
  <2> QED BY <1>3, <2>1, <2>2
<1>6. ASSUME NEW i \in 1..Len(q), i # 1 PROVE (<<x>> \o p)[i] = q[i]
  <2>1. i - 1 \in 1..(Len(q) - 1) /\ i > 1 /\ i <= 1 + Len(p) /\ (i - 1) + 1 = i
    BY <1>2, <1>3, <1>6
  <2>2. (<<x>> \o p)[i] = p[i - 1]
    BY <1>3, <2>1
  <2> QED BY <1>2, <2>1, <2>2
<1> QED BY <1>1, <1>2, <1>3, <1>4, <1>5, <1>6

LEMMA QueueCut ==
  ASSUME NEW q \in Seq(Lines), q # <<>>
  PROVE  /\ <<Plain("rest")>> \o Tail(q) \in Seq(Lines)
         /\ \A t \in {"request", "response"} :
              On(q, t) = On(<<Plain("rest")>> \o Tail(q), t) \cup LineOn(Head(q), t)
         /\ HasAck(<<Plain("rest")>> \o Tail(q)) => HasAck(q)
         /\ RequestsFirstIn(q) => RequestsFirstIn(<<Plain("rest")>> \o Tail(q))
         /\ AcksLastIn(q) => AcksLastIn(<<Plain("rest")>> \o Tail(q))
<1> DEFINE r == <<Plain("rest")>> \o Tail(q)
<1>1. Plain("rest") \in Lines /\ Plain("rest").type = "rest"
  BY PlainIsLine
<1>2. /\ r \in Seq(Lines) /\ Len(r) = Len(q) /\ Len(q) \in Nat /\ Len(q) # 0
      /\ r[1] = Plain("rest") /\ Head(q) = q[1] /\ Head(q) \in Lines
      /\ \A i \in 1..Len(q) : i # 1 => r[i] = q[i]
  BY CutQueue
<1> HIDE DEF r
<1>3. 1 \in 1..Len(q)
  BY <1>2
<1>4. \A t \in {"request", "response"} : On(q, t) = On(r, t) \cup LineOn(Head(q), t)
  BY <1>1, <1>2, <1>3 DEF On, LineOn
<1>5. HasAck(r) => HasAck(q)
  BY <1>1, <1>2 DEF HasAck
<1>6. RequestsFirstIn(q) => RequestsFirstIn(r)
  BY <1>1, <1>2 DEF RequestsFirstIn
<1>7. AcksLastIn(q) => AcksLastIn(r)
  BY <1>1, <1>2 DEF AcksLastIn
<1> QED BY <1>2, <1>4, <1>5, <1>6, <1>7 DEF r

-----------------------------------------------------------------------------
(* Types and files.                                                        *)

LEMMA PutNew ==
  ASSUME NEW dir, NEW file, \A f \in dir : f.id # file.id, ~file.whole
  PROVE  Captured(Put(dir, file)) = Captured(dir)
<1>1. Put(dir, file) = dir \cup {file}
  BY DEF Put
<1> QED BY <1>1 DEF Captured

LEMMA PutWhole ==
  ASSUME NEW dir, NEW file, file.whole,
         \A f \in dir : f.id = file.id => f.exchange = file.exchange
  PROVE  Captured(Put(dir, file)) = Captured(dir) \cup {file.exchange}
<1>1. ASSUME NEW e \in Captured(dir), e # file.exchange PROVE e \in Captured(Put(dir, file))
  <2>1. PICK f \in dir : f.whole /\ f.exchange = e
    BY <1>1 DEF Captured
  <2>2. f.id # file.id
    BY <1>1, <2>1
  <2> QED BY <2>1, <2>2 DEF Captured, Put
<1>2. file.exchange \in Captured(Put(dir, file))
  BY DEF Captured, Put
<1>3. ASSUME NEW e \in Captured(Put(dir, file)) PROVE e \in Captured(dir) \cup {file.exchange}
  BY <1>3 DEF Captured, Put
<1> QED BY <1>1, <1>2, <1>3

LEMMA OwnFile ==
  ASSUME TypeOK, FilesInv, NEW m, NEW f \in requests \cup responses \cup visibility,
         f.id = FileId(m)
  PROVE  f.exchange = held.exchange /\ consumer # "loop"
<1>1. OwnId(f)
  BY DEF FilesInv
<1>2. f.id.pid = 0 /\ f.id.sequence = sequence
  BY DEF FileId
<1>3. ~(sequence < sequence)
  <2>1. sequence \in Nat
    BY DEF TypeOK
  <2> QED BY <2>1
<1> QED BY <1>1, <1>2, <1>3 DEF OwnId, Older

\* The file of the line in hand: it replaces none but its own.
LEMMA FileIsFilled ==
  ASSUME TypeOK, FilesInv, NEW dir \in {requests, responses, visibility},
         NEW file, file.id = FileId(held), file.exchange = held.exchange
  PROVE  /\ file.whole => Captured(Put(dir, file)) = Captured(dir) \cup {held.exchange}
         /\ \A f \in Put(dir, file) : f \in dir \/ f = file
<1>1. \A f \in dir : f.id = file.id => f.exchange = file.exchange
  BY OwnFile
<1> QED BY <1>1, PutWhole DEF Put

LEMMA FileIsNew ==
  ASSUME TypeOK, FilesInv, consumer = "loop", NEW dir \in {requests, responses, visibility},
         NEW m, NEW file, file.id = FileId(m), ~file.whole
  PROVE  /\ Captured(Put(dir, file)) = Captured(dir)
         /\ \A f \in Put(dir, file) : f \in dir \/ f = file
<1>1. \A f \in dir : f.id # file.id
  BY OwnFile
<1> QED BY <1>1, PutNew DEF Put

LEMMA FilesOf ==
  ASSUME NEW m, NEW whole
  PROVE  /\ RequestFile(m, whole).id = FileId(m) /\ RequestFile(m, whole).exchange = m.exchange
         /\ RequestFile(m, whole).whole = whole
         /\ ResponseFile(m, whole).id = FileId(m) /\ ResponseFile(m, whole).exchange = m.exchange
         /\ ResponseFile(m, whole).whole = whole
         /\ ToolsFile(m, whole).id = FileId(m) /\ ToolsFile(m, whole).exchange = m.exchange
         /\ ToolsFile(m, whole).whole = whole
BY DEF RequestFile, ResponseFile, ToolsFile

LEMMA InitFiles == Init => TypeOK /\ FilesInv
<1> SUFFICES ASSUME Init PROVE TypeOK /\ FilesInv
  OBVIOUS
<1>1. TypeOK
  <2>1. calls \in [Exchanges -> {"none", "open", "answered"}]
    BY DEF Init
  <2>2. stream \in Seq(Lines) /\ channel \in Seq(Lines)
    BY DEF Init
  <2>3. held \in Lines
    BY PlainIsLine DEF Init
  <2> QED BY <2>1, <2>2, <2>3 DEF Init, TypeOK, Capturing
<1>2. FilesInv
  <2>1. \A f \in requests \cup responses \cup visibility : f = Earlier
    BY DEF Init
  <2>2. Earlier.id.pid # 0 /\ Earlier.id.sequence \in Nat
    BY DEF Earlier
  <2>3. consumer # "fill"
    BY DEF Init
  <2> QED BY <2>1, <2>2, <2>3 DEF FilesInv, OwnId, Older
<1> QED BY <1>1, <1>2

-----------------------------------------------------------------------------
(* Steps of the clock, the target and the listener.                        *)

loopAndFiles == <<consumer, held, sequence, hints, exit, requests, responses, visibility>>

LEMMA LoopRests ==
  ASSUME CaptureInv, UNCHANGED loopAndFiles,
         stream' \in Seq(Lines), channel' \in Seq(Lines), now' \in Nat, hooked' \in BOOLEAN,
         calls' \in [Exchanges -> {"none", "open", "answered"}]
  PROVE  TypeOK' /\ FilesInv' /\ HintsInv'
<1>1. TypeOK'
  BY DEF CaptureInv, TypeOK, loopAndFiles
<1>2. FilesInv'
  BY DEF CaptureInv, FilesInv, OwnId, Older, loopAndFiles, files
<1>3. HintsInv'
  BY DEF CaptureInv, HintsInv, Unanswered, Captured, Replied, Holds, loopAndFiles, files
<1> QED BY <1>1, <1>2, <1>3

LEMMA NothingHappens ==
  ASSUME CaptureInv, UNCHANGED <<calls, hooked, stream, channel, loopAndFiles, unseen>>,
         now' \in Nat
  PROVE  CaptureInv'
<1>1. TypeOK' /\ FilesInv' /\ HintsInv'
  BY LoopRests DEF CaptureInv, TypeOK
<1>2. RequestsFirst'
  BY DEF CaptureInv, RequestsFirst, RequestsFirstIn, On, Replied, Holds, loopAndFiles, files
<1>3. AcksLast'
  BY DEF CaptureInv, AcksLast, AcksLastIn, HasAck, On, loopAndFiles
<1>4. OnTheWay'
  BY DEF CaptureInv, OnTheWay, On, InHand, FileWritten, Captured, loopAndFiles, files
<1> QED BY <1>1, <1>2, <1>3, <1>4 DEF CaptureInv

LEMMA LineEmitted ==
  ASSUME CaptureInv, NEW l \in Lines, stream' = Append(stream, l),
         calls' \in [Exchanges -> {"none", "open", "answered"}], hooked' \in BOOLEAN,
         UNCHANGED <<now, channel, loopAndFiles, unseen>>,
         hooked' => hooked /\ l.type # "detach_ack",
         l.type = "request" => hooked /\ calls[l.exchange] = "none",
         \A e \in Exchanges :
           calls'[e] = "none" => calls[e] = "none" /\ e \notin LineOn(l, "response"),
         \A e \in Exchanges :
           calls'[e] # "none" => calls[e] # "none" \/ e \in LineOn(l, "request")
  PROVE  CaptureInv'
<1>1. stream \in Seq(Lines) /\ channel' \in Seq(Lines) /\ now' \in Nat
  BY DEF CaptureInv, TypeOK
<1>2. /\ stream' \in Seq(Lines)
      /\ \A t : On(stream', t) = On(stream, t) \cup LineOn(l, t)
      /\ HasAck(stream') <=> HasAck(stream) \/ l.type = "detach_ack"
      /\ RequestsFirstIn(stream) /\ (l.type = "request" => l.exchange \notin On(stream, "response"))
           => RequestsFirstIn(stream')
      /\ AcksLastIn(stream) /\ (HasAck(stream) => l.type # "request") => AcksLastIn(stream')
  BY <1>1, QueueGrows
<1>3. TypeOK' /\ FilesInv' /\ HintsInv'
  BY <1>1, <1>2, LoopRests
<1>4. /\ channel' = channel /\ Replied' = Replied /\ Holds("request")' = Holds("request")
      /\ exit' = exit /\ consumer' = consumer
  BY DEF loopAndFiles, files, Replied, Holds
<1>5. l.type = "request" =>
        /\ l.exchange \in Exchanges /\ LineOn(l, "request") = {l.exchange}
        /\ l.exchange \notin Replied \cup On(channel, "response") \cup On(stream, "response")
  <2>1. l.type = "request" => l.exchange \in Exchanges
    BY MessageTypes
  <2> QED BY <2>1 DEF CaptureInv, RequestsFirst, LineOn
<1>6. l.type # "request" => LineOn(l, "request") = {}
  BY DEF LineOn
<1>7. RequestsFirst'
  <2>1. RequestsFirstIn(stream') /\ RequestsFirstIn(channel')
    BY <1>2, <1>4, <1>5 DEF CaptureInv, RequestsFirst
  <2>2. On(channel', "response") \cap On(stream', "request") = {}
    BY <1>2, <1>4, <1>5, <1>6 DEF CaptureInv, RequestsFirst
  <2>3. Replied' \cap (On(stream', "request") \cup On(channel', "request")
                             \cup Holds("request")') = {}
    BY <1>2, <1>4, <1>5, <1>6 DEF CaptureInv, RequestsFirst
  <2>4. \A e \in Exchanges : calls'[e] = "none" =>
          e \notin Replied' \cup On(channel', "response") \cup On(stream', "response")
    BY <1>2, <1>4 DEF CaptureInv, RequestsFirst
  <2> QED BY <2>1, <2>2, <2>3, <2>4 DEF RequestsFirst
<1>8. AcksLast'
  <2>1. l.type = "request" => ~HasAck(stream) /\ ~HasAck(channel) /\ exit # "DetachAck"
    BY DEF CaptureInv, AcksLast
  <2>2. AcksLastIn(stream') /\ AcksLastIn(channel')
    BY <1>2, <1>4, <2>1 DEF CaptureInv, AcksLast
  <2>3. HasAck(stream') \/ HasAck(channel') \/ exit' = "DetachAck" => ~hooked'
    BY <1>2, <1>4 DEF CaptureInv, AcksLast
  <2>4. /\ HasAck(channel') \/ exit' = "DetachAck" => On(stream', "request") = {}
        /\ exit' = "DetachAck" => On(channel', "request") = {}
        /\ exit' = "none" <=> consumer' \notin {"join", "done"}
    BY <1>2, <1>4, <1>6, <2>1 DEF CaptureInv, AcksLast
  <2> QED BY <2>2, <2>3, <2>4 DEF AcksLast
<1>9. OnTheWay'
  <2> SUFFICES ASSUME exit \in {"none", "DetachAck"}, NEW e \in (ByHost \cup ByBody) \ unseen,
                      calls'[e] # "none"
               PROVE  \/ e \in On(stream', "request") \cup On(channel', "request")
                      \/ InHand(e)' \/ FileWritten(e)'
    BY <1>4 DEF OnTheWay
  <2>1. e \in Exchanges
    BY ExchangesAssumption
  <2>2. InHand(e)' = InHand(e) /\ FileWritten(e)' = FileWritten(e)
    BY DEF InHand, FileWritten, Captured, loopAndFiles, files
  <2> QED BY <1>2, <1>4, <2>1, <2>2 DEF CaptureInv, OnTheWay
<1> QED BY <1>3, <1>7, <1>8, <1>9 DEF CaptureInv

LEMMA CallUnseen ==
  ASSUME CaptureInv, NEW x \in Exchanges, calls' = [calls EXCEPT ![x] = "open"],
         unseen' = unseen \cup {x}, UNCHANGED <<now, hooked, stream, channel, loopAndFiles>>
  PROVE  CaptureInv'
<1>1. /\ calls' \in [Exchanges -> {"none", "open", "answered"}]
      /\ \A e \in Exchanges : e # x => calls'[e] = calls[e]
      /\ calls'[x] = "open"
  BY DEF CaptureInv, TypeOK
<1>2. TypeOK' /\ FilesInv' /\ HintsInv'
  BY <1>1, LoopRests DEF CaptureInv, TypeOK
<1>3. RequestsFirst'
  <2>1. \A e \in Exchanges : calls'[e] = "none" => calls[e] = "none"
    BY <1>1
  <2>2. Replied' = Replied /\ Holds("request")' = Holds("request")
    BY DEF loopAndFiles, files, Replied, Holds
  <2> QED BY <2>1, <2>2 DEF CaptureInv, RequestsFirst
<1>4. AcksLast'
  BY DEF CaptureInv, AcksLast, loopAndFiles
<1>5. OnTheWay'
  <2> SUFFICES ASSUME exit \in {"none", "DetachAck"}, NEW e \in (ByHost \cup ByBody) \ unseen,
                      e # x, calls'[e] # "none"
               PROVE  \/ e \in On(stream, "request") \cup On(channel, "request")
                      \/ InHand(e)' \/ FileWritten(e)'
    BY DEF OnTheWay, loopAndFiles
  <2>1. e \in Exchanges
    BY ExchangesAssumption
  <2>2. InHand(e)' = InHand(e) /\ FileWritten(e)' = FileWritten(e)
    BY DEF InHand, FileWritten, Captured, loopAndFiles, files
  <2> QED BY <1>1, <2>1, <2>2 DEF CaptureInv, OnTheWay
<1> QED BY <1>2, <1>3, <1>4, <1>5 DEF CaptureInv

\* A line goes from the stream into the channel.
LEMMA LineMoved ==
  ASSUME CaptureInv, stream # <<>>, stream' = Tail(stream),
         channel' = Append(channel, Head(stream)),
         UNCHANGED <<now, calls, hooked, loopAndFiles, unseen>>
  PROVE  CaptureInv'
<1> DEFINE l == Head(stream)
<1>1. stream \in Seq(Lines) /\ channel \in Seq(Lines)
  BY DEF CaptureInv, TypeOK
<1>2. /\ stream' \in Seq(Lines) /\ l \in Lines
      /\ \A t : On(stream, t) = On(stream', t) \cup LineOn(l, t)
      /\ HasAck(stream) <=> HasAck(stream') \/ l.type = "detach_ack"
      /\ RequestsFirstIn(stream')
      /\ l.type = "response" => l.exchange \notin On(stream', "request")
      /\ AcksLastIn(stream')
      /\ l.type = "detach_ack" => On(stream', "request") = {}
  BY <1>1, QueueShrinks DEF CaptureInv, RequestsFirst, AcksLast
<1> HIDE DEF l
<1>3. channel' = Append(channel, l)
  BY DEF l
<1>4. /\ channel' \in Seq(Lines)
      /\ \A t : On(channel', t) = On(channel, t) \cup LineOn(l, t)
      /\ HasAck(channel') <=> HasAck(channel) \/ l.type = "detach_ack"
      /\ RequestsFirstIn(channel) /\ (l.type = "request" => l.exchange \notin On(channel, "response"))
           => RequestsFirstIn(channel')
      /\ AcksLastIn(channel) /\ (HasAck(channel) => l.type # "request") => AcksLastIn(channel')
  BY <1>1, <1>2, <1>3, QueueGrows
<1>5. TypeOK' /\ FilesInv' /\ HintsInv'
  BY <1>2, <1>4, LoopRests DEF CaptureInv, TypeOK
<1>6. /\ Replied' = Replied /\ Holds("request")' = Holds("request")
      /\ exit' = exit /\ consumer' = consumer /\ hooked' = hooked /\ calls' = calls
  BY DEF loopAndFiles, files, Replied, Holds
<1>7. /\ l.type = "request" => l.exchange \in Exchanges /\ l.exchange \in On(stream, "request")
      /\ LineOn(l, "response") \subseteq {e \in Exchanges : l.type = "response" /\ e = l.exchange}
  <2>1. l.type = "request" => l.exchange \in Exchanges
    BY <1>2, MessageTypes
  <2> QED BY <1>2, <2>1 DEF LineOn
<1>8. RequestsFirst'
  <2>1. RequestsFirstIn(channel')
    BY <1>4, <1>7 DEF CaptureInv, RequestsFirst
  <2>2. On(channel', "response") \cap On(stream', "request") = {}
    BY <1>2, <1>4, <1>7 DEF CaptureInv, RequestsFirst
  <2>3. On(stream', "request") \cup On(channel', "request") =
          On(stream, "request") \cup On(channel, "request")
    BY <1>2, <1>4
  <2>4. On(stream', "response") \cup On(channel', "response") =
          On(stream, "response") \cup On(channel, "response")
    BY <1>2, <1>4
  <2> QED BY <1>2, <1>6, <2>1, <2>2, <2>3, <2>4 DEF CaptureInv, RequestsFirst
<1>9. AcksLast'
  <2>1. l.type = "request" => ~HasAck(channel) /\ exit # "DetachAck"
    BY <1>7 DEF CaptureInv, AcksLast
  <2>2. AcksLastIn(channel')
    BY <1>4, <2>1 DEF CaptureInv, AcksLast
  <2>3. l.type # "request" => On(channel', "request") = On(channel, "request")
    BY <1>4 DEF LineOn
  <2>4. /\ HasAck(stream') \/ HasAck(channel') \/ exit' = "DetachAck" => ~hooked'
        /\ HasAck(channel') \/ exit' = "DetachAck" => On(stream', "request") = {}
        /\ exit' = "DetachAck" => On(channel', "request") = {}
    BY <1>2, <1>4, <1>6, <2>1, <2>3 DEF CaptureInv, AcksLast
  <2>5. exit' = "none" <=> consumer' \notin {"join", "done"}
    BY <1>6 DEF CaptureInv, AcksLast
  <2> QED BY <1>2, <2>2, <2>4, <2>5 DEF AcksLast
<1>10. OnTheWay'
  <2>1. On(stream', "request") \cup On(channel', "request") =
          On(stream, "request") \cup On(channel, "request")
    BY <1>2, <1>4
  <2>2. \A e : InHand(e)' = InHand(e) /\ FileWritten(e)' = FileWritten(e)
    BY DEF InHand, FileWritten, Captured, loopAndFiles, files
  <2> QED BY <1>6, <2>1, <2>2 DEF CaptureInv, OnTheWay
<1> QED BY <1>5, <1>8, <1>9, <1>10 DEF CaptureInv

\* A line is lost, or what is posted is not of the target.
LEMMA LineGone ==
  ASSUME CaptureInv, stream' \in Seq(Lines), channel' \in Seq(Lines),
         UNCHANGED <<now, calls, hooked, loopAndFiles>>, unseen \subseteq unseen',
         \A t \in {"request", "response"} :
           On(stream', t) \subseteq On(stream, t) /\ On(channel', t) = On(channel, t),
         RequestsFirstIn(stream'), RequestsFirstIn(channel'),
         AcksLastIn(stream'), AcksLastIn(channel'),
         HasAck(stream') => HasAck(stream), HasAck(channel') => HasAck(channel),
         On(stream, "request") \subseteq On(stream', "request") \cup unseen' \/ exit # "none"
  PROVE  CaptureInv'
<1>1. TypeOK' /\ FilesInv' /\ HintsInv'
  BY LoopRests DEF CaptureInv, TypeOK
<1>2. /\ Replied' = Replied /\ Holds("request")' = Holds("request")
      /\ exit' = exit /\ consumer' = consumer
  BY DEF loopAndFiles, files, Replied, Holds
<1>3. RequestsFirst'
  BY <1>2 DEF CaptureInv, RequestsFirst
<1>4. AcksLast'
  BY <1>2 DEF CaptureInv, AcksLast
<1>5. OnTheWay'
  <2>1. \A e : InHand(e)' = InHand(e) /\ FileWritten(e)' = FileWritten(e)
    BY DEF InHand, FileWritten, Captured, loopAndFiles, files
  <2>2. exit = "DetachAck" => On(stream, "request") = {}
    BY DEF CaptureInv, AcksLast
  <2>3. exit \in {"none", "DetachAck"} =>
          On(stream, "request") \subseteq On(stream', "request") \cup unseen'
    BY <2>2
  <2> QED BY <1>2, <2>1, <2>3 DEF CaptureInv, OnTheWay
<1> QED BY <1>1, <1>3, <1>4, <1>5 DEF CaptureInv

\* What Send does to the channel.
LEMMA PlainSent ==
  ASSUME CaptureInv, NEW t \in {"disconnected", "timeout"}, NEW terminal,
         Send(Plain(t), terminal)
  PROVE  /\ channel' \in Seq(Lines)
         /\ \A u \in {"request", "response"} : On(channel', u) = On(channel, u)
         /\ RequestsFirstIn(channel') /\ AcksLastIn(channel')
         /\ HasAck(channel') => HasAck(channel)
<1>1. channel \in Seq(Lines) /\ RequestsFirstIn(channel) /\ AcksLastIn(channel)
  BY DEF CaptureInv, TypeOK, RequestsFirst, AcksLast
<1>2. CASE channel' = channel
  BY <1>1, <1>2
<1>3. CASE channel' = Append(channel, Plain(t))
  <2>1. PICK l \in Lines : l = Plain(t) /\ l.type = t
    BY PlainIsLine
  <2>2. /\ LineOn(l, "request") = {} /\ LineOn(l, "response") = {}
        /\ l.type # "request" /\ l.type # "detach_ack"
    BY <2>1 DEF LineOn
  <2>3. PICK c \in Seq(Lines) : c = channel
    BY <1>1
  <2>4. /\ Append(c, l) \in Seq(Lines)
        /\ \A u : On(Append(c, l), u) = On(c, u) \cup LineOn(l, u)
        /\ HasAck(Append(c, l)) => HasAck(c)
        /\ RequestsFirstIn(Append(c, l)) /\ AcksLastIn(Append(c, l))
    BY <1>1, <2>2, <2>3, QueueGrows
  <2>5. channel' = Append(c, l)
    BY <1>3, <2>1, <2>3
  <2> QED BY <2>2, <2>3, <2>4, <2>5
<1> QED BY <1>2, <1>3 DEF Send

LEMMA ListenerKeeps ==
  ASSUME CaptureInv, Listener
  PROVE  CaptureInv'
<1>1. /\ stream \in Seq(Lines) /\ channel \in Seq(Lines)
      /\ RequestsFirstIn(stream) /\ AcksLastIn(stream)
      /\ RequestsFirstIn(channel) /\ AcksLastIn(channel)
      /\ consumer = "done" => exit # "none"
  BY DEF CaptureInv, TypeOK, RequestsFirst, AcksLast
<1>2. CASE CheckHeartbeat \/ EndOfFile
  <2>1. /\ UNCHANGED <<now, calls, hooked, loopAndFiles, stream, unseen>>
    BY <1>2 DEF CheckHeartbeat, EndOfFile, NotListener, target, loopAndFiles, files
  <2>2. channel' = channel \/ \E t \in {"disconnected", "timeout"} : Send(Plain(t), TRUE)
    BY <1>2 DEF CheckHeartbeat, EndOfFile
  <2> QED BY <1>1, <2>1, <2>2, PlainSent, LineGone
<1>3. CASE ReadLine
  <2>1. /\ stream # <<>> /\ stream' = Tail(stream)
        /\ UNCHANGED <<now, calls, hooked, loopAndFiles, unseen>>
    BY <1>3 DEF ReadLine, NotListener, target, loopAndFiles, files
  <2>2. \/ channel' = Append(channel, Head(stream))
        \/ channel' = channel /\ (Head(stream).type = "rest" \/ consumer = "done")
    BY <1>3 DEF ReadLine, Send
  <2>3. CASE channel' = Append(channel, Head(stream))
    BY <2>1, <2>3, LineMoved
  <2>4. CASE channel' = channel /\ (Head(stream).type = "rest" \/ consumer = "done")
    <3>1. /\ stream' \in Seq(Lines)
          /\ \A t : On(stream, t) = On(stream', t) \cup LineOn(Head(stream), t)
          /\ HasAck(stream') => HasAck(stream)
          /\ RequestsFirstIn(stream') /\ AcksLastIn(stream')
      BY <1>1, <2>1, QueueShrinks
    <3>2. Head(stream).type = "rest" => LineOn(Head(stream), "request") = {}
      BY DEF LineOn
    <3> QED BY <1>1, <2>1, <2>4, <3>1, <3>2, LineGone
  <2> QED BY <2>2, <2>3, <2>4
<1>4. CASE ReadTimesOut
  <2>1. UNCHANGED <<now, calls, hooked, loopAndFiles>>
    BY <1>4 DEF ReadTimesOut, NotListener, target, loopAndFiles, files
  <2>2. /\ channel' \in Seq(Lines)
        /\ \A u \in {"request", "response"} : On(channel', u) = On(channel, u)
        /\ RequestsFirstIn(channel') /\ AcksLastIn(channel')
        /\ HasAck(channel') => HasAck(channel)
    <3>1. channel' = channel \/ Send(Plain("timeout"), TRUE)
      BY <1>4 DEF ReadTimesOut
    <3> QED BY <1>1, <3>1, PlainSent
  <2>3. CASE stream' = stream /\ unseen' = unseen
    BY <1>1, <2>1, <2>2, <2>3, LineGone
  <2>4. CASE /\ stream # <<>> /\ stream' = <<Plain("rest")>> \o Tail(stream)
             /\ unseen' = IF Head(stream).type = "request"
                            THEN unseen \cup {Head(stream).exchange} ELSE unseen
    <3>1. /\ stream' \in Seq(Lines)
          /\ \A t \in {"request", "response"} :
               On(stream, t) = On(stream', t) \cup LineOn(Head(stream), t)
          /\ HasAck(stream') => HasAck(stream)
          /\ RequestsFirstIn(stream') /\ AcksLastIn(stream')
      BY <1>1, <2>4, QueueCut
    <3>2. LineOn(Head(stream), "request") \subseteq unseen' /\ unseen \subseteq unseen'
      BY <2>4 DEF LineOn
    <3> QED BY <2>1, <2>2, <3>1, <3>2, LineGone
  <2> QED BY <1>4, <2>3, <2>4 DEF ReadTimesOut
<1> QED BY <1>2, <1>3, <1>4 DEF Listener

LEMMA TargetKeeps ==
  ASSUME CaptureInv, \/ \E e \in Exchanges : Call(e) \/ Answered(e)
                     \/ Heartbeat \/ TriggerDetach \/ ProcessExits
  PROVE  CaptureInv'
<1>1. /\ calls \in [Exchanges -> {"none", "open", "answered"}] /\ hooked \in BOOLEAN
      /\ now \in Nat
  BY DEF CaptureInv, TypeOK
<1>2. NotTarget => UNCHANGED <<now, channel, loopAndFiles>>
  BY DEF NotTarget, clock, loopState, files, loopAndFiles
<1>3. ASSUME NEW x \in Exchanges, Call(x) PROVE CaptureInv'
  <2>1. /\ hooked /\ calls[x] = "none" /\ calls' = [calls EXCEPT ![x] = "open"]
        /\ hooked' = hooked /\ UNCHANGED <<now, channel, loopAndFiles>>
        /\ \/ Emits(Message("request", x)) /\ unseen' = unseen
           \/ stream' = stream /\ unseen' = unseen \cup {x}
    BY <1>2, <1>3 DEF Call, bridge
  <2>2. CASE stream' = stream /\ unseen' = unseen \cup {x}
    BY <2>1, <2>2, CallUnseen
  <2>3. CASE Emits(Message("request", x)) /\ unseen' = unseen
    <3>1. PICK l \in Lines : l = Message("request", x) /\ l.type = "request" /\ l.exchange = x
      BY MessageIsLine DEF CaptureInv
    <3>2. /\ calls' \in [Exchanges -> {"none", "open", "answered"}]
          /\ calls'[x] # "none" /\ \A e \in Exchanges : e # x => calls'[e] = calls[e]
      BY <1>1, <2>1
    <3>3. LineOn(l, "request") = {x} /\ LineOn(l, "response") = {}
      BY <3>1 DEF LineOn
    <3>4. stream' = Append(stream, l)
      BY <2>3, <3>1 DEF Emits
    <3>5. /\ \A e \in Exchanges :
               calls'[e] = "none" => calls[e] = "none" /\ e \notin LineOn(l, "response")
          /\ \A e \in Exchanges :
               calls'[e] # "none" => calls[e] # "none" \/ e \in LineOn(l, "request")
      BY <3>2, <3>3
    <3>6. /\ hooked' => hooked /\ l.type # "detach_ack"
          /\ l.type = "request" => hooked /\ calls[l.exchange] = "none"
          /\ hooked' \in BOOLEAN
      BY <1>1, <2>1, <3>1
    <3> QED BY <2>1, <2>3, <3>2, <3>4, <3>5, <3>6, LineEmitted
  <2> QED BY <2>1, <2>2, <2>3
<1>4. ASSUME NEW x \in Exchanges, Answered(x) PROVE CaptureInv'
  <2>1. /\ calls[x] = "open" /\ calls' = [calls EXCEPT ![x] = "answered"]
        /\ hooked' = hooked /\ UNCHANGED <<now, channel, loopAndFiles, unseen>>
        /\ Emits(Message("response", x))
    BY <1>2, <1>4 DEF Answered
  <2>2. PICK l \in Lines : l = Message("response", x) /\ l.type = "response" /\ l.exchange = x
    BY MessageIsLine DEF CaptureInv
  <2>3. /\ calls' \in [Exchanges -> {"none", "open", "answered"}]
        /\ calls'[x] # "none" /\ \A e \in Exchanges : e # x => calls'[e] = calls[e]
    BY <1>1, <2>1
  <2>4. LineOn(l, "response") = {x}
    BY <2>2 DEF LineOn
  <2>5. stream' = Append(stream, l)
    BY <2>1, <2>2 DEF Emits
  <2>6. /\ \A e \in Exchanges :
             calls'[e] = "none" => calls[e] = "none" /\ e \notin LineOn(l, "response")
        /\ \A e \in Exchanges :
             calls'[e] # "none" => calls[e] # "none" \/ e \in LineOn(l, "request")
    BY <2>1, <2>3, <2>4
  <2>7. /\ hooked' => hooked /\ l.type # "detach_ack"
        /\ l.type = "request" => hooked /\ calls[l.exchange] = "none"
        /\ hooked' \in BOOLEAN
    BY <1>1, <2>1, <2>2
  <2> QED BY <2>1, <2>3, <2>5, <2>6, <2>7, LineEmitted
<1>5. ASSUME NEW t \in {"heartbeat", "detach_ack"}, Emits(Plain(t)), calls' = calls,
             hooked' \in BOOLEAN, hooked' => hooked /\ t # "detach_ack",
             UNCHANGED <<now, channel, loopAndFiles, unseen>>
      PROVE  CaptureInv'
  <2>1. PICK l \in Lines : l = Plain(t) /\ l.type = t
    BY PlainIsLine
  <2>2. LineOn(l, "request") = {} /\ LineOn(l, "response") = {}
    BY <2>1 DEF LineOn
  <2>3. stream' = Append(stream, l) /\ l.type # "request"
    BY <1>5, <2>1 DEF Emits
  <2> QED BY <1>1, <1>5, <2>1, <2>2, <2>3, LineEmitted
<1>6. CASE Heartbeat
  <2>1. hooked' = hooked
    BY <1>6 DEF Heartbeat
  <2> QED BY <1>1, <1>2, <1>5, <1>6, <2>1 DEF Heartbeat
<1>7. CASE TriggerDetach
  BY <1>2, <1>5, <1>7 DEF TriggerDetach
<1>8. CASE ProcessExits
  BY <1>1, <1>2, <1>8, NothingHappens DEF ProcessExits, target
<1> QED BY <1>3, <1>4, <1>6, <1>7, <1>8

-----------------------------------------------------------------------------
(* Steps of the consuming loop.                                            *)

\* What a step of the loop does to the queues.
LEMMA LoopQueues ==
  ASSUME CaptureInv, NotLoop,
         channel' = channel \/ (channel # <<>> /\ channel' = Tail(channel))
  PROVE  /\ UNCHANGED <<now, calls, hooked, stream, unseen>>
         /\ channel' \in Seq(Lines)
         /\ \A t : On(channel', t) \subseteq On(channel, t)
         /\ RequestsFirstIn(channel') /\ AcksLastIn(channel')
         /\ HasAck(channel') => HasAck(channel)
<1>1. channel \in Seq(Lines) /\ RequestsFirstIn(channel) /\ AcksLastIn(channel)
  BY DEF CaptureInv, TypeOK, RequestsFirst, AcksLast
<1>2. UNCHANGED <<now, calls, hooked, stream, unseen>>
  BY DEF NotLoop, target, bridge
<1>3. CASE channel # <<>> /\ channel' = Tail(channel)
  <2>1. PICK c \in Seq(Lines) : c = channel
    BY <1>1
  <2> QED BY <1>1, <1>2, <1>3, <2>1, QueueShrinks
<1> QED BY <1>1, <1>2, <1>3

\* A step that takes no response nor request in hand.
LEMMA LoopOrder ==
  ASSUME CaptureInv, NotLoop,
         channel' = channel \/ (channel # <<>> /\ channel' = Tail(channel)),
         Replied' \subseteq Replied, Holds("request")' \subseteq Holds("request")
  PROVE  RequestsFirst'
<1>1. /\ UNCHANGED <<calls, stream>> /\ RequestsFirstIn(channel')
      /\ \A t : On(channel', t) \subseteq On(channel, t)
  BY LoopQueues
<1>2. On(channel', "request") \subseteq On(channel, "request")
      /\ On(channel', "response") \subseteq On(channel, "response")
  BY <1>1
<1> QED BY <1>1, <1>2 DEF CaptureInv, RequestsFirst

LEMMA LoopAcks ==
  ASSUME CaptureInv, NotLoop,
         channel' = channel \/ (channel # <<>> /\ channel' = Tail(channel)),
         exit' = "none" <=> consumer' \notin {"join", "done"},
         exit' = "DetachAck" =>
           \/ exit = "DetachAck"
           \/ ~hooked /\ On(stream, "request") \cup On(channel', "request") = {}
  PROVE  AcksLast'
<1>1. /\ UNCHANGED <<hooked, stream>> /\ AcksLastIn(channel')
      /\ \A t : On(channel', t) \subseteq On(channel, t)
      /\ HasAck(channel') => HasAck(channel)
  BY LoopQueues
<1>2. On(channel', "request") \subseteq On(channel, "request")
  BY <1>1
<1>3. AcksLastIn(stream')
  BY <1>1 DEF CaptureInv, AcksLast
<1>4. HasAck(stream') \/ HasAck(channel') \/ exit' = "DetachAck" => ~hooked'
  BY <1>1 DEF CaptureInv, AcksLast
<1>5. /\ HasAck(channel') \/ exit' = "DetachAck" => On(stream', "request") = {}
      /\ exit' = "DetachAck" => On(channel', "request") = {}
  BY <1>1, <1>2 DEF CaptureInv, AcksLast
<1> QED BY <1>1, <1>3, <1>4, <1>5 DEF AcksLast

LEMMA LoopWay ==
  ASSUME CaptureInv, NotLoop,
         exit' \in {"none", "DetachAck"} =>
           /\ exit \in {"none", "DetachAck"}
           /\ \A e \in ByHost \cup ByBody :
                e \in On(channel, "request") \/ InHand(e) \/ FileWritten(e) =>
                  e \in On(channel', "request") \/ InHand(e)' \/ FileWritten(e)'
  PROVE  OnTheWay'
<1>1. UNCHANGED <<calls, stream, unseen>>
  BY DEF NotLoop, target, bridge
<1> QED BY <1>1 DEF CaptureInv, OnTheWay

\* A step after which no message is in hand, and which writes no file.
LEMMA LoopEnds ==
  ASSUME CaptureInv, NotLoop,
         channel' = channel \/ (channel # <<>> /\ channel' = Tail(channel)),
         UNCHANGED <<held, sequence, hints, files>>,
         consumer' \in {"join", "done"}, exit' # "none",
         exit' = "DetachAck" => /\ On(stream, "request") \cup On(channel, "request") = {}
                                /\ consumer \notin Capturing /\ ~hooked
                                /\ exit \in {"none", "DetachAck"}
  PROVE  CaptureInv'
<1>1. /\ UNCHANGED <<now, calls, hooked, stream, unseen>>
      /\ channel' \in Seq(Lines) /\ On(channel', "request") \subseteq On(channel, "request")
  BY LoopQueues
<1>2. TypeOK'
  BY <1>1 DEF CaptureInv, TypeOK, Capturing
<1>3. FilesInv' /\ HintsInv'
  <2>1. FilesInv'
    BY DEF CaptureInv, FilesInv, OwnId, Older, files
  <2>2. \A e \in Replied : e \in ByHost \/ e \in Captured(requests)
    BY DEF CaptureInv, HintsInv
  <2>3. Replied' = Replied /\ requests' = requests
    BY DEF Replied, Holds, files
  <2> QED BY <2>1, <2>2, <2>3 DEF HintsInv, Captured
<1>4. RequestsFirst'
  <2>1. Replied' = Replied /\ Holds("request")' = Holds("request")
    BY DEF Replied, Holds, files
  <2> QED BY <2>1, LoopOrder
<1>5. AcksLast'
  BY <1>1, LoopAcks
<1>6. OnTheWay'
  <2>1. consumer \notin Capturing => \A e : ~InHand(e)
    BY DEF InHand, Capturing
  <2>2. \A e : FileWritten(e)' = FileWritten(e)
    BY DEF FileWritten, Captured, files
  <2> QED BY <2>1, <2>2, LoopWay
<1> QED BY <1>2, <1>3, <1>4, <1>5, <1>6 DEF CaptureInv

LEMMA TakeKeeps ==
  ASSUME CaptureInv, Take
  PROVE  CaptureInv'
<1> DEFINE m == Head(channel)
<1>1. /\ consumer = "loop" /\ channel # <<>> /\ channel' = Tail(channel)
      /\ m.type \notin {"detach_ack", "disconnected", "timeout"}
      /\ UNCHANGED <<sequence, hints, exit, visibility>> /\ NotLoop
      /\ IF Recognized(m)
           THEN held' = m /\ consumer' = "fill" /\ WriteFile(m, FALSE)
           ELSE UNCHANGED <<held, consumer, requests, responses>>
  BY DEF Take
<1>2. /\ channel \in Seq(Lines) /\ RequestsFirstIn(channel) /\ AcksLastIn(channel)
      /\ TypeOK /\ FilesInv
  BY DEF CaptureInv, TypeOK, RequestsFirst, AcksLast
<1>3. /\ m \in Lines
      /\ \A t : On(channel, t) = On(channel', t) \cup LineOn(m, t)
      /\ m.type = "response" => m.exchange \notin On(channel', "request")
  BY <1>1, <1>2, QueueShrinks
<1>4. /\ UNCHANGED <<now, calls, hooked, stream, unseen>>
      /\ channel' \in Seq(Lines) /\ RequestsFirstIn(channel')
  BY <1>1, LoopQueues
<1>5. AcksLast'
  <2>1. exit = "none" /\ consumer' \notin {"join", "done"}
    BY <1>1 DEF CaptureInv, AcksLast
  <2> QED BY <1>1, <2>1, LoopAcks
<1>6. \A e : ~InHand(e)
  BY <1>1 DEF InHand
<1> HIDE DEF m
<1>7. CASE ~Recognized(m)
  <2>1. UNCHANGED <<held, consumer, sequence, hints, exit, requests, responses, visibility>>
    BY <1>1, <1>7
  <2>2. TypeOK' /\ FilesInv' /\ HintsInv'
    BY <1>4, <2>1, LoopRests DEF CaptureInv, TypeOK, loopAndFiles
  <2>3. RequestsFirst'
    <3>1. Replied' = Replied /\ Holds("request")' = Holds("request")
      BY <2>1 DEF Replied, Holds
    <3> QED BY <1>1, <3>1, LoopOrder
  <2>4. OnTheWay'
    <3>1. \A e \in ByHost \cup ByBody : e \notin LineOn(m, "request")
      BY <1>7 DEF Recognized, LineOn
    <3>2. \A e : FileWritten(e)' = FileWritten(e)
      BY <2>1 DEF FileWritten, Captured
    <3> QED BY <1>1, <1>3, <1>6, <3>1, <3>2, LoopWay
  <2> QED BY <1>5, <2>2, <2>3, <2>4 DEF CaptureInv
<1>8. CASE Recognized(m)
  <2>1. held' = m /\ consumer' = "fill" /\ WriteFile(m, FALSE)
    BY <1>1, <1>8
  <2>2. m \in MessageLine /\ m.exchange \in Exchanges /\ m.type \in {"request", "response"}
    BY <1>3, <1>8, MessageTypes DEF Recognized
  <2> DEFINE q == RequestFile(m, FALSE)
             r == ResponseFile(m, FALSE)
  <2>2a. /\ q.id = FileId(m) /\ q.exchange = m.exchange
         /\ r.id = FileId(m) /\ r.exchange = m.exchange
    BY DEF RequestFile, ResponseFile
  <2>2b. ~q.whole /\ ~r.whole
    BY Zenon DEF RequestFile, ResponseFile
  <2>2c. /\ requests' = IF m.type = "request" THEN Put(requests, q) ELSE requests
         /\ responses' = IF m.type = "response" THEN Put(responses, r) ELSE responses
    BY <2>1 DEF WriteFile
  <2> HIDE DEF q, r
  <2>3. Captured(requests') = Captured(requests) /\ \A f \in requests' : f \in requests \/ f = q
    <3>1. PICK dir \in {requests, responses, visibility} : dir = requests
      OBVIOUS
    <3>2. /\ Captured(Put(dir, q)) = Captured(dir) /\ \A f \in Put(dir, q) : f \in dir \/ f = q
      BY <1>1, <1>2, <2>2a, <2>2b, FileIsNew
    <3> QED BY <2>2c, <3>1, <3>2
  <2>4. /\ Captured(responses') = Captured(responses)
        /\ \A f \in responses' : f \in responses \/ (f = r /\ m.type = "response")
    <3>1. PICK dir \in {requests, responses, visibility} : dir = responses
      OBVIOUS
    <3>2. /\ Captured(Put(dir, r)) = Captured(dir) /\ \A f \in Put(dir, r) : f \in dir \/ f = r
      BY <1>1, <1>2, <2>2a, <2>2b, FileIsNew
    <3>3. CASE m.type = "response"
      <4>1. responses' = Put(dir, r)
        BY <2>2c, <3>1, <3>3
      <4> QED BY <3>1, <3>2, <3>3, <4>1
    <3>4. CASE m.type # "response"
      <4>1. responses' = responses
        BY <2>2c, <3>4
      <4> QED BY <4>1
    <3> QED BY <3>3, <3>4
  <2>5. TypeOK'
    BY <1>1, <1>2, <1>4, <2>1, <2>2 DEF TypeOK, Lines, Capturing
  <2>6. FilesInv'
    <3>1. ASSUME NEW f \in requests \cup responses \cup visibility PROVE OwnId(f)'
      <4>1. OwnId(f)
        BY <1>2 DEF FilesInv
      <4> QED BY <1>1, <4>1 DEF OwnId, Older
    <3>2. ASSUME NEW f, f.id = FileId(m), f.exchange = m.exchange PROVE OwnId(f)'
      <4>1. f.id.sequence = sequence /\ sequence \in Nat /\ sequence' = sequence
        BY <1>1, <1>2, <3>2 DEF FileId, TypeOK
      <4> QED BY <2>1, <3>2, <4>1 DEF OwnId, Older
    <3>3. \A f \in requests' \cup responses' \cup visibility' : OwnId(f)'
      BY <1>1, <2>2a, <2>3, <2>4, <3>1, <3>2
    <3>4. \A f \in visibility' : Older(f)'
      BY <1>1, <1>2 DEF FilesInv, OwnId, Older
    <3> QED BY <3>3, <3>4 DEF FilesInv
  <2>7. /\ Holds("request")' = LineOn(m, "request")
        /\ Holds("response")' = LineOn(m, "response")
        /\ Replied' \subseteq Replied \cup LineOn(m, "response")
    <3>1. Holds("request")' = LineOn(m, "request") /\ Holds("response")' = LineOn(m, "response")
      BY <2>1 DEF Holds, LineOn
    <3>2. \A f \in responses' : f.exchange \in Replied \cup LineOn(m, "response")
      BY <2>2, <2>2a, <2>4 DEF Replied, LineOn
    <3> QED BY <3>1, <3>2 DEF Replied
  <2>8. HintsInv'
    <3>1. hints = Unanswered /\ \A e \in Replied : e \in ByHost \/ e \in Captured(requests)
      BY <1>1 DEF CaptureInv, HintsInv
    <3>2. Unanswered' = Unanswered
      BY <2>3, <2>4 DEF Unanswered
    <3>3. \A e \in LineOn(m, "response") : e \in ByHost \/ e \in Captured(requests)
      BY <1>8, <3>1 DEF LineOn, Recognized, Unanswered
    <3>4. \A e \in Replied' : e \in ByHost \/ e \in Captured(requests')
      BY <2>3, <2>7, <3>1, <3>3
    <3> QED BY <1>1, <2>1, <3>1, <3>2, <3>4 DEF HintsInv
  <2>9. RequestsFirst'
    <3>1. /\ On(channel, "request") = On(channel', "request") \cup LineOn(m, "request")
          /\ On(channel, "response") = On(channel', "response") \cup LineOn(m, "response")
          /\ LineOn(m, "response") \cap On(channel', "request") = {}
          /\ LineOn(m, "request") = {} \/ LineOn(m, "response") = {}
      BY <1>3 DEF LineOn
    <3>2. On(channel', "response") \cap On(stream', "request") = {}
      BY <1>4, <3>1 DEF CaptureInv, RequestsFirst
    <3>3. Replied' \cap (On(stream', "request") \cup On(channel', "request")
                           \cup Holds("request")') = {}
      BY <1>4, <2>7, <3>1 DEF CaptureInv, RequestsFirst
    <3>4. \A e \in Exchanges : calls'[e] = "none" =>
            e \notin Replied' \cup On(channel', "response") \cup On(stream', "response")
      BY <1>4, <2>7, <3>1 DEF CaptureInv, RequestsFirst
    <3> QED BY <1>2, <1>4, <3>2, <3>3, <3>4 DEF CaptureInv, RequestsFirst
  <2>10. OnTheWay'
    <3>1. \A e \in LineOn(m, "request") : InHand(e)'
      BY <2>1 DEF InHand, LineOn
    <3>2. \A e : FileWritten(e)' = FileWritten(e)
      BY <1>1, <2>3 DEF FileWritten, Captured
    <3> QED BY <1>1, <1>3, <1>6, <3>1, <3>2, LoopWay
  <2> QED BY <1>5, <2>5, <2>6, <2>8, <2>9, <2>10 DEF CaptureInv
<1> QED BY <1>7, <1>8

\* The file of the message in hand is filled.
LEMMA FillFileKeeps ==
  ASSUME CaptureInv, FillFile
  PROVE  CaptureInv'
<1> DEFINE q == RequestFile(held, TRUE)
           r == ResponseFile(held, TRUE)
           v == ToolsFile(held, FALSE)
<1>1. /\ consumer = "fill" /\ WriteFile(held, TRUE) /\ NotLoop
      /\ UNCHANGED <<channel, held, sequence, hints, exit>>
      /\ IF held.type = "request" /\ held.exchange \in WithTools
           THEN consumer' = "fill tools" /\ visibility' = Put(visibility, v)
           ELSE consumer' = "report" /\ visibility' = visibility
  BY DEF FillFile
<1>2. /\ TypeOK /\ FilesInv /\ held \in MessageLine /\ held.type \in {"request", "response"}
      /\ held.exchange \in Exchanges
  BY <1>1 DEF CaptureInv, TypeOK, Capturing, MessageLine
<1>3. /\ requests' = IF held.type = "request" THEN Put(requests, q) ELSE requests
      /\ responses' = IF held.type = "response" THEN Put(responses, r) ELSE responses
  BY <1>1 DEF WriteFile
<1>4. /\ q.id = FileId(held) /\ q.exchange = held.exchange
      /\ r.id = FileId(held) /\ r.exchange = held.exchange
      /\ v.id = FileId(held) /\ v.exchange = held.exchange
  BY DEF RequestFile, ResponseFile, ToolsFile
<1>5. q.whole /\ r.whole
  BY Zenon DEF RequestFile, ResponseFile
<1> HIDE DEF q, r, v
<1>6. /\ Captured(Put(requests, q)) = Captured(requests) \cup {held.exchange}
      /\ \A f \in Put(requests, q) : f \in requests \/ f = q
  <2>1. PICK dir \in {requests, responses, visibility} : dir = requests
    OBVIOUS
  <2> QED BY <1>2, <1>4, <1>5, <2>1, FileIsFilled
<1>7. /\ Captured(Put(responses, r)) = Captured(responses) \cup {held.exchange}
      /\ \A f \in Put(responses, r) : f \in responses \/ f = r
  <2>1. PICK dir \in {requests, responses, visibility} : dir = responses
    OBVIOUS
  <2> QED BY <1>2, <1>4, <1>5, <2>1, FileIsFilled
<1>8. \A f \in visibility' : f \in visibility \/ f = v
  BY <1>1 DEF Put
<1>9. TypeOK'
  <2>1. UNCHANGED <<now, calls, hooked, stream>>
    BY <1>1, LoopQueues
  <2> QED BY <1>1, <1>2, <2>1 DEF TypeOK
<1>10. FilesInv'
  <2>1. ASSUME NEW f \in requests \cup responses \cup visibility PROVE OwnId(f)'
    <3>1. OwnId(f)
      BY <1>2 DEF FilesInv
    <3> QED BY <1>1, <3>1 DEF OwnId, Older
  <2>2. ASSUME NEW f, f.id = FileId(held), f.exchange = held.exchange PROVE OwnId(f)'
    <3>1. sequence \in Nat
      BY <1>2 DEF TypeOK
    <3>2. f.id.sequence = sequence
      BY <2>2 DEF FileId
    <3> QED BY <1>1, <2>2, <3>1, <3>2 DEF OwnId, Older
  <2>3. \A f \in requests' : f \in requests \/ f = q
    BY <1>3, <1>6
  <2>4. \A f \in responses' : f \in responses \/ f = r
    BY <1>3, <1>7
  <2>5. \A f \in requests' \cup responses' \cup visibility' : OwnId(f)'
    BY <1>4, <1>8, <2>1, <2>2, <2>3, <2>4
  <2> QED BY <1>1, <2>5 DEF FilesInv
<1>11. Replied' \subseteq Replied /\ Holds("request")' = Holds("request")
  <2>1. Holds("request")' = Holds("request") /\ Holds("response")' = Holds("response")
    BY <1>1 DEF Holds
  <2>2. held.type = "response" => held.exchange \in Holds("response")
    BY <1>2 DEF Holds
  <2>3. \A f \in responses' : f.exchange \in Replied
    BY <1>3, <1>4, <1>7, <2>2 DEF Replied
  <2> QED BY <2>1, <2>3 DEF Replied
<1>12. RequestsFirst'
  BY <1>1, <1>11, LoopOrder
<1>13. Captured(requests) \subseteq Captured(requests')
  BY <1>3, <1>6
<1>14. HintsInv'
  <2>1. hints = Unanswered /\ \A e \in Replied : e \in ByHost \/ e \in Captured(requests)
    BY <1>1 DEF CaptureInv, HintsInv
  <2>2. CASE held.type = "request"
    <3>1. /\ Captured(requests') = Captured(requests) \cup {held.exchange}
          /\ responses' = responses
      BY <1>3, <1>6, <2>2
    <3>2. held.exchange \notin Captured(responses)
      <4>1. held.exchange \in Holds("request")
        BY <1>2, <2>2 DEF Holds
      <4>2. held.exchange \notin Replied
        BY <4>1 DEF CaptureInv, RequestsFirst
      <4> QED BY <4>2 DEF Replied, Captured
    <3>3. Captured(responses') = Captured(responses)
      BY <3>1
    <3>4. hints' \cup {held'.exchange} = Unanswered'
      BY <1>1, <1>2, <2>1, <3>1, <3>2, <3>3 DEF Unanswered
    <3> QED BY <1>1, <1>11, <1>13, <2>1, <2>2, <3>4 DEF HintsInv
  <2>3. CASE held.type = "response"
    <3>1. /\ Captured(responses') = Captured(responses) \cup {held.exchange}
          /\ requests' = requests
      BY <1>3, <1>7, <2>3
    <3>2. Captured(requests') = Captured(requests)
      BY <3>1
    <3>3. hints' \ {held'.exchange} = Unanswered'
      BY <1>1, <1>2, <2>1, <3>1, <3>2 DEF Unanswered
    <3> QED BY <1>1, <1>11, <1>13, <2>1, <2>3, <3>3 DEF HintsInv
  <2> QED BY <1>2, <2>2, <2>3
<1>15. AcksLast'
  <2>1. exit = "none" /\ consumer' \notin {"join", "done"}
    BY <1>1 DEF CaptureInv, AcksLast
  <2> QED BY <1>1, <2>1, LoopAcks
<1>16. OnTheWay'
  <2>1. Captured(visibility) \subseteq Captured(visibility')
    <3>1. \A f \in visibility : f.id # v.id
      <4>1. \A f \in visibility : Older(f)
        BY <1>1, <1>2 DEF FilesInv
      <4>2. v.id.pid = 0 /\ v.id.sequence = sequence
        BY <1>4 DEF FileId
      <4>3. ~(sequence < sequence)
        <5>1. sequence \in Nat
          BY <1>2 DEF TypeOK
        <5> QED BY <5>1
      <4> QED BY <4>1, <4>2, <4>3 DEF Older
    <3>2. visibility \subseteq visibility'
      BY <1>1, <3>1 DEF Put
    <3> QED BY <3>2 DEF Captured
  <2>2. ASSUME NEW e, FileWritten(e) PROVE FileWritten(e)'
    BY <1>13, <2>1, <2>2 DEF FileWritten
  <2>3. ASSUME NEW e, InHand(e) PROVE InHand(e)' \/ FileWritten(e)'
    <3>1. held.type = "request" /\ held.exchange = e /\ e \in Captured(requests')
      BY <1>3, <1>6, <2>3 DEF InHand
    <3> QED BY <1>1, <3>1 DEF InHand, FileWritten
  <2> QED BY <1>1, <2>2, <2>3, LoopWay
<1> QED BY <1>9, <1>10, <1>12, <1>14, <1>15, <1>16 DEF CaptureInv

LEMMA FillToolsKeeps ==
  ASSUME CaptureInv, FillTools
  PROVE  CaptureInv'
<1> DEFINE v == ToolsFile(held, TRUE)
<1>1. /\ consumer = "fill tools" /\ consumer' = "report" /\ NotLoop
      /\ visibility' = Put(visibility, v)
      /\ UNCHANGED <<channel, held, sequence, hints, exit, requests, responses>>
  BY DEF FillTools
<1>2. TypeOK /\ FilesInv /\ held \in MessageLine
  BY <1>1 DEF CaptureInv, TypeOK, Capturing
<1>3. v.id = FileId(held) /\ v.exchange = held.exchange
  BY DEF ToolsFile
<1>4. v.whole
  BY Zenon DEF ToolsFile
<1> HIDE DEF v
<1>5. /\ Captured(visibility') = Captured(visibility) \cup {held.exchange}
      /\ \A f \in visibility' : f \in visibility \/ f = v
  <2>1. PICK dir \in {requests, responses, visibility} : dir = visibility
    OBVIOUS
  <2> QED BY <1>1, <1>2, <1>3, <1>4, <2>1, FileIsFilled
<1>6. TypeOK'
  <2>1. UNCHANGED <<now, calls, hooked, stream>>
    BY <1>1, LoopQueues
  <2> QED BY <1>1, <1>2, <2>1 DEF TypeOK
<1>7. FilesInv'
  <2>1. ASSUME NEW f \in requests \cup responses \cup visibility PROVE OwnId(f)'
    <3>1. OwnId(f)
      BY <1>2 DEF FilesInv
    <3> QED BY <1>1, <3>1 DEF OwnId, Older
  <2>2. ASSUME NEW f, f.id = FileId(held), f.exchange = held.exchange PROVE OwnId(f)'
    <3>1. sequence \in Nat
      BY <1>2 DEF TypeOK
    <3>2. f.id.sequence = sequence
      BY <2>2 DEF FileId
    <3> QED BY <1>1, <2>2, <3>1, <3>2 DEF OwnId, Older
  <2>3. \A f \in requests' \cup responses' \cup visibility' : OwnId(f)'
    BY <1>1, <1>3, <1>5, <2>1, <2>2
  <2> QED BY <1>1, <2>3 DEF FilesInv
<1>8. Replied' = Replied /\ Holds("request")' = Holds("request")
  BY <1>1 DEF Replied, Holds
<1>9. HintsInv'
  <2>1. Unanswered' = Unanswered /\ Captured(requests') = Captured(requests)
    BY <1>1 DEF Unanswered
  <2> QED BY <1>1, <1>8, <2>1 DEF CaptureInv, HintsInv
<1>10. RequestsFirst'
  BY <1>1, <1>8, LoopOrder
<1>11. AcksLast'
  <2>1. exit = "none" /\ consumer' \notin {"join", "done"}
    BY <1>1 DEF CaptureInv, AcksLast
  <2> QED BY <1>1, <2>1, LoopAcks
<1>12. OnTheWay'
  <2>1. Captured(requests') = Captured(requests)
    BY <1>1
  <2>2. ASSUME NEW e, FileWritten(e) \/ InHand(e) PROVE FileWritten(e)'
    BY <1>1, <1>5, <2>1, <2>2 DEF FileWritten, InHand
  <2> QED BY <1>1, <2>2, LoopWay
<1> QED BY <1>6, <1>7, <1>9, <1>10, <1>11, <1>12 DEF CaptureInv

LEMMA ReportKeeps ==
  ASSUME CaptureInv, Report
  PROVE  CaptureInv'
<1>1. /\ consumer = "report" /\ consumer' = "loop" /\ held' = Plain("none") /\ NotLoop
      /\ hints' = IF held.type = "request" THEN hints \cup {held.exchange}
                                           ELSE hints \ {held.exchange}
      /\ sequence' = sequence + 1
      /\ UNCHANGED <<channel, exit, requests, responses, visibility>>
  BY DEF Report, files
<1>2. /\ TypeOK /\ FilesInv /\ held \in MessageLine /\ held.exchange \in Exchanges
      /\ sequence \in Nat \ {0}
  BY <1>1 DEF CaptureInv, TypeOK, Capturing, MessageLine
<1>3. held' \in Lines /\ held'.type = "none"
  BY <1>1, PlainIsLine
<1>4. TypeOK'
  <2>1. UNCHANGED <<now, calls, hooked, stream>>
    BY <1>1, LoopQueues
  <2>2. sequence' \in Nat \ {0}
    BY <1>1, <1>2
  <2> QED BY <1>1, <1>2, <1>3, <2>1, <2>2 DEF TypeOK, Capturing
<1>5. FilesInv'
  <2>1. ASSUME NEW f \in requests \cup responses \cup visibility PROVE OwnId(f)'
    <3>1. OwnId(f) /\ f.id.sequence \in Nat
      BY <1>2 DEF FilesInv, OwnId
    <3>2. f.id.sequence < sequence \/ f.id.sequence = sequence => f.id.sequence < sequence'
      BY <1>1, <1>2, <3>1
    <3> QED BY <3>1, <3>2 DEF OwnId, Older
  <2> QED BY <1>1, <2>1 DEF FilesInv
<1>6. Replied' \subseteq Replied /\ Holds("request")' \subseteq Holds("request")
  BY <1>1, <1>3 DEF Replied, Holds
<1>7. HintsInv'
  <2>1. Unanswered' = Unanswered /\ Captured(requests') = Captured(requests)
    BY <1>1 DEF Unanswered
  <2>2. hints' = Unanswered
    BY <1>1 DEF CaptureInv, HintsInv
  <2>3. \A e \in Replied' : e \in ByHost \/ e \in Captured(requests')
    BY <1>6, <2>1 DEF CaptureInv, HintsInv
  <2> QED BY <1>1, <2>1, <2>2, <2>3 DEF HintsInv
<1>8. RequestsFirst'
  BY <1>1, <1>6, LoopOrder
<1>9. AcksLast'
  <2>1. exit = "none"
    BY <1>1 DEF CaptureInv, AcksLast
  <2> QED BY <1>1, <2>1, LoopAcks
<1>10. OnTheWay'
  <2>1. ASSUME NEW e PROVE ~InHand(e) /\ FileWritten(e)' = FileWritten(e)
    BY <1>1 DEF InHand, FileWritten, Captured
  <2> QED BY <1>1, <2>1, LoopWay
<1> QED BY <1>4, <1>5, <1>7, <1>8, <1>9, <1>10 DEF CaptureInv

LEMMA EndKeeps ==
  ASSUME CaptureInv, WriteFails \/ TakeLast \/ PassDeadline \/ Join
  PROVE  CaptureInv'
<1>1. CASE WriteFails
  <2>1. /\ consumer' = "done" /\ exit' = "error" /\ NotLoop
        /\ UNCHANGED <<channel, held, sequence, hints, files>>
    BY <1>1 DEF WriteFails
  <2> QED BY <2>1, LoopEnds
<1>2. CASE TakeLast
  <2>1. /\ consumer = "loop" /\ consumer' = "join" /\ channel # <<>> /\ channel' = Tail(channel)
        /\ NotLoop /\ UNCHANGED <<held, sequence, hints, files>> /\ exit' # "none"
        /\ exit' = "DetachAck" => Head(channel).type = "detach_ack"
    BY <1>2 DEF TakeLast, Ends
  <2>2. ASSUME exit' = "DetachAck"
        PROVE  /\ On(stream, "request") \cup On(channel, "request") = {}
               /\ consumer \notin Capturing /\ ~hooked /\ exit = "none"
    <3>1. PICK c \in Seq(Lines) : c = channel /\ AcksLastIn(c) /\ c # <<>>
      BY <2>1 DEF CaptureInv, TypeOK, AcksLast
    <3>2. /\ On(c, "request") = On(Tail(c), "request") \cup LineOn(Head(c), "request")
          /\ HasAck(c) /\ On(Tail(c), "request") = {}
      BY <2>1, <2>2, <3>1, QueueShrinks
    <3>3. LineOn(Head(c), "request") = {}
      BY <2>1, <2>2, <3>1 DEF LineOn
    <3> QED BY <2>1, <3>1, <3>2, <3>3 DEF CaptureInv, AcksLast, Capturing
  <2> QED BY <2>1, <2>2, LoopEnds
<1>3. CASE PassDeadline
  <2>1. /\ consumer' = "join" /\ exit' = "HeartbeatTimeout" /\ NotLoop
        /\ UNCHANGED <<channel, held, sequence, hints, files>>
    BY <1>3 DEF PassDeadline, Ends
  <2> QED BY <2>1, LoopEnds
<1>4. CASE Join
  <2>1. /\ consumer = "join" /\ consumer' = "done" /\ exit' \in {exit, "error"} /\ NotLoop
        /\ UNCHANGED <<channel, held, sequence, hints, files>>
    BY <1>4 DEF Join
  <2>2. exit # "none"
    BY <2>1 DEF CaptureInv, AcksLast
  <2>3. exit' = "DetachAck" => /\ On(stream, "request") \cup On(channel, "request") = {}
                               /\ consumer \notin Capturing /\ ~hooked
                               /\ exit \in {"none", "DetachAck"}
    BY <2>1 DEF CaptureInv, AcksLast, Capturing
  <2> QED BY <2>1, <2>2, <2>3, LoopEnds
<1> QED BY <1>1, <1>2, <1>3, <1>4

-----------------------------------------------------------------------------
(* What a capture promises.                                                *)

LEMMA InitCapture == Init => CaptureInv
<1> SUFFICES ASSUME Init PROVE CaptureInv
  OBVIOUS
<1>1. TypeOK /\ FilesInv
  BY InitFiles
<1>2. Len(<<>>) = 0
  OBVIOUS
<1>3. /\ \A t : On(stream, t) = {} /\ On(channel, t) = {}
      /\ ~HasAck(stream) /\ ~HasAck(channel)
  BY <1>2 DEF Init, On, HasAck
<1>4. Holds("request") = {} /\ Holds("response") = {} /\ Replied = {}
  BY PlainIsLine DEF Init, Holds, Replied
<1>5. RequestsFirst
  <2>1. RequestsFirstIn(stream) /\ RequestsFirstIn(channel)
    BY <1>2 DEF Init, RequestsFirstIn
  <2> QED BY <1>3, <1>4, <2>1 DEF RequestsFirst
<1>6. HintsInv
  <2>1. Captured(requests) \subseteq {Earlier.exchange}
    BY DEF Init, Captured
  <2>2. Unanswered = {}
    BY <2>1, EarlierAssumption DEF Unanswered
  <2> QED BY <1>4, <2>2 DEF Init, HintsInv
<1>7. AcksLast
  <2>1. AcksLastIn(stream) /\ AcksLastIn(channel)
    BY <1>2 DEF Init, AcksLastIn
  <2> QED BY <1>3, <2>1 DEF Init, AcksLast
<1>8. OnTheWay
  <2>1. \A e \in ByHost \cup ByBody : calls[e] = "none"
    BY ExchangesAssumption DEF Init
  <2> QED BY <2>1 DEF OnTheWay
<1> QED BY <1>1, <1>5, <1>6, <1>7, <1>8 DEF CaptureInv

LEMMA StepCapture == CaptureInv /\ [Next]_vars => CaptureInv'
<1> SUFFICES ASSUME CaptureInv, [Next]_vars PROVE CaptureInv'
  OBVIOUS
<1>1. CASE Tick \/ HeartbeatIsLate \/ WaitIsLate \/ UNCHANGED vars
  <2>1. UNCHANGED <<calls, hooked, stream, channel, loopAndFiles, unseen>>
    BY <1>1 DEF Tick, HeartbeatIsLate, WaitIsLate, vars, target, bridge, loopState,
                loopAndFiles, files
  <2>2. now' \in Nat
    <3>1. now \in Nat
      BY DEF CaptureInv, TypeOK
    <3> QED BY <1>1, <3>1 DEF Tick, HeartbeatIsLate, WaitIsLate, vars
  <2> QED BY <2>1, <2>2, NothingHappens
<1>2. CASE \/ \E e \in Exchanges : Call(e) \/ Answered(e)
           \/ Heartbeat \/ TriggerDetach \/ ProcessExits
  BY <1>2, TargetKeeps
<1>3. CASE Listener
  BY <1>3, ListenerKeeps
<1>4. CASE Take
  BY <1>4, TakeKeeps
<1>5. CASE FillFile
  BY <1>5, FillFileKeeps
<1>6. CASE FillTools
  BY <1>6, FillToolsKeeps
<1>7. CASE Report
  BY <1>7, ReportKeeps
<1>8. CASE WriteFails \/ TakeLast \/ PassDeadline \/ Join
  BY <1>8, EndKeeps
<1> QED BY <1>1, <1>2, <1>3, <1>4, <1>5, <1>6, <1>7, <1>8 DEF Next, Loop

LEMMA CaptureAlways == Spec => []CaptureInv
BY InitCapture, StepCapture, PTL DEF Spec

\* A response is captured only if its host names the provider or after the
\* request it answers; between messages the hints are those of the captured
\* requests that wait for their response.
THEOREM HintsLeadToRequests == Spec => []ResponsesAreAttributed
<1>1. CaptureInv => ResponsesAreAttributed
  BY DEF CaptureInv, HintsInv, Replied, Unanswered, ResponsesAreAttributed
<1> QED BY <1>1, CaptureAlways, PTL

\* When a capture ends with the acknowledgement of the detach, every call that
\* names a provider and whose line was read whole has its files.
THEOREM NothingIsOnTheWay == Spec => []AcknowledgedMeansCaptured
<1>1. ASSUME CaptureInv, exit = "DetachAck", NEW e \in (ByHost \cup ByBody) \ unseen,
             calls[e] # "none"
      PROVE  FileWritten(e)
  <2>1. /\ On(stream, "request") = {} /\ On(channel, "request") = {}
        /\ consumer \in {"join", "done"}
    BY <1>1 DEF CaptureInv, AcksLast
  <2>2. ~InHand(e)
    BY <2>1 DEF InHand
  <2> QED BY <1>1, <2>1, <2>2 DEF CaptureInv, OnTheWay
<1>2. CaptureInv => AcknowledgedMeansCaptured
  BY <1>1 DEF AcknowledgedMeansCaptured, FileWritten
<1> QED BY <1>2, CaptureAlways, PTL

-----------------------------------------------------------------------------
(* Ordered lists.                                                          *)

\* before orders the elements of S strictly and totally.
StrictlyOrders(S, before) ==
  /\ \A x \in S : <<x, x>> \notin before
  /\ \A x, y, z \in S : <<x, y>> \in before /\ <<y, z>> \in before => <<x, z>> \in before
  /\ \A x, y \in S : x # y => <<x, y>> \in before \/ <<y, x>> \in before

LEMMA RanksAreDistinct ==
  ASSUME NEW S, IsFiniteSet(S), NEW before, StrictlyOrders(S, before)
  PROVE  /\ \A x \in S : Cardinality(Preceding(S, before, x)) \in 0..(Cardinality(S) - 1)
         /\ \A x, y \in S : <<x, y>> \in before =>
              Cardinality(Preceding(S, before, x)) < Cardinality(Preceding(S, before, y))
<1>1. ASSUME NEW x \in S
      PROVE  /\ IsFiniteSet(Preceding(S, before, x))
             /\ Cardinality(Preceding(S, before, x)) \in Nat
             /\ IsFiniteSet(Preceding(S, before, x) \cup {x})
             /\ Cardinality(Preceding(S, before, x) \cup {x})
                  = Cardinality(Preceding(S, before, x)) + 1
  <2>1. Preceding(S, before, x) \in SUBSET S /\ x \notin Preceding(S, before, x)
    BY DEF Preceding, StrictlyOrders
  <2>2. IsFiniteSet(Preceding(S, before, x))
    BY <2>1, FS_Subset
  <2> QED BY <2>1, <2>2, FS_CardinalityType, FS_AddElement
<1>2. ASSUME NEW x \in S
      PROVE  Cardinality(Preceding(S, before, x)) \in 0..(Cardinality(S) - 1)
  <2>1. Preceding(S, before, x) \cup {x} \in SUBSET S
    BY DEF Preceding
  <2>2. Cardinality(Preceding(S, before, x) \cup {x}) <= Cardinality(S)
    BY <2>1, FS_Subset
  <2>3. Cardinality(S) \in Nat
    BY FS_CardinalityType
  <2> QED BY <1>1, <2>2, <2>3
<1>3. ASSUME NEW x \in S, NEW y \in S, <<x, y>> \in before
      PROVE  Cardinality(Preceding(S, before, x)) < Cardinality(Preceding(S, before, y))
  <2>1. Preceding(S, before, x) \cup {x} \in SUBSET Preceding(S, before, y)
    BY <1>3 DEF Preceding, StrictlyOrders
  <2>2. Cardinality(Preceding(S, before, x) \cup {x}) <= Cardinality(Preceding(S, before, y))
    BY <1>1, <2>1, FS_Subset
  <2>3. ASSUME NEW i \in Nat, NEW j \in Nat, i + 1 <= j PROVE i < j
    BY <2>3
  <2> QED BY <1>1, <2>2, <2>3
<1> QED BY <1>2, <1>3

LEMMA OrderedIsSorted ==
  ASSUME NEW S, IsFiniteSet(S), NEW before, StrictlyOrders(S, before)
  PROVE  /\ Ordered(S, before) \in Seq(S) /\ Len(Ordered(S, before)) = Cardinality(S)
         /\ \A x \in S : \E k \in 1..Cardinality(S) : Ordered(S, before)[k] = x
         /\ \A i, j \in 1..Cardinality(S) :
              i < j => <<Ordered(S, before)[i], Ordered(S, before)[j]>> \in before
         /\ \A k \in 1..Cardinality(S) :
              /\ Ordered(S, before)[k] \in S
              /\ Cardinality(Preceding(S, before, Ordered(S, before)[k])) = k - 1
<1> DEFINE n == Cardinality(S)
           rank == [x \in S |-> Cardinality(Preceding(S, before, x))]
<1>1. n \in Nat
  BY FS_CardinalityType
<1>2. \A x \in S : rank[x] \in 0..(n - 1)
  BY RanksAreDistinct
<1>3. \A x, y \in S : <<x, y>> \in before => rank[x] < rank[y]
  BY RanksAreDistinct
<1> HIDE DEF rank
<1>4. rank \in [S -> 0..(n - 1)]
  BY <1>2 DEF rank
<1>5. rank \in Injection(S, 0..(n - 1))
  <2>1. ASSUME NEW x \in S, NEW y \in S, rank[x] = rank[y] PROVE x = y
    <3>1. rank[x] \in Int /\ rank[y] \in Int
      BY <1>1, <1>2
    <3>2. ~(<<x, y>> \in before) /\ ~(<<y, x>> \in before)
      BY <1>3, <2>1, <3>1
    <3> QED BY <3>2 DEF StrictlyOrders
  <2> QED BY <1>4, <2>1 DEF Injection, IsInjective
<1>6. rank \in Surjection(S, 0..(n - 1))
  <2>1. IsFiniteSet(0..(n - 1)) /\ Cardinality(0..(n - 1)) = n
    <3>1. 0 \in Int /\ n - 1 \in Int
      BY <1>1
    <3>2. /\ IsFiniteSet(0..(n - 1))
          /\ Cardinality(0..(n - 1)) = IF 0 > n - 1 THEN 0 ELSE (n - 1) - 0 + 1
      BY <3>1, FS_Interval
    <3> QED BY <1>1, <3>2
  <2> QED BY <1>5, <2>1, FS_Injection
<1>7. \A k \in 0..(n - 1) : \E x \in S : rank[x] = k
  BY <1>6 DEF Surjection
<1> DEFINE q == Ordered(S, before)
<1>8. ASSUME NEW k \in 1..n PROVE q[k] \in S /\ rank[q[k]] = k - 1
  <2>1. k - 1 \in 0..(n - 1)
    BY <1>1
  <2>2. \E x \in S : Cardinality(Preceding(S, before, x)) = k - 1
    BY <1>7, <2>1 DEF rank
  <2>3. Standing(S, before, k) \in S /\ Cardinality(Preceding(S, before, Standing(S, before, k))) = k - 1
    BY <2>2 DEF Standing
  <2> QED BY <2>3 DEF rank, Ordered
<1>9. q = [k \in 1..n |-> q[k]]
  BY DEF Ordered
<1> HIDE DEF q
<1>10. q \in Seq(S) /\ Len(q) = n
  <2>1. q \in [1..n -> S]
    BY <1>8, <1>9
  <2> QED BY <1>1, <2>1
<1>11. ASSUME NEW x \in S PROVE \E k \in 1..n : q[k] = x
  <2>1. rank[x] + 1 \in 1..n /\ (rank[x] + 1) - 1 = rank[x]
    BY <1>1, <1>2
  <2>2. rank[q[rank[x] + 1]] = rank[x] /\ q[rank[x] + 1] \in S
    BY <1>8, <2>1
  <2>3. q[rank[x] + 1] = x
    BY <1>5, <2>2 DEF Injection, IsInjective
  <2> QED BY <2>1, <2>3
<1>12. ASSUME NEW i \in 1..n, NEW j \in 1..n, i < j PROVE <<q[i], q[j]>> \in before
  <2>1. /\ q[i] \in S /\ q[j] \in S /\ rank[q[i]] = i - 1 /\ rank[q[j]] = j - 1
    BY <1>8
  <2>2. q[i] # q[j] /\ ~(rank[q[j]] < rank[q[i]])
    BY <1>12, <2>1
  <2> QED BY <1>3, <2>1, <2>2 DEF StrictlyOrders
<1>13. \A k \in 1..n : q[k] \in S /\ Cardinality(Preceding(S, before, q[k])) = k - 1
  BY <1>8 DEF rank
<1> QED BY <1>10, <1>11, <1>12, <1>13 DEF q

\* All that is listed, once and in order.
SortedBy(before, q) == \A i, j \in DOMAIN q : i < j => <<q[i], q[j]>> \in before

LEMMA OrderedListsAll ==
  ASSUME NEW S, IsFiniteSet(S), NEW before, StrictlyOrders(S, before)
  PROVE  /\ Ordered(S, before) \in Seq(S) /\ ToSet(Ordered(S, before)) = S
         /\ SortedBy(before, Ordered(S, before))
<1> DEFINE q == Ordered(S, before)
<1>1. /\ q \in Seq(S) /\ Len(q) = Cardinality(S)
      /\ \A x \in S : \E k \in 1..Cardinality(S) : q[k] = x
      /\ \A i, j \in 1..Cardinality(S) : i < j => <<q[i], q[j]>> \in before
  BY OrderedIsSorted
<1> HIDE DEF q
<1>2. DOMAIN q = 1..Cardinality(S) /\ \A k \in DOMAIN q : q[k] \in S
  BY <1>1
<1>3. ToSet(q) = S
  BY <1>1, <1>2 DEF ToSet
<1> QED BY <1>1, <1>2, <1>3 DEF q, SortedBy

LEMMA AscendingLists ==
  ASSUME NEW S \in SUBSET Int, IsFiniteSet(S)
  PROVE  /\ Ascending(S) \in Seq(S) /\ ToSet(Ascending(S)) = S
         /\ \A i, j \in DOMAIN Ascending(S) : i < j => Ascending(S)[i] < Ascending(S)[j]
<1> DEFINE before == {p \in S \X S : p[1] < p[2]}
<1>1. \A x, y \in S : <<x, y>> \in before <=> x < y
  OBVIOUS
<1>2. StrictlyOrders(S, before)
  <2> HIDE DEF before
  <2> QED BY <1>1 DEF StrictlyOrders
<1>3. /\ Ascending(S) \in Seq(S) /\ ToSet(Ascending(S)) = S /\ SortedBy(before, Ascending(S))
  BY <1>2, OrderedListsAll DEF Ascending
<1> HIDE DEF before
<1>4. ASSUME NEW i \in DOMAIN Ascending(S), NEW j \in DOMAIN Ascending(S), i < j
      PROVE  Ascending(S)[i] < Ascending(S)[j]
  <2>1. Ascending(S)[i] \in S /\ Ascending(S)[j] \in S
    BY <1>3
  <2> QED BY <1>1, <1>3, <1>4, <2>1 DEF SortedBy
<1> QED BY <1>3, <1>4

LEMMA ImageIsFinite ==
  ASSUME NEW D, IsFiniteSet(D), NEW q
  PROVE  IsFiniteSet({q[i] : i \in D})
<1> DEFINE f == [i \in D |-> q[i]]
           T == {q[i] : i \in D}
<1>1. f \in Surjection(D, T)
  BY DEF Surjection
<1> QED BY <1>1, FS_Surjection

LEMMA ListIsOfItsSet ==
  ASSUME NEW T, NEW q \in Seq(T)
  PROVE  /\ Len(q) \in Nat /\ DOMAIN q = 1..Len(q) /\ ToSet(q) = {q[i] : i \in DOMAIN q}
         /\ ToSet(q) \subseteq T /\ IsFiniteSet(ToSet(q)) /\ IsFiniteSet(DOMAIN q)
<1>1. Len(q) \in Nat /\ DOMAIN q = 1..Len(q) /\ \A i \in DOMAIN q : q[i] \in T
  OBVIOUS
<1>2. ToSet(q) = {q[i] : i \in DOMAIN q}
  BY DEF ToSet
<1>3. IsFiniteSet(DOMAIN q)
  <2>1. 1 \in Int /\ Len(q) \in Int
    BY <1>1
  <2> QED BY <1>1, <2>1, FS_Interval
<1>4. IsFiniteSet(ToSet(q))
  BY <1>2, <1>3, ImageIsFinite
<1> QED BY <1>1, <1>2, <1>3, <1>4

LEMMA SomeIsLast ==
  ASSUME NEW S \in SUBSET Int, IsFiniteSet(S), S # {}
  PROVE  \E x \in S : \A y \in S : y <= x
<1> DEFINE q == Ascending(S)
           n == Len(q)
<1>1. q \in Seq(S) /\ ToSet(q) = S /\ \A i, j \in DOMAIN q : i < j => q[i] < q[j]
  BY AscendingLists
<1> HIDE DEF q
<1>2. n \in Nat /\ DOMAIN q = 1..n /\ \A i \in 1..n : q[i] \in S /\ q[i] \in Int
  <2>1. q \in Seq(S)
    BY <1>1
  <2>2. n \in Nat /\ DOMAIN q = 1..n /\ \A i \in 1..n : q[i] \in S
    BY <2>1
  <2>3. \A y \in S : y \in Int
    OBVIOUS
  <2> QED BY <2>2, <2>3
<1> HIDE DEF n
<1>3. \A y \in S : \E i \in 1..n : q[i] = y
  BY <1>1, <1>2 DEF ToSet
<1>4. 1 \in 1..n /\ n \in 1..n
  <2>1. PICK y \in S : TRUE
    OBVIOUS
  <2>2. PICK i \in 1..n : q[i] = y
    BY <1>3, <2>1
  <2> QED BY <1>2, <2>2
<1>5. \A y \in S : y <= q[n]
  <2> TAKE y \in S
  <2>1. PICK i \in 1..n : q[i] = y
    BY <1>3
  <2>2. i = n \/ i < n
    BY <1>2
  <2> QED BY <1>1, <1>2, <1>4, <2>1, <2>2
<1> QED BY <1>2, <1>4, <1>5

-----------------------------------------------------------------------------
(* Groups.                                                                 *)

\* A list of exchanges, each started no earlier than the one before.
StartsInOrder(q) ==
  /\ \A i \in DOMAIN q : q[i].started \in Nat
  /\ \A i, j \in DOMAIN q : i < j => q[i].started <= q[j].started

LEMMA StartsAreAscending ==
  ASSUME NEW T, NEW q \in Seq(T), StartsInOrder(q)
  PROVE  /\ Len(q) \in Nat /\ DOMAIN q = 1..Len(q)
         /\ Len(Starts(q)) \in Nat /\ DOMAIN Starts(q) = 1..Len(Starts(q))
         /\ \A n \in DOMAIN Starts(q) : Starts(q)[n] \in 1..Len(q) /\ StartsNew(Starts(q)[n], q)
         /\ \A i \in 1..Len(q) : StartsNew(i, q) => \E n \in DOMAIN Starts(q) : Starts(q)[n] = i
         /\ \A n, m \in DOMAIN Starts(q) : n < m => Starts(q)[n] < Starts(q)[m]
<1> DEFINE S == {i \in DOMAIN q : StartsNew(i, q)}
<1>1. Len(q) \in Nat /\ DOMAIN q = 1..Len(q)
  BY ListIsOfItsSet
<1>2. S \in SUBSET (1..Len(q)) /\ S \in SUBSET Int
  BY <1>1
<1>3. IsFiniteSet(S)
  <2>1. 1 \in Int /\ Len(q) \in Int
    BY <1>1
  <2>2. IsFiniteSet(1..Len(q))
    BY <2>1, FS_Interval
  <2> HIDE DEF S
  <2> QED BY <1>2, <2>2, FS_Subset
<1>4. Starts(q) = Ascending(S)
  BY DEF Starts
<1>5. \A i \in S : i \in 1..Len(q) /\ StartsNew(i, q)
  BY <1>2
<1>6. \A i \in 1..Len(q) : StartsNew(i, q) => i \in S
  BY <1>1
<1> HIDE DEF S
<1>7. /\ Starts(q) \in Seq(S) /\ ToSet(Starts(q)) = S
      /\ \A n, m \in DOMAIN Starts(q) : n < m => Starts(q)[n] < Starts(q)[m]
  BY <1>2, <1>3, <1>4, AscendingLists
<1>8. PICK t \in Seq(S) : t = Starts(q)
  BY <1>7
<1>9. Len(t) \in Nat /\ DOMAIN t = 1..Len(t) /\ ToSet(t) = {t[n] : n \in DOMAIN t}
  BY ListIsOfItsSet
<1>10. S = {t[n] : n \in DOMAIN t}
  BY <1>7, <1>8, <1>9
<1> QED BY <1>1, <1>5, <1>6, <1>7, <1>8, <1>9, <1>10

\* The groups are stretches of the list, one behind the other, and all of it.
LEMMA GroupsAreStretches ==
  ASSUME NEW T, NEW q \in Seq(T), StartsInOrder(q)
  PROVE  /\ \A n \in DOMAIN Starts(q) :
              End(n, q) \in 1..Len(q) /\ Starts(q)[n] <= End(n, q)
         /\ \A n, m \in DOMAIN Starts(q) : n < m => End(n, q) < Starts(q)[m]
         /\ \A i \in 1..Len(q) : \E n \in DOMAIN Starts(q) : Starts(q)[n] <= i /\ i <= End(n, q)
<1> DEFINE st == Starts(q)
           N == Len(Starts(q))
           e == [n \in 1..N |-> End(n, q)]
           L == Len(q)
<1>1. /\ L \in Nat /\ DOMAIN q = 1..L /\ N \in Nat /\ DOMAIN st = 1..N
      /\ \A n \in 1..N : st[n] \in 1..L
      /\ \A i \in 1..L : StartsNew(i, q) => \E n \in 1..N : st[n] = i
      /\ \A n, m \in 1..N : n < m => st[n] < st[m]
  BY StartsAreAscending
<1>2. \A n \in 1..N : e[n] = IF n = N THEN L ELSE st[n + 1] - 1
  BY DEF End
<1>6. \A n \in 1..N : e[n] = End(n, q)
  OBVIOUS
<1> HIDE DEF st, N, e, L
<1>7. \A n \in 1..N : st[n] \in Nat /\ 1 <= st[n] /\ st[n] <= L
  BY <1>1
<1>3. ASSUME NEW n \in 1..N PROVE e[n] \in 1..L /\ st[n] <= e[n]
  <2>1. CASE n = N
    BY <1>1, <1>2, <1>7, <2>1
  <2>2. CASE n # N
    <3>1. n + 1 \in 1..N /\ n < n + 1
      BY <1>1, <2>2
    <3>2. st[n] < st[n + 1]
      BY <1>1, <3>1
    <3>3. e[n] = st[n + 1] - 1
      BY <1>2, <2>2
    <3>4. \A x, y \in Nat : 1 <= x /\ x < y /\ y <= L => y - 1 \in 1..L /\ x <= y - 1
      BY <1>1
    <3> QED BY <1>7, <3>1, <3>2, <3>3, <3>4
  <2> QED BY <2>1, <2>2
<1>4. ASSUME NEW n \in 1..N, NEW m \in 1..N, n < m PROVE e[n] < st[m]
  <2>1. n # N /\ n + 1 \in 1..N /\ (n + 1 = m \/ n + 1 < m)
    BY <1>1, <1>4
  <2>2. st[n + 1] <= st[m]
    BY <1>1, <1>7, <2>1
  <2>3. \A x, y \in Nat : x <= y => x - 1 < y
    OBVIOUS
  <2> QED BY <1>2, <1>7, <2>1, <2>2, <2>3
<1>5. ASSUME NEW i \in 1..L PROVE \E n \in 1..N : st[n] <= i /\ i <= e[n]
  <2> DEFINE S == {n \in 1..N : st[n] <= i}
  <2>1. PICK k \in 1..N : st[k] = 1
    <3>1. 1 \in 1..L /\ StartsNew(1, q)
      BY <1>1 DEF StartsNew
    <3> QED BY <1>1, <3>1
  <2>2. S \in SUBSET Int /\ S \in SUBSET (1..N) /\ S # {}
    BY <1>1, <2>1
  <2>3. IsFiniteSet(S)
    <3>1. 1 \in Int /\ N \in Int
      BY <1>1
    <3>2. IsFiniteSet(1..N)
      BY <3>1, FS_Interval
    <3> HIDE DEF S
    <3> QED BY <2>2, <3>2, FS_Subset
  <2>4. PICK n \in S : \A m \in S : m <= n
    <3> HIDE DEF S
    <3> QED BY <2>2, <2>3, SomeIsLast
  <2>5. n \in 1..N /\ st[n] <= i
    OBVIOUS
  <2>6. CASE n = N
    BY <1>2, <2>5, <2>6
  <2>7. CASE n # N
    <3>1. n + 1 \in 1..N /\ ~(n + 1 <= n)
      BY <1>1, <2>5, <2>7
    <3>2. ~(st[n + 1] <= i)
      BY <2>4, <3>1
    <3>3. \A x \in Nat : ~(x <= i) => i <= x - 1
      BY <1>1
    <3> QED BY <1>7, <1>2, <2>5, <2>7, <3>1, <3>2, <3>3
  <2> QED BY <2>6, <2>7
<1>8. DOMAIN Starts(q) = 1..N /\ L = Len(q) /\ \A n \in 1..N : Starts(q)[n] = st[n]
  BY <1>1 DEF st, L
<1>9. \A n \in 1..N : End(n, q) \in 1..L /\ st[n] <= End(n, q)
  BY <1>3, <1>6
<1>10. \A n, m \in 1..N : n < m => End(n, q) < st[m]
  BY <1>4, <1>6
<1>11. \A i \in 1..L : \E n \in 1..N : st[n] <= i /\ i <= End(n, q)
  BY <1>5, <1>6
<1> QED BY <1>8, <1>9, <1>10, <1>11

\* A stretch goes on up to the next start.
LEMMA StretchEndsAtStart ==
  ASSUME NEW T, NEW q \in Seq(T), StartsInOrder(q), NEW n \in DOMAIN Starts(q),
         NEW i \in 1..Len(q), NEW j \in 1..Len(q),
         Starts(q)[n] <= i, i <= End(n, q), i <= j
  PROVE  j <= End(n, q) <=> \A k \in 1..Len(q) : i < k /\ k <= j => ~StartsNew(k, q)
<1>1. /\ Len(q) \in Nat /\ DOMAIN Starts(q) = 1..Len(Starts(q)) /\ Len(Starts(q)) \in Nat
      /\ \A m \in DOMAIN Starts(q) : Starts(q)[m] \in 1..Len(q) /\ StartsNew(Starts(q)[m], q)
      /\ \A k \in 1..Len(q) : StartsNew(k, q) => \E m \in DOMAIN Starts(q) : Starts(q)[m] = k
      /\ \A m, l \in DOMAIN Starts(q) : m < l => Starts(q)[m] < Starts(q)[l]
  BY StartsAreAscending
<1>2. /\ \A m \in DOMAIN Starts(q) : End(m, q) \in 1..Len(q) /\ Starts(q)[m] <= End(m, q)
      /\ \A m, l \in DOMAIN Starts(q) : m < l => End(m, q) < Starts(q)[l]
  BY GroupsAreStretches
<1>3. ASSUME j <= End(n, q), NEW k \in 1..Len(q), i < k, k <= j PROVE ~StartsNew(k, q)
  <2> SUFFICES ASSUME StartsNew(k, q) PROVE FALSE
    OBVIOUS
  <2>1. PICK m \in DOMAIN Starts(q) : Starts(q)[m] = k
    BY <1>1
  <2>2. m = n \/ m < n \/ n < m
    BY <1>1
  <2>3. CASE m = n
    BY <1>3, <2>1, <2>3
  <2>4. CASE m < n
    <3>1. k < Starts(q)[n] /\ Starts(q)[n] \in 1..Len(q)
      BY <1>1, <2>1, <2>4
    <3> QED BY <1>1, <1>3, <3>1
  <2>5. CASE n < m
    <3>1. End(n, q) < k /\ End(n, q) \in 1..Len(q)
      BY <1>2, <2>1, <2>5
    <3> QED BY <1>1, <1>3, <3>1
  <2> QED BY <2>2, <2>3, <2>4, <2>5
<1>4. ASSUME ~(j <= End(n, q)) PROVE \E k \in 1..Len(q) : i < k /\ k <= j /\ StartsNew(k, q)
  <2>1. n # Len(Starts(q)) /\ End(n, q) = Starts(q)[n + 1] - 1
    BY <1>1, <1>4 DEF End
  <2>2. n + 1 \in DOMAIN Starts(q)
    BY <1>1, <2>1
  <2>3. PICK k \in 1..Len(q) : k = Starts(q)[n + 1] /\ StartsNew(k, q)
    BY <1>1, <2>2
  <2>4. End(n, q) = k - 1
    BY <2>1, <2>3
  <2>5. i < k /\ k <= j
    BY <1>1, <1>4, <2>4
  <2> QED BY <2>3, <2>5
<1> QED BY <1>3, <1>4

\* A pause breaks the link between the exchanges around it, and only a pause.
LEMMA PausesBreakLinks ==
  ASSUME NEW records, NEW q \in Seq(records), StartsInOrder(q),
         NEW p, ToSet(q) = {x \in records : x.pid = p},
         NEW i \in 1..Len(q), NEW j \in 1..Len(q), i <= j
  PROVE  Linked(q[i], q[j], records) <=>
           \A k \in 1..Len(q) : i < k /\ k <= j => ~StartsNew(k, q)
<1>1. /\ Len(q) \in Nat /\ DOMAIN q = 1..Len(q) /\ SessionWindow \in Nat
      /\ \A k \in 1..Len(q) : q[k] \in records
  BY SessionWindowAssumption
<1>2. /\ \A k \in 1..Len(q) : q[k].started \in Nat
      /\ \A k, l \in 1..Len(q) : k <= l => q[k].started <= q[l].started
  <2>1. \A k \in 1..Len(q) : q[k].started \in Nat
    BY <1>1 DEF StartsInOrder
  <2>2. ASSUME NEW k \in 1..Len(q), NEW l \in 1..Len(q), k <= l
        PROVE  q[k].started <= q[l].started
    <3>1. k < l \/ k = l
      BY <1>1, <2>2
    <3> QED BY <1>1, <2>1, <3>1 DEF StartsInOrder
  <2> QED BY <2>1, <2>2
<1>3. \A k \in 1..Len(q) : q[k].pid = p
  BY <1>1 DEF ToSet
<1>4. \A z \in records : z.pid = p => \E k \in 1..Len(q) : z = q[k]
  BY <1>1 DEF ToSet
<1>5. ASSUME \A k \in 1..Len(q) : i < k /\ k <= j => ~StartsNew(k, q),
             NEW z \in records, z.pid = q[i].pid,
             q[i].started <= z.started, z.started < q[j].started
      PROVE  \E w \in records : /\ w.pid = q[i].pid
                                /\ z.started < w.started
                                /\ w.started <= z.started + SessionWindow
  <2>1. PICK a \in 1..Len(q) : z = q[a]
    BY <1>3, <1>4, <1>5
  <2> DEFINE K == {k \in 1..Len(q) : q[k].started <= z.started}
  <2>2. K \in SUBSET Int /\ K \in SUBSET (1..Len(q)) /\ a \in K
    BY <1>1, <1>2, <2>1
  <2>3. IsFiniteSet(K)
    <3>1. 1 \in Int /\ Len(q) \in Int
      BY <1>1
    <3>2. IsFiniteSet(1..Len(q))
      BY <3>1, FS_Interval
    <3> HIDE DEF K
    <3> QED BY <2>2, <3>2, FS_Subset
  <2>4. PICK c \in K : \A k \in K : k <= c
    <3> HIDE DEF K
    <3> QED BY <2>2, <2>3, SomeIsLast
  <2>5. c \in 1..Len(q) /\ q[c].started <= z.started /\ z.started \in Nat
    BY <1>2, <2>1
  <2>6. i <= c /\ c < j
    <3>1. i \in K
      BY <1>5
    <3>2. i <= c
      BY <2>4, <3>1
    <3>3. ASSUME j <= c PROVE FALSE
      <4>1. q[j].started <= q[c].started
        BY <1>2, <2>5, <3>3
      <4> QED BY <1>2, <1>5, <2>5, <4>1
    <3> QED BY <1>1, <2>5, <3>2, <3>3
  <2>7. c + 1 \in 1..Len(q) /\ i < c + 1 /\ c + 1 <= j /\ (c + 1) - 1 = c /\ c + 1 # 1
        /\ ~(c + 1 <= c)
    BY <1>1, <2>5, <2>6
  <2>8. PICK b \in 1..Len(q) : b = c + 1
    BY <2>7
  <2>9. q[b].started - q[c].started <= SessionWindow
    <3>1. ~StartsNew(b, q)
      BY <1>5, <2>7, <2>8
    <3>2. ~(q[b].started - q[b - 1].started > SessionWindow) /\ b - 1 = c
      BY <2>7, <2>8, <3>1 DEF StartsNew
    <3> QED BY <1>1, <1>2, <2>5, <3>2
  <2>10. z.started < q[b].started
    <3>1. b \notin K
      BY <2>4, <2>7, <2>8
    <3>2. ~(q[b].started <= z.started)
      BY <3>1
    <3> QED BY <1>2, <2>5, <3>2
  <2>11. \A x, y, w \in Nat : x - y <= SessionWindow /\ y <= w => x <= w + SessionWindow
    BY <1>1
  <2>12. q[b].started <= z.started + SessionWindow
    BY <1>2, <2>5, <2>9, <2>11
  <2> QED BY <1>1, <1>3, <2>10, <2>12
<1>6. ASSUME Linked(q[i], q[j], records), NEW k \in 1..Len(q), i < k, k <= j PROVE ~StartsNew(k, q)
  <2> SUFFICES ASSUME StartsNew(k, q) PROVE FALSE
    OBVIOUS
  <2>1. k # 1 /\ k - 1 \in 1..Len(q) /\ i <= k - 1
    BY <1>1, <1>6
  <2>2. PICK c \in 1..Len(q) : c = k - 1 /\ i <= c
    BY <2>1
  <2>3. q[k].started - q[c].started > SessionWindow
    BY <2>1, <2>2 DEF StartsNew
  <2>4. /\ q[i].started <= q[c].started /\ q[k].started <= q[j].started
        /\ q[i].started \in Nat /\ q[c].started \in Nat /\ q[k].started \in Nat
        /\ q[j].started \in Nat
    BY <1>2, <1>6, <2>2
  <2>5. q[c].started < q[j].started
    BY <1>1, <2>3, <2>4
  <2>6. PICK w \in records : /\ w.pid = q[i].pid /\ q[c].started < w.started
                             /\ w.started <= q[c].started + SessionWindow
    BY <1>1, <1>3, <1>6, <2>4, <2>5 DEF Linked
  <2>7. PICK a \in 1..Len(q) : w = q[a]
    BY <1>3, <1>4, <2>6
  <2>8. a <= c \/ k <= a
    BY <1>1, <2>2
  <2>9. q[a].started <= q[c].started \/ q[k].started <= q[a].started
    BY <1>2, <2>8
  <2> QED BY <1>1, <1>2, <2>3, <2>4, <2>6, <2>7, <2>9
<1>7. (\A k \in 1..Len(q) : i < k /\ k <= j => ~StartsNew(k, q)) => Linked(q[i], q[j], records)
  BY <1>5 DEF Linked
<1> QED BY <1>6, <1>7

\* Of one process no two exchanges have the same start and number.
Ranked(records) ==
  /\ IsFiniteSet(records)
  /\ \A x \in records : x.started \in Nat /\ x.id.sequence \in Nat
  /\ \A x, y \in records :
       x.pid = y.pid /\ x.started = y.started /\ x.id.sequence = y.id.sequence => x = y

Of(p, records) == {x \in records : x.pid = p}
Order(p, records) == InOrder(Of(p, records))

LEMMA RecordsHaveOrder ==
  ASSUME NEW records, Ranked(records), NEW p
  PROVE  /\ IsFiniteSet(Of(p, records))
         /\ StrictlyOrders(Of(p, records),
              {d \in Of(p, records) \X Of(p, records) : StartedBefore(d[1], d[2])})
<1> DEFINE R == Of(p, records)
           before == {d \in R \X R : StartedBefore(d[1], d[2])}
<1>1. R \in SUBSET records /\ \A x \in R : x \in records /\ x.pid = p
  BY DEF Of
<1>2. IsFiniteSet(R)
  <2> HIDE DEF R
  <2> QED BY <1>1, FS_Subset DEF Ranked
<1>3. \A x, y \in R : <<x, y>> \in before <=> StartedBefore(x, y)
  OBVIOUS
<1> HIDE DEF R, before
<1>4. \A x \in R : x.started \in Nat /\ x.id.sequence \in Nat
  BY <1>1 DEF Ranked
<1>5. \A x, y \in R : x.started = y.started /\ x.id.sequence = y.id.sequence => x = y
  BY <1>1 DEF Ranked
<1>6. StrictlyOrders(R, before)
  <2>1. ASSUME NEW x \in R PROVE ~StartedBefore(x, x)
    BY <1>4 DEF StartedBefore
  <2>2. ASSUME NEW x \in R, NEW y \in R, NEW z \in R, StartedBefore(x, y), StartedBefore(y, z)
        PROVE  StartedBefore(x, z)
    BY <1>4, <2>2 DEF StartedBefore
  <2>3. ASSUME NEW x \in R, NEW y \in R, x # y PROVE StartedBefore(x, y) \/ StartedBefore(y, x)
    <3>1. x.started # y.started \/ x.id.sequence # y.id.sequence
      BY <1>5, <2>3
    <3> QED BY <1>4, <3>1 DEF StartedBefore
  <2> QED BY <1>3, <2>1, <2>2, <2>3 DEF StrictlyOrders
<1> QED BY <1>2, <1>6 DEF before, R

LEMMA OrderListsAll ==
  ASSUME NEW records, Ranked(records), NEW p
  PROVE  /\ Order(p, records) \in Seq(records) /\ ToSet(Order(p, records)) = Of(p, records)
         /\ StartsInOrder(Order(p, records)) /\ IsInjective(Order(p, records))
<1> DEFINE R == Of(p, records)
           before == {d \in R \X R : StartedBefore(d[1], d[2])}
           q == Order(p, records)
<1>1. \A x \in R : x \in records
  BY DEF Of
<1>2. IsFiniteSet(R) /\ StrictlyOrders(R, before)
  BY RecordsHaveOrder
<1>3. \A x, y \in R : <<x, y>> \in before <=> StartedBefore(x, y)
  OBVIOUS
<1>4. q = Ordered(R, before)
  BY DEF Order, InOrder
<1> HIDE DEF R, before
<1>5. \A x \in R : x.started \in Nat /\ x.id.sequence \in Nat
  BY <1>1 DEF Ranked
<1>6. q \in Seq(R) /\ ToSet(q) = R /\ SortedBy(before, q)
  BY <1>2, <1>4, OrderedListsAll
<1> HIDE DEF q
<1>7. DOMAIN q = 1..Len(q) /\ Len(q) \in Nat /\ \A i \in DOMAIN q : q[i] \in R
  BY <1>6
<1>8. \A i, j \in DOMAIN q : i < j => StartedBefore(q[i], q[j])
  BY <1>3, <1>6, <1>7 DEF SortedBy
<1>9. StartsInOrder(q)
  <2>1. ASSUME NEW i \in DOMAIN q, NEW j \in DOMAIN q, i < j PROVE q[i].started <= q[j].started
    <3>1. StartedBefore(q[i], q[j]) /\ q[i].started \in Nat /\ q[j].started \in Nat
      BY <1>5, <1>7, <1>8, <2>1
    <3> QED BY <3>1 DEF StartedBefore
  <2> QED BY <1>5, <1>7, <2>1 DEF StartsInOrder
<1>10. IsInjective(q)
  <2>1. ASSUME NEW i \in DOMAIN q, NEW j \in DOMAIN q, q[i] = q[j] PROVE i = j
    <3>1. q[i].started \in Nat /\ q[i].id.sequence \in Nat
      BY <1>5, <1>7
    <3>2. ~StartedBefore(q[i], q[i])
      BY <3>1 DEF StartedBefore
    <3>3. ~(i < j) /\ ~(j < i)
      BY <1>8, <2>1, <3>2
    <3> QED BY <1>7, <3>3
  <2> QED BY <2>1 DEF IsInjective
<1>11. q \in Seq(records)
  BY <1>1, <1>6, <1>7
<1> QED BY <1>6, <1>9, <1>10, <1>11 DEF q, R

Stretch(n, q) == SubSeq(q, Starts(q)[n], End(n, q))

LEMMA StretchItems ==
  ASSUME NEW T, NEW q \in Seq(T), StartsInOrder(q), NEW n \in DOMAIN Starts(q)
  PROVE  /\ Stretch(n, q) \in Seq(T) /\ Head(Stretch(n, q)) = q[Starts(q)[n]]
         /\ \A i \in 1..Len(q) :
              Starts(q)[n] <= i /\ i <= End(n, q) => q[i] \in ToSet(Stretch(n, q))
         /\ \A x \in ToSet(Stretch(n, q)) : \E i \in 1..Len(q) :
              x = q[i] /\ Starts(q)[n] <= i /\ i <= End(n, q)
         /\ IsInjective(q) => IsInjective(Stretch(n, q))
<1> DEFINE g == Stretch(n, q)
<1>1. /\ Len(q) \in Nat /\ DOMAIN q = 1..Len(q) /\ \A i \in 1..Len(q) : q[i] \in T
      /\ Starts(q)[n] \in 1..Len(q)
  BY StartsAreAscending
<1>2. End(n, q) \in 1..Len(q) /\ Starts(q)[n] <= End(n, q)
  BY GroupsAreStretches
<1>3. PICK s \in Int, e \in Int : s = Starts(q)[n] /\ e = End(n, q)
  BY <1>1, <1>2
<1>4. /\ s \in 1..Len(q) /\ e \in 1..Len(q) /\ s <= e
      /\ \A i \in s..e : i \in 1..Len(q) /\ q[i] \in T
  BY <1>1, <1>2, <1>3
<1>5. /\ SubSeq(q, s, e) \in Seq(T)
      /\ Len(SubSeq(q, s, e)) = IF s <= e THEN e - s + 1 ELSE 0
      /\ \A i \in 1..(e - s + 1) : SubSeq(q, s, e)[i] = q[s + i - 1]
  BY <1>4, SubSeqProperties
<1>6. /\ g \in Seq(T) /\ Len(g) = e - s + 1
      /\ \A i \in 1..(e - s + 1) : g[i] = q[s + i - 1]
  BY <1>3, <1>4, <1>5 DEF Stretch
<1> HIDE DEF g
<1>7. DOMAIN g = 1..(e - s + 1) /\ Head(g) = q[s]
  <2>1. DOMAIN g = 1..(e - s + 1) /\ Head(g) = g[1]
    BY <1>6
  <2>2. 1 \in 1..(e - s + 1) /\ s + 1 - 1 = s
    BY <1>4
  <2> QED BY <1>6, <2>1, <2>2
<1>8. ASSUME NEW i \in 1..Len(q), s <= i, i <= e PROVE q[i] \in ToSet(g)
  <2>1. i - s + 1 \in 1..(e - s + 1) /\ s + (i - s + 1) - 1 = i
    BY <1>1, <1>4, <1>8
  <2>2. g[i - s + 1] = q[i]
    BY <1>6, <2>1
  <2> QED BY <1>7, <2>1, <2>2 DEF ToSet
<1>9. ASSUME NEW x \in ToSet(g) PROVE \E i \in 1..Len(q) : x = q[i] /\ s <= i /\ i <= e
  <2>1. PICK k \in 1..(e - s + 1) : x = g[k]
    BY <1>7, <1>9 DEF ToSet
  <2>2. s + k - 1 \in 1..Len(q) /\ s <= s + k - 1 /\ s + k - 1 <= e
    BY <1>1, <1>4
  <2> QED BY <1>6, <2>1, <2>2
<1>10. ASSUME IsInjective(q) PROVE IsInjective(g)
  <2>1. ASSUME NEW k \in 1..(e - s + 1), NEW l \in 1..(e - s + 1), g[k] = g[l] PROVE k = l
    <3>1. /\ s + k - 1 \in DOMAIN q /\ s + l - 1 \in DOMAIN q
          /\ q[s + k - 1] = q[s + l - 1]
      BY <1>1, <1>4, <1>6, <2>1
    <3>2. s + k - 1 = s + l - 1
      BY <1>10, <3>1 DEF IsInjective
    <3> QED BY <1>4, <3>2
  <2> QED BY <1>7, <2>1 DEF IsInjective
<1> QED BY <1>3, <1>6, <1>7, <1>8, <1>9, <1>10 DEF g

SessionAt(p, n, records) ==
  [id |-> <<p, Order(p, records)[Starts(Order(p, records))[n]].started, n>>,
   items |-> Stretch(n, Order(p, records))]

AllSessions(records) == UNION {SessionsOfProcess(pid, records) : pid \in {x.pid : x \in records}}

LEMMA SessionsAreStretches ==
  ASSUME NEW records, Ranked(records)
  PROVE  /\ \A s \in AllSessions(records) : \E p \in {x.pid : x \in records} :
              \E n \in DOMAIN Starts(Order(p, records)) : s = SessionAt(p, n, records)
         /\ \A p \in {x.pid : x \in records} :
              \A n \in DOMAIN Starts(Order(p, records)) :
                SessionAt(p, n, records) \in AllSessions(records)
<1>1. ASSUME NEW p, NEW n \in DOMAIN Starts(Order(p, records))
      PROVE  /\ Groups(Of(p, records))[n] = Stretch(n, Order(p, records))
             /\ [id |-> <<p, Head(Groups(Of(p, records))[n]).started, n>>,
                 items |-> Groups(Of(p, records))[n]] = SessionAt(p, n, records)
  <2>1. Groups(Of(p, records))[n] = Stretch(n, Order(p, records))
    BY DEF Groups, Stretch, Order
  <2>2. Head(Stretch(n, Order(p, records))) = Order(p, records)[Starts(Order(p, records))[n]]
    BY OrderListsAll, StretchItems
  <2> QED BY <2>1, <2>2 DEF SessionAt
<1>2. ASSUME NEW p
      PROVE  SessionsOfProcess(p, records)
               = {SessionAt(p, n, records) : n \in DOMAIN Starts(Order(p, records))}
  <2>1. DOMAIN Groups(Of(p, records)) = DOMAIN Starts(Order(p, records))
    BY DEF Groups, Order
  <2>2. SessionsOfProcess(p, records)
          = {[id |-> <<p, Head(Groups(Of(p, records))[n]).started, n>>,
              items |-> Groups(Of(p, records))[n]] : n \in DOMAIN Groups(Of(p, records))}
    BY DEF SessionsOfProcess, Of
  <2> QED BY <1>1, <2>1, <2>2
<1> QED BY <1>2 DEF AllSessions

\* The sessions divide the exchanges of each process at the pauses.
LEMMA SessionsDivideAtPauses ==
  ASSUME NEW records, Ranked(records)
  PROVE  GroupedByPauses(AllSessions(records), records)
<1> DEFINE Q(p) == Order(p, records)
           pids == {x.pid : x \in records}
<1>1. ASSUME NEW p
      PROVE  /\ Q(p) \in Seq(records) /\ StartsInOrder(Q(p)) /\ IsInjective(Q(p))
             /\ ToSet(Q(p)) = {x \in records : x.pid = p}
             /\ DOMAIN Q(p) = 1..Len(Q(p)) /\ Len(Q(p)) \in Nat
             /\ \A i \in 1..Len(Q(p)) : /\ Q(p)[i] \in records /\ Q(p)[i].pid = p
                                        /\ Q(p)[i].started \in Nat
             /\ \A x \in records : x.pid = p => \E i \in 1..Len(Q(p)) : x = Q(p)[i]
             /\ \A i, j \in 1..Len(Q(p)) : Q(p)[i] = Q(p)[j] => i = j
  <2>1. /\ Q(p) \in Seq(records) /\ StartsInOrder(Q(p)) /\ IsInjective(Q(p))
        /\ ToSet(Q(p)) = {x \in records : x.pid = p}
    BY OrderListsAll DEF Of
  <2> HIDE DEF Q
  <2>2. /\ DOMAIN Q(p) = 1..Len(Q(p)) /\ Len(Q(p)) \in Nat
        /\ \A i \in 1..Len(Q(p)) : Q(p)[i] \in records
    BY <2>1
  <2>3. \A i \in 1..Len(Q(p)) : Q(p)[i].pid = p
    BY <2>1, <2>2 DEF ToSet
  <2>4. \A x \in records : x.pid = p => \E i \in 1..Len(Q(p)) : x = Q(p)[i]
    BY <2>1, <2>2 DEF ToSet
  <2>5. \A x \in records : x.started \in Nat
    BY DEF Ranked
  <2>6. \A i, j \in 1..Len(Q(p)) : Q(p)[i] = Q(p)[j] => i = j
    BY <2>1, <2>2 DEF IsInjective
  <2> QED BY <2>1, <2>2, <2>3, <2>4, <2>5, <2>6
<1>2. ASSUME NEW p
      PROVE  /\ \A n \in DOMAIN Starts(Q(p)) : \A i \in 1..Len(Q(p)) :
                  Starts(Q(p))[n] <= i /\ i <= End(n, Q(p)) => Q(p)[i] \in ToSet(Stretch(n, Q(p)))
             /\ \A n \in DOMAIN Starts(Q(p)) : \A x \in ToSet(Stretch(n, Q(p))) :
                  \E i \in 1..Len(Q(p)) : x = Q(p)[i] /\ Starts(Q(p))[n] <= i /\ i <= End(n, Q(p))
             /\ \A n \in DOMAIN Starts(Q(p)) : IsInjective(Stretch(n, Q(p)))
  BY <1>1, StretchItems
<1>3. ASSUME NEW p
      PROVE  /\ \A i \in 1..Len(Q(p)) : \E n \in DOMAIN Starts(Q(p)) :
                  Starts(Q(p))[n] <= i /\ i <= End(n, Q(p))
             /\ \A n, m \in DOMAIN Starts(Q(p)) : \A i \in 1..Len(Q(p)) :
                  Starts(Q(p))[n] <= i /\ i <= End(n, Q(p))
                    /\ Starts(Q(p))[m] <= i /\ i <= End(m, Q(p)) => n = m
  <2>1. /\ Q(p) \in Seq(records) /\ StartsInOrder(Q(p)) /\ Len(Q(p)) \in Nat
    BY <1>1
  <2> HIDE DEF Q
  <2>2. /\ DOMAIN Starts(Q(p)) = 1..Len(Starts(Q(p))) /\ Len(Starts(Q(p))) \in Nat
        /\ \A n \in DOMAIN Starts(Q(p)) : Starts(Q(p))[n] \in 1..Len(Q(p))
    BY <2>1, StartsAreAscending
  <2>3. /\ \A n \in DOMAIN Starts(Q(p)) : End(n, Q(p)) \in 1..Len(Q(p))
        /\ \A n, m \in DOMAIN Starts(Q(p)) : n < m => End(n, Q(p)) < Starts(Q(p))[m]
        /\ \A i \in 1..Len(Q(p)) : \E n \in DOMAIN Starts(Q(p)) :
             Starts(Q(p))[n] <= i /\ i <= End(n, Q(p))
    BY <2>1, GroupsAreStretches
  <2>4. ASSUME NEW n \in DOMAIN Starts(Q(p)), NEW m \in DOMAIN Starts(Q(p)),
               NEW i \in 1..Len(Q(p)), i <= End(n, Q(p)), Starts(Q(p))[m] <= i
        PROVE  ~(n < m)
    <3>1. End(n, Q(p)) \in 1..Len(Q(p)) /\ Starts(Q(p))[m] \in 1..Len(Q(p))
      BY <2>2, <2>3
    <3>2. \A x, y \in 1..Len(Q(p)) : i <= x /\ y <= i => ~(x < y)
      BY <2>1
    <3>3. ~(End(n, Q(p)) < Starts(Q(p))[m])
      BY <2>4, <3>1, <3>2
    <3> QED BY <2>3, <3>3
  <2>5. ASSUME NEW n \in DOMAIN Starts(Q(p)), NEW m \in DOMAIN Starts(Q(p)),
               NEW i \in 1..Len(Q(p)),
               Starts(Q(p))[n] <= i, i <= End(n, Q(p)),
               Starts(Q(p))[m] <= i, i <= End(m, Q(p))
        PROVE  n = m
    <3>1. ~(n < m) /\ ~(m < n)
      BY <2>4, <2>5
    <3> QED BY <2>2, <3>1
  <2> QED BY <2>3, <2>5
<1>4. ASSUME NEW s \in AllSessions(records)
      PROVE  \E p \in pids : \E n \in DOMAIN Starts(Q(p)) :
               s = SessionAt(p, n, records) /\ s.items = Stretch(n, Q(p))
  <2>1. PICK p \in pids : \E n \in DOMAIN Starts(Q(p)) : s = SessionAt(p, n, records)
    BY SessionsAreStretches
  <2> QED BY <2>1 DEF SessionAt
<1>5. ASSUME NEW p \in pids, NEW n \in DOMAIN Starts(Q(p))
      PROVE  SessionAt(p, n, records) \in AllSessions(records)
  BY SessionsAreStretches
<1>6. \A p, n : SessionAt(p, n, records).items = Stretch(n, Q(p))
  BY DEF SessionAt
<1> HIDE DEF Q
<1>7. ASSUME NEW s \in AllSessions(records), NEW t \in AllSessions(records), NEW x,
             x \in ToSet(s.items), x \in ToSet(t.items)
      PROVE  s = t
  <2>1. PICK p \in pids : \E k \in DOMAIN Starts(Q(p)) :
          s = SessionAt(p, k, records) /\ s.items = Stretch(k, Q(p))
    BY <1>4
  <2>2. PICK r \in pids : \E k \in DOMAIN Starts(Q(r)) :
          t = SessionAt(r, k, records) /\ t.items = Stretch(k, Q(r))
    BY <1>4
  <2>3. PICK n \in DOMAIN Starts(Q(p)) :
          s = SessionAt(p, n, records) /\ s.items = Stretch(n, Q(p))
    BY <2>1
  <2>4. PICK m \in DOMAIN Starts(Q(r)) :
          t = SessionAt(r, m, records) /\ t.items = Stretch(m, Q(r))
    BY <2>2
  <2>5. PICK i \in 1..Len(Q(p)) : x = Q(p)[i] /\ Starts(Q(p))[n] <= i /\ i <= End(n, Q(p))
    BY <1>2, <1>7, <2>3
  <2>6. PICK j \in 1..Len(Q(r)) : x = Q(r)[j] /\ Starts(Q(r))[m] <= j /\ j <= End(m, Q(r))
    BY <1>2, <1>7, <2>4
  <2>7. p = r
    <3>1. x.pid = p
      BY <1>1, <2>5
    <3>2. x.pid = r
      BY <1>1, <2>6
    <3> QED BY <3>1, <3>2
  <2>8. i = j
    <3>1. \A k, l \in 1..Len(Q(p)) : Q(p)[k] = Q(p)[l] => k = l
      BY <1>1
    <3> QED BY <2>5, <2>6, <2>7, <3>1
  <2>9. n = m
    BY <1>3, <2>5, <2>6, <2>7, <2>8
  <2> QED BY <2>7, <2>9, <2>3, <2>4
<1>8. ASSUME NEW x \in records
      PROVE  Cardinality({s \in AllSessions(records) : x \in ToSet(s.items)}) = 1
  <2>1. PICK p \in pids : x.pid = p
    OBVIOUS
  <2>2. PICK i \in 1..Len(Q(p)) : x = Q(p)[i]
    BY <1>1, <2>1
  <2>3. PICK n \in DOMAIN Starts(Q(p)) : Starts(Q(p))[n] <= i /\ i <= End(n, Q(p))
    BY <1>3
  <2>4. PICK s \in AllSessions(records) : s.items = Stretch(n, Q(p))
    BY <1>5, <1>6
  <2>5. x \in ToSet(s.items)
    BY <1>2, <2>2, <2>3, <2>4
  <2>6. {t \in AllSessions(records) : x \in ToSet(t.items)} = {s}
    BY <1>7, <2>5
  <2> QED BY <2>6, FS_Singleton
<1>9. ASSUME NEW s \in AllSessions(records)
      PROVE  IsInjective(s.items) /\ ToSet(s.items) \subseteq records
  <2>0. PICK p \in pids : \E k \in DOMAIN Starts(Q(p)) : s.items = Stretch(k, Q(p))
    BY <1>4
  <2>1. PICK n \in DOMAIN Starts(Q(p)) : s.items = Stretch(n, Q(p))
    BY <2>0
  <2>2. ASSUME NEW x \in ToSet(s.items) PROVE x \in records
    <3>1. PICK i \in 1..Len(Q(p)) : x = Q(p)[i]
      BY <1>2, <2>1, <2>2
    <3> QED BY <1>1, <3>1
  <2> QED BY <1>2, <2>1, <2>2
<1>10. ASSUME NEW s \in AllSessions(records), NEW x \in ToSet(s.items), NEW y \in records,
              y.pid = x.pid, x.started <= y.started
       PROVE  y \in ToSet(s.items) <=> Linked(x, y, records)
  <2>0. PICK p \in pids : \E k \in DOMAIN Starts(Q(p)) : s.items = Stretch(k, Q(p))
    BY <1>4
  <2>1. PICK n \in DOMAIN Starts(Q(p)) : s.items = Stretch(n, Q(p))
    BY <2>0
  <2>2. PICK i \in 1..Len(Q(p)) : x = Q(p)[i] /\ Starts(Q(p))[n] <= i /\ i <= End(n, Q(p))
    BY <1>2, <1>10, <2>1
  <2>3. PICK j \in 1..Len(Q(p)) : y = Q(p)[j]
    BY <1>1, <1>10, <2>2
  <2>4. /\ Q(p) \in Seq(records) /\ StartsInOrder(Q(p)) /\ Len(Q(p)) \in Nat
        /\ ToSet(Q(p)) = {z \in records : z.pid = p}
    BY <1>1
  <2>5. y \in ToSet(s.items) <=> Starts(Q(p))[n] <= j /\ j <= End(n, Q(p))
    <3>1. ASSUME y \in ToSet(s.items) PROVE Starts(Q(p))[n] <= j /\ j <= End(n, Q(p))
      <4>1. PICK k \in 1..Len(Q(p)) : y = Q(p)[k] /\ Starts(Q(p))[n] <= k /\ k <= End(n, Q(p))
        BY <1>2, <2>1, <3>1
      <4>2. k = j
        <5>1. \A l, h \in 1..Len(Q(p)) : Q(p)[l] = Q(p)[h] => l = h
          BY <1>1
        <5> QED BY <2>3, <4>1, <5>1
      <4> QED BY <4>1, <4>2
    <3> QED BY <1>2, <2>1, <2>3, <3>1
  <2>6. Starts(Q(p))[n] \in Nat /\ End(n, Q(p)) \in Nat
    <3>1. Starts(Q(p))[n] \in 1..Len(Q(p))
      BY <2>4, StartsAreAscending
    <3>2. End(n, Q(p)) \in 1..Len(Q(p))
      BY <2>4, GroupsAreStretches
    <3> QED BY <2>4, <3>1, <3>2
  <2>7. CASE i <= j
    <3>1. j <= End(n, Q(p)) <=> \A k \in 1..Len(Q(p)) : i < k /\ k <= j => ~StartsNew(k, Q(p))
      BY <2>2, <2>4, <2>7, StretchEndsAtStart
    <3>2. Linked(Q(p)[i], Q(p)[j], records)
            <=> \A k \in 1..Len(Q(p)) : i < k /\ k <= j => ~StartsNew(k, Q(p))
      BY <2>4, <2>7, PausesBreakLinks
    <3>3. Starts(Q(p))[n] <= j
      BY <2>2, <2>4, <2>6, <2>7
    <3> QED BY <2>2, <2>3, <2>5, <3>1, <3>2, <3>3
  <2>8. CASE ~(i <= j)
    <3>1. j <= i /\ j < i
      BY <2>4, <2>8
    <3>2. x.started = y.started /\ x.started \in Nat
      <4>1. y.started <= x.started
        BY <1>1, <2>2, <2>3, <3>1 DEF StartsInOrder
      <4>2. x.started \in Nat /\ y.started \in Nat
        BY <1>1, <2>2, <2>3
      <4> QED BY <1>10, <4>1, <4>2
    <3>3. Linked(x, y, records) /\ Linked(y, x, records)
      <4>1. \A z \in records : ~(x.started <= z.started /\ z.started < x.started)
        BY <3>2 DEF Ranked
      <4> QED BY <3>2, <4>1 DEF Linked
    <3>4. PICK m \in DOMAIN Starts(Q(p)) : Starts(Q(p))[m] <= j /\ j <= End(m, Q(p))
      BY <1>3
    <3>5. i <= End(m, Q(p)) <=> \A k \in 1..Len(Q(p)) : j < k /\ k <= i => ~StartsNew(k, Q(p))
      BY <2>4, <3>1, <3>4, StretchEndsAtStart
    <3>6. Linked(Q(p)[j], Q(p)[i], records)
            <=> \A k \in 1..Len(Q(p)) : j < k /\ k <= i => ~StartsNew(k, Q(p))
      BY <2>4, <3>1, PausesBreakLinks
    <3>7. i <= End(m, Q(p))
      BY <2>2, <2>3, <3>3, <3>5, <3>6
    <3>8. Starts(Q(p))[m] <= i
      <4>1. Starts(Q(p))[m] \in 1..Len(Q(p))
        BY <2>4, StartsAreAscending
      <4> QED BY <2>4, <3>1, <3>4, <4>1
    <3>9. m = n
      BY <1>3, <2>2, <3>7, <3>8
    <3> QED BY <2>5, <3>3, <3>4, <3>9
  <2> QED BY <2>7, <2>8
<1> QED BY <1>8, <1>9, <1>10 DEF GroupedByPauses

-----------------------------------------------------------------------------
(* The files of requests.                                                  *)

\* A file is named for its time, process and number.
Named(f) ==
  /\ f.id = [at |-> f.at, pid |-> f.pid, sequence |-> f.id.sequence]
  /\ f.at \in Nat /\ f.id.sequence \in Nat

WellNamed(dir) ==
  /\ IsFiniteSet(dir)
  /\ \A f \in dir : Named(f)
  /\ \A f, g \in dir : f.id = g.id => f = g

RequestNames == WellNamed(requests)

LEMMA PutNames ==
  ASSUME RequestNames, NEW m \in MessageLine, NEW whole, sequence \in Nat,
         requests' = Put(requests, RequestFile(m, whole))
  PROVE  RequestNames'
<1> DEFINE file == RequestFile(m, whole)
           kept == {f \in requests : f.id # file.id}
<1>1. m.at \in Nat
  BY DEF MessageLine
<1>2. Named(file)
  BY <1>1 DEF RequestFile, FileId, Named
<1> HIDE DEF file
<1>3. requests' = kept \cup {file}
  BY DEF Put, file
<1>4. kept \in SUBSET requests /\ \A f \in kept : f.id # file.id
  OBVIOUS
<1> HIDE DEF kept
<1>5. IsFiniteSet(requests')
  <2>1. IsFiniteSet(kept)
    BY <1>4, FS_Subset DEF RequestNames, WellNamed
  <2> QED BY <1>3, <2>1, FS_AddElement
<1>6. \A f \in requests' : Named(f)
  BY <1>2, <1>3, <1>4 DEF RequestNames, WellNamed
<1>7. \A f, g \in requests' : f.id = g.id => f = g
  BY <1>3, <1>4 DEF RequestNames, WellNamed
<1> QED BY <1>5, <1>6, <1>7 DEF RequestNames, WellNamed

LEMMA InitNames == Init => RequestNames
<1> SUFFICES ASSUME Init PROVE RequestNames
  OBVIOUS
<1>1. requests = {Earlier}
  BY DEF Init
<1>2. Named(Earlier)
  BY DEF Earlier, Named
<1> QED BY <1>1, <1>2, FS_Singleton DEF RequestNames, WellNamed

LEMMA StepNames == CaptureInv /\ RequestNames /\ [Next]_vars => RequestNames'
<1> SUFFICES ASSUME CaptureInv, RequestNames, [Next]_vars PROVE RequestNames'
  OBVIOUS
<1>1. sequence \in Nat
  BY DEF CaptureInv, TypeOK
<1>2. CASE UNCHANGED requests
  BY <1>2 DEF RequestNames, WellNamed
<1>3. ASSUME NEW m \in MessageLine, NEW whole, WriteFile(m, whole) PROVE RequestNames'
  <2>1. CASE m.type = "request"
    <3>1. requests' = Put(requests, RequestFile(m, whole))
      BY <1>3, <2>1 DEF WriteFile
    <3> QED BY <1>1, <3>1, PutNames
  <2>2. CASE m.type # "request"
    <3>1. UNCHANGED requests
      BY <1>3, <2>2 DEF WriteFile
    <3> QED BY <1>2, <3>1
  <2> QED BY <2>1, <2>2
<1>4. CASE Take
  <2>1. CASE Recognized(Head(channel))
    <3>1. Head(channel) \in Lines
      <4>1. channel \in Seq(Lines) /\ channel # <<>>
        BY <1>4 DEF Take, CaptureInv, TypeOK
      <4> QED BY <4>1
    <3>2. Head(channel).type \in {"request", "response"}
      BY <2>1 DEF Recognized
    <3>3. Head(channel) \in MessageLine
      BY <3>1, <3>2, MessageTypes
    <3>4. WriteFile(Head(channel), FALSE)
      BY <1>4, <2>1 DEF Take
    <3> QED BY <1>3, <3>3, <3>4
  <2>2. CASE ~Recognized(Head(channel))
    BY <1>2, <1>4, <2>2 DEF Take
  <2> QED BY <2>1, <2>2
<1>5. CASE FillFile
  <2>1. held \in MessageLine /\ WriteFile(held, TRUE)
    BY <1>5 DEF FillFile, CaptureInv, TypeOK, Capturing
  <2> QED BY <1>3, <2>1
<1>6. CASE \/ Tick \/ HeartbeatIsLate \/ WaitIsLate \/ UNCHANGED vars
           \/ \E e \in Exchanges : Call(e) \/ Answered(e)
           \/ Heartbeat \/ TriggerDetach \/ ProcessExits
  BY <1>2, <1>6 DEF Tick, HeartbeatIsLate, WaitIsLate, vars, Call, Answered, Heartbeat,
                    TriggerDetach, ProcessExits, NotTarget, files
<1>7. CASE Listener
  BY <1>2, <1>7 DEF Listener, CheckHeartbeat, ReadLine, ReadTimesOut, EndOfFile, NotListener, files
<1>8. CASE FillTools \/ Report \/ WriteFails \/ TakeLast \/ PassDeadline \/ Join
  BY <1>2, <1>8 DEF FillTools, Report, WriteFails, TakeLast, PassDeadline, Join, Ends, files
<1> QED BY <1>4, <1>5, <1>6, <1>7, <1>8 DEF Next, Loop

LEMMA NamesAlways == Spec => []RequestNames
BY InitNames, StepNames, CaptureAlways, PTL DEF Spec

RecordOf(f, resps, tools) ==
  [id |-> f.id, exchange |-> f.exchange, pid |-> f.pid, started |-> f.at,
   hasResponse |-> ResponseTo(f.exchange, resps) # {},
   hasTools |-> HasTools(f, tools),
   completed |-> IF ResponseTo(f.exchange, resps) = {} THEN f.at
                 ELSE (CHOOSE r \in ResponseTo(f.exchange, resps) : TRUE).completed]

LEMMA RecordsOfFiles ==
  ASSUME NEW dir, NEW resps, NEW tools
  PROVE  /\ ExchangeRecords(dir, resps, tools)
              = {RecordOf(f, resps, tools) : f \in RequestRecords(dir)}
         /\ \A f : /\ RecordOf(f, resps, tools).id = f.id
                  /\ RecordOf(f, resps, tools).pid = f.pid
                  /\ RecordOf(f, resps, tools).started = f.at
BY DEF ExchangeRecords, RecordOf

LEMMA RecordsAreRanked ==
  ASSUME NEW dir, WellNamed(dir), NEW resps, NEW tools
  PROVE  Ranked(ExchangeRecords(dir, resps, tools))
<1> DEFINE reqs == RequestRecords(dir)
           rec == [f \in reqs |-> RecordOf(f, resps, tools)]
<1>1. ExchangeRecords(dir, resps, tools) = {rec[f] : f \in reqs}
  BY RecordsOfFiles
<1>2. ASSUME NEW f \in reqs
      PROVE  rec[f].id = f.id /\ rec[f].pid = f.pid /\ rec[f].started = f.at
  BY DEF RecordOf
<1>3. reqs \in SUBSET dir
  BY DEF RequestRecords
<1> HIDE DEF reqs, rec
<1>4. IsFiniteSet({rec[f] : f \in reqs})
  <2>1. IsFiniteSet(reqs)
    BY <1>3, FS_Subset DEF WellNamed
  <2> QED BY <2>1, ImageIsFinite
<1>5. ASSUME NEW f \in reqs PROVE rec[f].started \in Nat /\ rec[f].id.sequence \in Nat
  <2>1. Named(f)
    BY <1>3 DEF WellNamed
  <2> QED BY <1>2, <2>1 DEF Named
<1>6. ASSUME NEW f \in reqs, NEW g \in reqs, rec[f].pid = rec[g].pid,
             rec[f].started = rec[g].started, rec[f].id.sequence = rec[g].id.sequence
      PROVE  rec[f] = rec[g]
  <2>1. Named(f) /\ Named(g)
    BY <1>3 DEF WellNamed
  <2>2. f.pid = g.pid /\ f.at = g.at /\ f.id.sequence = g.id.sequence
    BY <1>2, <1>6
  <2>3. f.id = g.id
    BY <2>1, <2>2 DEF Named
  <2> QED BY <1>3, <2>3 DEF WellNamed
<1> QED BY <1>1, <1>4, <1>5, <1>6 DEF Ranked

\* The sessions divide the exchanges of each process at the pauses that are
\* longer than the window, and nowhere else: each exchange is in one session,
\* and a later one in the same just when no such pause lies between them.
THEOREM PausesDivideSessions == Spec => []SessionsFollowPauses
<1>1. ASSUME WellNamed(requests), Readable(responses), Readable(visibility)
      PROVE  GroupedByPauses(Listed, ExchangeRecords(requests, responses, visibility))
  <2>1. Listed = AllSessions(ExchangeRecords(requests, responses, visibility))
    BY <1>1 DEF Listed, Sessions, AllSessions
  <2>2. Ranked(ExchangeRecords(requests, responses, visibility))
    BY <1>1, RecordsAreRanked
  <2> QED BY <2>1, <2>2, SessionsDivideAtPauses
<1>2. RequestNames => SessionsFollowPauses
  BY <1>1 DEF SessionsFollowPauses, RequestNames
<1> QED BY <1>2, NamesAlways, PTL

-----------------------------------------------------------------------------
(* What comes behind all others changes nothing of the order before it.    *)

\* f places the elements of S in T, with none between them that is not of S.
Embeds(f, S, before, T, after) ==
  /\ f \in [S -> T] /\ IsInjective(f)
  /\ \A x, y \in S : <<x, y>> \in before <=> <<f[x], f[y]>> \in after
  /\ \A x \in S, z \in T : <<z, f[x]>> \in after => \E y \in S : z = f[y]

LEMMA EmbeddedKeepsPlace ==
  ASSUME NEW S, IsFiniteSet(S), NEW before, StrictlyOrders(S, before),
         NEW T, IsFiniteSet(T), NEW after, StrictlyOrders(T, after),
         NEW f, Embeds(f, S, before, T, after)
  PROVE  /\ Cardinality(S) <= Cardinality(T)
         /\ \A k \in 1..Cardinality(S) : /\ k \in 1..Cardinality(T)
                                         /\ Ordered(T, after)[k] = f[Ordered(S, before)[k]]
<1>1. /\ f \in [S -> T] /\ IsInjective(f)
      /\ \A x, y \in S : f[x] = f[y] => x = y
      /\ \A x, y \in S : <<x, y>> \in before <=> <<f[x], f[y]>> \in after
      /\ \A x \in S, z \in T : <<z, f[x]>> \in after => \E y \in S : z = f[y]
  BY DEF Embeds, IsInjective
<1>2. Cardinality(S) \in Nat /\ Cardinality(T) \in Nat
  BY FS_CardinalityType
<1>3. Cardinality(S) <= Cardinality(T)
  <2>1. f \in Injection(S, T)
    BY <1>1 DEF Injection
  <2> QED BY <2>1, FS_Injection
<1>4. ASSUME NEW x \in S
      PROVE  Cardinality(Preceding(T, after, f[x])) = Cardinality(Preceding(S, before, x))
  <2> DEFINE P == Preceding(S, before, x)
             Q == Preceding(T, after, f[x])
             g == [y \in P |-> f[y]]
  <2>1. P \in SUBSET S /\ \A y \in S : y \in P <=> <<y, x>> \in before
    BY DEF Preceding
  <2>2. Q \in SUBSET T /\ \A z \in T : z \in Q <=> <<z, f[x]>> \in after
    BY DEF Preceding
  <2>3. IsFiniteSet(P)
    BY <2>1, FS_Subset
  <2> HIDE DEF P, Q
  <2>4. \A y \in P : y \in S /\ f[y] \in Q /\ g[y] = f[y]
    BY <1>1, <2>1, <2>2
  <2>5. g \in [P -> Q]
    BY <2>4
  <2> HIDE DEF g
  <2>6. \A y, z \in P : g[y] = g[z] => y = z
    BY <1>1, <2>4
  <2>7. \A z \in Q : \E y \in P : g[y] = z
    <3> TAKE z \in Q
    <3>1. z \in T /\ <<z, f[x]>> \in after
      BY <2>2
    <3>2. PICK y \in S : z = f[y]
      BY <1>1, <3>1
    <3>3. y \in P
      BY <1>1, <2>1, <3>1, <3>2
    <3> QED BY <2>4, <3>2, <3>3
  <2>8. g \in Bijection(P, Q)
    <3>1. g \in Injection(P, Q)
      BY <2>5, <2>6 DEF Injection, IsInjective
    <3>2. g \in Surjection(P, Q)
      BY <2>5, <2>7 DEF Surjection
    <3> QED BY <3>1, <3>2 DEF Bijection
  <2>9. ExistsBijection(P, Q)
    BY <2>8 DEF ExistsBijection
  <2> QED BY <2>3, <2>9, FS_Bijection DEF P, Q
<1>5. ASSUME NEW k \in 1..Cardinality(S)
      PROVE  k \in 1..Cardinality(T) /\ Ordered(T, after)[k] = f[Ordered(S, before)[k]]
  <2>1. k \in 1..Cardinality(T)
    BY <1>2, <1>3
  <2>2. /\ Ordered(S, before)[k] \in S
        /\ Cardinality(Preceding(S, before, Ordered(S, before)[k])) = k - 1
    BY OrderedIsSorted
  <2>3. PICK x \in S : x = Ordered(S, before)[k]
    BY <2>2
  <2>4. f[x] \in T /\ Cardinality(Preceding(T, after, f[x])) = k - 1
    BY <1>1, <1>4, <2>2, <2>3
  <2>5. /\ Ordered(T, after)[k] \in T
        /\ Cardinality(Preceding(T, after, Ordered(T, after)[k])) = k - 1
    BY <2>1, OrderedIsSorted
  <2>6. ASSUME NEW y \in T, NEW z \in T, Cardinality(Preceding(T, after, y)) = k - 1,
               Cardinality(Preceding(T, after, z)) = k - 1
        PROVE  y = z
    <3>1. ~(k - 1 < k - 1)
      BY <1>2
    <3>2. \A u, v \in T : <<u, v>> \in after =>
            Cardinality(Preceding(T, after, u)) < Cardinality(Preceding(T, after, v))
      BY RanksAreDistinct
    <3>3. ~(<<y, z>> \in after) /\ ~(<<z, y>> \in after)
      BY <2>6, <3>1, <3>2
    <3> QED BY <3>3 DEF StrictlyOrders
  <2> QED BY <2>1, <2>3, <2>4, <2>5, <2>6
<1> QED BY <1>3, <1>5

\* The exchanges of a are among those of b, and what b has besides comes last.
Alike(x, z) == x.pid = z.pid /\ x.started = z.started /\ x.id.sequence = z.id.sequence
Extends(b, a) ==
  /\ \A x \in a : \E z \in b : Alike(x, z)
  /\ \A z \in b : \/ \E x \in a : Alike(x, z)
                  \/ \A x \in a : x.pid = z.pid => StartedBefore(x, z)

LEMMA OrderIsExtended ==
  ASSUME NEW a, Ranked(a), NEW b, Ranked(b), Extends(b, a), NEW p
  PROVE  /\ Len(Order(p, a)) \in Nat /\ Len(Order(p, b)) \in Nat
         /\ Len(Order(p, a)) <= Len(Order(p, b))
         /\ \A k \in 1..Len(Order(p, a)) : Order(p, b)[k].started = Order(p, a)[k].started
<1> DEFINE S == Of(p, a)
           T == Of(p, b)
           before == {d \in S \X S : StartedBefore(d[1], d[2])}
           after == {d \in T \X T : StartedBefore(d[1], d[2])}
           f == [x \in S |-> CHOOSE z \in T : Alike(x, z)]
<1>1. /\ IsFiniteSet(S) /\ StrictlyOrders(S, before)
      /\ IsFiniteSet(T) /\ StrictlyOrders(T, after)
  BY RecordsHaveOrder
<1>2. Order(p, a) = Ordered(S, before) /\ Order(p, b) = Ordered(T, after)
  BY DEF Order, InOrder
<1>3. /\ \A x, y \in S : <<x, y>> \in before <=> StartedBefore(x, y)
      /\ \A x, y \in T : <<x, y>> \in after <=> StartedBefore(x, y)
  OBVIOUS
<1>4. /\ \A x : x \in S <=> x \in a /\ x.pid = p
      /\ \A x : x \in T <=> x \in b /\ x.pid = p
  BY DEF Of
<1>5. \A x \in S : f[x] = CHOOSE z \in T : Alike(x, z)
  OBVIOUS
<1>6. f = [x \in S |-> f[x]]
  OBVIOUS
<1> HIDE DEF S, T, before, after, f
<1>7. \A x \in S : f[x] \in T /\ Alike(x, f[x])
  <2> TAKE x \in S
  <2>1. PICK z \in b : Alike(x, z)
    BY <1>4 DEF Extends
  <2>2. z \in T
    BY <1>4, <2>1 DEF Alike
  <2> QED BY <1>5, <2>1, <2>2
<1>8. \A x, y \in S : x.started = y.started /\ x.id.sequence = y.id.sequence => x = y
  BY <1>4 DEF Ranked
<1>9. \A x, y \in T : x.started = y.started /\ x.id.sequence = y.id.sequence => x = y
  BY <1>4 DEF Ranked
<1>10. Embeds(f, S, before, T, after)
  <2>1. f \in [S -> T]
    BY <1>6, <1>7
  <2>2. \A x, y \in S : f[x] = f[y] => x = y
    BY <1>7, <1>8 DEF Alike
  <2>3. \A x, y \in S : <<x, y>> \in before <=> <<f[x], f[y]>> \in after
    <3> TAKE x, y \in S
    <3>1. f[x] \in T /\ f[y] \in T /\ Alike(x, f[x]) /\ Alike(y, f[y])
      BY <1>7
    <3>2. StartedBefore(x, y) <=> StartedBefore(f[x], f[y])
      BY <3>1 DEF Alike, StartedBefore
    <3> QED BY <1>3, <3>1, <3>2
  <2>4. ASSUME NEW x \in S, NEW z \in T, <<z, f[x]>> \in after PROVE \E y \in S : z = f[y]
    <3>1. StartedBefore(z, f[x]) /\ f[x].pid = p /\ z.pid = p /\ z \in b /\ x \in a
      BY <1>3, <1>4, <1>7, <2>4
    <3>2. /\ z.started \in Nat /\ z.id.sequence \in Nat
          /\ x.started \in Nat /\ x.id.sequence \in Nat
      BY <3>1 DEF Ranked
    <3>3. ~StartedBefore(x, z)
      BY <1>7, <3>1, <3>2 DEF Alike, StartedBefore
    <3>4. PICK y \in a : Alike(y, z)
      BY <1>4, <3>1, <3>3 DEF Extends
    <3>5. y \in S /\ f[y] \in T
      BY <1>4, <1>7, <3>1, <3>4 DEF Alike
    <3>6. z = f[y]
      BY <1>7, <1>9, <3>4, <3>5 DEF Alike
    <3> QED BY <3>5, <3>6
  <2> QED BY <2>1, <2>2, <2>3, <2>4 DEF Embeds, IsInjective
<1>11. /\ Cardinality(S) <= Cardinality(T)
       /\ \A k \in 1..Cardinality(S) : Ordered(T, after)[k] = f[Ordered(S, before)[k]]
  BY <1>1, <1>10, EmbeddedKeepsPlace
<1>12. /\ Len(Ordered(S, before)) = Cardinality(S) /\ Cardinality(S) \in Nat
       /\ Len(Ordered(T, after)) = Cardinality(T) /\ Cardinality(T) \in Nat
       /\ \A k \in 1..Cardinality(S) : Ordered(S, before)[k] \in S
  BY <1>1, FS_CardinalityType, OrderedIsSorted
<1>13. \A k \in 1..Cardinality(S) :
         Ordered(T, after)[k].started = Ordered(S, before)[k].started
  BY <1>7, <1>11, <1>12 DEF Alike
<1> QED BY <1>2, <1>11, <1>12, <1>13

LEMMA StartsAreExtended ==
  ASSUME NEW T, NEW q \in Seq(T), StartsInOrder(q), NEW r \in Seq(T), StartsInOrder(r),
         Len(q) <= Len(r), \A k \in 1..Len(q) : r[k].started = q[k].started
  PROVE  \A n \in DOMAIN Starts(q) : n \in DOMAIN Starts(r) /\ Starts(r)[n] = Starts(q)[n]
<1> DEFINE S == {i \in DOMAIN q : StartsNew(i, q)}
           U == {i \in DOMAIN r : StartsNew(i, r)}
           below == {p \in S \X S : p[1] < p[2]}
           above == {p \in U \X U : p[1] < p[2]}
           f == [i \in S |-> i]
<1>1. /\ Len(q) \in Nat /\ DOMAIN q = 1..Len(q) /\ Len(r) \in Nat /\ DOMAIN r = 1..Len(r)
      /\ DOMAIN Starts(q) = 1..Len(Starts(q)) /\ DOMAIN Starts(r) = 1..Len(Starts(r))
      /\ \A n \in DOMAIN Starts(q) : Starts(q)[n] \in 1..Len(q)
  BY StartsAreAscending
<1>2. \A i \in 1..Len(q) : i \in 1..Len(r) /\ (StartsNew(i, r) <=> StartsNew(i, q))
  <2> TAKE i \in 1..Len(q)
  <2>1. i \in 1..Len(r) /\ r[i].started = q[i].started
    BY <1>1
  <2>2. CASE i = 1
    BY <2>1, <2>2 DEF StartsNew
  <2>3. CASE i # 1
    <3>1. i - 1 \in 1..Len(q)
      BY <1>1, <2>3
    <3>2. r[i - 1].started = q[i - 1].started
      BY <3>1
    <3> QED BY <2>1, <2>3, <3>2 DEF StartsNew
  <2> QED BY <2>2, <2>3
<1>3. S \in SUBSET Int /\ U \in SUBSET Int /\ S \in SUBSET (1..Len(q)) /\ U \in SUBSET (1..Len(r))
  BY <1>1
<1>4. IsFiniteSet(S) /\ IsFiniteSet(U)
  <2>1. 1 \in Int /\ Len(q) \in Int /\ Len(r) \in Int
    BY <1>1
  <2>2. IsFiniteSet(1..Len(q)) /\ IsFiniteSet(1..Len(r))
    BY <2>1, FS_Interval
  <2> HIDE DEF S, U
  <2> QED BY <1>3, <2>2, FS_Subset
<1>5. \A i \in U : i \in 1..Len(q) => i \in S
  BY <1>1, <1>2
<1>6. \A i \in S : i \in U /\ f[i] = i
  BY <1>1, <1>2
<1>7. Starts(q) = Ordered(S, below) /\ Starts(r) = Ordered(U, above)
  BY DEF Starts, Ascending
<1>8. /\ \A i, j \in S : <<i, j>> \in below <=> i < j
      /\ \A i, j \in U : <<i, j>> \in above <=> i < j
  OBVIOUS
<1>9. f \in [S -> U]
  BY <1>6
<1> HIDE DEF S, U, below, above, f
<1>10. StrictlyOrders(S, below) /\ StrictlyOrders(U, above)
  <2>1. StrictlyOrders(S, below)
    BY <1>3, <1>8 DEF StrictlyOrders
  <2>2. StrictlyOrders(U, above)
    BY <1>3, <1>8 DEF StrictlyOrders
  <2> QED BY <2>1, <2>2
<1>11. Embeds(f, S, below, U, above)
  <2>1. IsInjective(f)
    BY <1>6, <1>9 DEF IsInjective
  <2>2. \A i, j \in S : <<i, j>> \in below <=> <<f[i], f[j]>> \in above
    BY <1>6, <1>8
  <2>3. ASSUME NEW i \in S, NEW j \in U, <<j, f[i]>> \in above PROVE \E k \in S : j = f[k]
    <3>1. j < i /\ i \in 1..Len(q) /\ j \in 1..Len(r)
      BY <1>3, <1>6, <1>8, <2>3
    <3>2. j \in 1..Len(q)
      BY <1>1, <3>1
    <3> QED BY <1>5, <1>6, <3>2
  <2> QED BY <1>9, <2>1, <2>2, <2>3 DEF Embeds
<1>12. /\ Cardinality(S) <= Cardinality(U)
       /\ \A k \in 1..Cardinality(S) : /\ k \in 1..Cardinality(U)
                                       /\ Ordered(U, above)[k] = f[Ordered(S, below)[k]]
  BY <1>4, <1>10, <1>11, EmbeddedKeepsPlace
<1>13. /\ Len(Starts(q)) = Cardinality(S) /\ Len(Starts(r)) = Cardinality(U)
       /\ \A k \in 1..Cardinality(S) : Ordered(S, below)[k] \in S
  BY <1>4, <1>7, <1>10, OrderedIsSorted
<1> QED BY <1>1, <1>6, <1>7, <1>12, <1>13

\* Sessions keep their ids when what is new comes last.
LEMMA SessionsKeepTheirIds ==
  ASSUME NEW a, Ranked(a), NEW b, Ranked(b), Extends(b, a)
  PROVE  {s.id : s \in AllSessions(a)} \subseteq {s.id : s \in AllSessions(b)}
<1> SUFFICES ASSUME NEW s \in AllSessions(a)
             PROVE  \E t \in AllSessions(b) : t.id = s.id
  OBVIOUS
<1>1. PICK p \in {x.pid : x \in a} :
        \E n \in DOMAIN Starts(Order(p, a)) : s = SessionAt(p, n, a)
  BY SessionsAreStretches
<1>2. PICK n \in DOMAIN Starts(Order(p, a)) : s = SessionAt(p, n, a)
  BY <1>1
<1>3. p \in {x.pid : x \in b}
  BY <1>1 DEF Extends, Alike
<1>4. PICK q \in Seq(a \cup b) : q = Order(p, a) /\ StartsInOrder(q)
  <2>1. Order(p, a) \in Seq(a) /\ StartsInOrder(Order(p, a))
    BY OrderListsAll
  <2>2. Order(p, a) \in Seq(a \cup b)
    BY <2>1
  <2> QED BY <2>1, <2>2
<1>5. PICK r \in Seq(a \cup b) : r = Order(p, b) /\ StartsInOrder(r)
  <2>1. Order(p, b) \in Seq(b) /\ StartsInOrder(Order(p, b))
    BY OrderListsAll
  <2>2. Order(p, b) \in Seq(a \cup b)
    BY <2>1
  <2> QED BY <2>1, <2>2
<1>6. Len(q) <= Len(r) /\ \A k \in 1..Len(q) : r[k].started = q[k].started
  BY <1>4, <1>5, OrderIsExtended
<1>7. n \in DOMAIN Starts(r) /\ Starts(r)[n] = Starts(q)[n]
  BY <1>2, <1>4, <1>5, <1>6, StartsAreExtended
<1>8. Starts(q)[n] \in 1..Len(q)
  BY <1>2, <1>4, StartsAreAscending
<1>9. SessionAt(p, n, b) \in AllSessions(b)
  BY <1>3, <1>5, <1>7, SessionsAreStretches
<1>10. SessionAt(p, n, b).id = SessionAt(p, n, a).id
  BY <1>4, <1>5, <1>6, <1>7, <1>8 DEF SessionAt
<1> QED BY <1>2, <1>9, <1>10

-----------------------------------------------------------------------------
(* Messages are taken in the order of their times.                         *)

AtOf(l) == {t \in Nat : l.type \in {"request", "response"} /\ l.at = t}
Ats(q) == {t \in Nat : \E i \in 1..Len(q) : t \in AtOf(q[i])}

NoneLater(A, B) == \A a \in A, b \in B : a <= b
InTime(q) == \A i, j \in 1..Len(q) : i < j => NoneLater(AtOf(q[i]), AtOf(q[j]))

\* The times of the requests of this capture that have a file.
Taken == {t \in Nat : \E f \in requests : f.pid = 0 /\ f.at = t}

TakenInTime ==
  /\ InTime(stream) /\ InTime(channel)
  /\ NoneLater(Ats(channel), Ats(stream))
  /\ NoneLater(AtOf(held), Ats(channel) \cup Ats(stream))
  /\ NoneLater(Taken, AtOf(held) \cup Ats(channel) \cup Ats(stream))
  /\ NoneLater(Taken \cup AtOf(held) \cup Ats(channel) \cup Ats(stream), {now})
  /\ \A f \in requests : f.pid = 0 /\ f.id.sequence = sequence => f.at = held.at

LEMMA PlainHasNoTime ==
  ASSUME NEW t \in {"none", "heartbeat", "rest", "detach_ack", "disconnected", "timeout"}
  PROVE  AtOf(Plain(t)) = {}
<1>1. Plain(t).type = t /\ t \notin {"request", "response"}
  BY DEF Plain
<1> QED BY <1>1 DEF AtOf

LEMMA TimesGrow ==
  ASSUME NEW q \in Seq(Lines), NEW l
  PROVE  /\ Ats(Append(q, l)) = Ats(q) \cup AtOf(l)
         /\ InTime(q) /\ NoneLater(Ats(q), AtOf(l)) => InTime(Append(q, l))
<1>1. /\ Len(q) \in Nat /\ Len(Append(q, l)) = Len(q) + 1 /\ Append(q, l)[Len(q) + 1] = l
      /\ \A i \in 1..Len(q) : Append(q, l)[i] = q[i]
  OBVIOUS
<1>2. \A i : i \in 1..(Len(q) + 1) <=> i \in 1..Len(q) \/ i = Len(q) + 1
  BY <1>1
<1>3. ASSUME NEW i \in 1..(Len(q) + 1), NEW j \in 1..(Len(q) + 1), i < j
      PROVE  i \in 1..Len(q) /\ (j \in 1..Len(q) \/ j = Len(q) + 1)
  BY <1>1, <1>3
<1>4. \A t : t \in AtOf(l) => t \in Nat
  BY DEF AtOf
<1>5. Ats(Append(q, l)) = Ats(q) \cup AtOf(l)
  BY <1>1, <1>2, <1>4 DEF Ats
<1>6. ASSUME NEW i \in 1..Len(q) PROVE AtOf(q[i]) \subseteq Ats(q)
  BY DEF Ats, AtOf
<1>7. ASSUME InTime(q), NoneLater(Ats(q), AtOf(l)) PROVE InTime(Append(q, l))
  <2>1. ASSUME NEW i \in 1..Len(q) PROVE NoneLater(AtOf(q[i]), AtOf(l))
    BY <1>6, <1>7 DEF NoneLater
  <2> QED BY <1>1, <1>3, <1>7, <2>1 DEF InTime
<1> QED BY <1>5, <1>7

LEMMA TimesShrink ==
  ASSUME NEW q \in Seq(Lines), q # <<>>
  PROVE  /\ Ats(q) = Ats(Tail(q)) \cup AtOf(Head(q))
         /\ InTime(q) => InTime(Tail(q)) /\ NoneLater(AtOf(Head(q)), Ats(Tail(q)))
<1>1. /\ Head(q) = q[1] /\ Len(q) \in Nat /\ Len(q) # 0 /\ Len(Tail(q)) = Len(q) - 1
      /\ \A i \in 1..(Len(q) - 1) : Tail(q)[i] = q[i + 1]
  OBVIOUS
<1>2. \A i \in 1..(Len(q) - 1) : i + 1 \in 1..Len(q) /\ 1 < i + 1
  BY <1>1
<1>3. \A i \in 1..Len(q) : i = 1 \/ \E j \in 1..(Len(q) - 1) : i = j + 1
  <2> TAKE i \in 1..Len(q)
  <2>1. i # 1 => i - 1 \in 1..(Len(q) - 1) /\ i = (i - 1) + 1
    BY <1>1
  <2> QED BY <2>1
<1>4. 1 \in 1..Len(q)
  BY <1>1
<1>5. Ats(q) \subseteq Ats(Tail(q)) \cup AtOf(Head(q))
  <2>1. ASSUME NEW t \in Ats(q) PROVE t \in Ats(Tail(q)) \cup AtOf(Head(q))
    <3>1. PICK i \in 1..Len(q) : t \in AtOf(q[i]) /\ t \in Nat
      BY <2>1 DEF Ats
    <3> QED BY <1>1, <1>3, <3>1 DEF Ats
  <2> QED BY <2>1
<1>6. Ats(Tail(q)) \cup AtOf(Head(q)) \subseteq Ats(q)
  <2>1. \A t \in AtOf(Head(q)) : t \in Nat
    BY DEF AtOf
  <2> QED BY <1>1, <1>2, <1>4, <2>1 DEF Ats
<1>7. ASSUME InTime(q) PROVE InTime(Tail(q)) /\ NoneLater(AtOf(Head(q)), Ats(Tail(q)))
  <2>1. \A i, j \in 1..(Len(q) - 1) : i < j => i + 1 < j + 1
    BY <1>1
  <2>2. InTime(Tail(q))
    BY <1>1, <1>2, <1>7, <2>1 DEF InTime
  <2>3. ASSUME NEW a \in AtOf(Head(q)), NEW b \in Ats(Tail(q)) PROVE a <= b
    <3>1. PICK i \in 1..(Len(q) - 1) : b \in AtOf(Tail(q)[i])
      BY <1>1, <2>3 DEF Ats
    <3>2. NoneLater(AtOf(q[1]), AtOf(q[i + 1]))
      BY <1>2, <1>4, <1>7 DEF InTime
    <3> QED BY <1>1, <2>3, <3>1, <3>2 DEF NoneLater
  <2> QED BY <2>2, <2>3 DEF NoneLater
<1> QED BY <1>5, <1>6, <1>7

LEMMA TimesCut ==
  ASSUME NEW q \in Seq(Lines), q # <<>>, NEW r \in Seq(Lines), Len(r) = Len(q),
         AtOf(r[1]) = {}, \A i \in 1..Len(q) : i # 1 => r[i] = q[i]
  PROVE  Ats(r) \subseteq Ats(q) /\ (InTime(q) => InTime(r))
<1>1. \A i \in 1..Len(r) : AtOf(r[i]) \subseteq AtOf(q[i])
  OBVIOUS
<1>2. Ats(r) \subseteq Ats(q)
  BY <1>1 DEF Ats
<1>3. InTime(q) => InTime(r)
  BY <1>1 DEF InTime, NoneLater
<1> QED BY <1>2, <1>3

\* Steps that leave the files and what is in hand alone.
LEMMA QueuesKeepTimes ==
  ASSUME TakenInTime, UNCHANGED <<now, held, sequence, requests>>,
         InTime(stream'), InTime(channel'),
         Ats(stream') \subseteq Ats(stream) \cup {now},
         Ats(channel') \subseteq Ats(channel) \cup Ats(stream),
         NoneLater(Ats(channel'), Ats(stream')),
         now \in Nat
  PROVE  TakenInTime'
<1> DEFINE C == Ats(channel)
           S == Ats(stream)
           K == Taken
           H == AtOf(held)
<1>1. Taken' = K /\ AtOf(held') = H
  BY DEF Taken
<1>2. /\ NoneLater(H, C \cup S) /\ NoneLater(K, H \cup C \cup S)
      /\ NoneLater(K \cup H \cup C \cup S, {now}) /\ now <= now
  BY DEF TakenInTime
<1> HIDE DEF C, S, K, H
<1>3. Ats(stream') \subseteq S \cup {now} /\ Ats(channel') \subseteq C \cup S
  BY DEF C, S
<1>4. NoneLater(H, Ats(channel') \cup Ats(stream'))
  BY <1>2, <1>3 DEF NoneLater
<1>5. NoneLater(K, H \cup Ats(channel') \cup Ats(stream'))
  BY <1>2, <1>3 DEF NoneLater
<1>6. NoneLater(K \cup H \cup Ats(channel') \cup Ats(stream'), {now'})
  BY <1>2, <1>3 DEF NoneLater
<1>7. \A f \in requests' : f.pid = 0 /\ f.id.sequence = sequence' => f.at = held'.at
  BY DEF TakenInTime
<1> QED BY <1>1, <1>4, <1>5, <1>6, <1>7 DEF TakenInTime

LEMMA TargetKeepsTimes ==
  ASSUME CaptureInv, TakenInTime,
         \/ \E e \in Exchanges : Call(e) \/ Answered(e)
         \/ Heartbeat \/ TriggerDetach \/ ProcessExits
  PROVE  TakenInTime'
<1>1. UNCHANGED <<now, held, sequence, requests, channel>>
  BY DEF Call, Answered, Heartbeat, TriggerDetach, ProcessExits, NotTarget, clock, loopState, files
<1>2. now \in Nat /\ stream \in Seq(Lines)
  BY DEF CaptureInv, TypeOK
<1>3. stream' = stream \/ \E l : stream' = Append(stream, l) /\ AtOf(l) \subseteq {now}
  <2>1. ASSUME NEW t, NEW e, Emits(Message(t, e))
        PROVE  \E l : stream' = Append(stream, l) /\ AtOf(l) \subseteq {now}
    <3>1. AtOf(Message(t, e)) \subseteq {now}
      BY DEF AtOf, Message
    <3> QED BY <2>1, <3>1 DEF Emits
  <2>2. ASSUME NEW t \in {"heartbeat", "detach_ack"}, Emits(Plain(t))
        PROVE  \E l : stream' = Append(stream, l) /\ AtOf(l) \subseteq {now}
    BY <2>2, PlainHasNoTime DEF Emits
  <2>3. CASE \E e \in Exchanges : Call(e) \/ Answered(e)
    BY <2>1, <2>3 DEF Call, Answered, bridge
  <2>4. CASE Heartbeat \/ TriggerDetach
    BY <2>2, <2>4 DEF Heartbeat, TriggerDetach
  <2>5. CASE ProcessExits
    BY <2>5 DEF ProcessExits
  <2> QED BY <2>3, <2>4, <2>5
<1>4. CASE stream' = stream
  BY <1>1, <1>2, <1>4, QueuesKeepTimes DEF TakenInTime
<1>5. ASSUME NEW l, stream' = Append(stream, l), AtOf(l) \subseteq {now} PROVE TakenInTime'
  <2>1. NoneLater(Ats(stream), {now}) /\ NoneLater(Ats(channel), {now})
        /\ NoneLater(Ats(channel), Ats(stream)) /\ InTime(stream) /\ InTime(channel)
    BY DEF TakenInTime, NoneLater
  <2>2. NoneLater(Ats(stream), AtOf(l))
    BY <1>5, <2>1 DEF NoneLater
  <2>3. Ats(stream') = Ats(stream) \cup AtOf(l) /\ InTime(stream')
    BY <1>2, <1>5, <2>1, <2>2, TimesGrow
  <2>4. /\ Ats(stream') \subseteq Ats(stream) \cup {now}
        /\ NoneLater(Ats(channel'), Ats(stream'))
    BY <1>1, <1>5, <2>1, <2>3 DEF NoneLater
  <2> QED BY <1>1, <1>2, <2>1, <2>3, <2>4, QueuesKeepTimes
<1> QED BY <1>3, <1>4, <1>5

LEMMA ListenerKeepsTimes ==
  ASSUME CaptureInv, TakenInTime, Listener
  PROVE  TakenInTime'
<1>1. UNCHANGED <<now, held, sequence, requests>>
  BY DEF Listener, CheckHeartbeat, ReadLine, ReadTimesOut, EndOfFile, NotListener, files
<1>2. now \in Nat /\ stream \in Seq(Lines) /\ channel \in Seq(Lines)
  BY DEF CaptureInv, TypeOK
<1>3. /\ InTime(stream) /\ InTime(channel) /\ NoneLater(Ats(channel), Ats(stream))
  BY DEF TakenInTime
<1>4. ASSUME NEW t \in {"disconnected", "timeout"}, NEW terminal,
             channel' = channel \/ Send(Plain(t), terminal)
      PROVE  Ats(channel') = Ats(channel) /\ InTime(channel')
  <2>1. AtOf(Plain(t)) = {} /\ NoneLater(Ats(channel), AtOf(Plain(t)))
    BY PlainHasNoTime DEF NoneLater
  <2>2. /\ Ats(Append(channel, Plain(t))) = Ats(channel)
        /\ InTime(Append(channel, Plain(t)))
    BY <1>2, <1>3, <2>1, TimesGrow
  <2>3. channel' = channel \/ channel' = Append(channel, Plain(t))
    BY <1>4 DEF Send
  <2> QED BY <1>3, <2>2, <2>3
<1>5. CASE CheckHeartbeat \/ EndOfFile
  <2>1. stream' = stream
    BY <1>5 DEF CheckHeartbeat, EndOfFile
  <2>2. channel' = channel \/ \E t \in {"disconnected", "timeout"} : Send(Plain(t), TRUE)
    BY <1>5 DEF CheckHeartbeat, EndOfFile
  <2>3. Ats(channel') = Ats(channel) /\ InTime(channel')
    BY <1>4, <2>2
  <2> QED BY <1>1, <1>2, <1>3, <2>1, <2>3, QueuesKeepTimes
<1>6. CASE ReadLine
  <2>1. stream # <<>> /\ stream' = Tail(stream)
    BY <1>6 DEF ReadLine
  <2>2. channel' = Append(channel, Head(stream)) \/ channel' = channel
    BY <1>6 DEF ReadLine, Send
  <2>3. /\ Ats(stream) = Ats(stream') \cup AtOf(Head(stream))
        /\ InTime(stream') /\ NoneLater(AtOf(Head(stream)), Ats(stream'))
    BY <1>2, <1>3, <2>1, TimesShrink
  <2>4. NoneLater(Ats(channel), AtOf(Head(stream))) /\ NoneLater(Ats(channel), Ats(stream'))
    BY <1>3, <2>3 DEF NoneLater
  <2>5. /\ Ats(Append(channel, Head(stream))) = Ats(channel) \cup AtOf(Head(stream))
        /\ InTime(Append(channel, Head(stream)))
    BY <1>2, <1>3, <2>4, TimesGrow
  <2>6. /\ Ats(channel') \subseteq Ats(channel) \cup AtOf(Head(stream)) /\ InTime(channel')
    BY <1>3, <2>2, <2>5
  <2>7. NoneLater(Ats(channel'), Ats(stream'))
    BY <2>3, <2>4, <2>6 DEF NoneLater
  <2>8. Ats(channel') \subseteq Ats(channel) \cup Ats(stream) /\ Ats(stream') \subseteq Ats(stream)
    BY <2>3, <2>6
  <2> QED BY <1>1, <1>2, <2>3, <2>6, <2>7, <2>8, QueuesKeepTimes
<1>7. CASE ReadTimesOut
  <2>1. channel' = channel \/ Send(Plain("timeout"), TRUE)
    BY <1>7 DEF ReadTimesOut
  <2>2. Ats(channel') = Ats(channel) /\ InTime(channel')
    BY <1>4, <2>1
  <2>3. stream' = stream \/ (stream # <<>> /\ stream' = <<Plain("rest")>> \o Tail(stream))
    BY <1>7 DEF ReadTimesOut
  <2>4. Ats(stream') \subseteq Ats(stream) /\ InTime(stream')
    <3>1. CASE stream' = stream
      BY <1>3, <3>1
    <3>2. CASE stream # <<>> /\ stream' = <<Plain("rest")>> \o Tail(stream)
      <4>1. /\ stream' \in Seq(Lines) /\ Len(stream') = Len(stream)
            /\ stream'[1] = Plain("rest")
            /\ \A i \in 1..Len(stream) : i # 1 => stream'[i] = stream[i]
        BY <1>2, <3>2, CutQueue
      <4>2. AtOf(stream'[1]) = {}
        BY <4>1, PlainHasNoTime
      <4> QED BY <1>2, <1>3, <3>2, <4>1, <4>2, TimesCut
    <3> QED BY <2>3, <3>1, <3>2
  <2>5. NoneLater(Ats(channel'), Ats(stream'))
    BY <1>3, <2>2, <2>4 DEF NoneLater
  <2> QED BY <1>1, <1>2, <2>2, <2>4, <2>5, QueuesKeepTimes
<1> QED BY <1>5, <1>6, <1>7 DEF Listener

\* Steps of the loop, which takes its messages from the channel.
LEMMA HandKeepsTimes ==
  ASSUME TakenInTime, UNCHANGED <<now, stream>>,
         Ats(channel') \subseteq Ats(channel), InTime(channel'),
         AtOf(held') \subseteq AtOf(held) \cup Ats(channel),
         NoneLater(AtOf(held'), Ats(channel')),
         Taken' \subseteq Taken \cup AtOf(held'),
         \A f \in requests' : f.pid = 0 /\ f.id.sequence = sequence' => f.at = held'.at
  PROVE  TakenInTime'
<1> DEFINE C == Ats(channel)
           S == Ats(stream)
           K == Taken
           H == AtOf(held)
           H2 == AtOf(held')
           C2 == Ats(channel')
           K2 == Taken'
<1>1. /\ NoneLater(H, C \cup S) /\ NoneLater(K, H \cup C \cup S) /\ NoneLater(C, S)
      /\ NoneLater(K \cup H \cup C \cup S, {now}) /\ InTime(stream)
  BY DEF TakenInTime
<1>2. NoneLater(H2, H2)
  BY DEF NoneLater, AtOf
<1>3. K2 \subseteq K \cup H2 /\ C2 \subseteq C /\ H2 \subseteq H \cup C /\ NoneLater(H2, C2)
  OBVIOUS
<1> HIDE DEF C, S, K, H, H2, C2, K2
<1>4. NoneLater(C2, S)
  BY <1>1, <1>3 DEF NoneLater
<1>5. NoneLater(H2, C2 \cup S)
  BY <1>1, <1>3 DEF NoneLater
<1>6. NoneLater(K2, H2 \cup C2 \cup S)
  <2>1. NoneLater(K, H2 \cup C2 \cup S)
    BY <1>1, <1>3 DEF NoneLater
  <2>2. NoneLater(H2, H2 \cup C2 \cup S)
    BY <1>2, <1>5 DEF NoneLater
  <2> QED BY <1>3, <2>1, <2>2 DEF NoneLater
<1>7. NoneLater(K2 \cup H2 \cup C2 \cup S, {now})
  BY <1>1, <1>3 DEF NoneLater
<1> QED BY <1>1, <1>4, <1>5, <1>6, <1>7 DEF TakenInTime, C, S, K, H, H2, C2, K2

LEMMA FileKeepsTaken ==
  ASSUME NEW m \in MessageLine, NEW whole, WriteFile(m, whole)
  PROVE  /\ Taken' \subseteq Taken \cup AtOf(m)
         /\ \A f \in requests' : \/ f \in requests
                                 \/ f.pid = 0 /\ f.at = m.at /\ f.id.sequence = sequence
<1>1. \A f \in requests' : f \in requests \/ (f = RequestFile(m, whole) /\ m.type = "request")
  BY DEF WriteFile, Put
<1>2. /\ RequestFile(m, whole).pid = 0 /\ RequestFile(m, whole).at = m.at
      /\ RequestFile(m, whole).id.sequence = sequence
  BY DEF RequestFile, FileId
<1>3. ASSUME NEW t \in Taken' PROVE t \in Taken \cup AtOf(m)
  <2>1. PICK f \in requests' : f.pid = 0 /\ f.at = t /\ t \in Nat
    BY <1>3 DEF Taken
  <2> QED BY <1>1, <1>2, <2>1 DEF Taken, AtOf
<1> QED BY <1>1, <1>2, <1>3

LEMMA LoopKeepsTimes ==
  ASSUME CaptureInv, RequestNames, TakenInTime, Loop
  PROVE  TakenInTime'
<1>1. /\ channel \in Seq(Lines) /\ held \in Lines /\ sequence \in Nat \ {0}
      /\ \A f \in requests : OwnId(f) /\ f.id.pid = f.pid
  <2>1. ASSUME NEW f \in requests PROVE f.id.pid = f.pid
    <3>1. PICK n : n = f.id.sequence /\ f.id = [at |-> f.at, pid |-> f.pid, sequence |-> n]
      BY DEF RequestNames, WellNamed, Named
    <3>2. [at |-> f.at, pid |-> f.pid, sequence |-> n].pid = f.pid
      OBVIOUS
    <3> QED BY <3>1, <3>2
  <2> QED BY <2>1 DEF CaptureInv, TypeOK, FilesInv
<1>2. /\ InTime(channel) /\ NoneLater(AtOf(held), Ats(channel))
      /\ \A f \in requests : f.pid = 0 /\ f.id.sequence = sequence => f.at = held.at
  BY DEF TakenInTime, NoneLater
<1>3. UNCHANGED <<now, stream>>
  <2>1. NotLoop => UNCHANGED <<now, stream>>
    BY DEF NotLoop, bridge
  <2> QED BY <2>1 DEF Loop, Take, FillFile, FillTools, Report, WriteFails, TakeLast,
                      PassDeadline, Join, Ends
<1>4. ASSUME channel # <<>>
      PROVE  /\ Ats(Tail(channel)) \subseteq Ats(channel) /\ AtOf(Head(channel)) \subseteq Ats(channel)
             /\ InTime(Tail(channel)) /\ NoneLater(AtOf(Head(channel)), Ats(Tail(channel)))
  BY <1>1, <1>2, <1>4, TimesShrink
<1>5. CASE Take
  <2>1. /\ channel # <<>> /\ channel' = Tail(channel) /\ consumer = "loop" /\ sequence' = sequence
        /\ IF Recognized(Head(channel))
             THEN held' = Head(channel) /\ WriteFile(Head(channel), FALSE)
             ELSE UNCHANGED <<held, requests>>
    BY <1>5 DEF Take
  <2>2. CASE Recognized(Head(channel))
    <3>1. PICK m \in MessageLine : m = Head(channel)
      <4>1. Head(channel) \in Lines
        BY <1>1, <2>1
      <4>2. Head(channel).type \in {"request", "response"}
        BY <2>2 DEF Recognized
      <4> QED BY <4>1, <4>2, MessageTypes
    <3>2. held' = m /\ WriteFile(m, FALSE)
      BY <2>1, <2>2, <3>1
    <3>3. /\ Taken' \subseteq Taken \cup AtOf(held')
          /\ \A f \in requests' : f \in requests \/ f.at = held'.at
      BY <3>2, FileKeepsTaken
    <3>4. ASSUME NEW f \in requests PROVE f.id.pid = 0 => f.id.sequence # sequence
      BY <1>1, <2>1 DEF OwnId, Older
    <3>5. \A f \in requests' : f.pid = 0 /\ f.id.sequence = sequence' => f.at = held'.at
      BY <1>1, <2>1, <3>3, <3>4
    <3> QED BY <1>3, <1>4, <2>1, <3>1, <3>2, <3>3, <3>5, HandKeepsTimes
  <2>3. CASE ~Recognized(Head(channel))
    <3>1. UNCHANGED <<held, requests>>
      BY <2>1, <2>3
    <3>2. Taken' = Taken
      BY <3>1 DEF Taken
    <3>3. NoneLater(AtOf(held'), Ats(channel'))
      BY <1>2, <1>4, <2>1, <3>1 DEF NoneLater
    <3> QED BY <1>2, <1>3, <1>4, <2>1, <3>1, <3>2, <3>3, HandKeepsTimes
  <2> QED BY <2>2, <2>3
<1>6. CASE FillFile
  <2>1. PICK m \in MessageLine : m = held
    BY <1>6 DEF FillFile, CaptureInv, TypeOK, Capturing
  <2>2. WriteFile(m, TRUE) /\ held' = held /\ channel' = channel /\ sequence' = sequence
    BY <1>6, <2>1 DEF FillFile
  <2>3. /\ Taken' \subseteq Taken \cup AtOf(held')
        /\ \A f \in requests' : f \in requests \/ f.at = held'.at
    BY <2>1, <2>2, FileKeepsTaken
  <2> QED BY <1>2, <1>3, <2>2, <2>3, HandKeepsTimes
<1>7. CASE Report
  <2>1. /\ held' = Plain("none") /\ channel' = channel /\ sequence' = sequence + 1
        /\ requests' = requests
    BY <1>7 DEF Report, files
  <2>2. AtOf(held') = {} /\ NoneLater(AtOf(held'), Ats(channel'))
    BY <2>1, PlainHasNoTime DEF NoneLater
  <2>3. ASSUME NEW f \in requests, f.id.pid = 0 PROVE f.id.sequence # sequence'
    <3>1. /\ f.id.sequence \in Nat
          /\ f.id.sequence < sequence \/ f.id.sequence = sequence
      BY <1>1, <2>3 DEF OwnId, Older
    <3> QED BY <1>1, <2>1, <3>1
  <2>4. Taken' = Taken
    BY <2>1 DEF Taken
  <2> QED BY <1>1, <1>2, <1>3, <2>1, <2>2, <2>3, <2>4, HandKeepsTimes
<1>8. CASE FillTools \/ WriteFails \/ TakeLast \/ PassDeadline \/ Join
  <2>1. UNCHANGED <<held, sequence, requests>>
    BY <1>8 DEF FillTools, WriteFails, TakeLast, PassDeadline, Join, Ends, files
  <2>2. channel' = channel \/ (channel # <<>> /\ channel' = Tail(channel))
    BY <1>8 DEF FillTools, WriteFails, TakeLast, PassDeadline, Join
  <2>3. Taken' = Taken
    BY <2>1 DEF Taken
  <2>4. /\ Ats(channel') \subseteq Ats(channel) /\ InTime(channel')
        /\ NoneLater(AtOf(held'), Ats(channel'))
    BY <1>2, <1>4, <2>1, <2>2 DEF NoneLater
  <2> QED BY <1>2, <1>3, <2>1, <2>3, <2>4, HandKeepsTimes
<1> QED BY <1>5, <1>6, <1>7, <1>8 DEF Loop

LEMMA InitTimes == Init => TakenInTime
<1> SUFFICES ASSUME Init PROVE TakenInTime
  OBVIOUS
<1>1. /\ stream = <<>> /\ channel = <<>> /\ held = Plain("none") /\ requests = {Earlier}
      /\ Earlier.pid = 1 /\ Len(<<>>) = 0
  BY DEF Init, Earlier
<1>2. Ats(stream) = {} /\ Ats(channel) = {} /\ InTime(stream) /\ InTime(channel)
  BY <1>1 DEF Ats, InTime
<1>3. AtOf(held) = {}
  BY <1>1, PlainHasNoTime
<1>4. Taken = {}
  BY <1>1 DEF Taken
<1> QED BY <1>1, <1>2, <1>3, <1>4 DEF TakenInTime, NoneLater

LEMMA StepTimes == CaptureInv /\ RequestNames /\ TakenInTime /\ [Next]_vars => TakenInTime'
<1> SUFFICES ASSUME CaptureInv, RequestNames, TakenInTime, [Next]_vars PROVE TakenInTime'
  OBVIOUS
<1>1. CASE Tick \/ HeartbeatIsLate \/ WaitIsLate \/ UNCHANGED vars
  <2>1. UNCHANGED <<stream, channel, held, sequence, requests>>
    BY <1>1 DEF Tick, HeartbeatIsLate, WaitIsLate, vars, target, bridge, loopState, files
  <2>2. now \in Nat /\ (now' = now \/ now' = now + 1)
    <3>1. now \in Nat
      BY DEF CaptureInv, TypeOK
    <3> QED BY <1>1, <3>1 DEF Tick, HeartbeatIsLate, WaitIsLate, vars
  <2>3. Taken' = Taken
    BY <2>1 DEF Taken
  <2>4. \A t \in Taken \cup AtOf(held) \cup Ats(channel) \cup Ats(stream) : t \in Nat
    BY DEF Taken, AtOf, Ats
  <2>5. NoneLater(Taken \cup AtOf(held) \cup Ats(channel) \cup Ats(stream), {now'})
    <3>1. ASSUME NEW t \in Taken \cup AtOf(held) \cup Ats(channel) \cup Ats(stream)
          PROVE  t <= now'
      <4>1. t \in Nat /\ t <= now
        BY <2>4 DEF TakenInTime, NoneLater
      <4> QED BY <2>2, <4>1
    <3> QED BY <3>1 DEF NoneLater
  <2> QED BY <2>1, <2>3, <2>5 DEF TakenInTime
<1>2. CASE \/ \E e \in Exchanges : Call(e) \/ Answered(e)
           \/ Heartbeat \/ TriggerDetach \/ ProcessExits
  BY <1>2, TargetKeepsTimes
<1>3. CASE Listener
  BY <1>3, ListenerKeepsTimes
<1>4. CASE Loop
  BY <1>4, LoopKeepsTimes
<1> QED BY <1>1, <1>2, <1>3, <1>4 DEF Next

LEMMA TimesAlways == Spec => []TakenInTime
BY InitTimes, StepTimes, CaptureAlways, NamesAlways, PTL DEF Spec

\* A file becomes whole behind all those of its process that were.
SameName(f, g) == f.id = g.id /\ f.pid = g.pid /\ f.at = g.at
Behind(f, g) == f.at < g.at \/ (f.at = g.at /\ f.id.sequence < g.id.sequence)
WholeAdded ==
  /\ \A f \in RequestRecords(requests) : \E g \in RequestRecords(requests') : SameName(f, g)
  /\ \A g \in RequestRecords(requests') :
       \/ \E f \in RequestRecords(requests) : SameName(f, g)
       \/ \A f \in RequestRecords(requests) : f.pid = g.pid => Behind(f, g)

LEMMA FilledComesLast ==
  ASSUME CaptureInv, RequestNames, TakenInTime, [Next]_vars
  PROVE  WholeAdded
<1>1. CASE RequestRecords(requests') = RequestRecords(requests)
  BY <1>1 DEF WholeAdded, SameName
<1>2. CASE Take
  <2>1. \A f \in requests : f.id # FileId(Head(channel))
    <3>1. TypeOK /\ FilesInv /\ consumer = "loop"
      BY <1>2 DEF CaptureInv, Take
    <3> QED BY <3>1, OwnFile
  <2>2. \/ requests' = requests
        \/ requests' = Put(requests, RequestFile(Head(channel), FALSE))
    BY <1>2 DEF Take, WriteFile
  <2>3. /\ ~RequestFile(Head(channel), FALSE).whole
        /\ RequestFile(Head(channel), FALSE).id = FileId(Head(channel))
    BY FilesOf
  <2>4. Put(requests, RequestFile(Head(channel), FALSE))
          = requests \cup {RequestFile(Head(channel), FALSE)}
    BY <2>1, <2>3 DEF Put
  <2>5. RequestRecords(requests') = RequestRecords(requests)
    BY <2>2, <2>3, <2>4 DEF RequestRecords
  <2> QED BY <1>1, <2>5
<1>3. CASE FillFile
  <2>1. PICK m \in MessageLine : m = held
    BY <1>3 DEF FillFile, CaptureInv, TypeOK, Capturing
  <2>2. WriteFile(m, TRUE)
    BY <1>3, <2>1 DEF FillFile
  <2>3. CASE m.type # "request"
    BY <1>1, <2>2, <2>3 DEF WriteFile
  <2>4. CASE m.type = "request"
    <3>1. PICK g : g = RequestFile(m, TRUE)
      OBVIOUS
    <3>2. /\ g.id = FileId(m) /\ g.pid = 0 /\ g.at = m.at /\ g.whole
          /\ g.id = [at |-> m.at, pid |-> 0, sequence |-> sequence] /\ g.id.sequence = sequence
      BY <3>1 DEF RequestFile, FileId
    <3>3. requests' = Put(requests, g)
      BY <2>2, <2>4, <3>1 DEF WriteFile
    <3>4. \A f : f \in RequestRecords(requests') <=>
                   (f \in RequestRecords(requests) /\ f.id # g.id) \/ f = g
      BY <3>2, <3>3 DEF RequestRecords, Put
    <3>5. ASSUME NEW f \in requests, f.id = g.id PROVE SameName(f, g)
      <4>1. PICK n : f.id = [at |-> f.at, pid |-> f.pid, sequence |-> n]
        BY DEF RequestNames, WellNamed, Named
      <4>2. f.at = m.at /\ f.pid = 0
        BY <3>2, <3>5, <4>1
      <4> QED BY <3>2, <3>5, <4>2 DEF SameName
    <3>6. ASSUME NEW f \in requests, f.pid = 0 PROVE f.id = g.id \/ Behind(f, g)
      <4>1. PICK n \in Nat : /\ n = f.id.sequence /\ f.at \in Nat
                             /\ f.id = [at |-> f.at, pid |-> f.pid, sequence |-> n]
        BY DEF RequestNames, WellNamed, Named
      <4>2. f.at \in Taken
        BY <3>6, <4>1 DEF Taken
      <4>3. m.at \in AtOf(held) /\ m.at \in Nat
        BY <2>1 DEF MessageLine, AtOf
      <4>4. f.at <= m.at
        BY <4>2, <4>3 DEF TakenInTime, NoneLater
      <4>5. n < sequence \/ n = sequence
        <5>1. OwnId(f)
          BY DEF CaptureInv, FilesInv
        <5>2. f.id.pid = 0
          BY <3>6, <4>1
        <5> QED BY <4>1, <5>1, <5>2 DEF OwnId, Older
      <4>6. CASE n = sequence
        <5>1. f.at = m.at
          BY <2>1, <3>6, <4>1, <4>6 DEF TakenInTime
        <5> QED BY <3>2, <3>6, <4>1, <4>6, <5>1
      <4>7. CASE n < sequence
        BY <3>2, <4>1, <4>3, <4>4, <4>7 DEF Behind
      <4> QED BY <4>5, <4>6, <4>7
    <3>7. \A f \in RequestRecords(requests) : f \in requests
      BY DEF RequestRecords
    <3>8. ASSUME NEW f \in RequestRecords(requests)
          PROVE  \E h \in RequestRecords(requests') : SameName(f, h)
      <4>1. CASE f.id = g.id
        BY <3>4, <3>5, <3>7, <4>1
      <4>2. CASE f.id # g.id
        BY <3>4, <4>2 DEF SameName
      <4> QED BY <4>1, <4>2
    <3>9. ASSUME NEW h \in RequestRecords(requests'),
                 ~(\E f \in RequestRecords(requests) : SameName(f, h)),
                 NEW f \in RequestRecords(requests), f.pid = h.pid
          PROVE  Behind(f, h)
      <4>1. h = g
        BY <3>4, <3>9 DEF SameName
      <4>2. f.id # g.id
        BY <3>5, <3>7, <3>9, <4>1
      <4> QED BY <3>2, <3>6, <3>7, <3>9, <4>1, <4>2
    <3> QED BY <3>8, <3>9 DEF WholeAdded
  <2> QED BY <2>3, <2>4
<1>4. CASE UNCHANGED requests
  BY <1>1, <1>4
<1>5. UNCHANGED requests \/ Take \/ FillFile
  <2>1. ASSUME \/ Tick \/ HeartbeatIsLate \/ WaitIsLate \/ UNCHANGED vars
               \/ \E e \in Exchanges : Call(e) \/ Answered(e)
               \/ Heartbeat \/ TriggerDetach \/ ProcessExits
        PROVE  UNCHANGED requests
    BY <2>1 DEF Tick, HeartbeatIsLate, WaitIsLate, vars, Call, Answered, Heartbeat,
                TriggerDetach, ProcessExits, NotTarget, files
  <2>2. Listener => UNCHANGED requests
    BY DEF Listener, CheckHeartbeat, ReadLine, ReadTimesOut, EndOfFile, NotListener, files
  <2>3. FillTools \/ Report \/ WriteFails \/ TakeLast \/ PassDeadline \/ Join
          => UNCHANGED requests
    BY DEF FillTools, Report, WriteFails, TakeLast, PassDeadline, Join, Ends, files
  <2> QED BY <2>1, <2>2, <2>3 DEF Next, Loop
<1> QED BY <1>2, <1>3, <1>4, <1>5

LEMMA RecordsAreExtended ==
  ASSUME WholeAdded, NEW r, NEW v, NEW r2, NEW v2
  PROVE  Extends(ExchangeRecords(requests', r2, v2), ExchangeRecords(requests, r, v))
<1> DEFINE D == RequestRecords(requests)
           D2 == RequestRecords(requests')
           a == ExchangeRecords(requests, r, v)
           b == ExchangeRecords(requests', r2, v2)
<1>1. /\ \A x \in a : \E f \in D : x.id = f.id /\ x.pid = f.pid /\ x.started = f.at
      /\ \A f \in D : \E x \in a : x.id = f.id /\ x.pid = f.pid /\ x.started = f.at
  BY RecordsOfFiles
<1>2. /\ \A z \in b : \E g \in D2 : z.id = g.id /\ z.pid = g.pid /\ z.started = g.at
      /\ \A g \in D2 : \E z \in b : z.id = g.id /\ z.pid = g.pid /\ z.started = g.at
  BY RecordsOfFiles
<1>3. /\ \A f \in D : \E g \in D2 : SameName(f, g)
      /\ \A g \in D2 : \/ \E f \in D : SameName(f, g)
                       \/ \A f \in D : f.pid = g.pid => Behind(f, g)
  BY DEF WholeAdded
<1> HIDE DEF a, b, D, D2
<1>4. ASSUME NEW x \in a PROVE \E z \in b : Alike(x, z)
  <2>1. PICK f \in D : x.id = f.id /\ x.pid = f.pid /\ x.started = f.at
    BY <1>1
  <2>2. PICK g \in D2 : SameName(f, g)
    BY <1>3
  <2>3. PICK z \in b : z.id = g.id /\ z.pid = g.pid /\ z.started = g.at
    BY <1>2
  <2> QED BY <2>1, <2>2, <2>3 DEF Alike, SameName
<1>5. ASSUME NEW z \in b
      PROVE  \/ \E x \in a : Alike(x, z)
             \/ \A x \in a : x.pid = z.pid => StartedBefore(x, z)
  <2>1. PICK g \in D2 : z.id = g.id /\ z.pid = g.pid /\ z.started = g.at
    BY <1>2
  <2>2. CASE \E f \in D : SameName(f, g)
    <3>1. PICK f \in D : SameName(f, g)
      BY <2>2
    <3>2. PICK x \in a : x.id = f.id /\ x.pid = f.pid /\ x.started = f.at
      BY <1>1
    <3> QED BY <2>1, <3>1, <3>2 DEF Alike, SameName
  <2>3. CASE \A f \in D : f.pid = g.pid => Behind(f, g)
    <3>1. ASSUME NEW x \in a, x.pid = z.pid PROVE StartedBefore(x, z)
      <4>1. PICK f \in D : x.id = f.id /\ x.pid = f.pid /\ x.started = f.at
        BY <1>1
      <4> QED BY <2>1, <2>3, <3>1, <4>1 DEF Behind, StartedBefore
    <3> QED BY <3>1
  <2> QED BY <1>3, <2>2, <2>3
<1> QED BY <1>4, <1>5 DEF Extends, a, b


\* The ids that were ever listed are ids of the exchanges recorded by now, also
\* while a file that is being written keeps all of them from being listed.
RememberedStay ==
  named \subseteq {s.id : s \in AllSessions(ExchangeRecords(requests, responses, visibility))}

LEMMA ListedAreOfRecords ==
  ListedIds \subseteq {s.id : s \in AllSessions(ExchangeRecords(requests, responses, visibility))}
BY DEF ListedIds, Listed, Sessions, AllSessions

LEMMA NamedGrows == [Next]_vars => UNCHANGED named \/ Remember
<1> SUFFICES ASSUME [Next]_vars PROVE UNCHANGED named \/ Remember
  OBVIOUS
<1>1. CASE Take \/ FillFile \/ FillTools
  BY <1>1 DEF Take, FillFile, FillTools
<1>2. CASE Report \/ WriteFails \/ TakeLast \/ PassDeadline \/ Join
  BY <1>2 DEF Report, WriteFails, TakeLast, PassDeadline, Join, Ends, files
<1>3. CASE Listener
  BY <1>3 DEF Listener, CheckHeartbeat, ReadLine, ReadTimesOut, EndOfFile, NotListener, files
<1>4. CASE Tick \/ HeartbeatIsLate \/ WaitIsLate \/ UNCHANGED vars
  BY <1>4 DEF Tick, HeartbeatIsLate, WaitIsLate, vars, files
<1>5. CASE (\E e \in Exchanges : Call(e) \/ Answered(e))
           \/ Heartbeat \/ TriggerDetach \/ ProcessExits
  BY <1>5 DEF Call, Answered, Heartbeat, TriggerDetach, ProcessExits, NotTarget, files
<1> QED
  BY <1>1, <1>2, <1>3, <1>4, <1>5 DEF Next, Loop

LEMMA StepRemembered ==
  ASSUME CaptureInv, RequestNames, RequestNames', TakenInTime, [Next]_vars, RememberedStay
  PROVE  RememberedStay'
<1> DEFINE a == ExchangeRecords(requests, responses, visibility)
           b == ExchangeRecords(requests', responses', visibility')
<1>1. Ranked(a) /\ Ranked(b)
  <2>1. WellNamed(requests) /\ WellNamed(requests')
    BY DEF RequestNames
  <2> QED
    BY <2>1, RecordsAreRanked
<1>2. Extends(b, a)
  BY FilledComesLast, RecordsAreExtended
<1>3. ListedIds \subseteq {s.id : s \in AllSessions(a)}
  BY ListedAreOfRecords
<1>4. named \subseteq {s.id : s \in AllSessions(a)}
  BY DEF RememberedStay
<1> HIDE DEF a, b
<1>5. {s.id : s \in AllSessions(a)} \subseteq {s.id : s \in AllSessions(b)}
  BY <1>1, <1>2, SessionsKeepTheirIds
<1>6. named' \subseteq {s.id : s \in AllSessions(b)}
  BY <1>3, <1>4, <1>5, NamedGrows DEF Remember
<1> QED
  BY <1>6 DEF RememberedStay, a, b

\* A session keeps its id while the capture goes on: what is added to the files
\* of requests comes behind all that its process had before, whatever has
\* happened to the files of responses and tools in between.
THEOREM SessionsStay == Spec => []SessionIdsAreStable
<1>1. Init => RememberedStay
  BY DEF Init, RememberedStay
<1>2. CaptureInv /\ RequestNames /\ RequestNames' /\ TakenInTime /\ [Next]_vars /\ RememberedStay
        => RememberedStay'
  BY StepRemembered
<1>3. RememberedStay => SessionIdsAreStable
  BY DEF RememberedStay, SessionIdsAreStable, ListedIds, Listed, Sessions, AllSessions
<1> QED
  BY <1>1, <1>2, <1>3, CaptureAlways, NamesAlways, TimesAlways, PTL DEF Spec
=============================================================================
