------------------------------- MODULE Tcp_proofs ------------------------------
(***************************************************************************)
(* Theorems about Tcp, for any number of connections, bytes and duplicates *)
(* and every modulus of sequence numbers that the assumption allows.       *)
(***************************************************************************)
EXTENDS Tcp, FiniteSetTheorems, SequenceTheorems, TLAPS

States == {"Closed", "SynSent", "SynReceived", "Established", "FinWait1", "FinWait2",
           "CloseWait", "Closing", "LastAck", "TimeWait"}

\* The states a connection has before it has taken a FIN.
Early == {"SynSent", "SynReceived", "Established"}

Bytes == Conns \X Nat

SegmentType ==
  [to : Hosts, flags : SUBSET {"syn", "ack", "fin", "rst"}, seq : Nat, ack : Nat,
   data : Seq(Bytes), from : Conns]

ConnType ==
  [state : States, una : Nat, nxt : Nat, rcv : Nat, sent : Nat, got : Seq(Bytes),
   peer : Conns, fin : BOOLEAN]

PolledType == [conn : Conns, state : States, seg : SegmentType]

ClosingType ==
  [at : {"no", "fin", "store", "done"}, state : States \cup {""},
   fin : SegmentType \cup {NoSegment}]

TypeOK ==
  /\ connecting \in {"no", "pushed", "sent"}
  /\ conn \in [Conns -> ConnType]
  /\ table \in SUBSET Conns
  /\ queue \in Seq(Servers) /\ accepted \in SUBSET Servers
  /\ polled \in [Hosts -> PolledType \cup {NoSegment}]
  /\ closing \in [Conns -> ClosingType]
  /\ net \in SUBSET SegmentType
  /\ dups \in Nat

Limit(i) == IF i = 0 THEN MaxData ELSE MaxReply

\* A connection that sends has counted its SYN, its bytes, and its FIN once.
Opened(i) ==
  \E d \in 0 .. 1 :
    /\ closing[i].at = "no" => d = 0
    /\ conn[i].nxt = Wrap(Isn(i) + 1 + conn[i].sent + d)

Fresh(i) == conn[i] = NewConn(i)

Queued(i) == \E k \in 1 .. Len(queue) : queue[k] = i

\* The first n bytes of the client are in a receive buffer.
Delivered(n) == n = 0 \/ \E i \in Servers : n <= Len(conn[i].got)

\* A byte has the number of its place, a SYN that of its connection, and what is
\* acknowledged to the client was delivered, until the client counts a FIN.
SegmentOK(m) ==
  /\ "rst" \notin m.flags => m.to = Peer(HostOf(m.from))
  /\ m.data # <<>> =>
       /\ m.flags = {"ack"}
       /\ \E k \in 1 .. conn[m.from].sent :
            m.data = <<<<m.from, k>>>> /\ m.seq = Wrap(Isn(m.from) + k)
  /\ "syn" \in m.flags =>
       /\ m.seq = Isn(m.from)
       /\ m.flags = IF m.from = 0 THEN {"syn"} ELSE {"syn", "ack"}
  /\ "fin" \in m.flags /\ m.from = 0 => closing[0].at # "no"
  /\ "rst" \notin m.flags /\ m.from # 0 /\ closing[0].at = "no" =>
       \E n \in 0 .. MaxData : m.ack = Wrap(Isn(0) + 1 + n) /\ Delivered(n)

\* What a connection has got are its peer's first bytes.
ConnOK(i) ==
  /\ Fresh(i) \/ Opened(i)
  /\ conn[i].sent <= Limit(i)
  /\ Len(conn[i].got) <= conn[conn[i].peer].sent
  /\ \A k \in 1 .. Len(conn[i].got) : conn[i].got[k] = <<conn[i].peer, k>>
  /\ conn[i].state \in Early => ~conn[i].fin

\* Before a FIN, rcv is the number after those of the SYN and of what was got.
ServerOK(i) ==
  /\ conn[i].peer = 0 /\ conn[i].state # "SynSent"
  /\ ~Fresh(i) /\ ~conn[i].fin => conn[i].rcv = Wrap(Isn(0) + 1 + Len(conn[i].got))
  /\ conn[i].fin => closing[0].at # "no"
  /\ conn[i].state = "SynReceived" => i \notin accepted /\ ~Queued(i)

ClientOK ==
  /\ conn[0].state # "SynReceived" /\ (conn[0].state = "SynSent" => conn[0].peer = 0)
  /\ conn[0].peer = 0 =>
       conn[0].state \in {"Closed", "SynSent"} /\ conn[0].una = Isn(0) /\ conn[0].got = <<>>
  /\ conn[0].peer # 0 /\ ~conn[0].fin =>
       conn[0].rcv = Wrap(Isn(conn[0].peer) + 1 + Len(conn[0].got))
  /\ conn[0].peer # 0 /\ closing[0].at = "no" =>
       \E n \in 0 .. MaxData : conn[0].una = Wrap(Isn(0) + 1 + n) /\ Delivered(n)

\* What was true of the state that a poll loaded still is when it acts on it.
PolledOK(h) ==
  polled[h] # NoSegment =>
    LET i == polled[h].conn  s == polled[h].state IN
    /\ HostOf(i) = h /\ Opened(i)
    /\ polled[h].seg.to = h /\ SegmentOK(polled[h].seg)
    /\ s \in Early => ~conn[i].fin
    /\ i = 0 => /\ s # "SynReceived"
                /\ s = "SynSent" => conn[0].peer = 0
                /\ conn[0].peer = 0 => s \in {"Closed", "SynSent"}
    /\ i # 0 => /\ s # "SynSent"
                /\ s = "SynReceived" => i \notin accepted /\ ~Queued(i)

ClosingOK(i) ==
  /\ closing[i].at # "no" => Opened(i)
  /\ closing[i].fin # NoSegment => SegmentOK(closing[i].fin)
  /\ i = 0 /\ closing[0].state \in {"Established", "CloseWait"} => conn[0].peer # 0

\* The connections a host knows or has handed on are open, but for one that connect()
\* has pushed and not yet opened.
TableOK == \A i \in table : Opened(i) \/ (i = 0 /\ connecting # "sent")

QueueOK ==
  /\ QueuedOnce
  /\ \A k \in 1 .. Len(queue) : Opened(queue[k])
  /\ \A i \in accepted : Opened(i)

IInv ==
  /\ TypeOK
  /\ \A i \in Conns : ConnOK(i) /\ ClosingOK(i)
  /\ \A i \in Servers : ServerOK(i)
  /\ ClientOK
  /\ \A h \in Hosts : PolledOK(h)
  /\ \A m \in net : SegmentOK(m)
  /\ TableOK /\ QueueOK

\* Before the SYN is sent nothing has happened, but that the timer may have taken what
\* connect() pushed.
Quiet ==
  /\ \A i \in Conns : Fresh(i) /\ closing[i] = NotClosing
  /\ queue = <<>> /\ accepted = {} /\ net = {}
  /\ \A h \in Hosts : polled[h] = NoSegment

IndInv == IInv /\ (connecting # "sent" => Quiet)

-----------------------------------------------------------------------------
\* Sequence numbers.

\* What the assumption says of the bounds.
LEMMA Sizes ==
  /\ SeqNumMod \in Nat /\ MaxConns \in Nat /\ MaxData \in Nat /\ MaxReply \in Nat
  /\ MaxDups \in Nat
  /\ SeqNumMod >= 4 * (MaxData + MaxReply + 3) /\ SeqNumMod >= 12
  /\ 0 \in Conns /\ Conns = {0} \cup Servers /\ 0 \notin Servers
BY TcpAssumption DEF Conns, Servers

\* Numbers below the modulus stay.
LEMMA WrapSmall ==
  ASSUME NEW n \in Int, 0 <= n, n < SeqNumMod
  PROVE  Wrap(n) = n
BY TcpAssumption DEF Wrap

\* Numbers of the next turn wrap once.
LEMMA WrapLarge ==
  ASSUME NEW n \in Int, SeqNumMod <= n, n < 2 * SeqNumMod
  PROVE  Wrap(n) = n - SeqNumMod
BY TcpAssumption DEF Wrap

\* A wrapped number is a number.
LEMMA WrapType ==
  ASSUME NEW n \in Int
  PROVE  Wrap(n) \in Nat
<1>1. SeqNumMod \in Nat /\ SeqNumMod > 0
  BY Sizes
<1>2. QED
  BY <1>1 DEF Wrap

\* What generate_isn gives is a sequence number.
LEMMA IsnType ==
  ASSUME NEW i \in Conns
  PROVE  Isn(i) \in Nat /\ Isn(i) < SeqNumMod
BY IsnAssumption, Sizes DEF Isn

\* The distance of a number from the first one, across wrap-around.
LEMMA Distance ==
  ASSUME NEW i \in Conns, NEW a \in Nat, NEW b \in Nat, b <= a, a < SeqNumMod
  PROVE  Wrap(Wrap(Isn(i) + a) - Isn(i) - b) = a - b
<1>1. /\ Isn(i) \in Nat /\ Isn(i) < SeqNumMod /\ SeqNumMod \in Nat
      /\ SeqNumMod > 0 /\ a - b \in Nat /\ a - b < SeqNumMod
  BY IsnType, Sizes
<1>2. CASE Isn(i) + a < SeqNumMod
  <2>1. Wrap(Isn(i) + a) - Isn(i) - b = a - b
    BY <1>1, <1>2, WrapSmall
  <2>2. QED
    BY <1>1, <2>1, WrapSmall
<1>3. CASE Isn(i) + a >= SeqNumMod
  <2>1. Wrap(Isn(i) + a) - Isn(i) - b = a - b - SeqNumMod
    BY <1>1, <1>3, WrapLarge
  <2>2. (a - b - SeqNumMod) % SeqNumMod = a - b
    BY <1>1
  <2>3. QED
    BY <2>1, <2>2 DEF Wrap
<1>4. QED
  BY <1>1, <1>2, <1>3

\* The numbers one connection uses differ, and each is followed by the next.
LEMMA SameNumber ==
  ASSUME NEW i \in Conns, NEW a \in 0 .. MaxData + MaxReply + 3,
         NEW b \in 0 .. MaxData + MaxReply + 3, Wrap(Isn(i) + a) = Wrap(Isn(i) + b)
  PROVE  a = b
<1>1. /\ Isn(i) \in Nat /\ Isn(i) < SeqNumMod /\ SeqNumMod \in Nat
      /\ a \in Nat /\ b \in Nat /\ a < SeqNumMod /\ b < SeqNumMod
  BY IsnType, Sizes
<1>2. \A n \in Nat : n < 2 * SeqNumMod =>
        Wrap(n) = IF n < SeqNumMod THEN n ELSE n - SeqNumMod
  BY <1>1, WrapSmall, WrapLarge
<1>3. QED
  BY <1>1, <1>2

\* The number after that of a place is that of the next place.
LEMMA NextNumber ==
  ASSUME NEW i \in Conns, NEW a \in 0 .. MaxData + MaxReply + 3
  PROVE  Wrap(Wrap(Isn(i) + a) + 1) = Wrap(Isn(i) + a + 1)
<1>1. /\ Isn(i) \in Nat /\ Isn(i) < SeqNumMod /\ SeqNumMod \in Nat
      /\ a \in Nat /\ a + 1 < SeqNumMod
  BY IsnType, Sizes
<1>2. \A n \in Nat : n < 2 * SeqNumMod =>
        Wrap(n) = IF n < SeqNumMod THEN n ELSE n - SeqNumMod
  BY <1>1, WrapSmall, WrapLarge
<1>3. QED
  BY <1>1, <1>2

\* The numbers that two connections of the server use for their bytes are not confused.
LEMMA OtherNumber ==
  ASSUME NEW i \in Servers, NEW j \in Servers,
         NEW a \in 1 .. MaxReply + 1, NEW b \in 1 .. MaxReply + 1,
         Wrap(Isn(i) + a) = Wrap(Isn(j) + b)
  PROVE  i = j /\ a = b
<1>1. i \in Conns /\ j \in Conns
  BY Sizes
<1>2. /\ Isn(i) \in Nat /\ Isn(i) < SeqNumMod /\ Isn(j) \in Nat /\ Isn(j) < SeqNumMod
      /\ SeqNumMod \in Nat /\ a \in Nat /\ b \in Nat /\ MaxReply \in Nat
      /\ SeqNumMod >= 4 * (MaxReply + 3)
  BY <1>1, IsnType, Sizes
<1>3. i # j => /\ Wrap(Isn(i) - Isn(j)) > MaxReply
               /\ Wrap(Isn(j) - Isn(i)) > MaxReply
  BY IsnAssumption DEF Isn
<1>4. \A n \in Nat : n < 2 * SeqNumMod =>
        Wrap(n) = IF n < SeqNumMod THEN n ELSE n - SeqNumMod
  BY <1>2, WrapSmall, WrapLarge
<1>5. \/ Isn(i) + a = Isn(j) + b
      \/ Isn(i) + a = Isn(j) + b - SeqNumMod
      \/ Isn(i) + a - SeqNumMod = Isn(j) + b
  BY <1>2, <1>4
<1>6. \A n \in Int : -SeqNumMod < n /\ n < SeqNumMod =>
        Wrap(n) = IF n >= 0 THEN n ELSE n + SeqNumMod
  <2>1. TAKE n \in Int
  <2>2. HAVE -SeqNumMod < n /\ n < SeqNumMod
  <2>3. n >= 0 => Wrap(n) = n
    BY <1>2, <2>2, WrapSmall
  <2>4. n < 0 => n % SeqNumMod = n + SeqNumMod
    BY <1>2, <2>2
  <2>5. QED
    BY <2>3, <2>4 DEF Wrap
<1>7. ASSUME i # j
      PROVE  FALSE
  <2>1. CASE a >= b
    <3>1. Wrap(Isn(j) - Isn(i)) = a - b
      BY <1>2, <1>5, <1>6, <2>1
    <3>2. QED
      BY <1>2, <1>3, <1>7, <2>1, <3>1
  <2>2. CASE b > a
    <3>1. Wrap(Isn(i) - Isn(j)) = b - a
      BY <1>2, <1>5, <1>6, <2>2
    <3>2. QED
      BY <1>2, <1>3, <1>7, <2>2, <3>1
  <2>3. QED
    BY <1>2, <2>1, <2>2
<1>8. Wrap(Isn(i) + a) = Wrap(Isn(i) + b)
  BY <1>7
<1>9. QED
  BY <1>1, <1>2, <1>7, <1>8, SameNumber, Sizes

\* A connection that was opened has counted its SYN.
LEMMA OpenedIsNotFresh ==
  ASSUME IInv, NEW i \in Conns, Opened(i)
  PROVE  ~Fresh(i) /\ conn[i].nxt # Isn(i)
<1>1. PICK d \in 0 .. 1 : conn[i].nxt = Wrap(Isn(i) + 1 + conn[i].sent + d)
  BY DEF Opened
<1>2. conn[i].sent \in Nat /\ conn[i].sent <= MaxData + MaxReply
  BY Sizes DEF IInv, TypeOK, ConnType, ConnOK, Limit
<1>3. Isn(i) \in Nat /\ Wrap(Isn(i) + 0) = Isn(i)
  BY IsnType, WrapSmall
<1>4. 1 + conn[i].sent + d \in 0 .. MaxData + MaxReply + 3 /\ 0 \in 0 .. MaxData + MaxReply + 3
  BY <1>2, Sizes
<1>5. Isn(i) + 1 + conn[i].sent + d = Isn(i) + (1 + conn[i].sent + d)
  BY <1>2, <1>3
<1>6. ASSUME Wrap(Isn(i) + (1 + conn[i].sent + d)) = Wrap(Isn(i) + 0)
      PROVE  FALSE
  <2>1. 1 + conn[i].sent + d = 0
    BY <1>4, <1>6, SameNumber
  <2>2. QED
    BY <1>2, <2>1
<1>7. conn[i].nxt # Isn(i)
  BY <1>1, <1>3, <1>5, <1>6
<1>8. QED
  BY <1>7 DEF Fresh, NewConn

-----------------------------------------------------------------------------
\* What no step takes back: bytes sent and got, and a close() begun.
Grows ==
  /\ \A i \in Conns : conn'[i].sent >= conn[i].sent /\ Len(conn'[i].got) >= Len(conn[i].got)
  /\ closing[0].at # "no" => closing'[0].at # "no"
  /\ \A i \in Conns : Opened(i) => Opened(i)'

\* Nobody is put into the queue, and accepted only from there.
HandsOn(i) ==
  /\ Queued(i)' => Queued(i)
  /\ i \in accepted' => i \in accepted \/ Queued(i)

\* The fields of a connection.
LEMMA ConnTypes ==
  ASSUME TypeOK, NEW i \in Conns
  PROVE  /\ conn[i] \in ConnType /\ conn[i].sent \in Nat /\ conn[i].peer \in Conns
         /\ conn[i].got \in Seq(Bytes) /\ Len(conn[i].got) \in Nat
<1>1. conn[i] \in ConnType
  BY DEF TypeOK
<1>2. /\ conn[i].sent \in Nat /\ conn[i].peer \in Conns /\ conn[i].got \in Seq(Bytes)
  BY <1>1 DEF ConnType
<1>3. Len(conn[i].got) \in Nat
  BY <1>2, LenProperties
<1>4. QED
  BY <1>1, <1>2, <1>3

\* Receive buffers only grow: what was delivered stays so.
LEMMA DeliveredKept ==
  ASSUME TypeOK, TypeOK', Grows, NEW n \in Nat, Delivered(n)
  PROVE  Delivered(n)'
<1>1. CASE n = 0
  BY <1>1 DEF Delivered
<1>2. CASE n # 0
  <2>1. PICK i \in Servers : n <= Len(conn[i].got)
    BY <1>2 DEF Delivered
  <2>2. i \in Conns
    BY Sizes
  <2>3. Len(conn[i].got) \in Nat /\ Len(conn[i].got)' \in Nat
    BY <2>2, ConnTypes
  <2>4. n <= Len(conn'[i].got)
    BY <2>1, <2>2, <2>3 DEF Grows
  <2>5. QED
    BY <2>4 DEF Delivered
<1>3. QED
  BY <1>1, <1>2

\* A segment that was right stays so while it travels.
LEMMA SegmentKept ==
  ASSUME TypeOK, TypeOK', Grows, NEW m \in SegmentType, SegmentOK(m)
  PROVE  SegmentOK(m)'
<1>1. m.from \in Conns
  BY DEF SegmentType
<1>2. /\ conn[m.from].sent \in Nat /\ conn'[m.from].sent \in Nat
      /\ conn'[m.from].sent >= conn[m.from].sent
  BY <1>1, ConnTypes DEF Grows, TypeOK, ConnType
<1>3. m.data # <<>> =>
        \E k \in 1 .. conn'[m.from].sent :
          m.data = <<<<m.from, k>>>> /\ m.seq = Wrap(Isn(m.from) + k)
  <2> SUFFICES ASSUME m.data # <<>>
               PROVE  \E k \in 1 .. conn'[m.from].sent :
                        m.data = <<<<m.from, k>>>> /\ m.seq = Wrap(Isn(m.from) + k)
    OBVIOUS
  <2>1. PICK k \in 1 .. conn[m.from].sent :
          m.data = <<<<m.from, k>>>> /\ m.seq = Wrap(Isn(m.from) + k)
    BY DEF SegmentOK
  <2>2. k \in 1 .. conn'[m.from].sent
    BY <1>2
  <2>3. QED
    BY <2>1, <2>2
<1>4. "rst" \notin m.flags /\ m.from # 0 /\ closing'[0].at = "no" =>
        \E n \in 0 .. MaxData : m.ack = Wrap(Isn(0) + 1 + n) /\ Delivered(n)'
  BY DeliveredKept DEF SegmentOK, Grows
<1>5. QED
  BY <1>3, <1>4 DEF SegmentOK, Grows

\* A connection that a step leaves alone.
LEMMA ConnKept ==
  ASSUME IInv, TypeOK', Grows, NEW i \in Conns, conn'[i] = conn[i]
  PROVE  ConnOK(i)'
<1>1. ConnOK(i) /\ TypeOK
  BY DEF IInv
<1>2. conn[i].peer \in Conns /\ Len(conn[i].got) \in Nat
  BY <1>1, ConnTypes
<1>3. conn[conn[i].peer].sent \in Nat /\ conn'[conn[i].peer].sent \in Nat
  BY <1>1, <1>2, ConnTypes DEF TypeOK, ConnType
<1>4. Len(conn[i].got) <= conn'[conn[i].peer].sent
  BY <1>1, <1>2, <1>3 DEF ConnOK, Grows
<1>5. QED
  BY <1>1, <1>4 DEF ConnOK, Grows, Fresh

\* One of the server.
LEMMA ServerKept ==
  ASSUME IInv, Grows, NEW i \in Servers, conn'[i] = conn[i], HandsOn(i)
  PROVE  ServerOK(i)'
BY DEF IInv, ServerOK, Grows, HandsOn, Fresh

\* The client's.
LEMMA ClientKept ==
  ASSUME IInv, TypeOK', Grows, conn'[0] = conn[0]
  PROVE  ClientOK'
<1>1. TypeOK /\ ClientOK
  BY DEF IInv
<1>2. \A n \in 0 .. MaxData : Delivered(n) => Delivered(n)'
  BY <1>1, DeliveredKept
<1>3. QED
  BY <1>1, <1>2 DEF ClientOK, Grows

\* What another thread has loaded.
LEMMA PolledKept ==
  ASSUME IInv, TypeOK', Grows, NEW h \in Hosts, polled'[h] = polled[h],
         \A i \in Conns : HostOf(i) = h =>
           conn'[i].fin = conn[i].fin /\ conn'[i].peer = conn[i].peer /\ HandsOn(i)
  PROVE  PolledOK(h)'
<1> SUFFICES ASSUME polled[h] # NoSegment PROVE PolledOK(h)'
  BY DEF PolledOK
<1>1. TypeOK /\ PolledOK(h)
  BY DEF IInv
<1>2. polled[h] \in PolledType
  BY <1>1 DEF TypeOK
<1>3. polled[h].conn \in Conns /\ polled[h].seg \in SegmentType
  BY <1>2 DEF PolledType
<1>4. SegmentOK(polled[h].seg)'
  <2>1. SegmentOK(polled[h].seg)
    BY <1>1 DEF PolledOK
  <2>2. PICK m \in SegmentType : m = polled[h].seg
    BY <1>3
  <2>3. SegmentOK(m)'
    BY <1>1, <2>1, <2>2, SegmentKept
  <2>4. QED
    BY <2>2, <2>3
<1>5. QED
  BY <1>1, <1>3, <1>4 DEF PolledOK, Grows, HandsOn

\* A close() in progress.
LEMMA ClosingKept ==
  ASSUME IInv, TypeOK', Grows, NEW i \in Conns, closing'[i] = closing[i],
         conn[0].peer # 0 => conn'[0].peer # 0
  PROVE  ClosingOK(i)'
<1>1. TypeOK /\ ClosingOK(i)
  BY DEF IInv
<1>2. closing[i].fin # NoSegment => closing[i].fin \in SegmentType
  BY <1>1 DEF TypeOK, ClosingType
<1>3. closing[i].fin # NoSegment => SegmentOK(closing[i].fin)'
  <2> SUFFICES ASSUME closing[i].fin # NoSegment
               PROVE  SegmentOK(closing[i].fin)'
    OBVIOUS
  <2>1. PICK m \in SegmentType : m = closing[i].fin
    BY <1>2
  <2>2. SegmentOK(m)'
    BY <1>1, <2>1, SegmentKept DEF ClosingOK
  <2>3. QED
    BY <2>1, <2>2
<1>4. QED
  BY <1>1, <1>3 DEF ClosingOK, Grows

\* The segments in the network.
LEMMA NetKept ==
  ASSUME IInv, TypeOK', Grows
  PROVE  \A m \in net : SegmentOK(m)'
<1>1. TypeOK /\ \A m \in net : m \in SegmentType /\ SegmentOK(m)
  BY DEF IInv, TypeOK
<1>2. QED
  BY <1>1, SegmentKept

\* Connections may be forgotten.
LEMMA TableKept ==
  ASSUME IInv, Grows, table' \subseteq table, connecting' = connecting
  PROVE  TableOK'
<1>1. table \subseteq Conns
  BY DEF IInv, TypeOK
<1>2. QED
  BY <1>1 DEF IInv, TableOK, Grows

\* The accept queue of a step that leaves it alone.
LEMMA QueueKept ==
  ASSUME IInv, Grows, UNCHANGED <<queue, accepted>>
  PROVE  QueueOK' /\ \A i : HandsOn(i)
<1>1. accepted \subseteq Conns /\ \A k \in 1 .. Len(queue) : queue[k] \in Conns
  BY ElementOfSeq, Sizes DEF IInv, TypeOK
<1>2. QueuedOnce'
  BY DEF IInv, QueueOK, QueuedOnce
<1>3. QED
  BY <1>1, <1>2 DEF IInv, QueueOK, Grows, HandsOn, Queued

-----------------------------------------------------------------------------
\* Nothing is open and nothing sent.
LEMMA InitHolds == Init => IInv
<1> SUFFICES ASSUME Init PROVE IInv
  OBVIOUS
<1>1. \A i \in Conns : /\ conn[i] = NewConn(i) /\ NewConn(i) \in ConnType
                       /\ conn[i].sent = 0 /\ conn[i].got = <<>> /\ conn[i].peer = 0
                       /\ conn[i].state = "Closed" /\ conn[i].una = Isn(i) /\ conn[i].fin = FALSE
  <2>1. <<>> \in Seq(Bytes)
    BY EmptySeq
  <2>2. QED
    BY <2>1, IsnType, Sizes DEF Init, NewConn, ConnType, States
<1>2. \A i \in Conns : closing[i] = NotClosing /\ NotClosing \in ClosingType
                       /\ closing[i].fin = NoSegment /\ closing[i].state = ""
                       /\ closing[i].at = "no"
  BY DEF Init, NotClosing, ClosingType
<1>3. TypeOK
  <2>1. queue \in Seq(Servers)
    BY EmptySeq DEF Init
  <2>2. QED
    BY <1>1, <1>2, <2>1 DEF Init, TypeOK
<1>4. \A i \in Conns : ConnOK(i) /\ ClosingOK(i)
  <2>1. Len(<<>>) = 0
    OBVIOUS
  <2>2. ASSUME NEW i \in Conns PROVE ConnOK(i)
    BY <1>1, <2>1, Sizes DEF ConnOK, Fresh, Limit
  <2>3. ASSUME NEW i \in Conns PROVE ClosingOK(i)
    BY <1>2, Sizes DEF ClosingOK
  <2>4. QED
    BY <2>2, <2>3
<1>5. \A i \in Servers : ServerOK(i)
  BY <1>1, Sizes DEF ServerOK, Fresh
<1>6. ClientOK
  BY <1>1, Sizes DEF ClientOK
<1>7. \A h \in Hosts : PolledOK(h)
  BY DEF Init, PolledOK
<1>8. TableOK /\ QueueOK
  BY DEF Init, TableOK, QueueOK, QueuedOnce
<1>9. net = {}
  BY DEF Init
<1>10. QED
  BY <1>3, <1>4, <1>5, <1>6, <1>7, <1>8, <1>9 DEF IInv

-----------------------------------------------------------------------------
\* send_syn() opens the client's connection, known to its host or not.
LEMMA Connects ==
  ASSUME IInv, send_syn, Fresh(0)
  PROVE  IInv'
<1>1. /\ Fresh(0) /\ connecting' = "sent"
      /\ conn' = [conn EXCEPT ![0].state = "SynSent", ![0].nxt = Wrap(Isn(0) + 1)]
      /\ net' = net \cup {Segment(0, {"syn"}, Isn(0), 0, <<>>)}
      /\ UNCHANGED <<table, queue, accepted, polled, closing, dups>>
  BY DEF send_syn
<1>2. TypeOK
  BY DEF IInv
<1>3. /\ conn'[0] = [conn[0] EXCEPT !.state = "SynSent", !.nxt = Wrap(Isn(0) + 1)]
      /\ \A j \in Conns \ {0} : conn'[j] = conn[j]
  BY <1>1, <1>2, Sizes DEF TypeOK
<1>4. /\ conn'[0].state = "SynSent" /\ conn'[0].nxt = Wrap(Isn(0) + 1) /\ conn'[0].una = Isn(0)
      /\ conn'[0].sent = 0 /\ conn'[0].got = <<>> /\ conn'[0].peer = 0 /\ conn'[0].fin = FALSE
      /\ conn[0].sent = 0 /\ conn[0].got = <<>> /\ conn[0].peer = 0 /\ conn[0].fin = FALSE
  <2>1. /\ conn[0].una = Isn(0) /\ conn[0].sent = 0 /\ conn[0].got = <<>> /\ conn[0].peer = 0
        /\ conn[0].fin = FALSE
    BY <1>1 DEF NewConn, Fresh
  <2>2. conn[0] \in ConnType
    BY <1>2, Sizes DEF TypeOK
  <2>3. QED
    BY <1>3, <2>1, <2>2 DEF ConnType
<1>5. PICK m \in SegmentType :
        /\ m = Segment(0, {"syn"}, Isn(0), 0, <<>>)
        /\ m.to = Peer(HostOf(0)) /\ m.from = 0 /\ m.flags = {"syn"}
        /\ m.seq = Isn(0) /\ m.data = <<>>
  <2> DEFINE s == Segment(0, {"syn"}, Isn(0), 0, <<>>)
  <2>1. Isn(0) \in Nat /\ <<>> \in Seq(Bytes) /\ 0 \in Conns /\ 0 \in Nat
        /\ {"syn"} \in SUBSET {"syn", "ack", "fin", "rst"}
    BY IsnType, EmptySeq, Sizes
  <2>2. /\ s \in SegmentType /\ s.to = Peer(HostOf(0)) /\ s.from = 0 /\ s.flags = {"syn"}
        /\ s.seq = Isn(0) /\ s.data = <<>>
    BY <2>1 DEF Segment, SegmentType, Hosts, Peer, HostOf
  <2> HIDE DEF s
  <2>3. QED
    BY <2>2 DEF s
<1>6. TypeOK'
  <2>1. conn' \in [Conns -> ConnType]
    <3>1. [conn[0] EXCEPT !.state = "SynSent", !.nxt = Wrap(Isn(0) + 1)] \in ConnType
      <4>1. conn[0] \in ConnType
        BY <1>2, Sizes DEF TypeOK
      <4>2. Isn(0) + 1 \in Int
        BY IsnType, Sizes
      <4>3. Wrap(Isn(0) + 1) \in Nat
        BY <4>2, WrapType
      <4>4. QED
        BY <4>1, <4>3 DEF ConnType, States
    <3>2. QED
      BY <1>1, <1>2, <1>3, <3>1 DEF TypeOK
  <2>2. QED
    BY <1>1, <1>2, <1>5, <2>1, Sizes DEF TypeOK
<1>7. Grows
  <2>1. Opened(0)'
    <3>1. Isn(0) + 1 + 0 + 0 = Isn(0) + 1 /\ 0 \in 0 .. 1
      BY IsnType, Sizes
    <3>2. QED
      BY <1>4, <3>1 DEF Opened
  <2>2. \A j \in Conns \ {0} : Opened(j) => Opened(j)'
    BY <1>1, <1>3 DEF Opened
  <2>3. \A j \in Conns : conn'[j].sent = conn[j].sent /\ conn'[j].got = conn[j].got
    BY <1>3, <1>4
  <2>4. \A j \in Conns : conn[j].sent \in Nat /\ Len(conn[j].got) \in Nat
    BY <1>2, ConnTypes
  <2>5. \A j \in Conns : conn'[j].sent >= conn[j].sent /\ Len(conn'[j].got) >= Len(conn[j].got)
    BY <2>3, <2>4
  <2>6. QED
    BY <1>1, <2>1, <2>2, <2>5 DEF Grows
<1>8. \A i \in Conns : ConnOK(i)'
  <2>1. ConnOK(0)'
    <3>1. Len(<<>>) = 0 /\ Opened(0)'
      BY <1>4, IsnType, Sizes DEF Opened
    <3>2. QED
      BY <1>4, <3>1, Sizes DEF ConnOK, Limit
  <2>2. QED
    BY <1>3, <1>6, <1>7, <2>1, ConnKept
<1>9. \A i \in Conns : ClosingOK(i)'
  BY <1>1, <1>4, <1>6, <1>7, ClosingKept
<1>10. QueueOK' /\ \A i : HandsOn(i)
  BY <1>1, <1>7, QueueKept
<1>11. \A i \in Servers : ServerOK(i)'
  BY <1>3, <1>7, <1>10, ServerKept, Sizes
<1>12. ClientOK'
  BY <1>4 DEF ClientOK
<1>13. \A h \in Hosts : PolledOK(h)'
  <2>1. \A i \in Conns : conn'[i].fin = conn[i].fin /\ conn'[i].peer = conn[i].peer
    BY <1>3, <1>4
  <2>2. QED
    BY <1>1, <1>6, <1>7, <1>10, <2>1, PolledKept
<1>14. \A n \in net' : SegmentOK(n)'
  <2>1. SegmentOK(m)'
    BY <1>5 DEF SegmentOK, HostOf, Peer
  <2>2. QED
    BY <1>1, <1>5, <1>6, <1>7, <2>1, NetKept
<1>15. TableOK'
  <2>1. \A i \in table : i \in Conns /\ (Opened(i) \/ i = 0)
    BY <1>2 DEF IInv, TableOK, TypeOK
  <2>2. Opened(0)'
    BY <1>4, IsnType, Sizes DEF Opened
  <2>3. QED
    BY <1>1, <1>7, <2>1, <2>2 DEF TableOK, Grows
<1>16. QED
  BY <1>6, <1>8, <1>9, <1>10, <1>11, <1>12, <1>13, <1>14, <1>15 DEF IInv

\* Steps that change no connection.
LEMMA ConnsKept ==
  ASSUME IInv, TypeOK', conn' = conn,
         \A i \in Conns : closing'[i].at = "no" => closing[i].at = "no",
         closing[0].at # "no" => closing'[0].at # "no"
  PROVE  /\ Grows
         /\ \A i \in Conns : ConnOK(i)'
         /\ ClientOK'
         /\ \A i \in Servers : HandsOn(i) => ServerOK(i)'
<1>1. Grows
  <2>1. \A i \in Conns : Opened(i) => Opened(i)'
    BY DEF Opened
  <2>2. \A i \in Conns : conn[i].sent \in Nat /\ Len(conn[i].got) \in Nat
    BY ConnTypes DEF IInv
  <2>3. QED
    BY <2>1, <2>2 DEF Grows
<1>2. \A i \in Conns : ConnOK(i)'
  BY <1>1, ConnKept
<1>3. ClientOK'
  BY <1>1, ClientKept
<1>4. \A i \in Servers : HandsOn(i) => ServerOK(i)'
  BY <1>1, ServerKept
<1>5. QED
  BY <1>1, <1>2, <1>3, <1>4

\* connect() pushes a connection that is still closed.
LEMMA Pushes ==
  ASSUME IInv, connect
  PROVE  IInv'
<1>1. /\ table' = table \cup {0} /\ connecting' = "pushed"
      /\ UNCHANGED <<conn, queue, accepted, polled, closing, net, dups>>
  BY DEF connect
<1>2. TypeOK'
  BY <1>1, Sizes DEF IInv, TypeOK
<1>3. Grows /\ (\A i \in Conns : ConnOK(i)') /\ ClientOK'
      /\ \A i \in Servers : HandsOn(i) => ServerOK(i)'
  BY <1>1, <1>2, ConnsKept
<1>4. QueueOK' /\ \A i : HandsOn(i)
  BY <1>1, <1>3, QueueKept
<1>5. \A h \in Hosts : PolledOK(h)'
  BY <1>1, <1>2, <1>3, <1>4, PolledKept
<1>6. \A i \in Conns : ClosingOK(i)'
  BY <1>1, <1>2, <1>3, ClosingKept
<1>7. \A m \in net' : SegmentOK(m)'
  BY <1>1, <1>2, <1>3, NetKept
<1>8. TableOK'
  <2>1. \A i \in table : i \in Conns /\ (Opened(i) \/ i = 0)
    BY DEF IInv, TableOK, TypeOK
  <2>2. QED
    BY <1>1, <1>3, <2>1 DEF TableOK, Grows
<1>9. QED
  BY <1>2, <1>3, <1>4, <1>5, <1>6, <1>7, <1>8 DEF IInv

\* accept() takes a connection from the queue.
LEMMA Accepts ==
  ASSUME IInv, accept
  PROVE  IInv'
<1>1. /\ queue # <<>> /\ accepted' = accepted \cup {Head(queue)} /\ queue' = Tail(queue)
      /\ UNCHANGED <<connecting, conn, table, polled, closing, net, dups>>
  BY DEF accept
<1>2. TypeOK /\ QueueOK
  BY DEF IInv
<1>3. /\ queue \in Seq(Servers) /\ Len(queue) \in Nat /\ Len(queue) >= 1
      /\ Head(queue) = queue[1] /\ queue[1] \in Servers
      /\ queue' \in Seq(Servers) /\ Len(queue') = Len(queue) - 1
      /\ \A k \in 1 .. Len(queue') : queue'[k] = queue[k + 1]
  <2>1. queue \in Seq(Servers)
    BY <1>2 DEF TypeOK
  <2>2. QED
    BY <1>1, <2>1, LenProperties, HeadTailProperties, ElementOfSeq
<1>4. TypeOK'
  BY <1>1, <1>2, <1>3 DEF TypeOK
<1>5. Grows /\ (\A i \in Conns : ConnOK(i)') /\ ClientOK'
      /\ \A i \in Servers : HandsOn(i) => ServerOK(i)'
  BY <1>1, <1>4, ConnsKept
<1>6. \A i : HandsOn(i)
  BY <1>1, <1>3 DEF HandsOn, Queued
<1>7. QueueOK'
  <2>1. \A k, l \in 1 .. Len(queue') : queue'[k] = queue'[l] => k = l
    BY <1>2, <1>3 DEF QueueOK, QueuedOnce
  <2>2. \A k \in 1 .. Len(queue') : queue'[k] \notin accepted'
    BY <1>1, <1>2, <1>3 DEF QueueOK, QueuedOnce
  <2> DEFINE Open == {i \in Conns : Opened(i)}
  <2>3. Open' = Open
    BY <1>1 DEF Opened
  <2>4. /\ \A k \in 1 .. Len(queue') : queue'[k] \in Open
        /\ \A i \in accepted' : i \in Open
    <3>1. \A k \in 1 .. Len(queue) : queue[k] \in Servers
      BY <1>3, ElementOfSeq
    <3>2. \A k \in 1 .. Len(queue) : queue[k] \in Open
      BY <1>2, <3>1, Sizes DEF QueueOK
    <3>3. \A i \in accepted : i \in Open
      BY <1>2, Sizes DEF QueueOK, TypeOK
    <3>4. QED
      BY <1>1, <1>3, <3>2, <3>3
  <2>5. QED
    <3>1. \A k \in 1 .. Len(queue') : queue'[k] \in Open'
      BY <2>3, <2>4
    <3>2. \A i \in accepted' : i \in Open'
      BY <2>3, <2>4
    <3>3. QED
      BY <2>1, <2>2, <3>1, <3>2 DEF QueueOK, QueuedOnce
<1>8. \A h \in Hosts : PolledOK(h)'
  BY <1>1, <1>4, <1>5, <1>6, PolledKept
<1>9. \A i \in Conns : ClosingOK(i)'
  BY <1>1, <1>4, <1>5, ClosingKept
<1>10. (\A m \in net' : SegmentOK(m)') /\ TableOK'
  BY <1>1, <1>4, <1>5, NetKept, TableKept
<1>11. QED
  BY <1>4, <1>5, <1>6, <1>7, <1>8, <1>9, <1>10 DEF IInv

\* send_fin() loads the state again.
LEMMA LoadsToClose ==
  ASSUME IInv, NEW i \in Conns, CloseLoad(i)
  PROVE  IInv'
<1>1. /\ closing[i].at = "fin"
      /\ closing' = [closing EXCEPT ![i].at = "store", ![i].state = conn[i].state]
      /\ UNCHANGED <<connecting, conn, table, queue, accepted, polled, net, dups>>
  BY DEF CloseLoad
<1>2. TypeOK /\ ClientOK
  BY DEF IInv
<1>3. /\ closing'[i].at = "store" /\ closing'[i].state = conn[i].state
      /\ closing'[i].fin = closing[i].fin
      /\ \A j \in Conns \ {i} : closing'[j] = closing[j]
  <2>1. closing[i] \in ClosingType /\ closing \in [Conns -> ClosingType]
    BY <1>2 DEF TypeOK
  <2>2. QED
    BY <1>1, <2>1 DEF ClosingType
<1>4. TypeOK'
  <2>1. closing' \in [Conns -> ClosingType]
    <3>1. conn[i].state \in States /\ closing \in [Conns -> ClosingType]
      BY <1>2 DEF TypeOK, ConnType
    <3>2. QED
      BY <1>1, <3>1 DEF ClosingType
  <2>2. QED
    BY <1>1, <1>2, <2>1 DEF TypeOK
<1>5. Grows /\ (\A j \in Conns : ConnOK(j)') /\ ClientOK'
      /\ \A j \in Servers : HandsOn(j) => ServerOK(j)'
  <2>1. \A j \in Conns : closing'[j].at = "no" => closing[j].at = "no"
    BY <1>3
  <2>2. closing[0].at # "no" => closing'[0].at # "no"
    BY <1>3, Sizes
  <2>3. QED
    BY <1>1, <1>4, <2>1, <2>2, ConnsKept
<1>6. QueueOK' /\ \A j : HandsOn(j)
  BY <1>1, <1>5, QueueKept
<1>7. \A h \in Hosts : PolledOK(h)'
  BY <1>1, <1>4, <1>5, <1>6, PolledKept
<1>8. \A j \in Conns : ClosingOK(j)'
  <2>1. \A j \in Conns \ {i} : ClosingOK(j)'
    BY <1>1, <1>3, <1>4, <1>5, ClosingKept
  <2>2. closing[i].fin # NoSegment => SegmentOK(closing[i].fin)'
    <3> SUFFICES ASSUME closing[i].fin # NoSegment PROVE SegmentOK(closing[i].fin)'
      OBVIOUS
    <3>1. closing[i].fin \in SegmentType /\ SegmentOK(closing[i].fin)
      BY <1>2 DEF TypeOK, ClosingType, IInv, ClosingOK
    <3>2. PICK m \in SegmentType : m = closing[i].fin
      BY <3>1
    <3>3. SegmentOK(m)' /\ m = closing'[i].fin
      BY <1>2, <1>3, <1>4, <1>5, <3>1, <3>2, SegmentKept
    <3>4. QED
      BY <1>3, <3>2, <3>3
  <2>3. ClosingOK(i)'
    <3>1. i = 0 /\ conn[0].state \in {"Established", "CloseWait"} => conn[0].peer # 0
      BY <1>2 DEF ClientOK
    <3>2. Opened(i)'
      BY <1>1, <1>5 DEF IInv, ClosingOK, Grows
    <3>3. QED
      BY <1>1, <1>3, <2>2, <3>1, <3>2 DEF ClosingOK
  <2>4. QED
    BY <2>1, <2>3
<1>9. (\A m \in net' : SegmentOK(m)') /\ TableOK'
  BY <1>1, <1>4, <1>5, NetKept, TableKept
<1>10. QED
  BY <1>4, <1>5, <1>6, <1>7, <1>8, <1>9 DEF IInv

\* poll(): a segment is taken, its connection is found or made, and its state is loaded.
LEMMA Receives ==
  ASSUME IInv, connecting = "sent", NEW m \in net, Receive(m)
  PROVE  IInv'
<1>1. TypeOK /\ ClientOK /\ m \in SegmentType /\ SegmentOK(m)
  BY DEF IInv, TypeOK
<1>2. PICK i \in find_connection(m.to) :
        /\ polled' = [polled EXCEPT ![m.to] = [conn |-> i, state |-> conn[i].state, seg |-> m]]
        /\ net' \subseteq net /\ dups' \in Nat
        /\ UNCHANGED <<connecting, conn, table, queue, accepted, closing>>
  <2>1. dups \in Nat
    BY <1>1 DEF TypeOK
  <2>2. Take(m, {}) => net' \subseteq net /\ dups' \in Nat
    BY <2>1 DEF Take
  <2>3. QED
    BY <2>2 DEF Receive
<1>3. i \in Conns /\ i \in table /\ HostOf(i) = m.to /\ m.to \in Hosts
  BY <1>1, <1>2 DEF find_connection, TypeOK, SegmentType
<1>4. TypeOK'
  <2>1. [conn |-> i, state |-> conn[i].state, seg |-> m] \in PolledType
    BY <1>1, <1>3 DEF PolledType, TypeOK, ConnType
  <2>2. polled' \in [Hosts -> PolledType \cup {NoSegment}]
    BY <1>1, <1>2, <2>1 DEF TypeOK
  <2>3. QED
    BY <1>1, <1>2, <2>2 DEF TypeOK
<1>5. Grows /\ (\A j \in Conns : ConnOK(j)') /\ ClientOK'
      /\ \A j \in Servers : HandsOn(j) => ServerOK(j)'
  BY <1>2, <1>4, ConnsKept
<1>6. QueueOK' /\ \A j : HandsOn(j)
  BY <1>2, <1>5, QueueKept
<1>7. \A h \in Hosts : PolledOK(h)'
  <2>1. \A h \in Hosts \ {m.to} : PolledOK(h)'
    BY <1>1, <1>2, <1>4, <1>5, <1>6, PolledKept DEF TypeOK
  <2>2. PolledOK(m.to)'
    <3>1. /\ polled'[m.to].conn = i /\ polled'[m.to].state = conn[i].state
          /\ polled'[m.to].seg = m
      BY <1>1, <1>2, <1>3 DEF TypeOK
    <3>2. Opened(i)' /\ SegmentOK(m)'
      BY <1>1, <1>3, <1>4, <1>5, SegmentKept DEF IInv, TableOK, Grows
    <3>3. /\ conn[i].state \in Early => ~conn[i].fin
          /\ i = 0 => /\ conn[i].state # "SynReceived"
                      /\ conn[i].state = "SynSent" => conn[0].peer = 0
                      /\ conn[0].peer = 0 => conn[i].state \in {"Closed", "SynSent"}
          /\ i # 0 => /\ conn[i].state # "SynSent"
                      /\ conn[i].state = "SynReceived" => i \notin accepted /\ ~Queued(i)
      BY <1>1, <1>3, Sizes DEF IInv, ConnOK, ServerOK, ClientOK
    <3>4. Queued(i)' => Queued(i)
      BY <1>6 DEF HandsOn
    <3>5. QED
      BY <1>2, <1>3, <3>1, <3>2, <3>3, <3>4 DEF PolledOK
  <2>3. QED
    BY <2>1, <2>2
<1>8. (\A j \in Conns : ClosingOK(j)') /\ TableOK'
  BY <1>2, <1>4, <1>5, ClosingKept, TableKept
<1>9. \A n \in net' : SegmentOK(n)'
  BY <1>2, <1>4, <1>5, NetKept
<1>10. QED
  BY <1>4, <1>5, <1>6, <1>7, <1>8, <1>9 DEF IInv

\* A RST says nothing that the others rely on.
LEMMA Refuses ==
  ASSUME IInv, NEW m \in net, Refuse(m)
  PROVE  IInv'
<1>1. TypeOK /\ m \in SegmentType
  BY DEF IInv, TypeOK
<1>2. RstFor(m) \in SegmentType /\ RstFor(m).data = <<>> /\ RstFor(m).from = 0
      /\ RstFor(m).flags \in {{"rst"}, {"rst", "ack"}}
  <2>1. Wrap(m.seq + Len(m.data) + Cardinality(m.flags \cap {"syn", "fin"})) \in Nat
    <3>1. IsFiniteSet(m.flags \cap {"syn", "fin"})
      <4>1. IsFiniteSet({"syn"} \cup {"fin"})
        BY FS_Singleton, FS_Union
      <4>2. m.flags \cap {"syn", "fin"} \subseteq {"syn"} \cup {"fin"}
        OBVIOUS
      <4>3. QED
        BY <4>1, <4>2, FS_Subset
    <3>2. Cardinality(m.flags \cap {"syn", "fin"}) \in Nat
      BY <3>1, FS_CardinalityType
    <3>3. m.seq \in Nat /\ Len(m.data) \in Nat
      BY <1>1, LenProperties DEF SegmentType
    <3>4. m.seq + Len(m.data) + Cardinality(m.flags \cap {"syn", "fin"}) \in Int
      BY <3>2, <3>3
    <3>5. QED
      BY <3>4, WrapType
  <2>2. m.ack \in Nat /\ 0 \in Conns /\ <<>> \in Seq(Bytes)
    BY <1>1, EmptySeq, Sizes DEF SegmentType
  <2>3. QED
    BY <2>1, <2>2 DEF RstFor, SegmentType, Peer, Hosts
<1>3. PICK r \in SegmentType :
        /\ r.data = <<>> /\ r.from = 0 /\ r.flags \in {{"rst"}, {"rst", "ack"}}
        /\ net' \subseteq net \cup {r} /\ dups' \in Nat
        /\ UNCHANGED <<connecting, conn, table, queue, accepted, polled, closing>>
  <2>1. dups \in Nat
    BY <1>1 DEF TypeOK
  <2>2. \A S : Take(m, S) => net' \subseteq net \cup S /\ dups' \in Nat
    BY <2>1 DEF Take
  <2>3. net' \subseteq net \cup {RstFor(m)} /\ dups' \in Nat
    BY <2>2 DEF Refuse
  <2>4. UNCHANGED <<connecting, conn, table, queue, accepted, polled, closing>>
    BY DEF Refuse
  <2>5. QED
    BY <1>2, <2>3, <2>4
<1>4. TypeOK'
  BY <1>1, <1>3 DEF TypeOK
<1>5. Grows /\ (\A j \in Conns : ConnOK(j)') /\ ClientOK'
      /\ \A j \in Servers : HandsOn(j) => ServerOK(j)'
  BY <1>3, <1>4, ConnsKept
<1>6. QueueOK' /\ \A j : HandsOn(j)
  BY <1>3, <1>5, QueueKept
<1>7. \A h \in Hosts : PolledOK(h)'
  BY <1>3, <1>4, <1>5, <1>6, PolledKept
<1>8. (\A j \in Conns : ClosingOK(j)') /\ TableOK'
  BY <1>3, <1>4, <1>5, ClosingKept, TableKept
<1>9. SegmentOK(r)'
  BY <1>3 DEF SegmentOK
<1>10. \A n \in net' : SegmentOK(n)'
  BY <1>3, <1>4, <1>5, <1>9, NetKept
<1>11. QED
  BY <1>4, <1>5, <1>6, <1>7, <1>8, <1>10 DEF IInv

\* What a connection of the server acknowledges, it or another has delivered.
LEMMA AcksDelivered ==
  ASSUME IInv, TypeOK', Grows, NEW i \in Conns, i # 0, Opened(i), closing[0].at = "no"
  PROVE  \E n \in 0 .. MaxData : conn[i].rcv = Wrap(Isn(0) + 1 + n) /\ Delivered(n) /\ Delivered(n)'
<1>1. i \in Servers /\ ServerOK(i) /\ ConnOK(i) /\ ~Fresh(i) /\ TypeOK
  BY Sizes, OpenedIsNotFresh DEF IInv
<1>2. conn[i].rcv = Wrap(Isn(0) + 1 + Len(conn[i].got))
  BY <1>1 DEF ServerOK
<1>3. Len(conn[i].got) \in 0 .. MaxData
  <2>1. Len(conn[i].got) \in Nat /\ conn[0].sent \in Nat
    BY <1>1, ConnTypes, Sizes
  <2>2. conn[0].sent <= MaxData
    BY Sizes DEF IInv, ConnOK, Limit
  <2>3. Len(conn[i].got) <= conn[0].sent
    BY <1>1 DEF ConnOK, ServerOK
  <2>4. QED
    BY <2>1, <2>2, <2>3, Sizes
<1>4. PICK n \in 0 .. MaxData : n = Len(conn[i].got)
  BY <1>3
<1>5. Delivered(n)
  BY <1>1, <1>4, Sizes DEF Delivered
<1>6. Delivered(n)'
  BY <1>1, <1>5, DeliveredKept
<1>7. QED
  BY <1>2, <1>4, <1>5, <1>6

-----------------------------------------------------------------------------
\* Steps that leave what a connection has got as it was.
LEMMA ConnChanged ==
  ASSUME IInv, TypeOK', Grows, NEW i \in Conns,
         \A j \in Conns \ {i} : conn'[j] = conn[j] /\ HandsOn(j),
         ConnOK(i)', i \in Servers => ServerOK(i)', i = 0 => ClientOK'
  PROVE  (\A j \in Conns : ConnOK(j)') /\ ClientOK' /\ (\A j \in Servers : ServerOK(j)')
<1>1. \A j \in Conns \ {i} : ConnOK(j)'
  BY ConnKept
<1>2. \A j \in Servers \ {i} : ServerOK(j)'
  BY ServerKept, Sizes
<1>3. ClientOK'
  BY ClientKept, Sizes
<1>4. QED
  BY <1>1, <1>2, <1>3

\* A step that changes what a connection sends, and nothing of what it got.
LEMMA StreamKept ==
  ASSUME IInv, TypeOK', Grows, NEW i \in Conns, Opened(i),
         \A j \in Conns \ {i} : conn'[j] = conn[j],
         conn'[i].una = conn[i].una, conn'[i].rcv = conn[i].rcv, conn'[i].got = conn[i].got,
         conn'[i].peer = conn[i].peer, conn'[i].fin = conn[i].fin,
         conn'[i].sent <= Limit(i),
         conn'[i].state = conn[i].state \/ conn'[i].state \notin Early,
         i = 0 /\ conn[0].peer = 0 => conn'[0].state \in {"Closed", "SynSent"},
         \A j : HandsOn(j)
  PROVE  /\ (\A j \in Conns : ConnOK(j)') /\ ClientOK' /\ (\A j \in Servers : ServerOK(j)')
         /\ \A h \in Hosts : polled'[h] = polled[h] => PolledOK(h)'
<1>1. TypeOK /\ ConnOK(i) /\ ~Fresh(i) /\ Opened(i)'
  BY OpenedIsNotFresh DEF IInv, Grows
<1>2. ConnOK(i)'
  <2>1. conn[i].peer \in Conns /\ Len(conn[i].got) \in Nat
    BY <1>1, ConnTypes
  <2>2. conn[conn[i].peer].sent \in Nat /\ conn'[conn[i].peer].sent \in Nat
    BY <1>1, <2>1 DEF TypeOK, ConnType
  <2>3. Len(conn[i].got) <= conn'[conn[i].peer].sent
    BY <1>1, <2>1, <2>2 DEF ConnOK, Grows
  <2>4. conn'[i].state \in Early => ~conn'[i].fin
    BY <1>1 DEF ConnOK
  <2>5. \A k \in 1 .. Len(conn'[i].got) : conn'[i].got[k] = <<conn'[i].peer, k>>
    BY <1>1 DEF ConnOK
  <2>6. QED
    BY <1>1, <2>3, <2>4, <2>5 DEF ConnOK, Limit
<1>3. i \in Servers => ServerOK(i)'
  BY <1>1 DEF IInv, ServerOK, Grows, HandsOn, Early
<1>4. i = 0 => ClientOK'
  <2>1. \A n \in 0 .. MaxData : Delivered(n) => Delivered(n)'
    BY <1>1, DeliveredKept
  <2>2. QED
    BY <1>1, <2>1 DEF IInv, ClientOK, Grows, Early
<1>5. \A j \in Conns : conn'[j].fin = conn[j].fin /\ conn'[j].peer = conn[j].peer
  OBVIOUS
<1>6. \A h \in Hosts : polled'[h] = polled[h] => PolledOK(h)'
  BY <1>5, PolledKept
<1>7. QED
  BY <1>2, <1>3, <1>4, <1>6, ConnChanged

\* timer_tick() of a connection that was opened.
LEMMA TimesOut ==
  ASSUME IInv, NEW i \in Conns, timer_tick(i), Opened(i)
  PROVE  IInv'
<1>1. /\ i \in table /\ conn' = [conn EXCEPT ![i].state = "Closed"]
      /\ table' \subseteq table
      /\ UNCHANGED <<connecting, queue, accepted, polled, closing, dups, net>>
  BY DEF timer_tick, App
<1>2. TypeOK /\ ConnOK(i)
  BY DEF IInv
<1>3. /\ conn'[i].state = "Closed" /\ conn'[i].nxt = conn[i].nxt /\ conn'[i].sent = conn[i].sent
      /\ conn'[i].una = conn[i].una /\ conn'[i].rcv = conn[i].rcv /\ conn'[i].got = conn[i].got
      /\ conn'[i].peer = conn[i].peer /\ conn'[i].fin = conn[i].fin
      /\ \A j \in Conns \ {i} : conn'[j] = conn[j]
      /\ conn' \in [Conns -> ConnType]
  <2>1. conn \in [Conns -> ConnType]
    BY <1>2 DEF TypeOK
  <2>2. QED
    BY <1>1, <2>1 DEF ConnType, States
<1>4. TypeOK'
  BY <1>1, <1>2, <1>3 DEF TypeOK
<1>5. Grows
  <2>1. \A j \in Conns : conn'[j].sent = conn[j].sent /\ conn'[j].got = conn[j].got
                         /\ conn'[j].nxt = conn[j].nxt
    BY <1>3
  <2>2. \A j \in Conns : conn[j].sent \in Nat /\ Len(conn[j].got) \in Nat
    BY <1>2, ConnTypes
  <2>3. QED
    BY <1>1, <2>1, <2>2 DEF Grows, Opened
<1>6. QueueOK' /\ \A j : HandsOn(j)
  BY <1>1, <1>5, QueueKept
<1>7. /\ (\A j \in Conns : ConnOK(j)') /\ ClientOK' /\ (\A j \in Servers : ServerOK(j)')
      /\ \A h \in Hosts : polled'[h] = polled[h] => PolledOK(h)'
  <2>1. conn'[i].sent <= Limit(i)
    BY <1>2, <1>3 DEF ConnOK
  <2>2. conn'[i].state \notin Early
    BY <1>3 DEF Early
  <2>3. QED
    BY <1>2, <1>3, <1>4, <1>5, <1>6, <2>1, <2>2, StreamKept
<1>8. \A j \in Conns : ClosingOK(j)'
  BY <1>1, <1>3, <1>4, <1>5, ClosingKept
<1>9. (\A m \in net' : SegmentOK(m)') /\ TableOK'
  BY <1>1, <1>4, <1>5, NetKept, TableKept
<1>10. QED
  BY <1>1, <1>4, <1>6, <1>7, <1>8, <1>9 DEF IInv

\* timer_tick() before the SYN is sent takes what connect() pushed.
LEMMA TakesBack ==
  ASSUME IInv, Quiet, NEW i \in Conns, timer_tick(i)
  PROVE  IInv' /\ conn' = conn
<1>1. /\ i \in table /\ conn' = [conn EXCEPT ![i].state = "Closed"]
      /\ table' \subseteq table
      /\ UNCHANGED <<connecting, queue, accepted, polled, closing, dups, net>>
  BY DEF timer_tick, App
<1>2. conn' = conn
  <2>1. conn \in [Conns -> ConnType] /\ conn[i].state = "Closed"
    BY DEF IInv, TypeOK, Quiet, Fresh, NewConn
  <2>2. PICK c \in ConnType : c = conn[i]
    BY <2>1
  <2>3. [c EXCEPT !.state = "Closed"] = c
    BY <2>1, <2>2 DEF ConnType
  <2>4. conn' = [conn EXCEPT ![i] = c]
    BY <1>1, <2>2, <2>3
  <2>5. QED
    BY <2>1, <2>2, <2>4
<1>3. TypeOK'
  BY <1>1, <1>2 DEF IInv, TypeOK
<1>4. Grows /\ (\A j \in Conns : ConnOK(j)') /\ ClientOK'
      /\ \A j \in Servers : HandsOn(j) => ServerOK(j)'
  BY <1>1, <1>2, <1>3, ConnsKept
<1>5. QueueOK' /\ \A j : HandsOn(j)
  BY <1>1, <1>4, QueueKept
<1>6. \A h \in Hosts : PolledOK(h)'
  BY <1>1, <1>2, <1>3, <1>4, <1>5, PolledKept
<1>7. (\A j \in Conns : ClosingOK(j)') /\ TableOK'
  BY <1>1, <1>2, <1>3, <1>4, ClosingKept, TableKept
<1>8. \A m \in net' : SegmentOK(m)'
  BY <1>1, <1>3, <1>4, NetKept
<1>9. QED
  BY <1>2, <1>3, <1>4, <1>5, <1>6, <1>7, <1>8 DEF IInv

\* A byte has the number that follows those of the SYN and the bytes before it.
LEMMA Sends ==
  ASSUME IInv, NEW i \in Conns, send_data(i)
  PROVE  IInv'
<1>1. /\ InUse(i) /\ closing[i].at = "no" /\ conn[i].sent < Limit(i)
      /\ net' = net \cup {Segment(i, {"ack"}, conn[i].nxt, conn[i].rcv,
                                  <<<<i, conn[i].sent + 1>>>>)}
      /\ conn' = [conn EXCEPT ![i].nxt = Wrap(@ + 1), ![i].sent = @ + 1]
      /\ UNCHANGED <<connecting, table, queue, accepted, polled, closing, dups>>
  BY DEF send_data, App, Limit
<1>2. TypeOK /\ ConnOK(i) /\ conn[i] \in ConnType
  BY DEF IInv, TypeOK
<1>3. Opened(i)
  BY <1>1, <1>2, Sizes DEF InUse, IInv, ConnOK, QueueOK, Fresh
<1>4. /\ conn[i].nxt = Wrap(Isn(i) + (1 + conn[i].sent))
      /\ conn[i].sent \in Nat /\ 1 + conn[i].sent \in 0 .. MaxData + MaxReply + 3
      /\ Isn(i) \in Nat
      /\ Wrap(conn[i].nxt + 1) = Wrap(Isn(i) + (1 + conn[i].sent) + 1)
  <2>1. conn[i].sent \in Nat /\ Isn(i) \in Nat
    BY <1>2, IsnType DEF ConnType
  <2>2. Isn(i) + 1 + conn[i].sent + 0 = Isn(i) + (1 + conn[i].sent)
    BY <2>1
  <2>3. conn[i].nxt = Wrap(Isn(i) + (1 + conn[i].sent))
    BY <1>1, <1>3, <2>2 DEF Opened
  <2>4. 1 + conn[i].sent \in 0 .. MaxData + MaxReply + 3
    BY <1>1, <2>1, Sizes DEF Limit
  <2>5. QED
    BY <2>1, <2>3, <2>4, NextNumber
<1>5. /\ conn'[i].nxt = Wrap(conn[i].nxt + 1) /\ conn'[i].sent = conn[i].sent + 1
      /\ conn'[i].state = conn[i].state
      /\ conn'[i].una = conn[i].una /\ conn'[i].rcv = conn[i].rcv /\ conn'[i].got = conn[i].got
      /\ conn'[i].peer = conn[i].peer /\ conn'[i].fin = conn[i].fin
      /\ \A j \in Conns \ {i} : conn'[j] = conn[j]
      /\ conn' \in [Conns -> ConnType]
  <2>1. conn \in [Conns -> ConnType] /\ conn[i].nxt + 1 \in Int
    BY <1>2 DEF TypeOK, ConnType
  <2>2. Wrap(conn[i].nxt + 1) \in Nat
    BY <2>1, WrapType
  <2>3. /\ conn'[i] = [conn[i] EXCEPT !.nxt = Wrap(conn[i].nxt + 1), !.sent = conn[i].sent + 1]
        /\ \A j \in Conns \ {i} : conn'[j] = conn[j]
    BY <1>1, <2>1
  <2>4. /\ conn'[i] \in ConnType
        /\ conn'[i].nxt = Wrap(conn[i].nxt + 1) /\ conn'[i].sent = conn[i].sent + 1
        /\ conn'[i].state = conn[i].state
        /\ conn'[i].una = conn[i].una /\ conn'[i].rcv = conn[i].rcv /\ conn'[i].got = conn[i].got
        /\ conn'[i].peer = conn[i].peer /\ conn'[i].fin = conn[i].fin
    <3>1. conn[i] \in ConnType /\ Wrap(conn[i].nxt + 1) \in Nat /\ conn[i].sent + 1 \in Nat
      BY <1>2, <1>4, <2>2
    <3>2. PICK c \in ConnType, n \in Nat, s \in Nat :
            c = conn[i] /\ n = Wrap(conn[i].nxt + 1) /\ s = conn[i].sent + 1
      BY <3>1
    <3>3. conn'[i] = [c EXCEPT !.nxt = n, !.sent = s]
      BY <2>3, <3>2
    <3>4. /\ conn'[i] \in ConnType /\ conn'[i].nxt = n /\ conn'[i].sent = s
          /\ conn'[i].state = c.state /\ conn'[i].una = c.una /\ conn'[i].rcv = c.rcv
          /\ conn'[i].got = c.got /\ conn'[i].peer = c.peer /\ conn'[i].fin = c.fin
      BY <3>3 DEF ConnType
    <3>5. QED
      BY <3>2, <3>4
  <2>5. conn' \in [Conns -> ConnType]
    BY <1>1, <2>1, <2>3, <2>4
  <2>6. QED
    BY <2>3, <2>4, <2>5
<1>6. PICK m \in SegmentType :
        /\ net' = net \cup {m}
        /\ m.to = Peer(HostOf(i)) /\ m.from = i /\ m.flags = {"ack"} /\ m.seq = conn[i].nxt
        /\ m.ack = conn[i].rcv /\ m.data = <<<<i, conn[i].sent + 1>>>>
  <2> DEFINE s == Segment(i, {"ack"}, conn[i].nxt, conn[i].rcv, <<<<i, conn[i].sent + 1>>>>)
  <2>1. <<<<i, conn[i].sent + 1>>>> \in Seq(Bytes)
    <3>1. <<i, conn[i].sent + 1>> \in Bytes
      BY <1>4 DEF Bytes
    <3>2. QED
      BY <3>1
  <2>2. conn[i].nxt \in Nat /\ conn[i].rcv \in Nat
    BY <1>2 DEF ConnType
  <2>3. /\ s \in SegmentType /\ s.to = Peer(HostOf(i)) /\ s.from = i /\ s.flags = {"ack"}
        /\ s.seq = conn[i].nxt /\ s.ack = conn[i].rcv /\ s.data = <<<<i, conn[i].sent + 1>>>>
    BY <2>1, <2>2 DEF Segment, SegmentType, Hosts, Peer, HostOf
  <2>4. net' = net \cup {s}
    BY <1>1
  <2> HIDE DEF s
  <2>5. QED
    BY <2>3, <2>4
<1>7. TypeOK'
  BY <1>1, <1>2, <1>5, <1>6 DEF TypeOK
<1>8. Grows
  <2>1. Opened(i)'
    <3>1. Isn(i) + (1 + conn[i].sent) + 1 = Isn(i) + 1 + (conn[i].sent + 1) + 0 /\ 0 \in 0 .. 1
      BY <1>4
    <3>2. conn'[i].nxt = Wrap(Isn(i) + 1 + conn'[i].sent + 0)
      BY <1>4, <1>5, <3>1
    <3>3. QED
      BY <3>1, <3>2 DEF Opened
  <2>2. \A j \in Conns \ {i} : Opened(j) => Opened(j)'
    BY <1>1, <1>5 DEF Opened
  <2>3. \A j \in Conns : conn[j].sent \in Nat /\ Len(conn[j].got) \in Nat
    BY <1>2, ConnTypes
  <2>4. \A j \in Conns : conn'[j].sent >= conn[j].sent /\ Len(conn'[j].got) >= Len(conn[j].got)
    <3>1. conn'[i].sent >= conn[i].sent /\ conn'[i].got = conn[i].got
      BY <1>4, <1>5
    <3>2. QED
      BY <1>5, <2>3, <3>1
  <2>5. QED
    BY <1>1, <2>1, <2>2, <2>4 DEF Grows
<1>9. QueueOK' /\ \A j : HandsOn(j)
  BY <1>1, <1>8, QueueKept
<1>10. /\ (\A j \in Conns : ConnOK(j)') /\ ClientOK' /\ (\A j \in Servers : ServerOK(j)')
       /\ \A h \in Hosts : polled'[h] = polled[h] => PolledOK(h)'
  <2>1. conn'[i].sent <= Limit(i)
    BY <1>1, <1>4, <1>5, Sizes DEF Limit
  <2>2. i = 0 /\ conn[0].peer = 0 => conn'[0].state \in {"Closed", "SynSent"}
    BY <1>5 DEF IInv, ClientOK
  <2>3. QED
    BY <1>3, <1>5, <1>7, <1>8, <1>9, <2>1, <2>2, StreamKept
<1>11. (\A j \in Conns : ClosingOK(j)') /\ TableOK'
  <2>1. conn'[0].peer = conn[0].peer
    BY <1>5, Sizes
  <2>2. \A j \in Conns : ClosingOK(j)'
    BY <1>1, <1>7, <1>8, <2>1, ClosingKept
  <2>3. TableOK'
    BY <1>1, <1>8, TableKept
  <2>4. QED
    BY <2>2, <2>3
<1>12. \A n \in net' : SegmentOK(n)'
  <2>1. \E k \in 1 .. conn'[i].sent : m.data = <<<<i, k>>>> /\ m.seq = Wrap(Isn(i) + k)
    <3>1. conn[i].sent + 1 \in 1 .. conn'[i].sent /\ 1 + conn[i].sent = conn[i].sent + 1
      BY <1>4, <1>5
    <3>2. QED
      BY <1>4, <1>6, <3>1
  <2>2. i # 0 /\ closing[0].at = "no" =>
          \E n \in 0 .. MaxData : m.ack = Wrap(Isn(0) + 1 + n) /\ Delivered(n)'
    BY <1>3, <1>6, <1>7, <1>8, AcksDelivered
  <2>3. SegmentOK(m)'
    BY <1>1, <1>6, <2>1, <2>2 DEF SegmentOK
  <2>4. QED
    BY <1>6, <1>7, <1>8, <2>3, NetKept
<1>13. QED
  BY <1>1, <1>7, <1>9, <1>10, <1>11, <1>12 DEF IInv

\* close() before the handshake ends builds no segment.
LEMMA StartsToAbort ==
  ASSUME IInv, NEW i \in Conns, CloseStart(i), conn[i].state = "SynSent"
  PROVE  IInv'
<1>0. /\ InUse(i) /\ closing[i].at = "no"
      /\ closing' = [closing EXCEPT ![i] =
           [at |-> "store", state |-> "SynSent", fin |-> NoSegment]]
      /\ UNCHANGED <<connecting, conn, table, queue, accepted, polled, net, dups>>
  BY DEF CloseStart
<1>1. TypeOK
  BY DEF IInv
<1>2. /\ closing'[i] = [at |-> "store", state |-> "SynSent", fin |-> NoSegment]
      /\ closing'[i].at = "store" /\ closing'[i].state = "SynSent"
      /\ closing'[i].fin = NoSegment
      /\ \A j \in Conns \ {i} : closing'[j] = closing[j]
  BY <1>0, <1>1 DEF TypeOK
<1>3. TypeOK'
  <2>1. closing' \in [Conns -> ClosingType]
    <3>1. [at |-> "store", state |-> "SynSent", fin |-> NoSegment] \in ClosingType
      BY DEF ClosingType, States
    <3>2. QED
      BY <1>0, <1>1, <3>1 DEF TypeOK
  <2>2. QED
    BY <1>0, <1>1, <2>1 DEF TypeOK
<1>4. Grows /\ (\A j \in Conns : ConnOK(j)') /\ ClientOK'
      /\ \A j \in Servers : HandsOn(j) => ServerOK(j)'
  <2>1. \A j \in Conns : closing'[j].at = "no" => closing[j].at = "no"
    BY <1>2
  <2>2. closing[0].at # "no" => closing'[0].at # "no"
    BY <1>2, Sizes
  <2>3. QED
    BY <1>0, <1>3, <2>1, <2>2, ConnsKept
<1>5. QueueOK' /\ \A j : HandsOn(j)
  BY <1>0, <1>4, QueueKept
<1>6. \A h \in Hosts : PolledOK(h)'
  BY <1>0, <1>3, <1>4, <1>5, PolledKept
<1>7. \A j \in Conns : ClosingOK(j)'
  <2>1. \A j \in Conns \ {i} : ClosingOK(j)'
    BY <1>0, <1>2, <1>3, <1>4, ClosingKept
  <2>2. ClosingOK(i)'
    <3>1. Opened(i)
      BY <1>0, <1>1, Sizes DEF InUse, IInv, ConnOK, QueueOK, Fresh
    <3>2. Opened(i)'
      BY <1>4, <3>1 DEF Grows
    <3>3. QED
      BY <1>2, <3>2 DEF ClosingOK
  <2>3. QED
    BY <2>1, <2>2
<1>8. (\A m \in net' : SegmentOK(m)') /\ TableOK'
  BY <1>0, <1>3, <1>4, NetKept, TableKept
<1>9. QED
  BY <1>0, <1>3, <1>4, <1>5, <1>6, <1>7, <1>8 DEF IInv

\* send_fin() counts the FIN and keeps its segment back.
LEMMA StartsToFinish ==
  ASSUME IInv, NEW i \in Conns, CloseStart(i), conn[i].state # "SynSent"
  PROVE  IInv'
<1> DEFINE s == Segment(i, {"fin", "ack"}, conn[i].nxt, conn[i].rcv, <<>>)
<1> HIDE DEF s
<1>0. /\ InUse(i) /\ closing[i].at = "no"
      /\ conn' = [conn EXCEPT ![i].nxt = Wrap(@ + 1)]
      /\ closing' = [closing EXCEPT ![i] = [at |-> "fin", state |-> "", fin |-> s]]
      /\ UNCHANGED <<connecting, table, queue, accepted, polled, net, dups>>
  BY DEF CloseStart, s
<1>1. TypeOK /\ ConnOK(i) /\ conn[i] \in ConnType
  BY DEF IInv, TypeOK
<1>2. Opened(i)
  BY <1>0, <1>1, Sizes DEF InUse, IInv, ConnOK, QueueOK, Fresh
<1>3. /\ conn[i].nxt = Wrap(Isn(i) + (1 + conn[i].sent))
      /\ conn[i].sent \in Nat /\ 1 + conn[i].sent \in 0 .. MaxData + MaxReply + 3
      /\ Isn(i) \in Nat
      /\ Wrap(conn[i].nxt + 1) = Wrap(Isn(i) + (1 + conn[i].sent) + 1)
  <2>1. conn[i].sent \in Nat /\ Isn(i) \in Nat
    BY <1>1, IsnType DEF ConnType
  <2>2. Isn(i) + 1 + conn[i].sent + 0 = Isn(i) + (1 + conn[i].sent)
    BY <2>1
  <2>3. conn[i].nxt = Wrap(Isn(i) + (1 + conn[i].sent))
    BY <1>0, <1>2, <2>2 DEF Opened
  <2>4. 1 + conn[i].sent \in 0 .. MaxData + MaxReply + 3
    BY <1>1, <2>1, Sizes DEF Limit, ConnOK
  <2>5. QED
    BY <2>1, <2>3, <2>4, NextNumber
<1>4. /\ conn'[i].nxt = Wrap(conn[i].nxt + 1) /\ conn'[i].sent = conn[i].sent
      /\ conn'[i].state = conn[i].state
      /\ conn'[i].una = conn[i].una /\ conn'[i].rcv = conn[i].rcv /\ conn'[i].got = conn[i].got
      /\ conn'[i].peer = conn[i].peer /\ conn'[i].fin = conn[i].fin
      /\ \A j \in Conns \ {i} : conn'[j] = conn[j]
      /\ conn' \in [Conns -> ConnType]
  <2>1. conn \in [Conns -> ConnType] /\ conn[i].nxt + 1 \in Int
    BY <1>1 DEF TypeOK, ConnType
  <2>2. Wrap(conn[i].nxt + 1) \in Nat
    BY <2>1, WrapType
  <2>3. PICK c \in ConnType, n \in Nat : c = conn[i] /\ n = Wrap(conn[i].nxt + 1)
    BY <1>1, <2>2
  <2>4. conn'[i] = [c EXCEPT !.nxt = n] /\ \A j \in Conns \ {i} : conn'[j] = conn[j]
    BY <1>0, <2>1, <2>3
  <2>5. /\ conn'[i] \in ConnType /\ conn'[i].nxt = n /\ conn'[i].sent = c.sent
        /\ conn'[i].state = c.state /\ conn'[i].una = c.una /\ conn'[i].rcv = c.rcv
        /\ conn'[i].got = c.got /\ conn'[i].peer = c.peer /\ conn'[i].fin = c.fin
    BY <2>4 DEF ConnType
  <2>6. conn' \in [Conns -> ConnType]
    BY <1>0, <2>1, <2>4, <2>5
  <2>7. QED
    BY <2>3, <2>4, <2>5, <2>6
<1>5. PICK m \in SegmentType :
        /\ m.to = Peer(HostOf(i)) /\ m.from = i /\ m.flags = {"fin", "ack"}
        /\ m.ack = conn[i].rcv /\ m.data = <<>>
        /\ m = s
  <2>1. conn[i].nxt \in Nat /\ conn[i].rcv \in Nat /\ <<>> \in Seq(Bytes)
    BY <1>1, EmptySeq DEF ConnType
  <2>2. /\ s \in SegmentType /\ s.to = Peer(HostOf(i)) /\ s.from = i /\ s.flags = {"fin", "ack"}
        /\ s.ack = conn[i].rcv /\ s.data = <<>>
    BY <2>1 DEF s, Segment, SegmentType, Hosts, Peer, HostOf
  <2>3. QED
    BY <2>2
<1>6. /\ closing'[i] = [at |-> "fin", state |-> "", fin |-> m]
      /\ closing'[i].at = "fin" /\ closing'[i].state = "" /\ closing'[i].fin = m
      /\ \A j \in Conns \ {i} : closing'[j] = closing[j]
  BY <1>0, <1>1, <1>5 DEF TypeOK
<1>7. TypeOK'
  <2>1. closing' \in [Conns -> ClosingType]
    <3>1. [at |-> "fin", state |-> "", fin |-> m] \in ClosingType
      BY DEF ClosingType, States
    <3>2. QED
      BY <1>0, <1>1, <1>5, <3>1 DEF TypeOK
  <2>2. QED
    BY <1>0, <1>1, <1>4, <2>1 DEF TypeOK
<1>8. Grows
  <2>1. Opened(i)'
    <3>1. Isn(i) + (1 + conn[i].sent) + 1 = Isn(i) + 1 + conn[i].sent + 1 /\ 1 \in 0 .. 1
      BY <1>3
    <3>2. conn'[i].nxt = Wrap(Isn(i) + 1 + conn'[i].sent + 1)
      BY <1>3, <1>4, <3>1
    <3>3. QED
      BY <1>6, <3>1, <3>2 DEF Opened
  <2>2. \A j \in Conns \ {i} : Opened(j) => Opened(j)'
    BY <1>4, <1>6 DEF Opened
  <2>3. \A j \in Conns : conn[j].sent \in Nat /\ Len(conn[j].got) \in Nat
    BY <1>1, ConnTypes
  <2>4. \A j \in Conns : conn'[j].sent = conn[j].sent /\ conn'[j].got = conn[j].got
    BY <1>4
  <2>5. \A j \in Conns : conn'[j].sent >= conn[j].sent /\ Len(conn'[j].got) >= Len(conn[j].got)
    BY <2>3, <2>4
  <2>6. closing[0].at # "no" => closing'[0].at # "no"
    BY <1>6, Sizes
  <2>7. QED
    BY <2>1, <2>2, <2>5, <2>6 DEF Grows
<1>9. QueueOK' /\ \A j : HandsOn(j)
  BY <1>0, <1>8, QueueKept
<1>10. /\ (\A j \in Conns : ConnOK(j)') /\ ClientOK' /\ (\A j \in Servers : ServerOK(j)')
       /\ \A h \in Hosts : polled'[h] = polled[h] => PolledOK(h)'
  <2>1. conn'[i].sent <= Limit(i)
    BY <1>1, <1>4 DEF ConnOK
  <2>2. i = 0 /\ conn[0].peer = 0 => conn'[0].state \in {"Closed", "SynSent"}
    BY <1>4 DEF IInv, ClientOK
  <2>3. QED
    BY <1>2, <1>4, <1>7, <1>8, <1>9, <2>1, <2>2, StreamKept
<1>11. \A j \in Conns : ClosingOK(j)'
  <2>1. conn'[0].peer = conn[0].peer
    BY <1>4, Sizes
  <2>2. \A j \in Conns \ {i} : ClosingOK(j)'
    BY <1>6, <1>7, <1>8, <2>1, ClosingKept
  <2>3. SegmentOK(m)'
    <3>1. i # 0 /\ closing[0].at = "no" =>
            \E n \in 0 .. MaxData : m.ack = Wrap(Isn(0) + 1 + n) /\ Delivered(n)'
      BY <1>2, <1>5, <1>7, <1>8, AcksDelivered
    <3>2. i = 0 => closing'[0].at # "no"
      BY <1>6
    <3>3. i # 0 => closing'[0] = closing[0]
      BY <1>6, Sizes
    <3>4. QED
      BY <1>5, <3>1, <3>2, <3>3 DEF SegmentOK
  <2>4. ClosingOK(i)'
    BY <1>2, <1>6, <1>8, <2>3 DEF ClosingOK, Grows
  <2>5. QED
    BY <2>2, <2>4
<1>12. (\A n \in net' : SegmentOK(n)') /\ TableOK'
  BY <1>0, <1>7, <1>8, NetKept, TableKept
<1>13. QED
  BY <1>0, <1>7, <1>9, <1>10, <1>11, <1>12 DEF IInv

\* close() loads the state and counts the FIN.
LEMMA StartsToClose ==
  ASSUME IInv, NEW i \in Conns, CloseStart(i)
  PROVE  IInv'
BY StartsToAbort, StartsToFinish

\* close() stores a state: one that has not taken a FIN stays so.
LEMMA StoresClosed ==
  ASSUME IInv, NEW i \in Conns, CloseStore(i)
  PROVE  IInv'
<1>0. /\ closing[i].at = "store"
      /\ conn' = [conn EXCEPT ![i].state = AfterClose(i)]
      /\ net' = net \cup ({closing[i].fin} \ {NoSegment})
      /\ closing' = [closing EXCEPT ![i] = [NotClosing EXCEPT !.at = "done"]]
      /\ UNCHANGED <<connecting, table, queue, accepted, polled, dups>>
  BY DEF CloseStore
<1>1. /\ TypeOK /\ ConnOK(i) /\ ClosingOK(i) /\ Opened(i) /\ conn[i] \in ConnType
      /\ closing[i] \in ClosingType
  BY <1>0 DEF IInv, TypeOK, ClosingOK
<1>2. PICK s \in States : s = AfterClose(i)
  BY <1>1 DEF AfterClose, States, ConnType
<1>3. /\ s = conn[i].state \/ s \in {"Closed", "FinWait1", "LastAck"}
      /\ s \in {"FinWait1", "LastAck"} /\ s # conn[i].state =>
           closing[i].state \in {"Established", "CloseWait"}
  BY <1>2 DEF AfterClose
<1>4. /\ conn'[i].state = s /\ conn'[i].nxt = conn[i].nxt /\ conn'[i].sent = conn[i].sent
      /\ conn'[i].una = conn[i].una /\ conn'[i].rcv = conn[i].rcv /\ conn'[i].got = conn[i].got
      /\ conn'[i].peer = conn[i].peer /\ conn'[i].fin = conn[i].fin
      /\ \A j \in Conns \ {i} : conn'[j] = conn[j]
      /\ conn' \in [Conns -> ConnType]
  <2>1. conn \in [Conns -> ConnType]
    BY <1>1 DEF TypeOK
  <2>2. PICK c \in ConnType : c = conn[i]
    BY <1>1
  <2>3. conn'[i] = [c EXCEPT !.state = s] /\ \A j \in Conns \ {i} : conn'[j] = conn[j]
    BY <1>0, <1>2, <2>1, <2>2
  <2>4. /\ conn'[i] \in ConnType /\ conn'[i].nxt = c.nxt /\ conn'[i].sent = c.sent
        /\ conn'[i].state = s /\ conn'[i].una = c.una /\ conn'[i].rcv = c.rcv
        /\ conn'[i].got = c.got /\ conn'[i].peer = c.peer /\ conn'[i].fin = c.fin
    BY <2>3 DEF ConnType
  <2>5. conn' \in [Conns -> ConnType]
    BY <1>0, <2>1, <2>3, <2>4
  <2>6. QED
    BY <2>2, <2>3, <2>4, <2>5
<1>5. /\ closing'[i].at = "done" /\ closing'[i].state = "" /\ closing'[i].fin = NoSegment
      /\ closing'[i] \in ClosingType
      /\ \A j \in Conns \ {i} : closing'[j] = closing[j]
  BY <1>0, <1>1 DEF TypeOK, NotClosing, ClosingType
<1>6. TypeOK'
  <2>1. closing' \in [Conns -> ClosingType]
    BY <1>0, <1>1, <1>5 DEF TypeOK
  <2>2. net' \in SUBSET SegmentType
    BY <1>0, <1>1 DEF TypeOK, ClosingType
  <2>3. QED
    BY <1>0, <1>1, <1>4, <2>1, <2>2 DEF TypeOK
<1>7. Grows
  <2>1. \A j \in Conns : conn'[j].sent = conn[j].sent /\ conn'[j].got = conn[j].got
                         /\ conn'[j].nxt = conn[j].nxt
    BY <1>4
  <2>2. \A j \in Conns : conn[j].sent \in Nat /\ Len(conn[j].got) \in Nat
    BY <1>1, ConnTypes
  <2>3. /\ \A j \in Conns : closing'[j].at = "no" => closing[j].at = "no"
        /\ closing[0].at # "no" => closing'[0].at # "no"
    BY <1>5, Sizes
  <2>4. \A j \in Conns : Opened(j) => Opened(j)'
    BY <2>1, <2>3 DEF Opened
  <2>5. \A j \in Conns : conn'[j].sent >= conn[j].sent /\ Len(conn'[j].got) >= Len(conn[j].got)
    BY <2>1, <2>2
  <2>6. QED
    BY <2>3, <2>4, <2>5 DEF Grows
<1>8. QueueOK' /\ \A j : HandsOn(j)
  BY <1>0, <1>7, QueueKept
<1>9. /\ (\A j \in Conns : ConnOK(j)') /\ ClientOK' /\ (\A j \in Servers : ServerOK(j)')
      /\ \A h \in Hosts : polled'[h] = polled[h] => PolledOK(h)'
  <2>1. conn'[i].sent <= Limit(i)
    BY <1>1, <1>4 DEF ConnOK
  <2>2. i = 0 /\ conn[0].peer = 0 => conn'[0].state \in {"Closed", "SynSent"}
    BY <1>1, <1>3, <1>4 DEF IInv, ClientOK, ClosingOK
  <2>3. conn'[i].state = conn[i].state \/ conn'[i].state \notin Early
    BY <1>3, <1>4 DEF Early
  <2>4. QED
    BY <1>1, <1>4, <1>6, <1>7, <1>8, <2>1, <2>2, <2>3, StreamKept
<1>10. \A j \in Conns : ClosingOK(j)'
  <2>1. conn'[0].peer = conn[0].peer
    BY <1>4, Sizes
  <2>2. \A j \in Conns \ {i} : ClosingOK(j)'
    BY <1>5, <1>6, <1>7, <2>1, ClosingKept
  <2>3. ClosingOK(i)'
    BY <1>1, <1>5, <1>7 DEF ClosingOK, Grows
  <2>4. QED
    BY <2>2, <2>3
<1>11. \A m \in net' : SegmentOK(m)'
  <2>1. \A m \in net : SegmentOK(m)'
    BY <1>6, <1>7, NetKept
  <2>2. CASE closing[i].fin = NoSegment
    BY <1>0, <2>1, <2>2
  <2>3. CASE closing[i].fin # NoSegment
    <3>1. PICK m \in SegmentType : m = closing[i].fin /\ SegmentOK(m)
      BY <1>1, <2>3 DEF ClosingType, ClosingOK
    <3>2. SegmentOK(m)'
      BY <1>1, <1>6, <1>7, <3>1, SegmentKept
    <3>3. net' = net \cup {m}
      BY <1>0, <2>3, <3>1
    <3>4. QED
      BY <2>1, <3>2, <3>3
  <2>4. QED
    BY <2>2, <2>3
<1>12. TableOK'
  BY <1>0, <1>7, TableKept
<1>13. QED
  BY <1>0, <1>6, <1>8, <1>9, <1>10, <1>11, <1>12 DEF IInv

\* A SYN that finds no connection makes one.
LEMMA OpensPassively ==
  ASSUME IInv, NEW m \in net, handle_syn(m)
  PROVE  IInv'
<1>0. /\ find_connection(m.to) = {} /\ IsForListener(m)
      /\ UNCHANGED <<connecting, queue, accepted, polled, closing>>
  BY DEF handle_syn
<1>1. TypeOK /\ m \in SegmentType /\ SegmentOK(m) /\ TableOK /\ QueueOK /\ dups \in Nat
  BY DEF IInv, TypeOK
<1>2. m.to = "server" /\ m.seq = Isn(0) /\ m.seq \in Nat
  <2>1. "syn" \in m.flags /\ "ack" \notin m.flags /\ m.to = "server"
    BY <1>0 DEF IsForListener
  <2>2. m.from = 0
    BY <1>1, <2>1 DEF SegmentOK
  <2>3. QED
    BY <1>1, <2>1, <2>2 DEF SegmentOK, SegmentType
<1>3. PICK i \in Servers :
        /\ Fresh(i)
        /\ conn' = [conn EXCEPT ![i].state = "SynReceived", ![i].nxt = Wrap(Isn(i) + 1),
                               ![i].rcv = Wrap(m.seq + 1)]
        /\ table' = table \cup {i}
        /\ Take(m, {Segment(i, {"syn", "ack"}, Isn(i), Wrap(m.seq + 1), <<>>)})
  BY DEF handle_syn, Fresh
<1>4. i \in Conns /\ i # 0 /\ Isn(i) \in Nat
  BY IsnType, Sizes
<1>5. PICK nxt \in Nat, rcv \in Nat :
        nxt = Wrap(Isn(i) + 1) /\ rcv = Wrap(m.seq + 1) /\ rcv = Wrap(Isn(0) + 1)
  <2>1. Wrap(Isn(i) + 1) \in Nat /\ Wrap(m.seq + 1) \in Nat
    BY <1>2, <1>4, WrapType
  <2>2. QED
    BY <1>2, <2>1
<1>6. /\ conn[i].una = Isn(i) /\ conn[i].sent = 0 /\ conn[i].got = <<>> /\ conn[i].peer = 0
      /\ conn[i].fin = FALSE
  BY <1>3 DEF NewConn, Fresh
<1>7. /\ conn'[i].state = "SynReceived" /\ conn'[i].nxt = nxt /\ conn'[i].rcv = rcv
      /\ conn'[i].una = Isn(i) /\ conn'[i].sent = 0 /\ conn'[i].got = <<>>
      /\ conn'[i].peer = 0 /\ conn'[i].fin = FALSE
      /\ \A j \in Conns \ {i} : conn'[j] = conn[j]
      /\ conn' \in [Conns -> ConnType]
  <2>1. conn \in [Conns -> ConnType]
    BY <1>1 DEF TypeOK
  <2>2. PICK c \in ConnType : c = conn[i]
    BY <1>4, <2>1
  <2>3. /\ conn'[i] = [c EXCEPT !.state = "SynReceived", !.nxt = nxt, !.rcv = rcv]
        /\ \A j \in Conns \ {i} : conn'[j] = conn[j]
    BY <1>3, <1>4, <1>5, <2>1, <2>2
  <2>4. /\ conn'[i] \in ConnType /\ conn'[i].state = "SynReceived" /\ conn'[i].nxt = nxt
        /\ conn'[i].rcv = rcv /\ conn'[i].una = c.una /\ conn'[i].sent = c.sent
        /\ conn'[i].got = c.got /\ conn'[i].peer = c.peer /\ conn'[i].fin = c.fin
    BY <2>3 DEF ConnType, States
  <2>5. conn' \in [Conns -> ConnType]
    BY <1>3, <2>1, <2>3, <2>4
  <2>6. QED
    BY <1>6, <2>2, <2>3, <2>4, <2>5
<1>8. PICK s \in SegmentType :
        /\ net' \subseteq net \cup {s} /\ dups' \in Nat
        /\ s.to = "client" /\ s.from = i /\ s.flags = {"syn", "ack"}
        /\ s.seq = Isn(i) /\ s.ack = rcv /\ s.data = <<>>
  <2> DEFINE s == Segment(i, {"syn", "ack"}, Isn(i), rcv, <<>>)
  <2>1. <<>> \in Seq(Bytes) /\ {"syn", "ack"} \in SUBSET {"syn", "ack", "fin", "rst"}
    BY EmptySeq
  <2>2. /\ s \in SegmentType /\ s.to = "client" /\ s.from = i /\ s.flags = {"syn", "ack"}
        /\ s.seq = Isn(i) /\ s.ack = rcv /\ s.data = <<>>
    BY <1>4, <2>1 DEF Segment, SegmentType, Hosts, Peer, HostOf
  <2>3. Take(m, {s})
    BY <1>3, <1>5
  <2> HIDE DEF s
  <2>4. net' \subseteq net \cup {s} /\ dups' \in Nat
    BY <1>1, <2>3 DEF Take
  <2>5. QED
    BY <2>2, <2>4
<1>9. TypeOK'
  BY <1>0, <1>1, <1>3, <1>4, <1>7, <1>8 DEF TypeOK
<1>10. Opened(i)'
  <2>1. Isn(i) + 1 + 0 + 0 = Isn(i) + 1 /\ 0 \in 0 .. 1
    BY <1>4
  <2>2. conn'[i].nxt = Wrap(Isn(i) + 1 + conn'[i].sent + 0)
    BY <1>5, <1>7, <2>1
  <2>3. QED
    BY <2>1, <2>2 DEF Opened
<1>11. Grows
  <2>1. \A j \in Conns \ {i} : Opened(j) => Opened(j)'
    BY <1>0, <1>7 DEF Opened
  <2>2. \A j \in Conns : conn'[j].sent = conn[j].sent /\ conn'[j].got = conn[j].got
    BY <1>6, <1>7
  <2>3. \A j \in Conns : conn[j].sent \in Nat /\ Len(conn[j].got) \in Nat
    BY <1>1, ConnTypes
  <2>4. \A j \in Conns : conn'[j].sent >= conn[j].sent /\ Len(conn'[j].got) >= Len(conn[j].got)
    BY <2>2, <2>3
  <2>5. QED
    BY <1>0, <1>10, <2>1, <2>4 DEF Grows
<1>12. QueueOK' /\ \A j : HandsOn(j)
  BY <1>0, <1>11, QueueKept
<1>13. Len(<<>>) = 0
  OBVIOUS
<1>14. ConnOK(i)'
  <2>1. conn'[0].sent \in Nat
    BY <1>7, Sizes DEF ConnType
  <2>2. QED
    BY <1>4, <1>7, <1>10, <1>13, <2>1, Sizes DEF ConnOK, Limit
<1>15. ServerOK(i)'
  <2>1. i \notin accepted /\ ~Queued(i)
    <3>1. ~Opened(i)
      BY <1>3, <1>4, OpenedIsNotFresh
    <3>2. QED
      BY <1>1, <3>1 DEF QueueOK, Queued
  <2>2. i \notin accepted' /\ ~Queued(i)'
    BY <1>0, <2>1 DEF Queued
  <2>3. conn'[i].rcv = Wrap(Isn(0) + 1 + Len(conn'[i].got))
    <3>1. Isn(0) + 1 + 0 = Isn(0) + 1
      BY <1>2
    <3>2. QED
      BY <1>5, <1>7, <1>13, <3>1
  <2>4. QED
    BY <1>7, <2>2, <2>3 DEF ServerOK
<1>16. (\A j \in Conns : ConnOK(j)') /\ ClientOK' /\ (\A j \in Servers : ServerOK(j)')
  BY <1>4, <1>7, <1>9, <1>11, <1>12, <1>14, <1>15, ConnChanged
<1>17. \A h \in Hosts : PolledOK(h)'
  <2>1. \A j \in Conns : conn'[j].fin = conn[j].fin /\ conn'[j].peer = conn[j].peer
    BY <1>6, <1>7
  <2>2. QED
    BY <1>0, <1>9, <1>11, <1>12, <2>1, PolledKept
<1>18. \A j \in Conns : ClosingOK(j)'
  <2>1. conn'[0].peer = conn[0].peer
    BY <1>4, <1>7, Sizes
  <2>2. QED
    BY <1>0, <1>9, <1>11, <2>1, ClosingKept
<1>19. \A n \in net' : SegmentOK(n)'
  <2>1. \E n \in 0 .. MaxData : s.ack = Wrap(Isn(0) + 1 + n) /\ Delivered(n)'
    <3>1. Isn(0) + 1 + 0 = Isn(0) + 1 /\ 0 \in 0 .. MaxData
      BY <1>2, Sizes
    <3>2. QED
      BY <1>5, <1>8, <3>1 DEF Delivered
  <2>2. SegmentOK(s)'
    BY <1>4, <1>8, <2>1 DEF SegmentOK, HostOf, Peer
  <2>3. QED
    BY <1>8, <1>9, <1>11, <2>2, NetKept
<1>20. TableOK'
  <2>1. \A j \in table : j \in Conns /\ (Opened(j) \/ (j = 0 /\ connecting # "sent"))
    BY <1>1 DEF TableOK, TypeOK
  <2>2. QED
    BY <1>0, <1>3, <1>10, <1>11, <2>1 DEF TableOK, Grows
<1>21. QED
  BY <1>9, <1>12, <1>16, <1>17, <1>18, <1>19, <1>20 DEF IInv

-----------------------------------------------------------------------------
\* What a segment m, with s the state that was loaded, makes of a connection.
Keeps(c, r, m) ==
  /\ r.nxt = c.nxt /\ r.sent = c.sent
  /\ r.una = c.una \/ ("ack" \in m.flags /\ "rst" \notin m.flags /\ r.una = m.ack)

OnlyAcked(c, r, s, m) ==
  /\ Keeps(c, r, m)
  /\ r.rcv = c.rcv /\ r.got = c.got /\ r.peer = c.peer /\ r.fin = c.fin
  /\ \/ r.state = c.state \/ r.state \notin Early
     \/ r.state = "Established" /\ s = "SynReceived"
  /\ s \in {"SynSent", "Closed"} => r.una = c.una /\ r.state \in {c.state, "Closed"}

Connected(c, r, s, m) ==
  /\ s = "SynSent" /\ "rst" \notin m.flags /\ {"syn", "ack"} \subseteq m.flags
  /\ r.nxt = c.nxt /\ r.sent = c.sent
  /\ r.una = IF seq_gte(m.ack, c.una) THEN m.ack ELSE c.una
  /\ r.rcv = Wrap(m.seq + 1) /\ r.got = c.got /\ r.peer = m.from /\ r.fin = c.fin
  /\ r.state = "Established"

TookData(c, r, s, m) ==
  /\ s = "Established" /\ "rst" \notin m.flags /\ InOrder(c, m)
  /\ Keeps(c, r, m)
  /\ r.rcv = Wrap(c.rcv + Len(m.data)) /\ r.got = c.got \o m.data
  /\ r.peer = c.peer /\ r.fin = c.fin /\ r.state = c.state

TookFin(c, r, s, m) ==
  /\ s \in {"Established", "FinWait1", "FinWait2"}
  /\ "rst" \notin m.flags /\ "fin" \in m.flags
  /\ Keeps(c, r, m)
  /\ r.got = c.got /\ r.peer = c.peer /\ r.fin = TRUE
  /\ r.state \in {"CloseWait", "TimeWait", "Closing"}

Outcome(c, r, s, m) ==
  OnlyAcked(c, r, s, m) \/ Connected(c, r, s, m) \/ TookData(c, r, s, m) \/ TookFin(c, r, s, m)

\* An acknowledgement changes una alone.
LEMMA AckedFields ==
  ASSUME NEW c \in ConnType, NEW m \in SegmentType
  PROVE  \E u \in Nat :
           /\ Acked(c, m) = [c EXCEPT !.una = u]
           /\ u = c.una \/ ("ack" \in m.flags /\ u = m.ack)
           /\ "ack" \in m.flags => u = IF seq_gte(m.ack, c.una) THEN m.ack ELSE c.una
<1>1. m.ack \in Nat /\ c.una \in Nat /\ [c EXCEPT !.una = c.una] = c
  BY DEF SegmentType, ConnType
<1>2. CASE "ack" \in m.flags /\ seq_gte(m.ack, c.una)
  BY <1>1, <1>2 DEF Acked
<1>3. CASE ~("ack" \in m.flags /\ seq_gte(m.ack, c.una))
  BY <1>1, <1>3 DEF Acked
<1>4. QED
  BY <1>2, <1>3

\* Data in order is appended and moves rcv on; other data is dropped.
LEMMA DataFields ==
  ASSUME NEW c \in ConnType, NEW m \in SegmentType
  PROVE  /\ WithData(c, m) \in ConnType
         /\ ~InOrder(c, m) => WithData(c, m) = c
         /\ InOrder(c, m) =>
              WithData(c, m) = [c EXCEPT !.got = c.got \o m.data, !.rcv = Wrap(c.rcv + Len(m.data))]
<1>1. c.got \o m.data \in Seq(Bytes)
  <2>1. c.got \in Seq(Bytes) /\ m.data \in Seq(Bytes)
    BY DEF ConnType, SegmentType
  <2>2. QED
    BY <2>1, ConcatProperties
<1>2. Wrap(c.rcv + Len(m.data)) \in Nat
  <2>1. c.rcv \in Nat /\ Len(m.data) \in Nat
    BY LenProperties DEF ConnType, SegmentType
  <2>2. c.rcv + Len(m.data) \in Int
    BY <2>1
  <2>3. QED
    BY <2>2, WrapType
<1>3. PICK g \in Seq(Bytes), v \in Nat : g = c.got \o m.data /\ v = Wrap(c.rcv + Len(m.data))
  BY <1>1, <1>2
<1>4. WithData(c, m) = IF InOrder(c, m) THEN [c EXCEPT !.got = g, !.rcv = v] ELSE c
  BY <1>3 DEF WithData
<1>5. [c EXCEPT !.got = g, !.rcv = v] \in ConnType
  BY DEF ConnType
<1>6. QED
  BY <1>3, <1>4, <1>5

\* A FIN changes the state, rcv and the mark.
LEMMA FinFields ==
  ASSUME NEW c \in ConnType, NEW st \in States
  PROVE  \E r \in ConnType :
           /\ r = WithFin(c, st)
           /\ r.nxt = c.nxt /\ r.sent = c.sent /\ r.una = c.una /\ r.got = c.got
           /\ r.peer = c.peer /\ r.fin = TRUE /\ r.state = st
<1>1. c.rcv + 1 \in Int
  BY DEF ConnType
<1>2. PICK v \in Nat : v = Wrap(c.rcv + 1)
  BY <1>1, WrapType
<1>3. WithFin(c, st) = [c EXCEPT !.rcv = v, !.state = st, !.fin = TRUE]
  BY <1>2 DEF WithFin
<1>4. PICK r : r = WithFin(c, st)
  OBVIOUS
<1>5. /\ r \in ConnType
      /\ r.nxt = c.nxt /\ r.sent = c.sent /\ r.una = c.una /\ r.got = c.got
      /\ r.peer = c.peer /\ r.fin = TRUE /\ r.state = st
  BY <1>3, <1>4 DEF ConnType
<1>6. QED
  BY <1>4, <1>5

\* What handle_segment makes of a connection, in every state.
LEMMA Outcomes ==
  ASSUME NEW c \in ConnType, NEW s \in States, NEW m \in SegmentType,
         m.data # <<>> => m.flags = {"ack"}
  PROVE  Handled(c, s, m) \in ConnType /\ Outcome(c, Handled(c, s, m), s, m)
<1>0. PICK r : r = Handled(c, s, m)
  OBVIOUS
<1> SUFFICES r \in ConnType /\ Outcome(c, r, s, m)
  BY <1>0
<1>1. CASE "rst" \in m.flags
  <2>1. r = [c EXCEPT !.state = "Closed"]
    BY <1>0, <1>1 DEF Handled, HasFlags
  <2>2. r \in ConnType /\ OnlyAcked(c, r, s, m)
    BY <2>1 DEF ConnType, States, OnlyAcked, Keeps, Early
  <2>3. QED
    BY <2>2 DEF Outcome
<1>2. CASE "rst" \notin m.flags
  <2>1. PICK u \in Nat :
          /\ Acked(c, m) = [c EXCEPT !.una = u]
          /\ u = c.una \/ ("ack" \in m.flags /\ u = m.ack)
          /\ "ack" \in m.flags => u = IF seq_gte(m.ack, c.una) THEN m.ack ELSE c.una
    BY AckedFields
  <2>2. PICK a \in ConnType :
          /\ a = Acked(c, m)
          /\ a.nxt = c.nxt /\ a.sent = c.sent /\ a.una = u /\ a.rcv = c.rcv /\ a.got = c.got
          /\ a.peer = c.peer /\ a.fin = c.fin /\ a.state = c.state
    BY <2>1 DEF ConnType
  <2>3. ASSUME r = c \/ (r = a /\ s \notin {"SynSent", "Closed"})
        PROVE  r \in ConnType /\ OnlyAcked(c, r, s, m)
    BY <1>2, <2>1, <2>2, <2>3 DEF OnlyAcked, Keeps
  <2>4. CASE s = "SynSent" /\ {"syn", "ack"} \subseteq m.flags
    <3>1. m.seq + 1 \in Int /\ m.from \in Conns
      BY DEF SegmentType
    <3>2. PICK v \in Nat, f \in Conns : v = Wrap(m.seq + 1) /\ f = m.from
      BY <3>1, WrapType
    <3>3. r = [a EXCEPT !.rcv = v, !.state = "Established", !.peer = f]
      BY <1>0, <1>2, <2>2, <2>4, <3>2 DEF Handled, HasFlags
    <3>4. /\ r \in ConnType
          /\ r.nxt = a.nxt /\ r.sent = a.sent /\ r.una = a.una /\ r.rcv = v /\ r.got = a.got
          /\ r.peer = f /\ r.fin = a.fin /\ r.state = "Established"
      BY <3>3 DEF ConnType, States
    <3>5. Connected(c, r, s, m)
      BY <1>2, <2>1, <2>2, <2>4, <3>2, <3>4 DEF Connected
    <3>6. QED
      BY <3>4, <3>5 DEF Outcome
  <2>5. CASE s = "SynReceived" /\ "ack" \in m.flags
    <3>1. r = [a EXCEPT !.state = "Established"]
      BY <1>0, <1>2, <2>2, <2>5 DEF Handled, HasFlags
    <3>2. r \in ConnType /\ OnlyAcked(c, r, s, m)
      BY <1>2, <2>1, <2>2, <2>5, <3>1 DEF ConnType, States, OnlyAcked, Keeps
    <3>3. QED
      BY <3>2 DEF Outcome
  <2>6. CASE s = "Established" /\ "fin" \notin m.flags
    <3>1. r = Acked(WithData(c, m), m)
      BY <1>0, <1>2, <2>6 DEF Handled, HasFlags
    <3>2. CASE ~InOrder(c, m)
      <4>1. r = a
        BY <2>2, <3>1, <3>2, DataFields
      <4>2. QED
        BY <2>3, <2>6, <4>1 DEF Outcome
    <3>3. CASE InOrder(c, m)
      <4>1. PICK b \in ConnType :
              b = WithData(c, m)
              /\ b = [c EXCEPT !.got = c.got \o m.data, !.rcv = Wrap(c.rcv + Len(m.data))]
        BY <3>3, DataFields
      <4>2. /\ b.nxt = c.nxt /\ b.sent = c.sent /\ b.una = c.una /\ b.got = c.got \o m.data
            /\ b.rcv = Wrap(c.rcv + Len(m.data)) /\ b.peer = c.peer /\ b.fin = c.fin
            /\ b.state = c.state
        BY <4>1 DEF ConnType
      <4>3. PICK w \in Nat :
              /\ Acked(b, m) = [b EXCEPT !.una = w]
              /\ w = b.una \/ ("ack" \in m.flags /\ w = m.ack)
        BY AckedFields
      <4>4. /\ r \in ConnType /\ r.nxt = b.nxt /\ r.sent = b.sent /\ r.una = w
            /\ r.got = b.got /\ r.rcv = b.rcv /\ r.peer = b.peer /\ r.fin = b.fin
            /\ r.state = b.state
        <5>1. r = [b EXCEPT !.una = w]
          BY <3>1, <4>1, <4>3
        <5>2. QED
          BY <5>1 DEF ConnType
      <4>5. TookData(c, r, s, m)
        BY <1>2, <2>6, <3>3, <4>2, <4>3, <4>4 DEF TookData, Keeps
      <4>6. QED
        BY <4>4, <4>5 DEF Outcome
    <3>4. QED
      BY <3>2, <3>3
  <2>7. CASE s \in {"Established", "FinWait1", "FinWait2"} /\ "fin" \in m.flags
    <3>1. PICK b \in ConnType, st \in {"CloseWait", "TimeWait", "Closing"} :
            r = WithFin(b, st) /\ (b = a \/ b = c)
      <4>1. CASE s = "Established"
        <5>1. m.flags # {"ack"}
          BY <2>7
        <5>2. ~InOrder(c, m)
          BY <5>1 DEF InOrder
        <5>3. WithData(c, m) = c
          BY <5>2, DataFields
        <5>4. r = WithFin(a, "CloseWait")
          BY <1>0, <1>2, <2>2, <2>7, <4>1, <5>3 DEF Handled, HasFlags
        <5>5. QED
          BY <5>4
      <4>2. CASE s = "FinWait1" /\ "ack" \in m.flags
        BY <1>0, <1>2, <2>2, <2>7, <4>2 DEF Handled, HasFlags
      <4>3. CASE s = "FinWait1" /\ "ack" \notin m.flags
        <5>1. m.flags \cap {"fin", "ack"} = {"fin"}
          BY <2>7, <4>3
        <5>2. r = WithFin(c, "Closing")
          BY <1>0, <1>2, <2>7, <4>3, <5>1 DEF Handled, HasFlags
        <5>3. QED
          BY <5>2
      <4>4. CASE s = "FinWait2"
        <5>1. r = WithFin(c, "TimeWait")
          BY <1>0, <1>2, <2>7, <4>4 DEF Handled, HasFlags
        <5>2. QED
          BY <5>1
      <4>5. QED
        BY <2>7, <4>1, <4>2, <4>3, <4>4
    <3>2. /\ r \in ConnType /\ r.nxt = b.nxt /\ r.sent = b.sent /\ r.una = b.una
          /\ r.got = b.got /\ r.peer = b.peer /\ r.fin = TRUE /\ r.state = st
      <4>1. st \in States
        BY DEF States
      <4>2. PICK p \in ConnType :
              /\ p = WithFin(b, st)
              /\ p.nxt = b.nxt /\ p.sent = b.sent /\ p.una = b.una /\ p.got = b.got
              /\ p.peer = b.peer /\ p.fin = TRUE /\ p.state = st
        BY <4>1, FinFields
      <4>3. r = p
        BY <3>1, <4>2
      <4>4. QED
        BY <4>2, <4>3
    <3>3. TookFin(c, r, s, m)
      <4>1. /\ b.nxt = c.nxt /\ b.sent = c.sent /\ b.got = c.got /\ b.peer = c.peer
            /\ b.una = c.una \/ b.una = u
        BY <2>2, <3>1
      <4>2. Keeps(c, r, m) /\ r.got = c.got /\ r.peer = c.peer
        BY <1>2, <2>1, <3>2, <4>1 DEF Keeps
      <4>3. QED
        BY <1>2, <2>7, <3>2, <4>2 DEF TookFin
    <3>4. QED
      BY <3>2, <3>3 DEF Outcome
  <2>8. CASE s = "FinWait1" /\ "fin" \notin m.flags
    <3>1. r = c \/ r = [a EXCEPT !.state = "FinWait2"]
      <4>1. m.flags \cap {"fin", "ack"} # {"fin"}
        BY <2>8
      <4>2. QED
        BY <1>0, <1>2, <2>2, <2>8, <4>1 DEF Handled, HasFlags
    <3>2. CASE r = c
      BY <2>3, <3>2 DEF Outcome
    <3>3. CASE r = [a EXCEPT !.state = "FinWait2"]
      <4>1. r \in ConnType /\ OnlyAcked(c, r, s, m)
        BY <1>2, <2>1, <2>2, <2>8, <3>3 DEF ConnType, States, OnlyAcked, Keeps, Early
      <4>2. QED
        BY <4>1 DEF Outcome
    <3>4. QED
      BY <3>1, <3>2, <3>3
  <2>9. CASE s \in {"Closing", "LastAck"}
    <3>1. r = c \/ r = [c EXCEPT !.state = "TimeWait"] \/ r = [c EXCEPT !.state = "Closed"]
      BY <1>0, <1>2, <2>9 DEF Handled, HasFlags
    <3>2. CASE r = c
      BY <2>3, <3>2 DEF Outcome
    <3>3. CASE r # c
      <4>1. PICK st \in {"TimeWait", "Closed"} : r = [c EXCEPT !.state = st]
        BY <3>1, <3>3
      <4>2. r \in ConnType /\ OnlyAcked(c, r, s, m)
        BY <2>9, <4>1 DEF ConnType, States, OnlyAcked, Keeps, Early
      <4>3. QED
        BY <4>2 DEF Outcome
    <3>4. QED
      BY <3>2, <3>3
  <2>10. CASE s = "CloseWait"
    <3>1. r = a
      BY <1>0, <1>2, <2>2, <2>10 DEF Handled, HasFlags
    <3>2. QED
      BY <2>3, <2>10, <3>1 DEF Outcome
  <2>11. CASE \/ s = "SynSent" /\ ~({"syn", "ack"} \subseteq m.flags)
              \/ s = "SynReceived" /\ "ack" \notin m.flags
              \/ s = "FinWait2" /\ "fin" \notin m.flags
              \/ s \in {"TimeWait", "Closed"}
    <3>1. r = c
      BY <1>0, <1>2, <2>11 DEF Handled, HasFlags
    <3>2. QED
      BY <2>3, <3>1 DEF Outcome
  <2>12. QED
    BY <2>4, <2>5, <2>6, <2>7, <2>8, <2>9, <2>10, <2>11 DEF States
<1>3. QED
  BY <1>0, <1>1, <1>2

\* A connection that is queued is established.
LEMMA QueuedState ==
  ASSUME NEW c \in ConnType, NEW i \in Conns, NEW s \in States, NEW m \in SegmentType,
         Queues(i, s, m)
  PROVE  Handled(c, s, m).state = "Established"
<1>1. PICK a : a = Acked(c, m)
  OBVIOUS
<1>2. a \in ConnType
  <2>1. PICK u \in Nat : Acked(c, m) = [c EXCEPT !.una = u]
    BY AckedFields
  <2>2. QED
    BY <1>1, <2>1 DEF ConnType
<1>3. Handled(c, s, m) = [a EXCEPT !.state = "Established"]
  BY <1>1 DEF Handled, HasFlags, Queues
<1>4. PICK r : r = Handled(c, s, m)
  OBVIOUS
<1>5. r.state = "Established"
  BY <1>2, <1>3, <1>4 DEF ConnType
<1>6. QED
  BY <1>4, <1>5

\* The poll of host h takes segment m for connection i, whose state s it had loaded.
Took(h, i, s, m, r) ==
  /\ HostOf(i) = h /\ Opened(i) /\ m.to = h /\ SegmentOK(m)
  /\ s \in Early => ~conn[i].fin
  /\ i = 0 => /\ s # "SynReceived"
              /\ s = "SynSent" => conn[0].peer = 0
              /\ conn[0].peer = 0 => s \in {"Closed", "SynSent"}
  /\ i # 0 => /\ s # "SynSent"
              /\ s = "SynReceived" => i \notin accepted /\ ~Queued(i)
  /\ conn'[i] = r /\ Outcome(conn[i], r, s, m)
  /\ \A j \in Conns \ {i} : conn'[j] = conn[j]
  /\ \/ queue' = queue
     \/ /\ queue' = Append(queue, i)
        /\ i # 0 /\ s = "SynReceived" /\ r.state = "Established"
  /\ polled'[h] = NoSegment /\ \A g \in Hosts \ {h} : polled'[g] = polled[g]
  /\ net' \subseteq net \cup {AckOf(i, r)}
  /\ UNCHANGED <<connecting, table, accepted, closing, dups>>

\* The acknowledgement that is sent back.
LEMMA AckType ==
  ASSUME NEW i \in Conns, NEW r \in ConnType
  PROVE  \E a \in SegmentType :
           /\ a = AckOf(i, r)
           /\ a.to = Peer(HostOf(i)) /\ a.from = i /\ a.flags = {"ack"}
           /\ a.ack = r.rcv /\ a.data = <<>>
<1> DEFINE s == Segment(i, {"ack"}, r.nxt, r.rcv, <<>>)
<1>1. r.nxt \in Nat /\ r.rcv \in Nat /\ <<>> \in Seq(Bytes)
  BY EmptySeq DEF ConnType
<1>2. /\ s \in SegmentType /\ s.to = Peer(HostOf(i)) /\ s.from = i /\ s.flags = {"ack"}
      /\ s.ack = r.rcv /\ s.data = <<>>
  BY <1>1 DEF Segment, SegmentType, Hosts, Peer, HostOf
<1>3. s = AckOf(i, r)
  BY DEF AckOf
<1> HIDE DEF s
<1>4. QED
  BY <1>2, <1>3

\* handle_segment as one change of a connection and what it sends.
LEMMA Taking ==
  ASSUME IInv, NEW h \in Hosts, Handle(h)
  PROVE  /\ TypeOK'
         /\ \E i \in Conns, s \in States, m \in SegmentType, r \in ConnType :
              Took(h, i, s, m, r)
<1>1. TypeOK /\ PolledOK(h) /\ polled[h] # NoSegment
  BY DEF IInv, Handle
<1>2. polled[h] \in PolledType
  BY <1>1 DEF TypeOK
<1>3. PICK i \in Conns, s \in States, m \in SegmentType :
        i = polled[h].conn /\ s = polled[h].state /\ m = polled[h].seg
  BY <1>2 DEF PolledType
<1>4. PICK c \in ConnType : c = conn[i]
  BY <1>1 DEF TypeOK
<1>5. PICK r : r = Handled(c, s, m)
  OBVIOUS
<1>6. /\ conn' = [conn EXCEPT ![i] = r]
      /\ net' = IF Answers(s, m) THEN net \cup {AckOf(i, r)} ELSE net
      /\ queue' = IF Queues(i, s, m) THEN Append(queue, i) ELSE queue
      /\ polled' = [polled EXCEPT ![h] = NoSegment]
      /\ UNCHANGED <<connecting, table, accepted, closing, dups>>
  BY <1>3, <1>4, <1>5 DEF Handle
<1>7. /\ HostOf(i) = h /\ Opened(i) /\ m.to = h /\ SegmentOK(m)
      /\ s \in Early => ~conn[i].fin
      /\ i = 0 => /\ s # "SynReceived"
                  /\ s = "SynSent" => conn[0].peer = 0
                  /\ conn[0].peer = 0 => s \in {"Closed", "SynSent"}
      /\ i # 0 => /\ s # "SynSent"
                  /\ s = "SynReceived" => i \notin accepted /\ ~Queued(i)
  BY <1>1, <1>3 DEF PolledOK
<1>8. r \in ConnType /\ Outcome(c, r, s, m)
  <2>1. m.data # <<>> => m.flags = {"ack"}
    BY <1>7 DEF SegmentOK
  <2>2. QED
    BY <1>5, <2>1, Outcomes
<1>9. /\ conn'[i] = r /\ (\A j \in Conns \ {i} : conn'[j] = conn[j])
      /\ conn' \in [Conns -> ConnType]
  BY <1>1, <1>6, <1>8 DEF TypeOK
<1>10. /\ polled'[h] = NoSegment /\ (\A g \in Hosts \ {h} : polled'[g] = polled[g])
       /\ polled' \in [Hosts -> PolledType \cup {NoSegment}]
  BY <1>1, <1>6 DEF TypeOK
<1>11. \/ queue' = queue
       \/ /\ queue' = Append(queue, i)
          /\ i # 0 /\ s = "SynReceived" /\ r.state = "Established"
  <2>1. CASE ~Queues(i, s, m)
    BY <1>6, <2>1
  <2>2. CASE Queues(i, s, m)
    <3>1. r.state = "Established"
      BY <1>5, <2>2, QueuedState
    <3>2. i # 0 /\ s = "SynReceived"
      BY <2>2 DEF Queues
    <3>3. QED
      BY <1>6, <2>2, <3>1, <3>2
  <2>3. QED
    BY <2>1, <2>2
<1>12. net' \subseteq net \cup {AckOf(i, r)}
  BY <1>6
<1>13. TypeOK'
  <2>1. queue' \in Seq(Servers)
    <3>1. queue \in Seq(Servers) /\ (i # 0 => i \in Servers)
      BY <1>1, Sizes DEF TypeOK
    <3>2. i # 0 => Append(queue, i) \in Seq(Servers)
      BY <3>1, AppendProperties
    <3>3. QED
      BY <1>11, <3>1, <3>2
  <2>2. net' \in SUBSET SegmentType
    <3>1. AckOf(i, r) \in SegmentType
      BY <1>8, AckType
    <3>2. QED
      BY <1>1, <1>12, <3>1 DEF TypeOK
  <2>3. QED
    BY <1>1, <1>6, <1>9, <1>10, <2>1, <2>2 DEF TypeOK
<1>14. Took(h, i, s, m, r)
  BY <1>4, <1>6, <1>7, <1>8, <1>9, <1>10, <1>11, <1>12 DEF Took
<1>15. QED
  BY <1>8, <1>13, <1>14

\* It forgets nothing of what was got, and hands on no connection but its own.
LEMMA TookGrows ==
  ASSUME IInv, TypeOK', NEW h \in Hosts, NEW i \in Conns, NEW s \in States,
         NEW m \in SegmentType, NEW r \in ConnType, Took(h, i, s, m, r)
  PROVE  /\ Grows
         /\ r.nxt = conn[i].nxt /\ r.sent = conn[i].sent
         /\ ~Fresh(i) /\ ~Fresh(i)'
         /\ \A j \in Conns \ {i} : HandsOn(j)
<1>1. TypeOK
  BY DEF IInv
<1>2. r.nxt = conn[i].nxt /\ r.sent = conn[i].sent /\ conn'[i] = r
  BY DEF Took, Outcome, OnlyAcked, Connected, TookData, TookFin, Keeps
<1>3. ~Fresh(i) /\ conn[i].nxt # Isn(i)
  BY OpenedIsNotFresh DEF Took
<1>4. ~Fresh(i)'
  BY <1>2, <1>3 DEF Fresh, NewConn
<1>5. Len(r.got) >= Len(conn[i].got)
  <2>1. PICK g \in Seq(Bytes), e \in Seq(Bytes) : g = conn[i].got /\ e = m.data
    BY <1>1, ConnTypes DEF SegmentType
  <2>2. Len(g) \in Nat /\ Len(e) \in Nat
    BY LenProperties
  <2>3. Len(g \o e) = Len(g) + Len(e)
    BY ConcatProperties
  <2>4. Len(g \o e) >= Len(g)
    BY <2>2, <2>3
  <2>5. r.got = g \/ r.got = g \o e
    BY <2>1 DEF Took, Outcome, OnlyAcked, Connected, TookData, TookFin
  <2>6. CASE r.got = g
    BY <2>1, <2>2, <2>6
  <2>7. CASE r.got = g \o e
    BY <2>1, <2>4, <2>7
  <2>8. QED
    BY <2>5, <2>6, <2>7
<1>6. Grows
  <2>1. \A j \in Conns : conn[j].sent \in Nat /\ Len(conn[j].got) \in Nat
    BY <1>1, ConnTypes
  <2>2. \A j \in Conns : conn'[j].sent >= conn[j].sent /\ Len(conn'[j].got) >= Len(conn[j].got)
    BY <1>2, <1>5, <2>1 DEF Took
  <2>3. \A j \in Conns : conn'[j].nxt = conn[j].nxt /\ conn'[j].sent = conn[j].sent
    BY <1>2 DEF Took
  <2>4. closing' = closing
    BY DEF Took
  <2>5. \A j \in Conns : Opened(j) => Opened(j)'
    BY <2>3, <2>4 DEF Opened
  <2>6. QED
    BY <2>2, <2>4, <2>5 DEF Grows
<1>7. \A j \in Conns \ {i} : HandsOn(j)
  <2>1. CASE queue' = queue
    BY <2>1 DEF Took, HandsOn, Queued
  <2>2. CASE queue' # queue
    <3>1. queue' = Append(queue, i) /\ accepted' = accepted
      BY <2>2 DEF Took
    <3>2. queue \in Seq(Servers) /\ i \in Servers
      BY <1>1, <2>2, Sizes DEF TypeOK, Took
    <3>3. /\ Len(queue) \in Nat /\ Len(queue') = Len(queue) + 1
          /\ queue'[Len(queue) + 1] = i
          /\ \A k \in 1 .. Len(queue) : queue'[k] = queue[k]
      BY <3>1, <3>2, AppendProperties, LenProperties
    <3>4. QED
      BY <3>1, <3>3 DEF HandsOn, Queued
  <2>3. QED
    BY <2>1, <2>2
<1>8. QED
  BY <1>2, <1>3, <1>4, <1>6, <1>7

\* An acknowledgement of the client's SYN and bytes is not older than none.
LEMMA AckIsNew ==
  ASSUME NEW n \in 0 .. MaxData
  PROVE  seq_gte(Wrap(Isn(0) + 1 + n), Isn(0))
<1>1. /\ SeqNumMod \in Nat /\ SeqNumMod >= 4 * (n + 3) /\ n \in Nat
      /\ Isn(0) \in Nat /\ Wrap(Isn(0) + 1 + n) \in Nat
  <2>1. Isn(0) \in Nat
    BY IsnType, Sizes
  <2>2. QED
    BY <2>1, Sizes, WrapType
<1>2. Wrap(Wrap(Isn(0) + (1 + n)) - Isn(0) - 0) = (1 + n) - 0
  BY <1>1, Distance, Sizes
<1>3. Isn(0) + (1 + n) = Isn(0) + 1 + n /\ (1 + n) - 0 < SeqNumMod \div 2
  BY <1>1
<1>4. Wrap(Isn(0) + 1 + n) - Isn(0) - 0 = Wrap(Isn(0) + 1 + n) - Isn(0)
  BY <1>1
<1>5. QED
  BY <1>2, <1>3, <1>4 DEF seq_gte

\* What the client counts as acknowledged was delivered.
LEMMA UnaKept ==
  ASSUME IInv, TypeOK', NEW h \in Hosts, NEW i \in Conns, NEW s \in States,
         NEW m \in SegmentType, NEW r \in ConnType, Took(h, i, s, m, r),
         i = 0, conn[0].peer # 0, closing[0].at = "no", Keeps(conn[i], r, m)
  PROVE  \E n \in 0 .. MaxData : r.una = Wrap(Isn(0) + 1 + n) /\ Delivered(n)'
<1>1. TypeOK /\ Grows
  BY TookGrows DEF IInv
<1>2. CASE r.una = conn[i].una
  <2>1. PICK n \in 0 .. MaxData : conn[0].una = Wrap(Isn(0) + 1 + n) /\ Delivered(n)
    BY DEF IInv, ClientOK
  <2>2. Delivered(n)'
    BY <1>1, <2>1, DeliveredKept
  <2>3. QED
    BY <1>2, <2>1, <2>2
<1>3. CASE "ack" \in m.flags /\ "rst" \notin m.flags /\ r.una = m.ack
  <2>1. m.from # 0
    BY <1>3 DEF Took, SegmentOK, HostOf, Peer
  <2>2. PICK n \in 0 .. MaxData : m.ack = Wrap(Isn(0) + 1 + n) /\ Delivered(n)
    BY <1>3, <2>1 DEF Took, SegmentOK
  <2>3. Delivered(n)'
    BY <1>1, <2>2, DeliveredKept
  <2>4. QED
    BY <1>3, <2>2, <2>3
<1>4. QED
  BY <1>2, <1>3 DEF Keeps

\* Segments that bring neither the SYN, nor a byte, nor the FIN of the peer.
LEMMA Acks ==
  ASSUME IInv, TypeOK', NEW h \in Hosts, NEW i \in Conns, NEW s \in States,
         NEW m \in SegmentType, NEW r \in ConnType, Took(h, i, s, m, r),
         OnlyAcked(conn[i], r, s, m)
  PROVE  ConnOK(i)' /\ (i \in Servers => ServerOK(i)') /\ (i = 0 => ClientOK')
<1>1. /\ TypeOK /\ Grows /\ ~Fresh(i) /\ ~Fresh(i)' /\ conn'[i] = r
      /\ r.sent = conn[i].sent /\ closing' = closing /\ accepted' = accepted
  BY TookGrows DEF IInv, Took
<1>2. /\ r.rcv = conn[i].rcv /\ r.got = conn[i].got /\ r.peer = conn[i].peer
      /\ r.fin = conn[i].fin
      /\ \/ r.state = conn[i].state \/ r.state \notin Early
         \/ r.state = "Established" /\ s = "SynReceived"
      /\ s \in {"SynSent", "Closed"} => r.una = conn[i].una /\ r.state \in {conn[i].state, "Closed"}
  BY DEF OnlyAcked
<1>3. Opened(i)'
  BY <1>1 DEF Grows, Took
<1>4. ConnOK(i)'
  <2>1. ConnOK(i)
    BY DEF IInv
  <2>2. conn[i].peer \in Conns /\ Len(conn[i].got) \in Nat
    BY <1>1, ConnTypes
  <2>3. conn[conn[i].peer].sent \in Nat /\ conn'[conn[i].peer].sent \in Nat
    BY <1>1, <2>2 DEF TypeOK, ConnType
  <2>4. Len(conn[i].got) <= conn'[conn[i].peer].sent
    BY <1>1, <2>1, <2>2, <2>3 DEF ConnOK, Grows
  <2>5. r.state \in Early => ~r.fin
    BY <1>2, <2>1 DEF ConnOK, Took, Early
  <2>6. \A k \in 1 .. Len(r.got) : r.got[k] = <<r.peer, k>>
    BY <1>2, <2>1 DEF ConnOK
  <2>7. r.sent <= Limit(i) /\ Len(r.got) <= conn'[r.peer].sent
    BY <1>1, <1>2, <2>1, <2>4 DEF ConnOK
  <2>8. QED
    BY <1>1, <1>3, <2>5, <2>6, <2>7 DEF ConnOK, Limit
<1>5. ASSUME i \in Servers PROVE ServerOK(i)'
  <2>1. ServerOK(i)
    BY <1>5 DEF IInv
  <2>2. r.state # "SynSent"
    BY <1>2, <2>1 DEF ServerOK, Early
  <2>3. ASSUME r.state = "SynReceived" PROVE i \notin accepted' /\ ~Queued(i)'
    <3>1. conn[i].state = "SynReceived"
      BY <1>2, <2>3 DEF Early
    <3>2. queue' = queue
      BY <2>3 DEF Took
    <3>3. QED
      BY <1>1, <2>1, <3>1, <3>2 DEF ServerOK, Queued
  <2>4. QED
    BY <1>1, <1>2, <2>1, <2>2, <2>3 DEF ServerOK
<1>6. ASSUME i = 0 PROVE ClientOK'
  <2>1. ClientOK
    BY DEF IInv
  <2>2. conn[0].peer = 0 => s \in {"Closed", "SynSent"}
    BY <1>6 DEF Took
  <2>3. r.state # "SynReceived" /\ (r.state = "SynSent" => r.peer = 0)
    BY <1>2, <1>6, <2>1 DEF ClientOK, Early
  <2>4. r.peer = 0 => r.state \in {"Closed", "SynSent"} /\ r.una = Isn(0) /\ r.got = <<>>
    BY <1>2, <1>6, <2>1, <2>2 DEF ClientOK
  <2>5. r.peer # 0 /\ ~r.fin => r.rcv = Wrap(Isn(r.peer) + 1 + Len(r.got))
    BY <1>2, <1>6, <2>1 DEF ClientOK
  <2>6. r.peer # 0 /\ closing[0].at = "no" =>
          \E n \in 0 .. MaxData : r.una = Wrap(Isn(0) + 1 + n) /\ Delivered(n)'
    BY <1>2, <1>6, UnaKept DEF OnlyAcked
  <2>7. QED
    BY <1>1, <1>6, <2>3, <2>4, <2>5, <2>6 DEF ClientOK
<1>7. QED
  BY <1>4, <1>5, <1>6

\* The SYN-ACK: the client learns whom it talks to.
LEMMA Connecteds ==
  ASSUME IInv, TypeOK', NEW h \in Hosts, NEW i \in Conns, NEW s \in States,
         NEW m \in SegmentType, NEW r \in ConnType, Took(h, i, s, m, r),
         Connected(conn[i], r, s, m)
  PROVE  ConnOK(i)' /\ (i \in Servers => ServerOK(i)') /\ (i = 0 => ClientOK')
<1>1. /\ TypeOK /\ Grows /\ conn'[i] = r /\ closing' = closing
      /\ r.sent = conn[i].sent
  BY TookGrows DEF IInv, Took
<1>2. i = 0 /\ conn[0].peer = 0 /\ ~conn[0].fin
  BY DEF Took, Connected, Early
<1>3. /\ "rst" \notin m.flags /\ "syn" \in m.flags /\ "ack" \in m.flags
      /\ r.una = IF seq_gte(m.ack, conn[0].una) THEN m.ack ELSE conn[0].una
      /\ r.rcv = Wrap(m.seq + 1) /\ r.got = conn[0].got /\ r.peer = m.from /\ r.fin = conn[0].fin
      /\ r.state = "Established"
  BY <1>2 DEF Connected
<1>4. m.from # 0 /\ m.from \in Servers /\ m.seq = Isn(m.from)
  <2>1. m.from # 0 /\ m.seq = Isn(m.from)
    BY <1>2, <1>3 DEF Took, SegmentOK, HostOf, Peer
  <2>2. QED
    BY <2>1, Sizes DEF SegmentType
<1>5. conn[0].una = Isn(0) /\ conn[0].got = <<>>
  BY <1>2 DEF IInv, ClientOK
<1>6. Len(<<>>) = 0
  OBVIOUS
<1>7. ConnOK(0)'
  <2>1. Opened(0)' /\ conn[0].sent <= Limit(0)
    BY <1>1, <1>2 DEF Took, Grows, IInv, ConnOK
  <2>2. conn'[m.from].sent \in Nat
    BY <1>4, Sizes DEF TypeOK, ConnType
  <2>3. QED
    BY <1>1, <1>2, <1>3, <1>5, <1>6, <2>1, <2>2 DEF ConnOK, Limit
<1>8. ClientOK'
  <2>1. r.rcv = Wrap(Isn(m.from) + 1 + Len(r.got))
    <3>1. Isn(m.from) \in Nat
      BY IsnType DEF SegmentType
    <3>2. Isn(m.from) + 1 + 0 = Isn(m.from) + 1
      BY <3>1
    <3>3. QED
      BY <1>3, <1>4, <1>5, <1>6, <3>2
  <2>2. closing[0].at = "no" => \E n \in 0 .. MaxData : r.una = Wrap(Isn(0) + 1 + n) /\ Delivered(n)'
    <3> SUFFICES ASSUME closing[0].at = "no"
                 PROVE  \E n \in 0 .. MaxData : r.una = Wrap(Isn(0) + 1 + n) /\ Delivered(n)'
      OBVIOUS
    <3>1. PICK n \in 0 .. MaxData : m.ack = Wrap(Isn(0) + 1 + n) /\ Delivered(n)
      BY <1>3, <1>4 DEF Took, SegmentOK
    <3>2. r.una = m.ack
      BY <1>3, <1>5, <3>1, AckIsNew
    <3>3. Delivered(n)'
      BY <1>1, <3>1, DeliveredKept
    <3>4. QED
      BY <3>1, <3>2, <3>3
  <2>3. QED
    BY <1>1, <1>2, <1>3, <1>4, <2>1, <2>2 DEF ClientOK
<1>9. QED
  BY <1>2, <1>7, <1>8, Sizes

\* A byte whose number is the next is the next byte of the peer.
LEMMA NextByte ==
  ASSUME IInv, NEW h \in Hosts, NEW i \in Conns, NEW s \in States,
         NEW m \in SegmentType, NEW r \in ConnType, Took(h, i, s, m, r),
         TookData(conn[i], r, s, m)
  PROVE  /\ m.data = <<<<conn[i].peer, Len(conn[i].got) + 1>>>>
         /\ Len(conn[i].got) + 1 <= conn[conn[i].peer].sent
         /\ conn[i].rcv = Wrap(Isn(conn[i].peer) + (1 + Len(conn[i].got)))
         /\ 1 + Len(conn[i].got) \in 0 .. MaxData + MaxReply + 3
         /\ i = 0 => conn[0].peer # 0
<1>1. TypeOK /\ ConnOK(i)
  BY DEF IInv
<1>2. /\ conn[i].peer \in Conns /\ m.from \in Conns /\ Len(conn[i].got) \in Nat
      /\ \A j \in Conns : conn[j].sent \in Nat /\ conn[j].sent <= Limit(j)
  BY <1>1, ConnTypes DEF IInv, ConnOK, SegmentType
<1>3. /\ s = "Established" /\ "rst" \notin m.flags /\ m.data # <<>> /\ m.seq = conn[i].rcv
      /\ ~conn[i].fin
  BY DEF TookData, InOrder, Took, Early
<1>4. PICK k \in 1 .. conn[m.from].sent :
        m.data = <<<<m.from, k>>>> /\ m.seq = Wrap(Isn(m.from) + k)
  BY <1>3 DEF Took, SegmentOK
<1>5. i = 0 <=> m.from # 0
  BY <1>3 DEF Took, SegmentOK, HostOf, Peer
<1>6. PICK g \in Nat : g = Len(conn[i].got) /\ g <= conn[conn[i].peer].sent
  BY <1>1, <1>2 DEF ConnOK
<1>7. Isn(conn[i].peer) \in Nat /\ Isn(conn[i].peer) + 1 + g = Isn(conn[i].peer) + (1 + g)
  BY <1>2, IsnType
<1>8. CASE i # 0
  <2>1. conn[i].peer = 0 /\ m.from = 0 /\ conn[i].rcv = Wrap(Isn(0) + 1 + Len(conn[i].got))
    <3>1. i \in Servers /\ ~Fresh(i)
      BY <1>8, Sizes, OpenedIsNotFresh DEF Took
    <3>2. QED
      BY <1>3, <1>5, <1>8, <3>1 DEF IInv, ServerOK
  <2>2. g <= MaxData /\ k <= MaxData /\ k \in Nat
    BY <1>2, <1>4, <1>6, <2>1, Sizes DEF Limit
  <2>3. k \in 0 .. MaxData + MaxReply + 3 /\ 1 + g \in 0 .. MaxData + MaxReply + 3
    BY <2>2, Sizes
  <2>4. Wrap(Isn(0) + k) = Wrap(Isn(0) + (1 + g))
    BY <1>3, <1>4, <1>6, <1>7, <2>1
  <2>5. k = 1 + g
    BY <2>3, <2>4, SameNumber, Sizes
  <2>6. QED
    BY <1>4, <1>6, <1>7, <1>8, <2>1, <2>3, <2>5
<1>9. CASE i = 0
  <2>1. conn[0].peer # 0
    BY <1>3, <1>9 DEF Took
  <2>2. conn[0].peer \in Servers /\ m.from \in Servers /\ m.from # 0
    BY <1>2, <1>5, <1>9, <2>1, Sizes
  <2>3. conn[0].rcv = Wrap(Isn(conn[0].peer) + 1 + Len(conn[0].got))
    BY <1>3, <1>9, <2>1 DEF IInv, ClientOK
  <2>4. g <= MaxReply /\ k <= MaxReply /\ k \in Nat
    <3>1. \A j \in Servers : conn[j].sent \in Nat /\ conn[j].sent <= MaxReply
      BY <1>2, Sizes DEF Limit
    <3>2. PICK a \in Nat, b \in Nat :
            a = conn[conn[0].peer].sent /\ b = conn[m.from].sent /\ a <= MaxReply /\ b <= MaxReply
      BY <2>2, <3>1
    <3>3. g <= a /\ k \in 1 .. b
      BY <1>4, <1>6, <1>9, <3>2
    <3>4. QED
      BY <3>2, <3>3, Sizes
  <2>5. k \in 1 .. MaxReply + 1 /\ 1 + g \in 1 .. MaxReply + 1
    BY <1>4, <2>4, Sizes
  <2>6. Wrap(Isn(m.from) + k) = Wrap(Isn(conn[0].peer) + (1 + g))
    BY <1>3, <1>4, <1>6, <1>7, <1>9, <2>3
  <2>7. m.from = conn[0].peer /\ k = 1 + g
    BY <2>2, <2>5, <2>6, OtherNumber
  <2>8. 1 + g \in 0 .. MaxData + MaxReply + 3
    BY <2>4, Sizes
  <2>9. QED
    BY <1>4, <1>6, <1>7, <1>9, <2>1, <2>3, <2>7, <2>8
<1>10. QED
  BY <1>8, <1>9

\* Data that is taken is the next byte of the peer.
LEMMA Grown ==
  ASSUME IInv, TypeOK', NEW h \in Hosts, NEW i \in Conns, NEW s \in States,
         NEW m \in SegmentType, NEW r \in ConnType, Took(h, i, s, m, r),
         TookData(conn[i], r, s, m)
  PROVE  /\ r.peer = conn[i].peer
         /\ Len(r.got) = Len(conn[i].got) + 1
         /\ \A k \in 1 .. Len(r.got) : r.got[k] = <<r.peer, k>>
         /\ r.rcv = Wrap(Isn(r.peer) + 1 + Len(r.got))
<1>1. TypeOK /\ ConnOK(i)
  BY DEF IInv
<1>2. PICK p \in Conns : p = conn[i].peer /\ p = r.peer
  BY <1>1, ConnTypes DEF TookData
<1>3. PICK g \in Seq(Bytes), n \in Nat :
        /\ g = conn[i].got /\ n = Len(g)
        /\ \A k \in 1 .. n : g[k] = <<p, k>>
  BY <1>1, <1>2, ConnTypes DEF ConnOK
<1>4. PICK e \in Seq(Bytes) : e = m.data
  BY DEF SegmentType
<1>5. e = <<<<p, n + 1>>>>
  BY <1>2, <1>3, <1>4, NextByte
<1>6. Len(e) = 1 /\ e[1] = <<p, n + 1>>
  BY <1>5
<1>7. /\ Len(g \o e) = n + 1
      /\ \A k \in 1 .. n + 1 : (g \o e)[k] = IF k <= n THEN g[k] ELSE e[k - n]
  BY <1>3, <1>6, ConcatProperties
<1>8. r.got = g \o e
  BY <1>3, <1>4 DEF TookData
<1>9. PICK d : d = g \o e
  OBVIOUS
<1>10. Len(d) = n + 1 /\ \A k \in 1 .. n + 1 : d[k] = <<p, k>>
  <2>1. Len(d) = n + 1
    BY <1>7, <1>9
  <2>2. \A k \in 1 .. n + 1 : d[k] = IF k <= n THEN g[k] ELSE e[k - n]
    BY <1>7, <1>9
  <2>3. ASSUME NEW k \in 1 .. n + 1 PROVE d[k] = <<p, k>>
    <3>1. CASE k <= n
      BY <1>3, <2>2, <3>1
    <3>2. CASE k > n
      <4>1. k = n + 1 /\ k - n = 1
        BY <3>2
      <4>2. QED
        BY <1>6, <2>2, <3>2, <4>1
    <3>3. QED
      BY <3>1, <3>2
  <2>4. QED
    BY <2>1, <2>3
<1>11. r.got = d
  BY <1>8, <1>9
<1>12. r.rcv = Wrap(Isn(p) + 1 + (n + 1))
  <2>1. /\ conn[i].rcv = Wrap(Isn(p) + (1 + n)) /\ 1 + n \in 0 .. MaxData + MaxReply + 3
    BY <1>2, <1>3, NextByte
  <2>2. r.rcv = Wrap(conn[i].rcv + 1)
    <3>1. r.rcv = Wrap(conn[i].rcv + Len(e))
      BY <1>4 DEF TookData
    <3>2. QED
      BY <1>6, <3>1
  <2>3. Wrap(conn[i].rcv + 1) = Wrap(Isn(p) + (1 + n) + 1)
    BY <2>1, NextNumber
  <2>4. Isn(p) \in Nat /\ Isn(p) + (1 + n) + 1 = Isn(p) + 1 + (n + 1)
    BY IsnType
  <2>5. QED
    BY <2>2, <2>3, <2>4
<1>13. Len(conn[i].got) = n
  BY <1>3
<1>14. QED
  BY <1>2, <1>10, <1>11, <1>12, <1>13

\* A connection that has taken data.
LEMMA TakesData ==
  ASSUME IInv, TypeOK', NEW h \in Hosts, NEW i \in Conns, NEW s \in States,
         NEW m \in SegmentType, NEW r \in ConnType, Took(h, i, s, m, r),
         TookData(conn[i], r, s, m)
  PROVE  ConnOK(i)' /\ (i \in Servers => ServerOK(i)') /\ (i = 0 => ClientOK')
<1>1. /\ TypeOK /\ Grows /\ ~Fresh(i) /\ conn'[i] = r /\ closing' = closing
      /\ accepted' = accepted /\ r.sent = conn[i].sent
  BY TookGrows DEF IInv, Took
<1>2. /\ s = "Established" /\ ~conn[i].fin /\ ~r.fin /\ r.state = conn[i].state
      /\ r.peer = conn[i].peer /\ Keeps(conn[i], r, m)
  BY DEF TookData, Took, Early
<1>3. /\ Len(r.got) = Len(conn[i].got) + 1
      /\ \A k \in 1 .. Len(r.got) : r.got[k] = <<r.peer, k>>
      /\ r.rcv = Wrap(Isn(r.peer) + 1 + Len(r.got))
  BY Grown
<1>4. Len(conn[i].got) + 1 <= conn[conn[i].peer].sent /\ (i = 0 => conn[0].peer # 0)
  BY NextByte
<1>5. ConnOK(i)'
  <2>1. ConnOK(i) /\ Opened(i)'
    BY <1>1 DEF IInv, Took, Grows
  <2>2. r.peer \in Conns /\ conn[r.peer].sent \in Nat /\ conn'[r.peer].sent \in Nat
    BY <1>1 DEF ConnType, TypeOK
  <2>3. Len(r.got) <= conn'[r.peer].sent
    <3>1. conn'[r.peer].sent >= conn[r.peer].sent
      BY <1>1, <2>2 DEF Grows
    <3>2. Len(conn[i].got) \in Nat
      BY <1>1, ConnTypes
    <3>3. QED
      BY <1>2, <1>3, <1>4, <2>2, <3>1, <3>2
  <2>4. r.sent <= Limit(i)
    BY <1>1, <2>1 DEF ConnOK
  <2>5. QED
    BY <1>1, <1>2, <1>3, <2>1, <2>3, <2>4 DEF ConnOK, Limit
<1>6. ASSUME i \in Servers PROVE ServerOK(i)'
  <2>1. ServerOK(i)
    BY <1>6 DEF IInv
  <2>2. r.peer = 0
    BY <1>2, <2>1 DEF ServerOK
  <2>3. r.state = "SynReceived" => i \notin accepted' /\ ~Queued(i)'
    <3> SUFFICES ASSUME r.state = "SynReceived" PROVE i \notin accepted' /\ ~Queued(i)'
      OBVIOUS
    <3>1. queue' = queue
      BY DEF Took
    <3>2. QED
      BY <1>1, <1>2, <2>1, <3>1 DEF ServerOK, Queued
  <2>4. r.rcv = Wrap(Isn(0) + 1 + Len(r.got))
    BY <1>3, <2>2
  <2>5. QED
    BY <1>1, <1>2, <2>1, <2>2, <2>3, <2>4 DEF ServerOK
<1>7. ASSUME i = 0 PROVE ClientOK'
  <2>1. ClientOK /\ conn[0].peer # 0
    BY <1>4, <1>7 DEF IInv
  <2>2. closing[0].at = "no" => \E n \in 0 .. MaxData : r.una = Wrap(Isn(0) + 1 + n) /\ Delivered(n)'
    BY <1>2, <1>7, <2>1, UnaKept
  <2>3. r.state # "SynReceived" /\ r.state # "SynSent" /\ r.peer # 0
    BY <1>2, <1>7, <2>1 DEF ClientOK
  <2>4. QED
    BY <1>1, <1>2, <1>3, <1>7, <2>2, <2>3 DEF ClientOK
<1>8. QED
  BY <1>5, <1>6, <1>7

\* A FIN ends what is known of rcv; the client's has been sent by close().
LEMMA TakesFin ==
  ASSUME IInv, TypeOK', NEW h \in Hosts, NEW i \in Conns, NEW s \in States,
         NEW m \in SegmentType, NEW r \in ConnType, Took(h, i, s, m, r),
         TookFin(conn[i], r, s, m)
  PROVE  ConnOK(i)' /\ (i \in Servers => ServerOK(i)') /\ (i = 0 => ClientOK')
<1>1. /\ TypeOK /\ Grows /\ conn'[i] = r /\ closing' = closing /\ r.sent = conn[i].sent
  BY TookGrows DEF IInv, Took
<1>2. /\ s \in {"Established", "FinWait1", "FinWait2"} /\ "rst" \notin m.flags /\ "fin" \in m.flags
      /\ Keeps(conn[i], r, m) /\ r.got = conn[i].got /\ r.peer = conn[i].peer /\ r.fin = TRUE
      /\ r.state \in {"CloseWait", "TimeWait", "Closing"}
  BY DEF TookFin
<1>3. ConnOK(i)'
  <2>1. ConnOK(i) /\ Opened(i)'
    BY <1>1 DEF IInv, Took, Grows
  <2>2. /\ conn[i].peer \in Conns /\ Len(conn[i].got) \in Nat
    BY <1>1, ConnTypes
  <2>3. conn[conn[i].peer].sent \in Nat /\ conn'[conn[i].peer].sent \in Nat
    BY <1>1, <2>2 DEF TypeOK, ConnType
  <2>4. Len(r.got) <= conn'[r.peer].sent
    BY <1>1, <1>2, <2>1, <2>2, <2>3 DEF ConnOK, Grows
  <2>5. /\ r.state \notin Early /\ r.sent <= Limit(i)
        /\ \A k \in 1 .. Len(r.got) : r.got[k] = <<r.peer, k>>
    BY <1>1, <1>2, <2>1 DEF ConnOK, Early
  <2>6. QED
    BY <1>1, <2>1, <2>4, <2>5 DEF ConnOK, Limit
<1>4. ASSUME i \in Servers PROVE ServerOK(i)'
  <2>1. m.from = 0
    BY <1>2, <1>4, Sizes DEF Took, SegmentOK, HostOf, Peer
  <2>2. closing[0].at # "no"
    BY <1>2, <2>1 DEF Took, SegmentOK
  <2>3. r.peer = 0
    BY <1>2, <1>4 DEF IInv, ServerOK
  <2>4. QED
    BY <1>1, <1>2, <2>2, <2>3 DEF ServerOK
<1>5. ASSUME i = 0 PROVE ClientOK'
  <2>1. conn[0].peer # 0
    BY <1>2, <1>5 DEF Took
  <2>2. closing[0].at = "no" => \E n \in 0 .. MaxData : r.una = Wrap(Isn(0) + 1 + n) /\ Delivered(n)'
    BY <1>2, <1>5, <2>1, UnaKept
  <2>3. QED
    BY <1>1, <1>2, <1>5, <2>1, <2>2 DEF ClientOK
<1>6. QED
  BY <1>3, <1>4, <1>5

\* handle_segment keeps the invariant.
LEMMA Handles ==
  ASSUME IInv, NEW h \in Hosts, Handle(h)
  PROVE  IInv'
<1>1. TypeOK'
  BY Taking
<1>2. PICK i \in Conns, s \in States, m \in SegmentType, r \in ConnType : Took(h, i, s, m, r)
  BY Taking
<1>3. /\ TypeOK /\ Grows /\ ~Fresh(i)' /\ \A j \in Conns \ {i} : HandsOn(j)
  BY <1>1, <1>2, TookGrows DEF IInv
<1>4. /\ conn'[i] = r /\ (\A j \in Conns \ {i} : conn'[j] = conn[j]) /\ HostOf(i) = h
      /\ Opened(i)
      /\ \/ queue' = queue
         \/ queue' = Append(queue, i) /\ i # 0 /\ i \notin accepted /\ ~Queued(i)
      /\ polled'[h] = NoSegment /\ (\A g \in Hosts \ {h} : polled'[g] = polled[g])
      /\ net' \subseteq net \cup {AckOf(i, r)}
      /\ UNCHANGED <<connecting, table, accepted, closing, dups>>
  BY <1>2 DEF Took
<1>5. ConnOK(i)' /\ (i \in Servers => ServerOK(i)') /\ (i = 0 => ClientOK')
  <2>1. Outcome(conn[i], r, s, m)
    BY <1>2 DEF Took
  <2>2. CASE OnlyAcked(conn[i], r, s, m)
    BY <1>1, <1>2, <2>2, Acks
  <2>3. CASE Connected(conn[i], r, s, m)
    BY <1>1, <1>2, <2>3, Connecteds
  <2>4. CASE TookData(conn[i], r, s, m)
    BY <1>1, <1>2, <2>4, TakesData
  <2>5. CASE TookFin(conn[i], r, s, m)
    BY <1>1, <1>2, <2>5, TakesFin
  <2>6. QED
    BY <2>1, <2>2, <2>3, <2>4, <2>5 DEF Outcome
<1>6. (\A j \in Conns : ConnOK(j)') /\ ClientOK' /\ (\A j \in Servers : ServerOK(j)')
  BY <1>1, <1>3, <1>4, <1>5, ConnChanged
<1>7. \A g \in Hosts : PolledOK(g)'
  <2>1. PolledOK(h)'
    BY <1>4 DEF PolledOK
  <2>2. ASSUME NEW g \in Hosts \ {h} PROVE PolledOK(g)'
    <3>1. \A j \in Conns : HostOf(j) = g =>
            conn'[j].fin = conn[j].fin /\ conn'[j].peer = conn[j].peer /\ HandsOn(j)
      BY <1>3, <1>4
    <3>2. QED
      BY <1>1, <1>3, <1>4, <3>1, PolledKept
  <2>3. QED
    BY <2>1, <2>2
<1>8. \A j \in Conns : ClosingOK(j)'
  <2>1. conn[0].peer # 0 => conn'[0].peer # 0
    <3>1. CASE i # 0
      BY <1>4, <3>1, Sizes
    <3>2. CASE i = 0
      BY <1>2, <3>2, <1>4 DEF Took, Outcome, OnlyAcked, Connected, TookData, TookFin
    <3>3. QED
      BY <3>1, <3>2
  <2>2. QED
    BY <1>1, <1>3, <1>4, <2>1, ClosingKept
<1>9. \A n \in net' : SegmentOK(n)'
  <2>1. PICK a \in SegmentType :
          /\ a = AckOf(i, r)
          /\ a.to = Peer(HostOf(i)) /\ a.from = i /\ a.flags = {"ack"}
          /\ a.ack = r.rcv /\ a.data = <<>>
    BY AckType
  <2>2. ASSUME i # 0, closing[0].at = "no"
        PROVE  \E n \in 0 .. MaxData : a.ack = Wrap(Isn(0) + 1 + n) /\ Delivered(n)'
    <3>1. i \in Servers /\ ServerOK(i)' /\ ConnOK(i)' /\ ConnOK(0)'
      BY <1>6, <2>2, Sizes
    <3>2. r.rcv = Wrap(Isn(0) + 1 + Len(r.got))
      BY <1>3, <1>4, <2>2, <3>1 DEF ServerOK
    <3>3. Len(r.got) \in 0 .. MaxData
      <4>1. Len(r.got) \in Nat /\ conn'[0].sent \in Nat
        BY <1>1, LenProperties, Sizes DEF TypeOK, ConnType
      <4>2. conn'[0].sent <= MaxData
        BY <3>1 DEF ConnOK, Limit
      <4>3. Len(conn'[i].got) <= conn'[0].sent
        BY <3>1 DEF ConnOK, ServerOK
      <4>4. QED
        BY <1>4, <4>1, <4>2, <4>3, Sizes
    <3>4. PICK n \in 0 .. MaxData : n = Len(r.got)
      BY <3>3
    <3>5. Delivered(n)'
      BY <1>4, <3>1, <3>4, Sizes DEF Delivered
    <3>6. QED
      BY <2>1, <3>2, <3>4, <3>5
  <2>3. SegmentOK(a)'
    BY <1>4, <2>1, <2>2 DEF SegmentOK
  <2>4. QED
    BY <1>1, <1>3, <1>4, <2>1, <2>3, NetKept
<1>10. TableOK'
  BY <1>3, <1>4, TableKept
<1>11. QueueOK'
  <2>1. CASE queue' = queue
    BY <1>3, <1>4, <2>1, QueueKept
  <2>2. CASE queue' # queue
    <3>1. queue' = Append(queue, i) /\ i \notin accepted /\ ~Queued(i)
      BY <1>4, <2>2
    <3>2. queue \in Seq(Servers) /\ i \in Servers /\ QueueOK
      BY <1>3, <1>4, <2>2, Sizes DEF TypeOK, IInv
    <3>3. /\ Len(queue) \in Nat /\ Len(queue') = Len(queue) + 1
          /\ queue'[Len(queue) + 1] = i
          /\ \A k \in 1 .. Len(queue) : queue'[k] = queue[k]
      BY <3>1, <3>2, AppendProperties, LenProperties
    <3>4. QueuedOnce'
      BY <1>4, <3>1, <3>2, <3>3 DEF QueueOK, QueuedOnce, Queued
    <3> DEFINE Open == {j \in Conns : Opened(j)}
    <3>5. Open \subseteq Open'
      BY <1>3 DEF Grows
    <3>6. /\ \A k \in 1 .. Len(queue') : queue'[k] \in Open
          /\ \A j \in accepted' : j \in Open
      <4>1. \A k \in 1 .. Len(queue) : queue[k] \in Open
        BY <3>2, ElementOfSeq, Sizes DEF QueueOK
      <4>2. \A j \in accepted : j \in Open
        BY <1>3, <3>2, Sizes DEF QueueOK, TypeOK
      <4>3. i \in Open
        BY <1>4
      <4>4. QED
        BY <1>4, <3>3, <4>1, <4>2, <4>3
    <3>7. \A k \in 1 .. Len(queue') : queue'[k] \in Open'
      BY <3>5, <3>6
    <3>8. \A j \in accepted' : j \in Open'
      BY <3>5, <3>6
    <3>9. QED
      BY <3>4, <3>7, <3>8 DEF QueueOK
  <2>3. QED
    BY <2>1, <2>2
<1>12. QED
  BY <1>1, <1>6, <1>7, <1>8, <1>9, <1>10, <1>11 DEF IInv

-----------------------------------------------------------------------------
\* One step per operation.
LEMMA StepHolds ==
  ASSUME IInv, connecting = "sent", [Next]_vars
  PROVE  IInv'
<1>1. CASE UNCHANGED vars
  <2>1. /\ connecting' = connecting /\ conn' = conn /\ table' = table /\ queue' = queue /\ accepted' = accepted
        /\ polled' = polled /\ closing' = closing /\ net' = net /\ dups' = dups
    BY <1>1 DEF vars
  <2>2. TypeOK'
    BY <2>1 DEF IInv, TypeOK
  <2>3. Grows /\ (\A i \in Conns : ConnOK(i)') /\ ClientOK'
        /\ \A i \in Servers : HandsOn(i) => ServerOK(i)'
    BY <2>1, <2>2, ConnsKept
  <2>4. QueueOK' /\ \A i : HandsOn(i)
    BY <2>1, <2>3, QueueKept
  <2>5. \A h \in Hosts : PolledOK(h)'
    BY <2>1, <2>2, <2>3, <2>4, PolledKept
  <2>6. (\A i \in Conns : ClosingOK(i)') /\ TableOK'
    BY <2>1, <2>2, <2>3, ClosingKept, TableKept
  <2>7. \A m \in net' : SegmentOK(m)'
    BY <2>1, <2>2, <2>3, NetKept
  <2>8. QED
    BY <2>2, <2>3, <2>4, <2>5, <2>6, <2>7 DEF IInv
<1>2. CASE Application
  <2>1. ~connect /\ ~send_syn
    BY DEF connect, send_syn
  <2>2. CASE accept
    BY <2>2, Accepts
  <2>3. ASSUME NEW i \in Conns, send_data(i) PROVE IInv'
    BY <2>3, Sends
  <2>4. ASSUME NEW i \in Conns, CloseStart(i) PROVE IInv'
    BY <2>4, StartsToClose
  <2>5. ASSUME NEW i \in Conns, CloseLoad(i) PROVE IInv'
    BY <2>5, LoadsToClose
  <2>6. ASSUME NEW i \in Conns, CloseStore(i) PROVE IInv'
    BY <2>6, StoresClosed
  <2>7. QED
    BY <1>2, <2>1, <2>2, <2>3, <2>4, <2>5, <2>6 DEF Application
<1>3. CASE Poll
  <2>1. ASSUME NEW m \in net, Receive(m) PROVE IInv'
    BY <2>1, Receives
  <2>2. ASSUME NEW m \in net, handle_syn(m) PROVE IInv'
    BY <2>2, OpensPassively
  <2>3. ASSUME NEW m \in net, Refuse(m) PROVE IInv'
    BY <2>3, Refuses
  <2>4. ASSUME NEW h \in Hosts, Handle(h) PROVE IInv'
    BY <2>4, Handles
  <2>5. ASSUME NEW i \in Conns, timer_tick(i) PROVE IInv'
    <3>1. Opened(i)
      BY <2>5 DEF IInv, TableOK, timer_tick
    <3>2. QED
      BY <2>5, <3>1, TimesOut
  <2>6. QED
    BY <1>3, <2>1, <2>2, <2>3, <2>4, <2>5 DEF Poll
<1>4. QED
  BY <1>1, <1>2, <1>3 DEF Next

\* Before the SYN is sent only connect() and the timer have anything to do.
LEMMA QuietStep ==
  ASSUME IInv, connecting # "sent", Quiet, [Next]_vars
  PROVE  IndInv'
<1>1. TypeOK /\ Fresh(0) /\ \A i \in Conns : ~InUse(i) /\ closing[i].at = "no"
  <2>1. NotClosing.at = "no" /\ \A i \in Conns : conn[i] = NewConn(i) /\ closing[i] = NotClosing
    BY DEF Quiet, NotClosing, Fresh
  <2>2. \A i \in Conns : closing[i].at = "no"
    BY <2>1
  <2>3. QED
    BY <2>1, <2>2, Sizes DEF IInv, Quiet, Fresh, InUse
<1>2. CASE UNCHANGED vars
  <2>1. /\ connecting' = connecting /\ conn' = conn /\ table' = table /\ queue' = queue
        /\ accepted' = accepted /\ polled' = polled /\ closing' = closing /\ net' = net
        /\ dups' = dups
    BY <1>2 DEF vars
  <2>2. TypeOK'
    BY <2>1 DEF IInv, TypeOK
  <2>3. Grows /\ (\A i \in Conns : ConnOK(i)') /\ ClientOK'
        /\ \A i \in Servers : HandsOn(i) => ServerOK(i)'
    BY <2>1, <2>2, ConnsKept
  <2>4. QueueOK' /\ \A i : HandsOn(i)
    BY <2>1, <2>3, QueueKept
  <2>5. \A h \in Hosts : PolledOK(h)'
    BY <2>1, <2>2, <2>3, <2>4, PolledKept
  <2>6. (\A i \in Conns : ClosingOK(i)') /\ TableOK' /\ \A m \in net' : SegmentOK(m)'
    BY <2>1, <2>2, <2>3, ClosingKept, TableKept, NetKept
  <2>7. IInv'
    BY <2>2, <2>3, <2>4, <2>5, <2>6 DEF IInv
  <2>8. QED
    BY <2>1, <2>7 DEF IndInv, Quiet, Fresh
<1>3. CASE connect
  <2>1. IInv'
    BY <1>3, Pushes
  <2>2. QED
    BY <1>3, <2>1 DEF IndInv, Quiet, Fresh, connect
<1>4. CASE send_syn
  <2>1. IInv'
    BY <1>1, <1>4, Connects
  <2>2. QED
    BY <1>4, <2>1 DEF IndInv, send_syn
<1>5. ASSUME NEW i \in Conns, timer_tick(i) PROVE IndInv'
  <2>1. IInv' /\ conn' = conn
    BY <1>5, TakesBack
  <2>2. QED
    BY <1>5, <2>1 DEF IndInv, Quiet, Fresh, timer_tick, App
<1>6. ~accept
  BY DEF accept, Quiet
<1>7. \A i \in Conns : ~send_data(i) /\ ~CloseStart(i) /\ ~CloseLoad(i) /\ ~CloseStore(i)
  BY <1>1 DEF send_data, CloseStart, CloseLoad, CloseStore
<1>8. net = {} /\ \A h \in Hosts : ~Handle(h)
  BY DEF Handle, Quiet
<1>9. QED
  BY <1>2, <1>3, <1>4, <1>5, <1>6, <1>7, <1>8 DEF Next, Application, Poll

\* Nothing takes the SYN back.
LEMMA InvariantStep ==
  ASSUME IndInv, [Next]_vars
  PROVE  IndInv'
<1>1. CASE connecting # "sent"
  BY <1>1, QuietStep DEF IndInv
<1>2. CASE connecting = "sent"
  <2>1. IInv'
    BY <1>2, StepHolds DEF IndInv
  <2>2. connecting' = "sent"
    BY <1>2 DEF Next, Application, Poll, connect, send_syn, accept, send_data, CloseStart,
                CloseLoad, CloseStore, Receive, handle_syn, Refuse, Handle, timer_tick, App, vars
  <2>3. QED
    BY <2>1, <2>2 DEF IndInv
<1>3. QED
  BY <1>1, <1>2

(***************************************************************************)
(* The inductive invariant: every number in a segment, a connection, or a  *)
(* step that a thread has begun is the one its place in the stream gives.  *)
(***************************************************************************)
THEOREM TcpInvariantHolds == Spec => []IndInv
<1>1. Init => IndInv
  BY InitHolds DEF Init, IndInv, Quiet, Fresh
<1>2. QED
  BY <1>1, InvariantStep, PTL DEF Spec

\* Every variable keeps to its type.
THEOREM TcpTypeCorrect == Spec => []TypeOK
<1>1. IInv => TypeOK
  BY DEF IInv
<1>2. QED
  BY <1>1, TcpInvariantHolds, PTL DEF IndInv

(***************************************************************************)
(* Whatever is lost, doubled or comes late, and over the wrap of the       *)
(* sequence numbers, what handle_segment puts into a receive buffer are    *)
(* the first bytes of the peer's stream, in order and without a gap.       *)
(***************************************************************************)
THEOREM TcpDeliversPrefix == Spec => []DeliversPrefix
<1>1. IInv => DeliversPrefix
  <2> SUFFICES ASSUME IInv, NEW i \in Conns
               PROVE  IsPrefix(conn[i].got, Stream(conn[i].peer))
    BY DEF DeliversPrefix
  <2>1. TypeOK /\ ConnOK(i)
    BY DEF IInv
  <2>2. PICK p \in Conns, g \in Seq(Bytes), n \in Nat :
          p = conn[i].peer /\ g = conn[i].got /\ n = conn[p].sent
    BY <2>1, ConnTypes
  <2>3. Len(g) \in Nat /\ Len(g) <= n /\ \A k \in 1 .. Len(g) : g[k] = <<p, k>>
    BY <2>1, <2>2, LenProperties DEF ConnOK
  <2>4. PICK t : t = [k \in 1 .. n |-> <<p, k>>]
    OBVIOUS
  <2>5. t = Stream(conn[i].peer)
    BY <2>2, <2>4 DEF Stream
  <2>6. t \in Seq(Bytes) /\ Len(t) = n
    <3>1. t \in [1 .. n -> Bytes]
      BY <2>2, <2>4 DEF Bytes
    <3>2. QED
      BY <2>2, <3>1, SeqDef, LenProperties
  <2>7. \A k \in 1 .. Len(g) : t[k] = g[k]
    <3>1. \A k \in 1 .. n : t[k] = <<p, k>>
      BY <2>4
    <3>2. \A k \in 1 .. Len(g) : k \in 1 .. n
      BY <2>3
    <3>3. QED
      BY <2>3, <3>1, <3>2
  <2>8. SubSeq(g, 1, Len(g)) = SubSeq(t, 1, Len(g))
    <3> DEFINE m == Len(g)
    <3>1. /\ SubSeq(g, 1, m) \in Seq(Bytes) /\ SubSeq(t, 1, m) \in Seq(Bytes)
          /\ Len(SubSeq(g, 1, m)) = m /\ Len(SubSeq(t, 1, m)) = m
          /\ \A k \in 1 .. m : SubSeq(g, 1, m)[k] = g[k] /\ SubSeq(t, 1, m)[k] = t[k]
      BY <2>2, <2>3, <2>6, SubSeqProperties
    <3>2. QED
      BY <2>7, <3>1, SeqEqual
  <2>9. IsPrefix(g, t)
    BY <2>3, <2>6, <2>8 DEF IsPrefix
  <2>10. QED
    BY <2>2, <2>5, <2>9
<1>2. QED
  BY <1>1, TcpInvariantHolds, PTL DEF IndInv

(***************************************************************************)
(* una of the client covers no byte that is not in a receive buffer of the *)
(* server, whichever of its connections sent the acknowledgement and       *)
(* whether or not that connection is still known.                          *)
(***************************************************************************)
THEOREM TcpAckedIsDelivered == Spec => []AckedIsDelivered
<1>1. IInv => AckedIsDelivered
  <2> SUFFICES ASSUME IInv, conn[0].peer # 0, closing[0].at = "no",
                      NEW k \in 1 .. Wrap(conn[0].una - Isn(0) - 1)
               PROVE  \E i \in Servers : <<0, k>> \in Range(conn[i].got)
    BY DEF AckedIsDelivered, AckedBytes
  <2>1. TypeOK
    BY DEF IInv
  <2>2. PICK n \in 0 .. MaxData : conn[0].una = Wrap(Isn(0) + 1 + n) /\ Delivered(n)
    BY DEF IInv, ClientOK
  <2>3. Wrap(conn[0].una - Isn(0) - 1) = n
    <3>1. SeqNumMod \in Nat /\ SeqNumMod >= 4 * (n + 3) /\ n \in Nat /\ Isn(0) \in Nat
      BY Sizes, IsnType
    <3>2. Isn(0) + (1 + n) = Isn(0) + 1 + n
      BY <3>1
    <3>3. Wrap(Wrap(Isn(0) + (1 + n)) - Isn(0) - 1) = (1 + n) - 1
      BY <3>1, Distance, Sizes
    <3>4. QED
      BY <2>2, <3>1, <3>2, <3>3
  <2>4. PICK i \in Servers : n <= Len(conn[i].got)
    BY <2>2, <2>3 DEF Delivered
  <2>5. i \in Conns /\ conn[i].peer = 0 /\ ConnOK(i)
    BY <2>4, Sizes DEF IInv, ServerOK
  <2>6. PICK g \in Seq(Bytes) : g = conn[i].got /\ Len(g) \in Nat
    BY <2>1, <2>5, ConnTypes
  <2>7. k \in 1 .. Len(g) /\ g[k] = <<0, k>>
    BY <2>2, <2>3, <2>4, <2>5, <2>6 DEF ConnOK
  <2>8. k \in DOMAIN g
    BY <2>6, <2>7, LenProperties
  <2>9. <<0, k>> \in Range(g)
    BY <2>7, <2>8 DEF Range
  <2>10. QED
    BY <2>6, <2>9
<1>2. QED
  BY <1>1, TcpInvariantHolds, PTL DEF IndInv

\* No connection is put twice into the accept queue of the listener, nor put there
\* again after accept() has returned it.
THEOREM TcpQueuedOnce == Spec => []QueuedOnce
<1>1. IInv => QueuedOnce
  BY DEF IInv, QueueOK
<1>2. QED
  BY <1>1, TcpInvariantHolds, PTL DEF IndInv
===============================================================================
