----------------------------------- MODULE Tcp --------------------------------
(***************************************************************************)
(* net/tcp.rs on both ends of one connection: connect, the handshake with  *)
(* a listener, data one byte to a segment, close, resets and the timers.   *)
(* On each host one thread polls: it takes a segment, loads the state of   *)
(* the connection it is for, and then acts on the state it loaded.  The    *)
(* application calls connect, send_data, accept and close at any time;     *)
(* close, too, loads a state first and stores another later.  The network  *)
(* delays, reorders, loses and duplicates segments.  The listener stays    *)
(* open.                                                                   *)
(*                                                                         *)
(* Connection 0 is the client's: the bound on calls of connect() with one  *)
(* pair of addresses and ports is one.  The code has no such bound; a host *)
(* that connects again on the same ports is not modelled.  The other       *)
(* connections are those that handle_syn makes at the server, one for each *)
(* SYN that finds none.  All have the same addresses and ports.  Windows   *)
(* are left out: no sender looks at them.                                  *)
(***************************************************************************)
EXTENDS Integers, Sequences, FiniteSets, SequencesExt

CONSTANTS
  SeqNumMod,    \* sequence numbers before they wrap; 2^32 in the code
  ISN,          \* the number generate_isn gives each connection
  MaxConns,     \* bound: connections the server makes
  MaxData,      \* bound: bytes the client sends
  MaxReply,     \* bound: bytes a connection of the server sends
  MaxDups       \* bound: segments the network duplicates

ASSUME TcpAssumption ==
  /\ SeqNumMod \in Nat /\ MaxConns \in Nat
  /\ MaxData \in Nat /\ MaxReply \in Nat /\ MaxDups \in Nat
  /\ SeqNumMod >= 4 * (MaxData + MaxReply + 3)

Conns   == 0 .. MaxConns
Servers == 1 .. MaxConns
Hosts   == {"client", "server"}

HostOf(i) == IF i = 0 THEN "client" ELSE "server"
Peer(h)   == IF h = "client" THEN "server" ELSE "client"

Wrap(n) == n % SeqNumMod

\* generate_isn: a counter plus the time in microseconds, so each number is greater
\* than the one before by one and the time between them.  The code has nothing that
\* keeps it out of the numbers an earlier connection used; the assumption is that a
\* connection of the server sends no more bytes than microseconds pass before the
\* next one is made, as one that sends none does in any case.  The client's is any.
ASSUME IsnAssumption ==
  /\ ISN \in [Conns -> 0 .. SeqNumMod - 1]
  /\ \A i, j \in Servers : i # j => Wrap(ISN[i] - ISN[j]) > MaxReply

Isn(i) == ISN[i]

VARIABLES
  connecting,  \* how far connect() is: "no", "pushed", or "sent"
  conn,        \* the TcpConnections
  table,       \* tcp_connections: the connections the hosts know
  queue,       \* the accept_queue of the listener
  accepted,    \* the connections that accept() has returned
  polled,      \* polled[h]: the segment the poll of h has taken, or none
  closing,     \* closing[i]: how far close() is, the state it has loaded
               \* and its segment
  net,         \* the segments on their way
  dups         \* how many segments the network has duplicated

vars == <<connecting, conn, table, queue, accepted, polled, closing, net, dups>>

\* The comparison of sequence numbers across wrap-around.
seq_gte(a, b) == Wrap(a - b) < SeqNumMod \div 2

NoSegment == [none |-> TRUE]

NewConn(i) ==
  [state |-> "Closed", una |-> Isn(i), nxt |-> Isn(i), rcv |-> 0,
   sent |-> 0,       \* history: bytes sent
   got |-> <<>>,     \* history: the bytes that were put into rx_buffer
   peer |-> 0,       \* history: the connection whose SYN was accepted
   fin |-> FALSE]    \* history: a FIN of the peer was taken

NotClosing == [at |-> "no", state |-> "", fin |-> NoSegment]

Init ==
  /\ connecting = "no"
  /\ conn = [i \in Conns |-> NewConn(i)]
  /\ table = {}
  /\ queue = <<>> /\ accepted = {}
  /\ polled = [h \in Hosts |-> NoSegment]
  /\ closing = [i \in Conns |-> NotClosing]
  /\ net = {} /\ dups = 0

-----------------------------------------------------------------------------
\* Segments.  A byte is named by the connection that sends it and its place.
Segment(i, flags, seq, ack, data) ==
  [to |-> Peer(HostOf(i)), flags |-> flags, seq |-> seq, ack |-> ack,
   data |-> data, from |-> i]

AckOf(i, c) == Segment(i, {"ack"}, c.nxt, c.rcv, <<>>)

\* send_rst: the reply to a segment that finds no connection.
RstFor(m) ==
  [to |-> Peer(m.to), data |-> <<>>, from |-> 0,
   flags |-> IF "ack" \in m.flags THEN {"rst"} ELSE {"rst", "ack"},
   seq |-> IF "ack" \in m.flags THEN m.ack ELSE 0,
   ack |-> IF "ack" \in m.flags THEN 0
           ELSE Wrap(m.seq + Len(m.data) + Cardinality(m.flags \cap {"syn", "fin"}))]

App == <<connecting, queue, accepted, polled, closing, dups>>

\* connect(): a new connection, still Closed, is put into the table, from which the
\* timer may take it at once.
connect ==
  /\ connecting = "no" /\ connecting' = "pushed"
  /\ table' = table \cup {0}
  /\ UNCHANGED <<conn, queue, accepted, polled, closing, net, dups>>

\* send_syn(), called by connect().
send_syn ==
  /\ connecting = "pushed" /\ connecting' = "sent"
  /\ conn' = [conn EXCEPT ![0].state = "SynSent", ![0].nxt = Wrap(Isn(0) + 1)]
  /\ net' = net \cup {Segment(0, {"syn"}, Isn(0), 0, <<>>)}
  /\ UNCHANGED <<table, queue, accepted, polled, closing, dups>>

accept ==
  /\ queue # <<>>
  /\ accepted' = accepted \cup {Head(queue)}
  /\ queue' = Tail(queue)
  /\ UNCHANGED <<connecting, conn, table, polled, closing, net, dups>>

\* The connections an application has in hand.
InUse(i) == IF i = 0 THEN conn[0] # NewConn(0) ELSE i \in accepted

\* send_data(), one byte.
send_data(i) ==
  /\ InUse(i) /\ closing[i].at = "no"
  /\ conn[i].state \in {"Established", "CloseWait"}
  /\ conn[i].sent < (IF i = 0 THEN MaxData ELSE MaxReply)
  /\ net' = net \cup {Segment(i, {"ack"}, conn[i].nxt, conn[i].rcv, <<<<i, conn[i].sent + 1>>>>)}
  /\ conn' = [conn EXCEPT ![i].nxt = Wrap(@ + 1), ![i].sent = @ + 1]
  /\ UNCHANGED <<table, App>>

\* close(): the state is loaded; send_fin() builds its segment and advances nxt.
CloseStart(i) ==
  /\ InUse(i) /\ closing[i].at = "no"
  /\ \/ /\ conn[i].state = "SynSent"
        /\ closing' = [closing EXCEPT ![i] = [at |-> "store", state |-> "SynSent", fin |-> NoSegment]]
        /\ UNCHANGED conn
     \/ /\ conn[i].state \in {"Established", "CloseWait"}
        /\ closing' = [closing EXCEPT ![i] =
             [at |-> "fin", state |-> "",
              fin |-> Segment(i, {"fin", "ack"}, conn[i].nxt, conn[i].rcv, <<>>)]]
        /\ conn' = [conn EXCEPT ![i].nxt = Wrap(@ + 1)]
  /\ UNCHANGED <<connecting, table, queue, accepted, polled, net, dups>>

\* send_fin(): the state is loaded again.
CloseLoad(i) ==
  /\ closing[i].at = "fin"
  /\ closing' = [closing EXCEPT ![i].at = "store", ![i].state = conn[i].state]
  /\ UNCHANGED <<connecting, conn, table, queue, accepted, polled, net, dups>>

AfterClose(i) ==
  CASE closing[i].state = "SynSent"     -> "Closed"
    [] closing[i].state = "Established" -> "FinWait1"
    [] closing[i].state = "CloseWait"   -> "LastAck"
    [] OTHER                            -> conn[i].state

\* The next state is stored, the FIN is sent.
CloseStore(i) ==
  /\ closing[i].at = "store"
  /\ conn' = [conn EXCEPT ![i].state = AfterClose(i)]
  /\ net' = net \cup ({closing[i].fin} \ {NoSegment})
  /\ closing' = [closing EXCEPT ![i] = [NotClosing EXCEPT !.at = "done"]]
  /\ UNCHANGED <<connecting, table, queue, accepted, polled, dups>>

-----------------------------------------------------------------------------
\* find_connection: the first one in the table; all match.
find_connection(h) ==
  {i \in table : HostOf(i) = h /\ \A j \in table : HostOf(j) = h => i <= j}

\* A segment is taken from the network, which may keep a copy, and the replies
\* are put there.
Take(m, replies) ==
  \/ net' = (net \ {m}) \cup replies /\ UNCHANGED dups
  \/ net' = net \cup replies /\ dups < MaxDups /\ dups' = dups + 1

\* handle_tcp and handle_segment: the connection is found, its state is
\* loaded.
Receive(m) ==
  /\ polled[m.to] = NoSegment
  /\ \E i \in find_connection(m.to) :
       polled' = [polled EXCEPT ![m.to] = [conn |-> i, state |-> conn[i].state, seg |-> m]]
  /\ Take(m, {})
  /\ UNCHANGED <<connecting, conn, table, queue, accepted, closing>>

\* handle_tcp without a connection: only a SYN makes one.
IsForListener(m) ==
  "syn" \in m.flags /\ "ack" \notin m.flags /\ m.to = "server"

\* handle_syn: a new connection in the table, and a SYN-ACK.
handle_syn(m) ==
  /\ polled[m.to] = NoSegment /\ find_connection(m.to) = {}
  /\ IsForListener(m)
  /\ \E i \in Servers :
       /\ conn[i] = NewConn(i)
       /\ \A j \in Servers : j < i => conn[j] # NewConn(j)
       /\ conn' = [conn EXCEPT ![i].state = "SynReceived", ![i].nxt = Wrap(Isn(i) + 1),
                              ![i].rcv = Wrap(m.seq + 1)]
       /\ table' = table \cup {i}
       /\ Take(m, {Segment(i, {"syn", "ack"}, Isn(i), Wrap(m.seq + 1), <<>>)})
  /\ UNCHANGED <<connecting, queue, accepted, polled, closing>>

\* handle_tcp: a RST for what finds nothing, unless it is one.
Refuse(m) ==
  /\ polled[m.to] = NoSegment /\ find_connection(m.to) = {}
  /\ ~IsForListener(m)
  /\ Take(m, IF "rst" \in m.flags THEN {} ELSE {RstFor(m)})
  /\ UNCHANGED <<connecting, conn, table, queue, accepted, polled, closing>>

-----------------------------------------------------------------------------
\* What the segment that was taken does to its connection.
Acked(c, m) ==
  IF "ack" \in m.flags /\ seq_gte(m.ack, c.una) THEN [c EXCEPT !.una = m.ack] ELSE c

\* Mutated form of InOrder: whatever is not older.
NotOlder(c, m) == m.data # <<>> /\ seq_gte(m.seq, c.rcv)

InOrder(c, m) == m.data # <<>> /\ m.seq = c.rcv

\* "Handle data".
WithData(c, m) ==
  IF InOrder(c, m)
    THEN [c EXCEPT !.got = @ \o m.data, !.rcv = Wrap(@ + Len(m.data))]
    ELSE c

\* "Handle FIN", wherever in the stream it is.
WithFin(c, state) ==
  [c EXCEPT !.rcv = Wrap(@ + 1), !.state = state, !.fin = TRUE]

HasFlags(m, fs) == fs \subseteq m.flags

\* The arms of handle_segment: the connection after the segment.
Handled(c, loaded, m) ==
  LET a == Acked(c, m)
      d == Acked(WithData(c, m), m)
  IN
  CASE HasFlags(m, {"rst"}) -> [c EXCEPT !.state = "Closed"]
    [] ~HasFlags(m, {"rst"}) ->
       CASE loaded = "SynSent" /\ HasFlags(m, {"syn", "ack"}) ->
              [a EXCEPT !.rcv = Wrap(m.seq + 1), !.state = "Established", !.peer = m.from]
         [] loaded = "SynReceived" /\ HasFlags(m, {"ack"}) -> [a EXCEPT !.state = "Established"]
         [] loaded = "Established" ->
              IF HasFlags(m, {"fin"}) THEN WithFin(d, "CloseWait") ELSE d
         [] loaded = "FinWait1" /\ HasFlags(m, {"ack"}) ->
              IF HasFlags(m, {"fin"}) THEN WithFin(a, "TimeWait") ELSE [a EXCEPT !.state = "FinWait2"]
         [] loaded = "FinWait1" /\ m.flags \cap {"fin", "ack"} = {"fin"} -> WithFin(c, "Closing")
         [] loaded = "FinWait2" /\ HasFlags(m, {"fin"}) -> WithFin(c, "TimeWait")
         [] loaded = "Closing" /\ HasFlags(m, {"ack"}) -> [c EXCEPT !.state = "TimeWait"]
         [] loaded = "LastAck" /\ HasFlags(m, {"ack"}) -> [c EXCEPT !.state = "Closed"]
         [] loaded = "CloseWait" -> a
         [] OTHER -> c

\* Those that answer with an ACK.
Answers(loaded, m) ==
  /\ "rst" \notin m.flags
  /\ \/ loaded = "SynSent" /\ HasFlags(m, {"syn", "ack"})
     \/ loaded = "Established" /\ (HasFlags(m, {"fin"}) \/ m.data # <<>>)
     \/ loaded \in {"FinWait1", "FinWait2"} /\ HasFlags(m, {"fin"})

\* Mutated form of Queues: every ACK hands the connection to the listener.
QueuesAlways(i, loaded, m) ==
  loaded \in {"SynReceived", "Established"} /\ HasFlags(m, {"ack"}) /\ "rst" \notin m.flags /\ i # 0

\* "Notify parent listener".
Queues(i, loaded, m) ==
  loaded = "SynReceived" /\ HasFlags(m, {"ack"}) /\ "rst" \notin m.flags /\ i # 0

\* handle_segment: acts on the state that was loaded.
Handle(h) ==
  /\ polled[h] # NoSegment
  /\ LET i == polled[h].conn
         m == polled[h].seg
         s == polled[h].state
         c == Handled(conn[i], s, m)
     IN  /\ conn' = [conn EXCEPT ![i] = c]
         /\ net' = IF Answers(s, m) THEN net \cup {AckOf(i, c)} ELSE net
         /\ queue' = IF Queues(i, s, m) THEN Append(queue, i) ELSE queue
  /\ polled' = [polled EXCEPT ![h] = NoSegment]
  /\ UNCHANGED <<connecting, table, accepted, closing, dups>>

-----------------------------------------------------------------------------
\* The states that end by themselves.
Expires(state) == state \in {"SynSent", "SynReceived", "TimeWait", "Closed"}

\* timer_tick, in the poll thread: a connection in such a state to which no
\* segment has come for long enough.  All with its endpoint are removed.
timer_tick(i) ==
  /\ i \in table /\ polled[HostOf(i)] = NoSegment
  /\ Expires(conn[i].state)
  /\ conn' = [conn EXCEPT ![i].state = "Closed"]
  /\ table' = {j \in table : HostOf(j) # HostOf(i)}
  /\ UNCHANGED <<App, net>>

Application ==
  \/ connect \/ send_syn \/ accept
  \/ \E i \in Conns : send_data(i) \/ CloseStart(i) \/ CloseLoad(i) \/ CloseStore(i)

Poll ==
  \/ \E m \in net : Receive(m) \/ handle_syn(m) \/ Refuse(m)
  \/ \E h \in Hosts : Handle(h)
  \/ \E i \in Conns : timer_tick(i)

Next == Application \/ Poll

Spec == Init /\ [][Next]_vars

-----------------------------------------------------------------------------
\* The bytes that connection i has sent, in order.
Stream(i) == [k \in 1 .. conn[i].sent |-> <<i, k>>]

(***************************************************************************)
(* Through loss, duplication and reordering, half-open connections that    *)
(* the server forgot and wrapped sequence numbers, the bytes received are  *)
(* the first bytes of the peer's stream.                                   *)
(***************************************************************************)
DeliversPrefix ==
  \A i \in Conns : IsPrefix(conn[i].got, Stream(conn[i].peer))

\* The bytes of the client that its una covers, while no FIN is counted in it.
AckedBytes ==
  IF conn[0].peer = 0 \/ closing[0].at # "no" THEN {}
  ELSE {<<0, k>> : k \in 1 .. Wrap(conn[0].una - Isn(0) - 1)}

(***************************************************************************)
(* What an acknowledgement covers was put into a receive buffer: old       *)
(* acknowledgements, half-open connections that were forgotten and numbers *)
(* that wrap never make a byte count as received that nobody has.          *)
(***************************************************************************)
AckedIsDelivered ==
  AckedBytes \subseteq UNION {Range(conn[i].got) : i \in Servers}

\* A connection is handed to the application once.
QueuedOnce ==
  /\ \A k, l \in 1 .. Len(queue) : queue[k] = queue[l] => k = l
  /\ \A k \in 1 .. Len(queue) : queue[k] \notin accepted

\* "FIN - No more data from sender": who has taken the peer's FIN has all of
\* the peer's bytes.
FinMeansNoMoreData ==
  \A i \in Conns : conn[i].fin => conn[i].got = Stream(conn[i].peer)
===============================================================================
