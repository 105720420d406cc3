---------------------------------- MODULE Dhcp --------------------------------
(***************************************************************************)
(* net/dhcp.rs: the client that acquires, renews and gives back a lease.   *)
(* Its timer and the packets it is handed change one state; each runs to   *)
(* its end as one step.  The server, external, answers every message with  *)
(* the transaction id it came with; the network loses nothing and every    *)
(* answer is there before the client's next timeout.                       *)
(***************************************************************************)
EXTENDS Integers

CONSTANT XidMod      \* transaction ids before they wrap, two or more; 2^32 in the code

VARIABLES
  state,      \* DhcpState
  xid,        \* the transaction id the next message takes
  lease,      \* how far the lease has come: "none", "new", "t1", "t2", "expired"
  pending,    \* there is a pending_offer
  retries,
  late,       \* last_send is longer ago than the timeout of the state
  stuck,      \* the timer waits for the lock of the lease, which it holds
  net         \* the messages on their way

vars == <<state, xid, lease, pending, retries, late, stuck, net>>

Init ==
  /\ state = "Init" /\ xid \in 0 .. XidMod - 1 /\ lease = "none"
  /\ pending = FALSE /\ retries = 0 /\ late = FALSE /\ stuck = FALSE
  /\ net = {}

\* fetch_add returns the old value.
FetchAddXid == xid' = (xid + 1) % XidMod

Send(type, id) == net' = net \cup {[to |-> "server", type |-> type, xid |-> id]}

\* discover(): the message carries the id before the increment.
discover ==
  /\ Send("DISCOVER", xid) /\ FetchAddXid
  /\ state' = "Selecting" /\ retries' = 0 /\ late' = FALSE

\* request(): the message carries the current id.
request ==
  /\ Send("REQUEST", xid) /\ UNCHANGED xid
  /\ state' = "Requesting" /\ late' = FALSE

\* renew(), which does nothing without a lease.
renew ==
  /\ lease # "none"
  /\ Send("RENEW", xid) /\ FetchAddXid
  /\ state' = "Renewing" /\ late' = FALSE

\* release(), by the user.
release ==
  /\ lease # "none" /\ ~stuck
  /\ Send("RELEASE", xid) /\ FetchAddXid
  /\ lease' = "none" /\ state' = "Init"
  /\ UNCHANGED <<pending, retries, late, stuck>>

-----------------------------------------------------------------------------
\* "Verify XID matches".
XidMatches(m) == m.xid = xid

Expects(m) ==
  \/ state = "Selecting" /\ m.type = "OFFER"
  \/ state \in {"Requesting", "Renewing", "Rebinding"} /\ m.type \in {"ACK", "NAK"}

Arrives(m) == m \in net /\ m.to = "client"

handle_offer(m) ==
  /\ Arrives(m) /\ XidMatches(m) /\ Expects(m) /\ m.type = "OFFER"
  /\ pending' = TRUE
  /\ state' = "Requesting" /\ late' = FALSE
  /\ net' = (net \ {m}) \cup {[to |-> "server", type |-> "REQUEST", xid |-> xid]}
  /\ UNCHANGED <<xid, lease, retries, stuck>>

handle_ack(m) ==
  /\ Arrives(m) /\ XidMatches(m) /\ Expects(m) /\ m.type = "ACK"
  /\ lease' = "new" /\ pending' = FALSE /\ state' = "Bound" /\ retries' = 0
  /\ net' = net \ {m}
  /\ UNCHANGED <<xid, late, stuck>>

\* Discovery starts again.
handle_nak(m) ==
  /\ Arrives(m) /\ XidMatches(m) /\ Expects(m) /\ m.type = "NAK"
  /\ pending' = FALSE /\ lease' = "none"
  /\ state' = "Selecting" /\ retries' = 0 /\ late' = FALSE /\ FetchAddXid
  /\ net' = (net \ {m}) \cup {[to |-> "server", type |-> "DISCOVER", xid |-> xid]}
  /\ UNCHANGED stuck

\* handle_message: what does not match or is not expected is dropped.
Drop(m) ==
  /\ Arrives(m) /\ ~(XidMatches(m) /\ Expects(m))
  /\ net' = net \ {m}
  /\ UNCHANGED <<state, xid, lease, pending, retries, late, stuck>>

handle_message(m) == handle_offer(m) \/ handle_ack(m) \/ handle_nak(m) \/ Drop(m)

-----------------------------------------------------------------------------
GiveUp ==
  /\ state' = "Init" /\ retries' = 0
  /\ UNCHANGED <<xid, late, net>>

\* Four retries of a request; a repeated discovery starts to count again.
Retry ==
  IF retries >= 4 THEN GiveUp
  ELSE IF state = "Selecting" THEN discover
  ELSE /\ retries' = retries + 1
       /\ IF pending THEN request ELSE UNCHANGED <<state, xid, late, net>>

\* timer_tick().  A lease that expired is cleared under the guard that reads it.
timer_tick ==
  /\ ~stuck
  /\ \/ state = "Init" /\ discover /\ UNCHANGED <<lease, stuck>>
     \/ state \in {"Selecting", "Requesting"} /\ late /\ Retry /\ UNCHANGED <<lease, stuck>>
     \/ state = "Bound" /\ lease \in {"t2", "expired"} /\ discover /\ UNCHANGED <<lease, stuck>>
     \/ state = "Bound" /\ lease = "t1" /\ renew /\ UNCHANGED <<lease, retries, stuck>>
     \/ state = "Renewing" /\ late /\ state' = "Rebinding"
        /\ UNCHANGED <<xid, lease, retries, late, stuck, net>>
     \/ state = "Rebinding" /\ lease = "expired" /\ stuck' = TRUE
        /\ UNCHANGED <<state, xid, lease, retries, late, net>>
  /\ UNCHANGED pending

-----------------------------------------------------------------------------
\* The server: an offer for a DISCOVER, an ACK or a NAK for a REQUEST.
Serve(m) ==
  /\ m \in net /\ m.to = "server"
  /\ \E type \in CASE m.type = "DISCOVER" -> {"OFFER"}
                   [] m.type \in {"REQUEST", "RENEW"} -> {"ACK", "NAK"}
                   [] m.type = "RELEASE" -> {"none"} :
       net' = (net \ {m}) \cup
              (IF type = "none" THEN {} ELSE {[to |-> "client", type |-> type, xid |-> m.xid]})
  /\ UNCHANGED <<state, xid, lease, pending, retries, late, stuck>>

\* A timeout is longer than an answer takes.
Timeout ==
  /\ ~late /\ net = {}
  /\ late' = TRUE
  /\ UNCHANGED <<state, xid, lease, pending, retries, stuck, net>>

LeaseAges ==
  /\ lease \in {"new", "t1", "t2"}
  /\ lease' = CASE lease = "new" -> "t1" [] lease = "t1" -> "t2" [] lease = "t2" -> "expired"
  /\ UNCHANGED <<state, xid, pending, retries, late, stuck, net>>

Next ==
  \/ \E m \in net : handle_message(m) \/ Serve(m)
  \/ timer_tick \/ release \/ Timeout \/ LeaseAges

Spec == Init /\ [][Next]_vars

\* The server answers, answers are handed to the client, the timer ticks.
Fairness ==
  /\ WF_vars(\E m \in net : handle_message(m))
  /\ WF_vars(\E m \in net : Serve(m))
  /\ WF_vars(timer_tick) /\ WF_vars(Timeout)

FairSpec == Spec /\ Fairness

(***************************************************************************)
(* "IP address acquisition via DORA (Discover, Offer, Request, Ack)": an   *)
(* offer to a client that waits for one makes it request the address.      *)
(***************************************************************************)
OfferIsTaken == state = "Selecting" ~> state \in {"Requesting", "Bound"}
===============================================================================
