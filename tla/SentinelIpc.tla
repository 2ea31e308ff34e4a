----------------------------- MODULE SentinelIpc -----------------------------
(***************************************************************************)
(* The registration channel of sentinel/ipc.rs: bring-up of the virtio     *)
(* device, the two virtqueues with one descriptor each, the service path   *)
(* handle_one, and the client of examples/golem_agent.py at the other end  *)
(* of the socket.                                                          *)
(*                                                                         *)
(* A message is [id, method]; a length is a number of messages, because    *)
(* the device hands the driver whatever has arrived on the socket.  The    *)
(* u16 ring indices wrap at IdxMod, a multiple of QUEUE_SIZE as 2^16 is.   *)
(***************************************************************************)
EXTENDS Naturals, Sequences, FiniteSets, SequencesExt

CONSTANTS
  Server,        \* kernel threads calling handle_one
  QUEUE_SIZE, IdxMod,
  Devices,       \* devices that may be found: [console, version_1, accepts, max, ready]
  MaxMessages    \* how many messages the client sends

ASSUME IpcAssumption ==
  QUEUE_SIZE \in Nat \ {0} /\ IdxMod \in Nat /\ IdxMod % QUEUE_SIZE = 0 /\ IdxMod > QUEUE_SIZE

VARIABLES
  dev,           \* the device, and the status its driver has written
  CHANNEL,       \* whether the static holds an initialised channel
  CHANNEL_LOCK,  \* the holder of the spinlock
  rx, tx,        \* the queues, driver side, device side and memory together
  srv,           \* per server: where in handle_one it is
  client,        \* the client: [sent, waiting, buf], buf the replies received
  socket,        \* messages on their way to the guest
  log            \* history: [delivered, answered, by], by the server that answered

vars == <<dev, CHANNEL, CHANNEL_LOCK, rx, tx, srv, client, socket, log>>

Free == "free"
ASSUME ServerAssumption == Free \notin Server

Idle == [pc |-> "idle"]

\* QueueMem and VirtQueue: published, consumed and seen indices, the lengths
\* in the used ring, and the bounce buffer.
VirtQueue_new ==
  [avail_idx |-> 0, used_idx |-> 0, last_used_idx |-> 0,
   ring |-> [i \in 0 .. QUEUE_SIZE - 1 |-> 0], buffer |-> <<>>]

Init ==
  /\ dev \in {[d EXCEPT !.status = "reset"] : d \in Devices}
  /\ CHANNEL = FALSE /\ CHANNEL_LOCK = Free
  /\ rx = VirtQueue_new /\ tx = VirtQueue_new
  /\ srv = [s \in Server |-> Idle]
  /\ client = [sent |-> 0, waiting |-> FALSE, buf |-> <<>>]
  /\ socket = <<>>
  /\ log = [delivered |-> <<>>, answered |-> <<>>, by |-> <<>>]

TypeOK ==
  /\ CHANNEL \in BOOLEAN
  /\ CHANNEL_LOCK \in Server \cup {Free}
  /\ \A q \in {rx, tx} :
       /\ {q.avail_idx, q.used_idx, q.last_used_idx} \subseteq 0 .. IdxMod - 1
       /\ \A i \in DOMAIN q.ring : q.ring[i] \in 0 .. MaxMessages
  /\ \A s \in Server : srv[s].pc \in {"idle", "poll", "copy", "rearm", "parse", "write", "wait"}
  /\ CHANNEL => dev.status = "driver_ok"

-----------------------------------------------------------------------------
submit(q) == [q EXCEPT !.avail_idx = (@ + 1) % IdxMod]

Outstanding(q) == q.avail_idx # q.used_idx

\* Bug: the ring indices are compared as if they never wrapped.
used_ready_above(q) == q.used_idx > q.last_used_idx

\* The test that ends poll_used's loop.
used_ready(q) == q.used_idx # q.last_used_idx

\* Bring-up, the lock held throughout: the first failure is returned and
\* leaves CHANNEL empty; a second call returns at once.
init ==
  /\ CHANNEL_LOCK = Free /\ ~CHANNEL
  /\ LET negotiated == dev.console /\ dev.version_1 /\ dev.accepts
         configured == negotiated /\ dev.max > 0 /\ dev.ready
     IN  /\ dev' = [dev EXCEPT !.status = IF ~dev.console THEN @
                                          ELSE IF ~negotiated THEN "failed"
                                          ELSE IF ~configured THEN "features_ok" ELSE "driver_ok"]
         /\ CHANNEL' = configured
         /\ rx' = IF configured THEN submit(rx) ELSE rx
  /\ UNCHANGED <<CHANNEL_LOCK, tx, srv, client, socket, log>>

Goto(s, pc) == srv' = [srv EXCEPT ![s].pc = pc]

\* handle_one up to the poll loop; NotInitialised without a channel.
read_request(s) ==
  /\ srv[s] = Idle /\ CHANNEL /\ CHANNEL_LOCK = Free
  /\ CHANNEL_LOCK' = s
  /\ srv' = [srv EXCEPT ![s] = [pc |-> "poll", len |-> 0, got |-> <<>>]]
  /\ UNCHANGED <<dev, CHANNEL, rx, tx, client, socket, log>>

\* Bug: the buffer goes back to the device before it has been copied.
poll_used_rearms(s) ==
  /\ srv[s].pc = "poll" /\ used_ready(rx)
  /\ srv' = [srv EXCEPT ![s].pc = "copy", ![s].len = rx.ring[rx.last_used_idx % QUEUE_SIZE]]
  /\ rx' = submit([rx EXCEPT !.last_used_idx = (@ + 1) % IdxMod])
  /\ UNCHANGED <<dev, CHANNEL, CHANNEL_LOCK, tx, client, socket, log>>

poll_used(s) ==
  /\ srv[s].pc = "poll" /\ used_ready(rx)
  /\ srv' = [srv EXCEPT ![s].pc = "copy", ![s].len = rx.ring[rx.last_used_idx % QUEUE_SIZE]]
  /\ rx' = [rx EXCEPT !.last_used_idx = (@ + 1) % IdxMod]
  /\ UNCHANGED <<dev, CHANNEL, CHANNEL_LOCK, tx, client, socket, log>>

\* As many of the buffer's messages as the length says.
read_rx(s) ==
  /\ srv[s].pc = "copy"
  /\ LET n == IF srv[s].len < Len(rx.buffer) THEN srv[s].len ELSE Len(rx.buffer)
     IN  srv' = [srv EXCEPT ![s].pc = "rearm", ![s].got = SubSeq(rx.buffer, 1, n)]
  /\ UNCHANGED <<dev, CHANNEL, CHANNEL_LOCK, rx, tx, client, socket, log>>

rearm(s) ==
  /\ srv[s].pc = "rearm"
  /\ rx' = submit(rx)
  /\ CHANNEL_LOCK' = Free
  /\ Goto(s, "parse")
  /\ UNCHANGED <<dev, CHANNEL, tx, client, socket, log>>

\* json_string_field finds the first occurrence of a key, so of several
\* messages in the buffer the first is parsed; an error is returned to the
\* caller and nothing is written to the port.
parse_register_request(s) ==
  /\ srv[s].pc = "parse"
  /\ IF srv[s].got # <<>> /\ Head(srv[s].got).method = "register"
     THEN Goto(s, "write") ELSE srv' = [srv EXCEPT ![s] = Idle]
  /\ UNCHANGED <<dev, CHANNEL, CHANNEL_LOCK, rx, tx, client, socket, log>>

\* The response carries the id of the request, and no newline at its end.
serialize_response(req) == req.id

write_message(s) ==
  /\ srv[s].pc = "write" /\ CHANNEL_LOCK = Free
  /\ CHANNEL_LOCK' = s
  /\ LET req == Head(srv[s].got)
     IN  /\ tx' = submit([tx EXCEPT !.buffer = <<serialize_response(req)>>])
         /\ log' = [log EXCEPT !.answered = Append(@, req.id), !.by = Append(@, s)]
  /\ Goto(s, "wait")
  /\ UNCHANGED <<dev, CHANNEL, rx, client, socket>>

\* Bug: write_message returns without waiting for the device.
message_written_early(s) ==
  /\ srv[s].pc = "wait"
  /\ CHANNEL_LOCK' = Free
  /\ srv' = [srv EXCEPT ![s] = Idle]
  /\ UNCHANGED <<dev, CHANNEL, rx, tx, client, socket, log>>

\* write_message waits for the device to consume the buffer.
message_written(s) ==
  /\ srv[s].pc = "wait" /\ used_ready(tx)
  /\ tx' = [tx EXCEPT !.last_used_idx = (@ + 1) % IdxMod]
  /\ CHANNEL_LOCK' = Free
  /\ srv' = [srv EXCEPT ![s] = Idle]
  /\ UNCHANGED <<dev, CHANNEL, rx, client, socket, log>>

-----------------------------------------------------------------------------
(* The device.  It puts the k-th used element at slot k modulo the size it *)
(* was configured with, min(max, QUEUE_SIZE).                              *)

DeviceSize == IF dev.max < QUEUE_SIZE THEN dev.max ELSE QUEUE_SIZE
Use(q, len) == [q EXCEPT !.ring[q.used_idx % DeviceSize] = len, !.used_idx = (@ + 1) % IdxMod]

Deliver ==
  /\ CHANNEL /\ Outstanding(rx) /\ socket # <<>>
  /\ \E k \in 1 .. Len(socket) :
       /\ rx' = [Use(rx, k) EXCEPT !.buffer = SubSeq(socket, 1, k) \o SubSeq(@, k + 1, Len(@))]
       /\ socket' = SubSeq(socket, k + 1, Len(socket))
       /\ log' = [log EXCEPT !.delivered = Append(@, SubSeq(socket, 1, k))]
  /\ UNCHANGED <<dev, CHANNEL, CHANNEL_LOCK, tx, srv, client>>

Transmit ==
  /\ CHANNEL /\ Outstanding(tx)
  /\ tx' = Use(tx, 0)
  /\ client' = [client EXCEPT !.buf = @ \o tx.buffer]
  /\ UNCHANGED <<dev, CHANNEL, CHANNEL_LOCK, rx, srv, socket, log>>

-----------------------------------------------------------------------------
(* The client: register or observe, then recv_json.                        *)

send_json(method) ==
  /\ ~client.waiting /\ client.sent < MaxMessages
  /\ client' = [client EXCEPT !.sent = @ + 1, !.waiting = TRUE]
  /\ socket' = Append(socket, [id |-> client.sent + 1, method |-> method])
  /\ UNCHANGED <<dev, CHANNEL, CHANNEL_LOCK, rx, tx, srv, log>>

\* recv_json looks for a newline, which serialize_response does not write: it
\* waits for its timeout, and what arrived stays in _buf.
recv_json ==
  /\ client.waiting
  /\ client' = [client EXCEPT !.waiting = FALSE]
  /\ UNCHANGED <<dev, CHANNEL, CHANNEL_LOCK, rx, tx, srv, socket, log>>

Serve(s) ==
  \/ read_request(s) \/ poll_used(s) \/ read_rx(s) \/ rearm(s)
  \/ parse_register_request(s) \/ write_message(s) \/ message_written(s)

Next ==
  \/ init
  \/ \E s \in Server : Serve(s)
  \/ Deliver \/ Transmit
  \/ \E method \in {"register", "observe"} : send_json(method)
  \/ recv_json

Spec == Init /\ [][Next]_vars

\* The kernel reaches init, the service loop and the device keep running.
FairSpec == Spec /\ WF_vars(init) /\ WF_vars(Deliver) /\ WF_vars(Transmit)
                 /\ \A s \in Server : WF_vars(Serve(s))

-----------------------------------------------------------------------------
\* "We only ever keep one descriptor outstanding per queue": the driver never
\* publishes descriptor 0 again before the device has returned it, across
\* wrap-around and whichever server runs.
OneOutstanding ==
  \A q \in {rx, tx} : (q.avail_idx + IdxMod - q.used_idx) % IdxMod <= 1

\* No request is answered twice, only registrations are answered, and the
\* client receives every reply once, in the order they were written: the
\* receive buffer is not parsed again after it was re-armed, and the transmit
\* buffer is not filled again before the device has taken what it held.  A
\* caller of handle_one answers in the order of the requests, so a single
\* service loop does; one caller may overtake another between rearm and
\* write_message, where neither holds the lock.
RepliesOnceInOrder ==
  /\ \A i, j \in DOMAIN log.answered :
       /\ i # j => log.answered[i] # log.answered[j]
       /\ i < j /\ log.by[i] = log.by[j] => log.answered[i] < log.answered[j]
  /\ \A i \in DOMAIN log.answered :
       \E j \in DOMAIN log.delivered :
         Head(log.delivered[j]) = [id |-> log.answered[i], method |-> "register"]
  /\ \/ client.buf = log.answered
     \/ Outstanding(tx) /\ client.buf = Front(log.answered)

\* The caller with request n waits for CHANNEL_LOCK, which another caller
\* holds while it spins in poll_used for a message that may never come.
LockedOut(n) ==
  \E s, t \in Server :
    /\ srv[s].pc = "write" /\ Head(srv[s].got).id = n
    /\ srv[t].pc = "poll"

\* A registration that arrives first in a buffer is answered, or locked out.
\* "The Sentinel service loop" is the one caller handle_one is written for,
\* and a single caller is never locked out: it is in one place at a time.
RegistrationAnswered ==
  \A n \in 1 .. MaxMessages :
    (\E j \in DOMAIN log.delivered : Head(log.delivered[j]) = [id |-> n, method |-> "register"])
      ~> ((\E i \in DOMAIN log.answered : log.answered[i] = n) \/ LockedOut(n))
=============================================================================
