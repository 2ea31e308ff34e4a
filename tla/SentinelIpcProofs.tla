-------------------------- MODULE SentinelIpcProofs --------------------------
(***************************************************************************)
(* The registration channel for any number of servers, any queue size, any *)
(* device and any traffic: one descriptor is outstanding per queue across  *)
(* wrap-around, every reply reaches the client once and in the order of    *)
(* writing, and each server answers in the order of the requests.          *)
(***************************************************************************)
EXTENDS SentinelIpc, TLAPS

(***************************************************************************)
(* The inductive invariant.  A queue is armed (the device has the          *)
(* descriptor), returned (used, not yet seen by the driver) or drained;    *)
(* which of these is possible depends on where the lock's holder is.  A    *)
(* request that arrived is in exactly one place: unread in the buffer,     *)
(* with one server, answered, or dropped.  An unread one is newer than all *)
(* the others, so what a server takes up is newer than what it answered.   *)
(***************************************************************************)
Idx == 0 .. IdxMod - 1
Message == [id : Nat, method : {"register", "observe"}]
Queue(S) == [avail_idx : Idx, used_idx : Idx, last_used_idx : Idx,
             ring : [0 .. QUEUE_SIZE - 1 -> Nat], buffer : Seq(S)]
Call == [pc : {"poll", "copy", "rearm", "parse", "write", "wait"}, len : Nat, got : Seq(Message)]

Typed ==
  /\ CHANNEL \in BOOLEAN /\ CHANNEL_LOCK \in Server \cup {Free}
  /\ rx \in Queue(Message) /\ tx \in Queue(Nat)
  /\ srv \in [Server -> {Idle} \cup Call]
  /\ client.sent \in Nat /\ client.buf \in Seq(Nat)
  /\ client = [sent |-> client.sent, waiting |-> client.waiting, buf |-> client.buf]
  /\ socket \in Seq(Message)
  /\ log = [delivered |-> log.delivered, answered |-> log.answered, by |-> log.by]
  /\ log.delivered \in Seq(Seq(Message)) /\ log.answered \in Seq(Nat)
  /\ log.by \in Seq(Server) /\ Len(log.by) = Len(log.answered)

Succ(x) == (x + 1) % IdxMod
Armed(q) == q.avail_idx = Succ(q.used_idx) /\ q.last_used_idx = q.used_idx
Returned(q) == q.avail_idx = q.used_idx /\ q.used_idx = Succ(q.last_used_idx)
Drained(q) == q.avail_idx = q.used_idx /\ q.used_idx = q.last_used_idx

At(pcs) == \E s \in Server : srv[s].pc \in pcs

(* The lock is held from read_request to rearm and from write_message on.  *)
Locking ==
  \A s \in Server : /\ CHANNEL_LOCK = s <=> srv[s].pc \in {"poll", "copy", "rearm", "wait"}
                    /\ srv[s] # Idle => CHANNEL

Queues ==
  /\ IF ~CHANNEL \/ At({"copy", "rearm"}) THEN Drained(rx) ELSE Armed(rx) \/ Returned(rx)
  /\ IF At({"wait"}) THEN Armed(tx) \/ Returned(tx) ELSE Drained(tx)

(* The messages are numbered; those not on the socket any more have been   *)
(* handed to the device's driver.                                          *)
Taken == client.sent - Len(socket)

Numbered ==
  /\ Len(socket) <= client.sent
  /\ \A i \in 1 .. Len(socket) : socket[i].id = Taken + i

Arrived(m) == \E j \in DOMAIN log.delivered : Head(log.delivered[j]) = m
Open(m) == Arrived(m) /\ m.id <= Taken /\ \A i \in DOMAIN log.answered : log.answered[i] # m.id

Unread == used_ready(rx) \/ At({"copy"})
Pending(s) == srv[s].pc \in {"rearm", "parse", "write"} /\ srv[s].got # <<>>
Request(s) == Head(srv[s].got)

Requests ==
  /\ Unread => rx.buffer # <<>> /\ Open(Head(rx.buffer))
  /\ \A s \in Server :
       /\ srv[s].pc = "write" => srv[s].got # <<>> /\ Request(s).method = "register"
       /\ Pending(s) => Open(Request(s)) /\ (Unread => Request(s).id # Head(rx.buffer).id)
  /\ \A s, u \in Server : Pending(s) /\ Pending(u) /\ s # u => Request(s).id # Request(u).id

Ordered ==
  /\ Unread => /\ \A i \in DOMAIN log.answered : log.answered[i] < Head(rx.buffer).id
               /\ \A s \in Server : Pending(s) => Request(s).id < Head(rx.buffer).id
  /\ \A s \in Server : Pending(s) =>
       \A i \in DOMAIN log.answered : log.by[i] = s => log.answered[i] < Request(s).id
  /\ \A i, j \in DOMAIN log.answered :
       i < j /\ log.by[i] = log.by[j] => log.answered[i] < log.answered[j]

Answers ==
  /\ \A i \in DOMAIN log.answered :
       Arrived([id |-> log.answered[i], method |-> "register"]) /\ log.answered[i] <= Taken
  /\ \A i, j \in DOMAIN log.answered : i # j => log.answered[i] # log.answered[j]

Replies ==
  IF Outstanding(tx)
  THEN tx.buffer = <<tx.buffer[1]>> /\ log.answered = Append(client.buf, tx.buffer[1])
  ELSE client.buf = log.answered

IInv == Typed /\ Locking /\ Queues /\ Numbered /\ Requests /\ Ordered /\ Answers /\ Replies

USE IpcAssumption, ServerAssumption
-----------------------------------------------------------------------------
(* Ring indices: the successor of an index is another index, one ahead of  *)
(* it also when it wraps.                                                  *)
LEMMA SuccIndex ==
  ASSUME NEW x \in Idx
  PROVE  Succ(x) \in Idx /\ Succ(x) # x /\ (Succ(x) + IdxMod - x) % IdxMod = 1
<1>1. IdxMod \in Nat /\ IdxMod > 1
  OBVIOUS
<1>2. CASE x = IdxMod - 1
  <2>1. Succ(x) = 0
    BY <1>1, <1>2 DEF Succ, Idx
  <2>2. Succ(x) + IdxMod - x = 1
    BY <2>1, <1>1, <1>2
  <2> QED BY <1>1, <1>2, <2>1, <2>2 DEF Idx
<1>3. CASE x # IdxMod - 1
  <2>1. Succ(x) = x + 1
    BY <1>1, <1>3 DEF Succ, Idx
  <2>2. Succ(x) + IdxMod - x = IdxMod + 1
    BY <2>1, <1>1, <1>3 DEF Idx
  <2>3. (IdxMod + 1) % IdxMod = 1
    BY <1>1
  <2> QED BY <1>1, <1>3, <2>1, <2>2, <2>3 DEF Idx
<1> QED BY <1>2, <1>3

(* Initially the queues are drained and nothing has been sent.             *)
LEMMA InitIInv == Init => IInv
<1> SUFFICES ASSUME Init PROVE IInv
  OBVIOUS
<1> USE DEF Init
<1>1. VirtQueue_new \in Queue(Message) /\ VirtQueue_new \in Queue(Nat) /\ Drained(VirtQueue_new)
  BY DEF VirtQueue_new, Queue, Idx, Drained
<1>2. Typed
  <2>1. client.sent \in Nat /\ client.buf \in Seq(Nat) /\ socket \in Seq(Message)
    OBVIOUS
  <2>2. client = [sent |-> client.sent, waiting |-> client.waiting, buf |-> client.buf]
    OBVIOUS
  <2>3. log = [delivered |-> log.delivered, answered |-> log.answered, by |-> log.by]
    OBVIOUS
  <2>4. /\ log.delivered \in Seq(Seq(Message)) /\ log.answered \in Seq(Nat)
        /\ log.by \in Seq(Server) /\ Len(log.by) = Len(log.answered)
    OBVIOUS
  <2>5. srv \in [Server -> {Idle} \cup Call]
    OBVIOUS
  <2>6. CHANNEL \in BOOLEAN /\ CHANNEL_LOCK \in Server \cup {Free}
    OBVIOUS
  <2> QED BY <1>1, <2>1, <2>2, <2>3, <2>4, <2>5, <2>6 DEF Typed
<1>3. \A s \in Server : srv[s].pc = "idle" /\ srv[s] = Idle
  BY DEF Idle
<1>4. Locking
  BY <1>3 DEF Locking
<1>5. Queues
  BY <1>1, <1>3 DEF Queues, At
<1>6. Numbered /\ Answers
  BY DEF Numbered, Answers
<1>7. Requests /\ Ordered
  BY <1>1, <1>3 DEF Requests, Ordered, Unread, used_ready, At, Pending, Drained
<1>8. Replies
  BY <1>1 DEF Replies, Outstanding, Drained
<1> QED BY <1>2, <1>4, <1>5, <1>6, <1>7, <1>8 DEF IInv

-----------------------------------------------------------------------------
(* A server that is not idle is in a call, and the lock has one holder.    *)
LEMMA InCall ==
  ASSUME Typed, Locking, NEW s \in Server
  PROVE  /\ srv[s].pc # "idle" => srv[s] \in Call /\ srv[s] # Idle /\ CHANNEL
         /\ srv[s].pc \in {"poll", "copy", "rearm", "wait"} =>
              \A u \in Server \ {s} : srv[u].pc \notin {"poll", "copy", "rearm", "wait"}
<1>1. srv[s] = Idle \/ srv[s] \in Call
  BY DEF Typed
<1>2. Idle.pc = "idle"
  BY DEF Idle
<1>3. srv[s].pc # "idle" => srv[s] \in Call /\ srv[s] # Idle /\ CHANNEL
  BY <1>1, <1>2 DEF Locking
<1>4. srv[s].pc \in {"poll", "copy", "rearm", "wait"} =>
        \A u \in Server \ {s} : srv[u].pc \notin {"poll", "copy", "rearm", "wait"}
  BY DEF Locking
<1> QED BY <1>3, <1>4

(* A step that takes up no request and answers none keeps their facts.     *)
LEMMA RequestsKept ==
  ASSUME Requests, Ordered, client.sent' = client.sent, UNCHANGED <<socket, log>>,
         Unread' => Unread /\ rx'.buffer = rx.buffer,
         \A u \in Server : Pending(u)' => Pending(u) /\ Request(u)' = Request(u),
         \A u \in Server : srv'[u].pc = "write" => srv'[u].got # <<>> /\ Request(u)'.method = "register"
  PROVE  Requests' /\ Ordered'
<1>1. \A m : Open(m)' <=> Open(m)
  BY DEF Open, Arrived, Taken
<1>2. Unread' => rx'.buffer # <<>> /\ Open(Head(rx'.buffer))
  BY DEF Requests
<1>3. \A u \in Server : Pending(u)' => Open(Request(u)') /\ (Unread' => Request(u)'.id # Head(rx'.buffer).id)
  BY DEF Requests
<1>4. \A t, u \in Server : Pending(t)' /\ Pending(u)' /\ t # u => Request(t)'.id # Request(u)'.id
  BY DEF Requests
<1>5. Unread' => rx'.buffer # <<>> /\ Open(Head(rx.buffer))'
  BY <1>1, <1>2
<1>6. \A u \in Server : Pending(u)' => Open(Request(u))' /\ (Unread' => Request(u)'.id # Head(rx'.buffer).id)
  BY <1>1, <1>3
<1>7. Requests'
  BY <1>4, <1>5, <1>6 DEF Requests
<1>8. Ordered'
  BY DEF Ordered
<1> QED BY <1>7, <1>8

(* Bring-up arms the receive queue, or leaves everything alone.            *)
LEMMA InitStep == IInv /\ init => IInv'
<1> SUFFICES ASSUME IInv, init PROVE IInv'
  OBVIOUS
<1> USE DEF IInv
<1>1. /\ CHANNEL_LOCK = Free /\ ~CHANNEL /\ CHANNEL' \in BOOLEAN
      /\ rx' = IF CHANNEL' THEN submit(rx) ELSE rx
      /\ UNCHANGED <<CHANNEL_LOCK, tx, srv, client, socket, log>>
  BY DEF init
<1>2. \A s \in Server : srv[s] = Idle /\ srv[s].pc = "idle"
  BY <1>1 DEF Locking, Idle
<1>3. Drained(rx) /\ rx \in Queue(Message)
  BY <1>1 DEF Queues, Typed
<1>4. submit(rx) \in Queue(Message) /\ Armed(submit(rx)) /\ submit(rx).used_idx = rx.used_idx
      /\ submit(rx).last_used_idx = rx.last_used_idx
  BY <1>3, SuccIndex DEF submit, Queue, Armed, Drained, Succ
<1>5. Typed'
  BY <1>1, <1>4 DEF Typed
<1>6. Locking'
  BY <1>1, <1>2 DEF Locking
<1>7. Queues'
  BY <1>1, <1>2, <1>3, <1>4 DEF Queues, At, Armed, Drained
<1>8. Numbered' /\ Answers'
  BY <1>1 DEF Numbered, Answers, Taken, Arrived
<1>9. Requests' /\ Ordered'
  BY <1>1, <1>2, <1>3, <1>4 DEF Requests, Ordered, Unread, used_ready, At, Pending, Drained
<1>10. Replies'
  BY <1>1 DEF Replies, Outstanding
<1> QED BY <1>5, <1>6, <1>7, <1>8, <1>9, <1>10

(* read_request takes the lock; nothing about the requests changes.        *)
LEMMA ReadRequestStep == ASSUME NEW s \in Server PROVE IInv /\ read_request(s) => IInv'
<1> SUFFICES ASSUME IInv, read_request(s) PROVE IInv'
  OBVIOUS
<1> USE DEF IInv
<1>1. /\ srv[s] = Idle /\ CHANNEL /\ CHANNEL_LOCK = Free /\ CHANNEL_LOCK' = s
      /\ srv' = [srv EXCEPT ![s] = [pc |-> "poll", len |-> 0, got |-> <<>>]]
      /\ UNCHANGED <<CHANNEL, rx, tx, client, socket, log>>
  BY DEF read_request
<1>2. Typed'
  BY <1>1 DEF Typed, Call
<1>3. srv'[s].pc = "poll" /\ srv[s].pc = "idle" /\ srv'[s] # Idle
  BY <1>1 DEF Typed, Idle
<1>4. \A u \in Server \ {s} : srv'[u] = srv[u]
  BY <1>1 DEF Typed
<1>5. Locking'
  BY <1>1, <1>3, <1>4 DEF Locking
<1>6. \A pcs \in SUBSET {"copy", "rearm", "wait"} : At(pcs)' <=> At(pcs)
  BY <1>3, <1>4 DEF At
<1>7. Queues'
  BY <1>1, <1>6 DEF Queues, Armed, Drained, Returned
<1>8. Numbered' /\ Answers'
  BY <1>1 DEF Numbered, Answers, Taken, Arrived
<1>9. Unread' <=> Unread
  BY <1>1, <1>6 DEF Unread, used_ready
<1>10. \A u \in Server : (Pending(u)' => Pending(u) /\ u # s) /\ (srv'[u].pc = "write" => u # s)
  BY <1>3, <1>4 DEF Pending
<1>11. Requests' /\ Ordered'
  <2>1. \A u \in Server : Pending(u)' => Pending(u) /\ Request(u)' = Request(u)
    BY <1>4, <1>10 DEF Request
  <2>2. \A u \in Server : srv'[u].pc = "write" => srv'[u].got # <<>> /\ Request(u)'.method = "register"
    BY <1>4, <1>10 DEF Request, Requests
  <2> QED BY <1>1, <1>9, <2>1, <2>2, RequestsKept
<1>12. Replies'
  BY <1>1 DEF Replies, Outstanding
<1> QED BY <1>2, <1>5, <1>7, <1>8, <1>11, <1>12

(* poll_used drains the receive queue and leaves the message in the buffer. *)
LEMMA PollStep == ASSUME NEW s \in Server PROVE IInv /\ poll_used(s) => IInv'
<1> SUFFICES ASSUME IInv, poll_used(s) PROVE IInv'
  OBVIOUS
<1> USE DEF IInv
<1> DEFINE l == rx.ring[rx.last_used_idx % QUEUE_SIZE]
<1>1. /\ srv[s].pc = "poll" /\ used_ready(rx)
      /\ srv' = [srv EXCEPT ![s].pc = "copy", ![s].len = l]
      /\ rx' = [rx EXCEPT !.last_used_idx = Succ(@)]
      /\ UNCHANGED <<CHANNEL, CHANNEL_LOCK, tx, client, socket, log>>
  BY DEF poll_used, Succ
<1>2. srv[s] \in Call /\ srv[s] # Idle /\ CHANNEL
      /\ \A u \in Server \ {s} : srv[u].pc \notin {"poll", "copy", "rearm", "wait"}
  BY <1>1, InCall
<1>3. rx \in Queue(Message) /\ Returned(rx)
  <2>1. ~At({"copy", "rearm"})
    BY <1>1, <1>2 DEF At
  <2>2. ~Armed(rx)
    BY <1>1 DEF used_ready, Armed
  <2> QED BY <1>2, <2>1, <2>2 DEF Queues, Typed
<1>4. l \in Nat
  <2>1. rx.last_used_idx \in Nat /\ rx.ring \in [0 .. QUEUE_SIZE - 1 -> Nat]
    BY <1>3 DEF Queue, Idx
  <2>2. rx.last_used_idx % QUEUE_SIZE \in 0 .. QUEUE_SIZE - 1
    BY <2>1
  <2> QED BY <2>1, <2>2
<1> HIDE DEF l
<1>5. srv'[s] = [srv[s] EXCEPT !.pc = "copy", !.len = l] /\ srv'[s] \in Call /\ srv'[s].pc = "copy"
  BY <1>1, <1>2, <1>4 DEF Typed, Call
<1>6. \A u \in Server \ {s} : srv'[u] = srv[u]
  BY <1>1 DEF Typed
<1>7. rx' \in Queue(Message) /\ Drained(rx') /\ rx'.buffer = rx.buffer
  BY <1>1, <1>3, SuccIndex DEF Queue, Drained, Returned
<1>8. Typed'
  BY <1>1, <1>5, <1>7 DEF Typed
<1>9. Locking'
  BY <1>1, <1>2, <1>5, <1>6 DEF Locking
<1>10. At({"copy", "rearm"})' /\ ~At({"wait"})' /\ ~At({"wait"})
  <2>1. At({"copy", "rearm"})'
    BY <1>5 DEF At
  <2>2. ASSUME NEW u \in Server PROVE srv[u].pc # "wait" /\ srv'[u].pc # "wait"
    <3>1. CASE u = s
      BY <3>1, <1>1, <1>5
    <3>2. CASE u # s
      BY <3>2, <1>2, <1>6
    <3> QED BY <3>1, <3>2
  <2> QED BY <2>1, <2>2 DEF At
<1>11. Queues'
  BY <1>1, <1>7, <1>10 DEF Queues, Armed, Returned, Drained
<1>12. Numbered' /\ Answers'
  BY <1>1 DEF Numbered, Answers, Taken, Arrived
<1>13. Unread
  BY <1>1 DEF Unread
<1>14. \A u \in Server : (Pending(u)' => Pending(u) /\ u # s) /\ (srv'[u].pc = "write" => u # s)
  BY <1>5, <1>6 DEF Pending
<1>15. Requests' /\ Ordered'
  <2>1. \A u \in Server : Pending(u)' => Pending(u) /\ Request(u)' = Request(u)
    BY <1>6, <1>14 DEF Request
  <2>2. \A u \in Server : srv'[u].pc = "write" => srv'[u].got # <<>> /\ Request(u)'.method = "register"
    BY <1>6, <1>14 DEF Request, Requests
  <2> QED BY <1>1, <1>7, <1>13, <2>1, <2>2, RequestsKept
<1>16. Replies'
  BY <1>1 DEF Replies, Outstanding
<1> QED BY <1>8, <1>9, <1>11, <1>12, <1>15, <1>16

(* read_rx hands the first message of the buffer to this server alone.     *)
LEMMA ReadRxStep == ASSUME NEW s \in Server PROVE IInv /\ read_rx(s) => IInv'
<1> SUFFICES ASSUME IInv, read_rx(s) PROVE IInv'
  OBVIOUS
<1> USE DEF IInv
<1> DEFINE n == IF srv[s].len < Len(rx.buffer) THEN srv[s].len ELSE Len(rx.buffer)
           g == SubSeq(rx.buffer, 1, n)
<1>1. /\ srv[s].pc = "copy"
      /\ srv' = [srv EXCEPT ![s].pc = "rearm", ![s].got = g]
      /\ UNCHANGED <<CHANNEL, CHANNEL_LOCK, rx, tx, client, socket, log>>
  BY DEF read_rx
<1>2. srv[s] \in Call /\ srv[s] # Idle /\ CHANNEL
      /\ \A u \in Server \ {s} : srv[u].pc \notin {"poll", "copy", "rearm", "wait"}
  BY <1>1, InCall
<1>3. g \in Seq(Message) /\ (g # <<>> => Head(g) = Head(rx.buffer))
  <2>1. rx.buffer \in Seq(Message) /\ srv[s].len \in Nat
    BY <1>2 DEF Typed, Queue, Call
  <2>2. n \in 0 .. Len(rx.buffer)
    BY <2>1
  <2> HIDE DEF n
  <2>3. g \in Seq(Message) /\ Len(g) = n /\ \A i \in 1 .. n : g[i] = rx.buffer[i]
    BY <2>1, <2>2
  <2>4. ASSUME g # <<>> PROVE Head(g) = Head(rx.buffer)
    <3>1. n # 0 /\ Len(rx.buffer) # 0
      BY <2>1, <2>2, <2>3, <2>4
    <3>2. g[1] = rx.buffer[1]
      BY <2>2, <2>3, <3>1
    <3> QED BY <3>1, <3>2, <2>1, <2>3
  <2> QED BY <2>3, <2>4
<1> HIDE DEF g
<1>5. srv'[s] = [srv[s] EXCEPT !.pc = "rearm", !.got = g] /\ srv'[s] \in Call
      /\ srv'[s].pc = "rearm" /\ srv'[s].got = g
  BY <1>1, <1>2, <1>3 DEF Typed, Call
<1>6. \A u \in Server \ {s} : srv'[u] = srv[u]
  BY <1>1 DEF Typed
<1>8. Typed'
  BY <1>1, <1>5 DEF Typed
<1>9. Locking'
  BY <1>1, <1>2, <1>5, <1>6 DEF Locking
<1>10. /\ At({"copy", "rearm"}) /\ At({"copy", "rearm"})' /\ At({"copy"}) /\ ~At({"copy"})'
       /\ ~At({"wait"}) /\ ~At({"wait"})'
  <2>1. At({"copy", "rearm"})' /\ At({"copy", "rearm"}) /\ At({"copy"})
    BY <1>1, <1>5 DEF At
  <2>2. ASSUME NEW u \in Server PROVE srv[u].pc # "wait" /\ srv'[u].pc \notin {"wait", "copy"}
    <3>1. CASE u = s
      BY <3>1, <1>1, <1>5
    <3>2. CASE u # s
      BY <3>2, <1>2, <1>6
    <3> QED BY <3>1, <3>2
  <2> QED BY <2>1, <2>2 DEF At
<1>11. Queues'
  BY <1>1, <1>10 DEF Queues, Armed, Returned, Drained
<1>12. Numbered' /\ Answers'
  BY <1>1 DEF Numbered, Answers, Taken, Arrived
<1>13. Unread /\ ~Unread'
  BY <1>1, <1>10 DEF Unread, Queues, used_ready, Drained
<1>14. \A u \in Server : Pending(u)' =>
         \/ u # s /\ Pending(u) /\ Request(u)' = Request(u)
         \/ u = s /\ Request(u)' = Head(rx.buffer)
  BY <1>3, <1>5, <1>6 DEF Pending, Request
<1>15. \A u \in Server : srv'[u].pc = "write" => u # s
  BY <1>5
<1>16. Requests'
  <2>1. \A m : Open(m)' <=> Open(m)
    BY <1>1 DEF Open, Arrived, Taken
  <2>2. \A u \in Server : srv'[u].pc = "write" => srv'[u].got # <<>> /\ Request(u)'.method = "register"
    BY <1>6, <1>15 DEF Request, Requests
  <2>3. \A u \in Server : Pending(u)' => Open(Request(u)')
    BY <1>13, <1>14 DEF Requests
  <2>4. \A u \in Server : Pending(u)' => Open(Request(u))'
    BY <2>1, <2>3
  <2>5. \A t, u \in Server : Pending(t)' /\ Pending(u)' /\ t # u => Request(t)'.id # Request(u)'.id
    BY <1>13, <1>14 DEF Requests
  <2> QED BY <1>13, <2>2, <2>4, <2>5 DEF Requests
<1>17. Ordered'
  <2>1. \A u \in Server : Pending(u)' =>
          \A i \in DOMAIN log.answered : log.by[i] = u => log.answered[i] < Request(u)'.id
    BY <1>13, <1>14 DEF Ordered
  <2> QED BY <1>1, <1>13, <2>1 DEF Ordered
<1>18. Replies'
  BY <1>1 DEF Replies, Outstanding
<1> QED BY <1>8, <1>9, <1>11, <1>12, <1>16, <1>17, <1>18

(* rearm gives the drained descriptor back to the device.                  *)
LEMMA RearmStep == ASSUME NEW s \in Server PROVE IInv /\ rearm(s) => IInv'
<1> SUFFICES ASSUME IInv, rearm(s) PROVE IInv'
  OBVIOUS
<1> USE DEF IInv
<1>1. /\ srv[s].pc = "rearm" /\ rx' = submit(rx) /\ CHANNEL_LOCK' = Free
      /\ srv' = [srv EXCEPT ![s].pc = "parse"]
      /\ UNCHANGED <<CHANNEL, tx, client, socket, log>>
  BY DEF rearm, Goto
<1>2. srv[s] \in Call /\ srv[s] # Idle /\ CHANNEL
      /\ \A u \in Server \ {s} : srv[u].pc \notin {"poll", "copy", "rearm", "wait"}
  BY <1>1, InCall
<1>3. Drained(rx) /\ rx \in Queue(Message)
  BY <1>1 DEF Queues, Typed, At
<1>4. /\ rx' \in Queue(Message) /\ Armed(rx') /\ rx'.used_idx = rx.used_idx
      /\ rx'.last_used_idx = rx.last_used_idx /\ rx'.buffer = rx.buffer
  BY <1>1, <1>3, SuccIndex DEF submit, Queue, Armed, Drained, Succ
<1>5. srv'[s] \in Call /\ srv'[s].pc = "parse" /\ srv'[s].got = srv[s].got
  BY <1>1, <1>2 DEF Typed, Call
<1>6. \A u \in Server \ {s} : srv'[u] = srv[u]
  BY <1>1 DEF Typed
<1>7. ASSUME NEW u \in Server PROVE srv'[u].pc \notin {"poll", "copy", "rearm", "wait"}
  <2>1. CASE u = s
    BY <2>1, <1>5
  <2>2. CASE u # s
    BY <2>2, <1>2, <1>6
  <2> QED BY <2>1, <2>2
<1>8. Typed'
  BY <1>1, <1>4, <1>5 DEF Typed
<1>9. Locking'
  BY <1>1, <1>2, <1>6, <1>7 DEF Locking
<1>10. ~At({"copy", "rearm"})' /\ ~At({"wait"})' /\ ~At({"copy"})'
  BY <1>7 DEF At
<1>11. ~At({"wait"})
  <2>1. \A u \in Server : srv[u].pc # "wait"
    BY <1>1, <1>2
  <2> QED BY <2>1 DEF At
<1>12. Queues'
  BY <1>1, <1>2, <1>4, <1>10, <1>11 DEF Queues, Armed, Returned, Drained
<1>13. Numbered' /\ Answers'
  BY <1>1 DEF Numbered, Answers, Taken, Arrived
<1>14. ~Unread'
  BY <1>3, <1>4, <1>10 DEF Unread, used_ready, Drained
<1>15. \A u \in Server : Pending(u)' => Pending(u) /\ Request(u)' = Request(u)
  BY <1>1, <1>5, <1>6 DEF Request, Pending
<1>16. \A u \in Server : srv'[u].pc = "write" => srv'[u].got # <<>> /\ Request(u)'.method = "register"
  BY <1>5, <1>6 DEF Request, Requests
<1>17. Requests' /\ Ordered'
  BY <1>1, <1>14, <1>15, <1>16, RequestsKept
<1>18. Replies'
  BY <1>1 DEF Replies, Outstanding
<1> QED BY <1>8, <1>9, <1>12, <1>13, <1>17, <1>18

(* Parsing either goes on to the response or drops the request.            *)
LEMMA ParseStep == ASSUME NEW s \in Server PROVE IInv /\ parse_register_request(s) => IInv'
<1> SUFFICES ASSUME IInv, parse_register_request(s) PROVE IInv'
  OBVIOUS
<1> USE DEF IInv
<1>1. /\ srv[s].pc = "parse"
      /\ IF srv[s].got # <<>> /\ Head(srv[s].got).method = "register"
         THEN srv' = [srv EXCEPT ![s].pc = "write"] ELSE srv' = [srv EXCEPT ![s] = Idle]
      /\ UNCHANGED <<CHANNEL, CHANNEL_LOCK, rx, tx, client, socket, log>>
  BY DEF parse_register_request, Goto
<1>2. srv[s] \in Call /\ srv[s] # Idle /\ CHANNEL
  BY <1>1, InCall
<1>3. \/ /\ srv'[s] \in Call /\ srv'[s].pc = "write" /\ srv'[s].got = srv[s].got
         /\ srv[s].got # <<>> /\ Head(srv[s].got).method = "register"
      \/ srv'[s] = Idle
  BY <1>1, <1>2 DEF Typed, Call
<1>4. \A u \in Server \ {s} : srv'[u] = srv[u]
  BY <1>1 DEF Typed
<1>5. srv'[s].pc \in {"write", "idle"}
  BY <1>3 DEF Idle
<1>6. Typed'
  <2>1. srv' \in [Server -> {Idle} \cup Call]
    BY <1>1, <1>3 DEF Typed
  <2> QED BY <1>1, <2>1 DEF Typed
<1>7. Locking'
  BY <1>1, <1>2, <1>4, <1>5 DEF Locking
<1>8. \A u \in Server : \A pc \in {"copy", "rearm", "wait"} : srv'[u].pc = pc <=> srv[u].pc = pc
  BY <1>1, <1>4, <1>5
<1>9. /\ At({"copy", "rearm"})' <=> At({"copy", "rearm"})
      /\ At({"wait"})' <=> At({"wait"})
      /\ At({"copy"})' <=> At({"copy"})
  BY <1>8 DEF At
<1>10. Queues'
  BY <1>1, <1>9 DEF Queues, Armed, Returned, Drained
<1>11. Numbered' /\ Answers'
  BY <1>1 DEF Numbered, Answers, Taken, Arrived
<1>12. Unread' => Unread
  BY <1>1, <1>9 DEF Unread, used_ready
<1>13. \A u \in Server : Pending(u)' => Pending(u) /\ Request(u)' = Request(u)
  BY <1>1, <1>3, <1>4, <1>5 DEF Request, Pending, Idle
<1>14. \A u \in Server : srv'[u].pc = "write" => srv'[u].got # <<>> /\ Request(u)'.method = "register"
  BY <1>3, <1>4 DEF Request, Requests, Idle
<1>15. Requests' /\ Ordered'
  BY <1>1, <1>12, <1>13, <1>14, RequestsKept
<1>16. Replies'
  BY <1>1 DEF Replies, Outstanding
<1> QED BY <1>6, <1>7, <1>10, <1>11, <1>15, <1>16

(* message_written drains the transmit queue.                              *)
LEMMA WrittenStep == ASSUME NEW s \in Server PROVE IInv /\ message_written(s) => IInv'
<1> SUFFICES ASSUME IInv, message_written(s) PROVE IInv'
  OBVIOUS
<1> USE DEF IInv
<1>1. /\ srv[s].pc = "wait" /\ used_ready(tx)
      /\ tx' = [tx EXCEPT !.last_used_idx = Succ(@)] /\ CHANNEL_LOCK' = Free
      /\ srv' = [srv EXCEPT ![s] = Idle]
      /\ UNCHANGED <<CHANNEL, rx, client, socket, log>>
  BY DEF message_written, Succ
<1>2. srv[s] \in Call /\ srv[s] # Idle /\ CHANNEL
      /\ \A u \in Server \ {s} : srv[u].pc \notin {"poll", "copy", "rearm", "wait"}
  BY <1>1, InCall
<1>3. Returned(tx) /\ tx \in Queue(Nat)
  BY <1>1 DEF Queues, Typed, At, used_ready, Armed
<1>4. tx' \in Queue(Nat) /\ Drained(tx') /\ tx'.buffer = tx.buffer
      /\ tx'.avail_idx = tx.avail_idx /\ tx'.used_idx = tx.used_idx
  BY <1>1, <1>3, SuccIndex DEF Queue, Returned, Drained
<1>5. srv'[s] = Idle /\ srv'[s].pc = "idle"
  BY <1>1 DEF Typed, Idle
<1>6. \A u \in Server \ {s} : srv'[u] = srv[u]
  BY <1>1 DEF Typed
<1>7. ASSUME NEW u \in Server PROVE srv'[u].pc \notin {"poll", "copy", "rearm", "wait"}
  <2>1. CASE u = s
    BY <2>1, <1>5
  <2>2. CASE u # s
    BY <2>2, <1>2, <1>6
  <2> QED BY <2>1, <2>2
<1>8. Typed'
  <2>1. srv' \in [Server -> {Idle} \cup Call]
    BY <1>1 DEF Typed
  <2> QED BY <1>1, <1>4, <2>1 DEF Typed
<1>9. Locking'
  BY <1>1, <1>2, <1>6, <1>7 DEF Locking
<1>10. ~At({"copy", "rearm"})' /\ ~At({"wait"})' /\ ~At({"copy"})'
  BY <1>7 DEF At
<1>11. ~At({"copy", "rearm"})
  <2>1. \A u \in Server : srv[u].pc \notin {"copy", "rearm"}
    BY <1>1, <1>2
  <2> QED BY <2>1 DEF At
<1>12. Queues'
  BY <1>1, <1>2, <1>4, <1>10, <1>11 DEF Queues, Armed, Returned, Drained
<1>13. Numbered' /\ Answers'
  BY <1>1 DEF Numbered, Answers, Taken, Arrived
<1>14. Unread' => Unread
  BY <1>1, <1>10 DEF Unread, used_ready
<1>15. \A u \in Server : Pending(u)' => Pending(u) /\ Request(u)' = Request(u)
  BY <1>5, <1>6 DEF Request, Pending
<1>16. \A u \in Server : srv'[u].pc = "write" => srv'[u].got # <<>> /\ Request(u)'.method = "register"
  BY <1>5, <1>6 DEF Request, Requests
<1>17. Requests' /\ Ordered'
  BY <1>1, <1>14, <1>15, <1>16, RequestsKept
<1>18. Replies'
  BY <1>1, <1>4 DEF Replies, Outstanding
<1> QED BY <1>8, <1>9, <1>12, <1>13, <1>17, <1>18

(* write_message answers a request that is this server's alone.            *)
LEMMA WriteStep == ASSUME NEW s \in Server PROVE IInv /\ write_message(s) => IInv'
<1> SUFFICES ASSUME IInv, write_message(s) PROVE IInv'
  OBVIOUS
<1> USE DEF IInv
<1> DEFINE r == Request(s)
           x == r.id
<1>1. /\ srv[s].pc = "write" /\ CHANNEL_LOCK = Free /\ CHANNEL_LOCK' = s
      /\ tx' = submit([tx EXCEPT !.buffer = <<x>>])
      /\ log' = [log EXCEPT !.answered = Append(@, x), !.by = Append(@, s)]
      /\ srv' = [srv EXCEPT ![s].pc = "wait"]
      /\ UNCHANGED <<CHANNEL, rx, client, socket>>
  BY DEF write_message, Goto, serialize_response, Request
<1>2. srv[s] \in Call /\ srv[s] # Idle /\ CHANNEL
  BY <1>1, InCall
<1>3. /\ srv[s].got # <<>> /\ r.method = "register" /\ Pending(s) /\ Open(r)
      /\ Unread => x # Head(rx.buffer).id
      /\ \A u \in Server \ {s} : Pending(u) => Request(u).id # x
  BY <1>1 DEF Requests, Pending
<1>4. r \in Message /\ x \in Nat /\ r = [id |-> x, method |-> "register"]
  <2>1. srv[s].got \in Seq(Message)
    BY <1>2 DEF Call
  <2>2. r \in Message
    BY <1>3, <2>1 DEF Request
  <2> QED BY <1>3, <2>2 DEF Message
<1> HIDE DEF r, x
<1>5. \A u \in Server : srv[u].pc \notin {"poll", "copy", "rearm", "wait"}
  BY <1>1 DEF Locking
<1>6. ~At({"copy", "rearm"}) /\ ~At({"wait"}) /\ ~At({"copy"})
  BY <1>5 DEF At
<1>7. Drained(tx) /\ tx \in Queue(Nat)
  BY <1>6 DEF Queues, Typed
<1>8. tx' \in Queue(Nat) /\ Armed(tx') /\ tx'.buffer = <<x>>
  <2>1. <<x>> \in Seq(Nat)
    BY <1>4
  <2>2. tx' = [tx EXCEPT !.buffer = <<x>>, !.avail_idx = Succ(tx.avail_idx)]
    BY <1>1, <1>7 DEF submit, Succ, Queue
  <2> QED BY <1>7, <2>1, <2>2, SuccIndex DEF Queue, Armed, Drained
<1>9. srv'[s] \in Call /\ srv'[s].pc = "wait"
  BY <1>1, <1>2 DEF Typed, Call
<1>10. \A u \in Server \ {s} : srv'[u] = srv[u]
  BY <1>1 DEF Typed
<1>11. log'.answered = Append(log.answered, x) /\ log'.by = Append(log.by, s) /\ log'.delivered = log.delivered
       /\ log' = [delivered |-> log'.delivered, answered |-> log'.answered, by |-> log'.by]
  BY <1>1 DEF Typed
<1>12. /\ log.answered \in Seq(Nat) /\ log'.answered \in Seq(Nat)
       /\ DOMAIN log'.answered = (DOMAIN log.answered) \cup {Len(log.answered) + 1}
       /\ Len(log.answered) + 1 \notin DOMAIN log.answered
       /\ \A i \in DOMAIN log.answered : log'.answered[i] = log.answered[i]
       /\ log'.answered[Len(log.answered) + 1] = x
  <2>1. PICK a \in Seq(Nat) : a = log.answered
    BY DEF Typed
  <2>2. PICK b : b = log'.answered /\ b = Append(a, x)
    BY <1>11, <2>1
  <2>3. /\ b \in Seq(Nat) /\ DOMAIN b = (DOMAIN a) \cup {Len(a) + 1} /\ Len(a) + 1 \notin DOMAIN a
        /\ (\A i \in DOMAIN a : b[i] = a[i]) /\ b[Len(a) + 1] = x
    BY <1>4, <2>1, <2>2
  <2> QED BY <2>1, <2>2, <2>3
<1>a. /\ log'.by \in Seq(Server) /\ Len(log'.by) = Len(log'.answered)
      /\ \A i \in DOMAIN log.answered : log'.by[i] = log.by[i]
      /\ log'.by[Len(log.answered) + 1] = s
  BY <1>4, <1>11 DEF Typed
<1>13. Typed'
  BY <1>1, <1>8, <1>9, <1>11, <1>12, <1>a DEF Typed
<1>14. Locking'
  <2>1. ASSUME NEW u \in Server
        PROVE  /\ CHANNEL_LOCK' = u <=> srv'[u].pc \in {"poll", "copy", "rearm", "wait"}
               /\ srv'[u] # Idle => CHANNEL'
    <3>1. CASE u = s
      BY <3>1, <1>1, <1>2, <1>9
    <3>2. CASE u # s
      BY <3>2, <1>1, <1>2, <1>5, <1>10
    <3> QED BY <3>1, <3>2
  <2> QED BY <2>1 DEF Locking
<1>15. At({"wait"})' /\ ~At({"copy", "rearm"})' /\ ~At({"copy"})'
  <2>1. At({"wait"})'
    BY <1>9 DEF At
  <2>2. \A u \in Server : srv'[u].pc \notin {"copy", "rearm"}
    BY <1>5, <1>9, <1>10
  <2> QED BY <2>1, <2>2 DEF At
<1>16. Queues'
  <2>1. IF ~CHANNEL' \/ At({"copy", "rearm"})' THEN Drained(rx') ELSE Armed(rx') \/ Returned(rx')
    BY <1>1, <1>2, <1>6, <1>15 DEF Queues
  <2> QED BY <1>8, <1>15, <2>1 DEF Queues, Armed, Returned, Drained
<1>17. Numbered' /\ Taken' = Taken
  BY <1>1 DEF Numbered, Taken
<1>18. \A m : Arrived(m)' <=> Arrived(m)
  BY <1>11 DEF Arrived
<1>19. Answers'
  <2>1. Arrived([id |-> x, method |-> "register"]) /\ x <= Taken
        /\ \A i \in DOMAIN log.answered : log.answered[i] # x
    BY <1>3, <1>4 DEF Open, x
  <2>2. \A i \in DOMAIN log'.answered :
          Arrived([id |-> log'.answered[i], method |-> "register"]) /\ log'.answered[i] <= Taken
    BY <1>12, <2>1 DEF Answers
  <2>3. \A i \in DOMAIN log'.answered :
          Arrived([id |-> log.answered[i], method |-> "register"])' /\ log'.answered[i] <= Taken'
    BY <1>17, <1>18, <2>2
  <2>4. \A i, j \in DOMAIN log'.answered : i # j => log'.answered[i] # log'.answered[j]
    BY <1>12, <2>1 DEF Answers
  <2> QED BY <2>3, <2>4 DEF Answers
<1>20. Requests'
  <2>1. \A m : Open(m) /\ m.id # x => Open(m)'
    BY <1>12, <1>17, <1>18 DEF Open
  <2>2. Unread' => Unread
    BY <1>1, <1>6, <1>15 DEF Unread, used_ready
  <2>3. \A u \in Server : Pending(u)' => u # s /\ Pending(u) /\ Request(u)' = Request(u)
    BY <1>9, <1>10 DEF Pending, Request
  <2>4. \A u \in Server : srv'[u].pc = "write" => srv'[u].got # <<>> /\ Request(u)'.method = "register"
    BY <1>9, <1>10 DEF Request, Requests
  <2>5. Unread' => rx'.buffer # <<>> /\ Open(Head(rx.buffer))'
    <3>1. Unread => rx.buffer # <<>> /\ Open(Head(rx.buffer))
      BY DEF Requests
    <3>2. Unread => Open(Head(rx.buffer))'
      <4>1. \A m : m = Head(rx.buffer) => m = Head(rx'.buffer)
        BY <1>1
      <4> QED BY <1>1, <1>3, <2>1, <3>1
    <3> QED BY <1>1, <2>2, <3>1, <3>2
  <2>6. ASSUME NEW u \in Server, Pending(u)'
        PROVE  Open(Request(u))' /\ (Unread' => Request(u)'.id # Head(rx'.buffer).id)
    <3>1. Open(Request(u)) /\ Request(u).id # x /\ (Unread => Request(u).id # Head(rx.buffer).id)
      BY <1>3, <2>3, <2>6 DEF Requests
    <3> QED BY <1>1, <2>1, <2>2, <2>3, <2>6, <3>1
  <2>7. \A t, u \in Server : Pending(t)' /\ Pending(u)' /\ t # u => Request(t)'.id # Request(u)'.id
    BY <2>3 DEF Requests
  <2> QED BY <2>4, <2>5, <2>6, <2>7 DEF Requests
<1>21. Replies'
  <2>1. client.buf = log.answered
    BY <1>7 DEF Replies, Outstanding, Drained
  <2>2. Outstanding(tx')
    BY <1>8, SuccIndex DEF Outstanding, Armed, Queue
  <2>3. tx'.buffer[1] = x
    BY <1>8
  <2> QED BY <1>1, <1>8, <1>11, <2>1, <2>2, <2>3 DEF Replies, Outstanding
<1>22. Ordered'
  <2>1. Unread' => Unread
    BY <1>1, <1>6, <1>15 DEF Unread, used_ready
  <2>2. \A u \in Server : Pending(u)' => u # s /\ Pending(u) /\ Request(u)' = Request(u)
    BY <1>9, <1>10 DEF Pending, Request
  <2>3. Unread => x < Head(rx.buffer).id /\ \A i \in DOMAIN log.answered : log.answered[i] < Head(rx.buffer).id
    BY <1>3 DEF Ordered, x, r
  <2>4. \A i \in DOMAIN log.answered : log.by[i] = s => log.answered[i] < x
    BY <1>3 DEF Ordered, x, r
  <2>5. Unread' => \A i \in DOMAIN log'.answered : log'.answered[i] < Head(rx'.buffer).id
    BY <1>1, <1>12, <2>1, <2>3
  <2>6. Unread' => \A u \in Server : Pending(u)' => Request(u)'.id < Head(rx'.buffer).id
    BY <1>1, <2>1, <2>2 DEF Ordered
  <2>7. \A u \in Server : Pending(u)' =>
          \A i \in DOMAIN log'.answered : log'.by[i] = u => log'.answered[i] < Request(u)'.id
    BY <1>12, <1>a, <2>2 DEF Ordered
  <2>8. ASSUME NEW i \in DOMAIN log'.answered, NEW j \in DOMAIN log'.answered, i < j, log'.by[i] = log'.by[j]
        PROVE  log'.answered[i] < log'.answered[j]
    <3>1. i \in DOMAIN log.answered
      BY <1>12, <2>8 DEF Typed
    <3>2. CASE j \in DOMAIN log.answered
      BY <1>12, <1>a, <2>8, <3>1, <3>2 DEF Ordered
    <3>3. CASE j = Len(log.answered) + 1
      BY <1>12, <1>a, <2>4, <2>8, <3>1, <3>3
    <3> QED BY <1>12, <3>2, <3>3
  <2> QED BY <2>5, <2>6, <2>7, <2>8 DEF Ordered
<1> QED BY <1>13, <1>14, <1>16, <1>17, <1>19, <1>20, <1>21, <1>22

-----------------------------------------------------------------------------
(* The device delivers into an armed queue only: what it puts in the       *)
(* buffer is newer than every request seen so far.                         *)
LEMMA DeliverStep == IInv /\ Deliver => IInv'
<1> SUFFICES ASSUME IInv, Deliver PROVE IInv'
  OBVIOUS
<1> USE DEF IInv
<1>0. PICK k \in 1 .. Len(socket) :
        /\ rx' = [Use(rx, k) EXCEPT !.buffer = SubSeq(socket, 1, k) \o SubSeq(@, k + 1, Len(@))]
        /\ socket' = SubSeq(socket, k + 1, Len(socket))
        /\ log' = [log EXCEPT !.delivered = Append(@, SubSeq(socket, 1, k))]
  BY DEF Deliver
<1>1. /\ CHANNEL /\ Outstanding(rx) /\ socket # <<>>
      /\ UNCHANGED <<CHANNEL, CHANNEL_LOCK, tx, srv, client>>
  BY DEF Deliver
<1>2. rx \in Queue(Message) /\ Armed(rx) /\ ~At({"copy", "rearm"})
  BY <1>1 DEF Queues, Typed, Outstanding, Drained, Returned
<1>3. ~Unread /\ ~At({"copy"})
  <2>1. ~At({"copy"})
    BY <1>2 DEF At
  <2> QED BY <1>2, <2>1 DEF Unread, used_ready, Armed
<1> DEFINE got == SubSeq(socket, 1, k)
           kept == SubSeq(rx.buffer, k + 1, Len(rx.buffer))
<1>4. k \in Nat /\ k >= 1 /\ k <= Len(socket) /\ socket \in Seq(Message) /\ Len(socket) \in Nat
  BY DEF Typed
<1>5. got \in Seq(Message) /\ Len(got) = k /\ got[1] = socket[1] /\ got # <<>>
  BY <1>4
<1>6. kept \in Seq(Message)
  <2>1. rx.buffer \in Seq(Message)
    BY <1>2 DEF Queue
  <2> QED BY <1>4, <2>1
<1>7. /\ socket' \in Seq(Message) /\ Len(socket') = Len(socket) - k
      /\ \A i \in 1 .. Len(socket') : socket'[i] = socket[k + i]
  BY <1>0, <1>4
<1> HIDE DEF got, kept
<1>8. got \o kept \in Seq(Message) /\ got \o kept # <<>> /\ Head(got \o kept) = socket[1] /\ Head(got) = socket[1]
  <2>1. got \o kept \in Seq(Message) /\ Len(got \o kept) = k + Len(kept) /\ (got \o kept)[1] = got[1]
    BY <1>4, <1>5, <1>6, SMTT(20)
  <2>2. Len(got \o kept) # 0
    BY <1>4, <1>6, <2>1
  <2> QED BY <1>5, <2>1, <2>2
<1>9. /\ rx' \in Queue(Message) /\ Returned(rx') /\ rx'.buffer = got \o kept
  <2>1. rx' = [rx EXCEPT !.ring = [rx.ring EXCEPT ![rx.used_idx % DeviceSize] = k],
                         !.used_idx = Succ(rx.used_idx), !.buffer = got \o kept]
    BY <1>0, <1>2 DEF Use, Succ, Queue, got, kept
  <2>2. [rx.ring EXCEPT ![rx.used_idx % DeviceSize] = k] \in [0 .. QUEUE_SIZE - 1 -> Nat]
    BY <1>2, <1>4 DEF Queue
  <2> QED BY <1>2, <1>8, <2>1, <2>2, SuccIndex DEF Queue, Armed, Returned
<1>10. /\ log'.answered = log.answered /\ log'.by = log.by /\ log'.delivered = Append(log.delivered, got)
       /\ log' = [delivered |-> log'.delivered, answered |-> log'.answered, by |-> log'.by]
  BY <1>0 DEF Typed, got
<1>11. /\ log'.delivered \in Seq(Seq(Message))
       /\ \A j \in DOMAIN log.delivered : j \in DOMAIN log'.delivered /\ log'.delivered[j] = log.delivered[j]
       /\ Len(log.delivered) + 1 \in DOMAIN log'.delivered
       /\ log'.delivered[Len(log.delivered) + 1] = got
  <2>1. log.delivered \in Seq(Seq(Message))
    BY DEF Typed
  <2>2. PICK seen \in Seq(Seq(Message)) : seen = log.delivered
    BY <2>1
  <2>3. /\ Append(seen, got) \in Seq(Seq(Message)) /\ Len(Append(seen, got)) = Len(seen) + 1
        /\ \A j \in 1 .. Len(seen) : Append(seen, got)[j] = seen[j]
        /\ Append(seen, got)[Len(seen) + 1] = got
    BY <1>5, <2>2
  <2>4. PICK out : out = log'.delivered /\ out = Append(seen, got)
    BY <1>10, <2>2
  <2>5. out \in Seq(Seq(Message)) /\ DOMAIN out = 1 .. Len(seen) + 1
    BY <2>3, <2>4
  <2>6. out[Len(seen) + 1] = got /\ \A j \in 1 .. Len(seen) : out[j] = seen[j]
    BY <2>3, <2>4
  <2>7. DOMAIN seen = 1 .. Len(seen) /\ Len(seen) \in Nat
    BY <2>2
  <2>8. Len(seen) + 1 \in DOMAIN out /\ \A j \in DOMAIN seen : j \in DOMAIN out /\ out[j] = seen[j]
    BY <2>5, <2>6, <2>7
  <2> QED BY <2>2, <2>4, <2>5, <2>6, <2>8
<1>12. Typed'
  BY <1>1, <1>7, <1>9, <1>10, <1>11 DEF Typed
<1>13. Locking'
  BY <1>1 DEF Locking
<1>14. Queues'
  BY <1>1, <1>2, <1>9 DEF Queues, At, Armed, Returned, Drained
<1>15. client.sent \in Nat /\ Len(socket) <= client.sent /\ Taken \in Nat /\ Taken' = Taken + k
  BY <1>1, <1>4, <1>7 DEF Numbered, Taken, Typed
<1>16. Numbered'
  <2>1. ASSUME NEW i \in 1 .. Len(socket') PROVE socket'[i].id = Taken' + i
    <3>1. k + i \in 1 .. Len(socket) /\ socket'[i] = socket[k + i]
      BY <1>4, <1>7
    <3>2. socket[k + i].id = Taken + (k + i)
      BY <3>1 DEF Numbered
    <3> QED BY <1>4, <1>7, <1>15, <3>1, <3>2
  <2> QED BY <1>1, <1>4, <1>7, <1>15, <2>1 DEF Numbered
<1>17. \A m : Arrived(m) => Arrived(m)'
  BY <1>11 DEF Arrived
<1>a. \A i \in DOMAIN log.answered : log.answered[i] \in Nat
  BY DEF Typed
<1>b. \A i \in DOMAIN log.answered : log.answered[i] <= Taken
  BY DEF Answers
<1>18. Answers'
  <2>2. \A i \in DOMAIN log.answered : log.answered[i] <= Taken'
    BY <1>4, <1>15, <1>a, <1>b
  <2>3. \A i \in DOMAIN log.answered : Arrived([id |-> log.answered[i], method |-> "register"])'
    <3>1. \A i \in DOMAIN log.answered : Arrived([id |-> log.answered[i], method |-> "register"])
      BY DEF Answers
    <3> QED BY <1>10, <1>17, <3>1
  <2> QED BY <1>10, <2>2, <2>3 DEF Answers
<1>19. socket[1] \in Message /\ socket[1].id = Taken + 1
  BY <1>4 DEF Numbered
<1>20. Requests' /\ Ordered'
  <2>1. \A m : Open(m) /\ m.id \in Nat => Open(m)'
    BY <1>4, <1>10, <1>15, <1>17 DEF Open
  <2>2. Open(Head(rx.buffer))'
    <3>1. Head(rx'.buffer) = socket[1]
      BY <1>8, <1>9
    <3>2. \E j \in DOMAIN log'.delivered : Head(log'.delivered[j]) = socket[1]
      BY <1>8, <1>11
    <3>3. socket[1].id <= Taken'
      BY <1>4, <1>15, <1>19
    <3>4. \A i \in DOMAIN log'.answered : log'.answered[i] # socket[1].id
      BY <1>10, <1>15, <1>19, <1>a, <1>b
    <3> QED BY <3>1, <3>2, <3>3, <3>4 DEF Open, Arrived
  <2>3. \A u \in Server : (Pending(u)' <=> Pending(u)) /\ Request(u)' = Request(u)
    BY <1>1 DEF Pending, Request
  <2>4. ASSUME NEW u \in Server, Pending(u)'
        PROVE  Open(Request(u))' /\ Request(u)'.id # Head(rx'.buffer).id /\ Request(u)'.id < Head(rx'.buffer).id
    <3>1. Open(Request(u))
      BY <2>3, <2>4 DEF Requests
    <3>2. Request(u).id \in Nat
      <4>1. srv[u] \in Call
        BY <2>3, <2>4, InCall DEF Pending
      <4>2. srv[u].got \in Seq(Message) /\ srv[u].got # <<>>
        BY <2>3, <2>4, <4>1 DEF Pending, Call
      <4>3. Request(u) \in Message
        BY <4>2 DEF Request
      <4> QED BY <4>3 DEF Message
    <3>3. Request(u).id <= Taken
      BY <3>1 DEF Open
    <3>4. Request(u).id # socket[1].id /\ Request(u).id < socket[1].id
      BY <1>15, <1>19, <3>2, <3>3
    <3>5. Head(rx'.buffer) = socket[1]
      BY <1>8, <1>9
    <3> QED BY <2>1, <2>3, <3>1, <3>2, <3>4, <3>5
  <2>5. \A u \in Server : srv'[u].pc = "write" => srv'[u].got # <<>> /\ Request(u)'.method = "register"
    BY <1>1, <2>3 DEF Requests
  <2>6. \A t, u \in Server : Pending(t)' /\ Pending(u)' /\ t # u => Request(t)'.id # Request(u)'.id
    BY <2>3 DEF Requests
  <2>7. Requests'
    BY <1>8, <1>9, <2>2, <2>4, <2>5, <2>6 DEF Requests
  <2>8. \A i \in DOMAIN log'.answered : log'.answered[i] < Head(rx'.buffer).id
    <3>1. Head(rx'.buffer).id = Taken + 1
      BY <1>8, <1>9, <1>19
    <3> QED BY <1>10, <1>15, <1>a, <1>b, <3>1
  <2>9. Ordered'
    BY <1>10, <2>3, <2>4, <2>8 DEF Ordered
  <2> QED BY <2>7, <2>9
<1>21. Replies'
  BY <1>1, <1>10 DEF Replies, Outstanding
<1> QED BY <1>12, <1>13, <1>14, <1>16, <1>18, <1>20, <1>21

(* The device takes the reply that is in the transmit buffer, once.        *)
LEMMA TransmitStep == IInv /\ Transmit => IInv'
<1> SUFFICES ASSUME IInv, Transmit PROVE IInv'
  OBVIOUS
<1> USE DEF IInv
<1>1. /\ CHANNEL /\ Outstanding(tx) /\ tx' = Use(tx, 0)
      /\ client' = [client EXCEPT !.buf = @ \o tx.buffer]
      /\ UNCHANGED <<CHANNEL, CHANNEL_LOCK, rx, srv, socket, log>>
  BY DEF Transmit
<1>2. tx \in Queue(Nat) /\ Armed(tx) /\ At({"wait"})
  BY <1>1 DEF Queues, Typed, Outstanding, Drained, Returned
<1>3. /\ tx' \in Queue(Nat) /\ Returned(tx') /\ tx'.buffer = tx.buffer
  <2>1. tx' = [tx EXCEPT !.ring = [tx.ring EXCEPT ![tx.used_idx % DeviceSize] = 0],
                         !.used_idx = Succ(tx.used_idx)]
    BY <1>1, <1>2 DEF Use, Succ, Queue
  <2>2. [tx.ring EXCEPT ![tx.used_idx % DeviceSize] = 0] \in [0 .. QUEUE_SIZE - 1 -> Nat]
    BY <1>2 DEF Queue
  <2> QED BY <1>2, <2>1, <2>2, SuccIndex DEF Queue, Armed, Returned
<1>4. tx.buffer = <<tx.buffer[1]>> /\ log.answered = Append(client.buf, tx.buffer[1])
  BY <1>1 DEF Replies
<1>5. /\ client'.sent = client.sent /\ client'.waiting = client.waiting
      /\ client'.buf = client.buf \o tx.buffer
      /\ client' = [sent |-> client'.sent, waiting |-> client'.waiting, buf |-> client'.buf]
  BY <1>1 DEF Typed
<1>6. client'.buf = log.answered
  <2> DEFINE x == tx.buffer[1]
  <2>1. x \in Nat
    <3>1. tx.buffer \in Seq(Nat) /\ tx.buffer = <<x>>
      BY <1>2, <1>4 DEF Queue
    <3>2. Len(tx.buffer) = 1
      BY <3>1
    <3> QED BY <3>1, <3>2
  <2>2. client.buf \in Seq(Nat) /\ client'.buf = client.buf \o <<x>> /\ log.answered = Append(client.buf, x)
    BY <1>4, <1>5 DEF Typed
  <2> HIDE DEF x
  <2> QED BY <2>1, <2>2
<1>7. Typed'
  BY <1>1, <1>3, <1>5, <1>6 DEF Typed
<1>8. Locking'
  BY <1>1 DEF Locking
<1>9. Queues'
  BY <1>1, <1>2, <1>3 DEF Queues, At, Armed, Returned, Drained
<1>10. Numbered' /\ Answers'
  BY <1>1, <1>5 DEF Numbered, Answers, Taken, Arrived
<1>11. Requests' /\ Ordered'
  <2>1. Unread' => Unread
    BY <1>1 DEF Unread, used_ready, At
  <2>2. \A u \in Server : Pending(u)' => Pending(u) /\ Request(u)' = Request(u)
    BY <1>1 DEF Request, Pending
  <2>3. \A u \in Server : srv'[u].pc = "write" => srv'[u].got # <<>> /\ Request(u)'.method = "register"
    BY <1>1 DEF Request, Requests
  <2> QED BY <1>1, <1>5, <2>1, <2>2, <2>3, RequestsKept
<1>12. Replies'
  BY <1>1, <1>3, <1>6 DEF Replies, Outstanding, Returned
<1> QED BY <1>7, <1>8, <1>9, <1>10, <1>11, <1>12

(* The client numbers what it sends above everything sent before.          *)
LEMMA ClientStep ==
  IInv /\ ((\E method \in {"register", "observe"} : send_json(method)) \/ recv_json) => IInv'
<1> SUFFICES ASSUME IInv, (\E method \in {"register", "observe"} : send_json(method)) \/ recv_json
             PROVE  IInv'
  OBVIOUS
<1> USE DEF IInv
<1>1. UNCHANGED <<CHANNEL, CHANNEL_LOCK, rx, tx, srv, log>>
  BY DEF send_json, recv_json
<1>2. client.sent \in Nat /\ socket \in Seq(Message) /\ Len(socket) \in Nat
  BY DEF Typed
<1>3. /\ client'.buf = client.buf /\ client'.sent \in Nat
      /\ client' = [sent |-> client'.sent, waiting |-> client'.waiting, buf |-> client'.buf]
      /\ \/ client'.sent = client.sent /\ socket' = socket
         \/ /\ client'.sent = client.sent + 1
            /\ \E m \in {"register", "observe"} : socket' = Append(socket, [id |-> client.sent + 1, method |-> m])
  <2>1. CASE recv_json
    BY <1>2, <2>1 DEF recv_json, Typed
  <2>2. ASSUME NEW m \in {"register", "observe"}, send_json(m)
        PROVE  /\ client' = [client EXCEPT !.sent = client.sent + 1, !.waiting = TRUE]
               /\ socket' = Append(socket, [id |-> client.sent + 1, method |-> m])
    BY <2>2 DEF send_json
  <2>3. ASSUME NEW m \in {"register", "observe"}, send_json(m)
        PROVE  /\ client'.buf = client.buf /\ client'.sent = client.sent + 1
               /\ client' = [sent |-> client'.sent, waiting |-> client'.waiting, buf |-> client'.buf]
    BY <2>2, <2>3 DEF Typed
  <2> QED BY <1>2, <2>1, <2>2, <2>3
<1>4. socket' \in Seq(Message) /\ Taken' = Taken /\ Numbered'
  <2>1. CASE client'.sent = client.sent /\ socket' = socket
    BY <1>2, <2>1 DEF Numbered, Taken
  <2>2. ASSUME client'.sent = client.sent + 1, NEW m \in {"register", "observe"},
               socket' = Append(socket, [id |-> client.sent + 1, method |-> m])
        PROVE  socket' \in Seq(Message) /\ Taken' = Taken /\ Numbered'
    <3> DEFINE e == [id |-> client.sent + 1, method |-> m]
    <3>1. e \in Message /\ e.id = client.sent + 1
      BY <1>2 DEF Message
    <3> HIDE DEF e
    <3>2. /\ socket' \in Seq(Message) /\ Len(socket') = Len(socket) + 1
          /\ \A i \in 1 .. Len(socket) : socket'[i] = socket[i]
          /\ socket'[Len(socket) + 1] = e
      BY <1>2, <2>2, <3>1 DEF e
    <3>3. Taken' = Taken
      <4>1. client'.sent = client.sent + 1 /\ Len(socket') = Len(socket) + 1
        BY <2>2, <3>2
      <4>2. client'.sent - Len(socket') = client.sent - Len(socket)
        BY <1>2, <4>1
      <4> QED BY <4>2 DEF Taken
    <3>4. ASSUME NEW i \in 1 .. Len(socket') PROVE socket'[i].id = Taken + i
      <4>1. CASE i \in 1 .. Len(socket)
        BY <3>2, <4>1 DEF Numbered
      <4>2. CASE i = Len(socket) + 1
        BY <1>2, <3>1, <3>2, <4>2 DEF Taken
      <4> QED BY <1>2, <3>2, <4>1, <4>2
    <3>5. Len(socket') <= client'.sent
      BY <1>2, <2>2, <3>2 DEF Numbered
    <3> QED BY <3>2, <3>3, <3>4, <3>5 DEF Numbered
  <2> QED BY <1>3, <2>1, <2>2
<1>5. Typed'
  BY <1>1, <1>3, <1>4 DEF Typed
<1>6. Locking' /\ Queues'
  BY <1>1 DEF Locking, Queues, At, Armed, Returned, Drained
<1>7. Answers'
  BY <1>1, <1>4 DEF Answers, Arrived
<1>8. \A m : Open(m)' <=> Open(m)
  BY <1>1, <1>4 DEF Open, Arrived
<1>9. Requests' /\ Ordered'
  <2>1. Unread' <=> Unread
    BY <1>1 DEF Unread, used_ready, At
  <2>2. \A u \in Server : (Pending(u)' <=> Pending(u)) /\ Request(u)' = Request(u)
    BY <1>1 DEF Pending, Request
  <2>3. Unread' => rx'.buffer # <<>> /\ Open(Head(rx.buffer))'
    BY <1>1, <1>8, <2>1 DEF Requests
  <2>4. \A u \in Server :
          Pending(u)' => Open(Request(u))' /\ (Unread' => Request(u)'.id # Head(rx'.buffer).id)
    <3>1. \A u \in Server : Pending(u) => Open(Request(u)) /\ (Unread => Request(u).id # Head(rx.buffer).id)
      BY DEF Requests
    <3> QED BY <1>1, <1>8, <2>1, <2>2, <3>1
  <2>5. \A u \in Server : srv'[u].pc = "write" => srv'[u].got # <<>> /\ Request(u)'.method = "register"
    BY <1>1, <2>2 DEF Requests
  <2>6. \A t, u \in Server : Pending(t)' /\ Pending(u)' /\ t # u => Request(t)'.id # Request(u)'.id
    BY <2>2 DEF Requests
  <2>7. Requests'
    BY <2>3, <2>4, <2>5, <2>6 DEF Requests
  <2>8. Ordered'
    BY <1>1, <2>1, <2>2 DEF Ordered
  <2> QED BY <2>7, <2>8
<1>10. Replies'
  BY <1>1, <1>3 DEF Replies, Outstanding
<1> QED BY <1>4, <1>5, <1>6, <1>7, <1>9, <1>10

-----------------------------------------------------------------------------
(* The invariant is inductive.                                             *)
LEMMA NextIInv == IInv /\ [Next]_vars => IInv'
<1> SUFFICES ASSUME IInv, [Next]_vars PROVE IInv'
  OBVIOUS
<1>1. CASE \E s \in Server : Serve(s)
  BY <1>1, ReadRequestStep, PollStep, ReadRxStep, RearmStep, ParseStep, WriteStep, WrittenStep DEF Serve
<1>2. CASE UNCHANGED vars
  <2>1. UNCHANGED <<CHANNEL, CHANNEL_LOCK, rx, tx, srv, client, socket, log>>
    BY <1>2 DEF vars
  <2>2. Typed'
    BY <2>1 DEF IInv, Typed
  <2>3. Locking'
    BY <2>1 DEF IInv, Locking
  <2>4. Queues'
    BY <2>1 DEF IInv, Queues, At, Armed, Returned, Drained
  <2>5. Numbered'
    BY <2>1 DEF IInv, Numbered, Taken
  <2>6. Requests'
    <3>1. /\ Unread' <=> Unread
          /\ \A s \in Server : (Pending(s)' <=> Pending(s)) /\ Request(s)' = Request(s)
      BY <2>1 DEF Unread, used_ready, At, Pending, Request
    <3>2. \A m : Open(m)' <=> Open(m)
      BY <2>1 DEF Open, Arrived, Taken
    <3>3. Unread => rx.buffer # <<>> /\ Open(Head(rx.buffer))'
      <4>1. PICK m : m = Head(rx.buffer) /\ m = Head(rx.buffer)'
        BY <2>1
      <4>2. Unread => rx.buffer # <<>> /\ Open(m)
        BY <4>1 DEF IInv, Requests
      <4> QED BY <3>2, <4>1, <4>2 DEF Open, Arrived, Taken
    <3>4. \A s \in Server : Pending(s) => Open(Request(s))'
      <4>1. ASSUME NEW s \in Server, Pending(s) PROVE Open(Request(s))'
        <5>1. PICK m : m = Request(s) /\ m = Request(s)'
          BY <3>1
        <5>2. Open(m)
          BY <4>1, <5>1 DEF IInv, Requests
        <5> QED BY <3>2, <5>1, <5>2 DEF Open, Arrived, Taken
      <4> QED BY <4>1
    <3> QED BY <2>1, <3>1, <3>3, <3>4 DEF IInv, Requests
  <2>7. Answers'
    BY <2>1 DEF IInv, Answers, Arrived, Taken
  <2>8. Replies'
    BY <2>1 DEF IInv, Replies, Outstanding
  <2>9. Ordered'
    <3>1. (Unread' <=> Unread) /\ \A s \in Server : (Pending(s)' <=> Pending(s)) /\ Request(s)' = Request(s)
      BY <2>1 DEF Unread, used_ready, At, Pending, Request
    <3> QED BY <2>1, <3>1 DEF IInv, Ordered
  <2> QED BY <2>2, <2>3, <2>4, <2>5, <2>6, <2>7, <2>8, <2>9 DEF IInv
<1> QED BY <1>1, <1>2, InitStep, DeliverStep, TransmitStep, ClientStep DEF Next

(* The service loop, the device and the client, however they interleave:   *)
(* neither queue ever has more than its one descriptor with the device, so *)
(* the u16 indices may wrap (OneOutstanding).                              *)
THEOREM OneDescriptor == Spec => []OneOutstanding
<1>1. IInv => OneOutstanding
  <2> SUFFICES ASSUME IInv, NEW q \in {rx, tx} PROVE (q.avail_idx + IdxMod - q.used_idx) % IdxMod <= 1
    BY DEF OneOutstanding
  <2>1. q.used_idx \in Idx /\ q.avail_idx \in Idx
    BY DEF IInv, Typed, Queue
  <2>2. Armed(q) \/ q.avail_idx = q.used_idx
    BY DEF IInv, Queues, Returned, Drained
  <2>3. CASE Armed(q)
    BY <2>1, <2>3, SuccIndex DEF Armed
  <2>4. CASE q.avail_idx = q.used_idx
    <3>1. q.avail_idx + IdxMod - q.used_idx = IdxMod
      BY <2>1, <2>4 DEF Idx
    <3>2. IdxMod % IdxMod = 0
      OBVIOUS
    <3> QED BY <3>1, <3>2
  <2> QED BY <2>2, <2>3, <2>4
<1> QED BY <1>1, InitIInv, NextIInv, PTL DEF Spec

(* No server answers what another answered, each answers in the order of   *)
(* the requests, only registrations that came first in a delivery are      *)
(* answered, and the client has every reply but possibly the one with the  *)
(* device, in the order of writing (RepliesOnceInOrder).                   *)
THEOREM RepliesExact == Spec => []RepliesOnceInOrder
<1>1. IInv => RepliesOnceInOrder
  <2> SUFFICES ASSUME IInv PROVE RepliesOnceInOrder
    OBVIOUS
  <2>1. \A i, j \in DOMAIN log.answered :
          /\ i # j => log.answered[i] # log.answered[j]
          /\ i < j /\ log.by[i] = log.by[j] => log.answered[i] < log.answered[j]
    BY DEF IInv, Answers, Ordered
  <2>2. \A i \in DOMAIN log.answered :
          \E j \in DOMAIN log.delivered : Head(log.delivered[j]) = [id |-> log.answered[i], method |-> "register"]
    BY DEF IInv, Answers, Arrived
  <2>3. ASSUME Outstanding(tx) PROVE client.buf = Front(log.answered)
    <3> DEFINE x == tx.buffer[1]
    <3>1. x \in Nat
      <4>1. tx.buffer \in Seq(Nat) /\ tx.buffer = <<x>>
        BY <2>3 DEF IInv, Typed, Queue, Replies
      <4>2. Len(tx.buffer) = 1
        BY <4>1
      <4> QED BY <4>1, <4>2
    <3>2. log.answered = Append(client.buf, x) /\ client.buf \in Seq(Nat)
      BY <2>3 DEF IInv, Replies, Typed
    <3> HIDE DEF x
    <3> QED BY <3>1, <3>2 DEF Front
  <2>4. ~Outstanding(tx) => client.buf = log.answered
    BY DEF IInv, Replies
  <2> QED BY <2>1, <2>2, <2>3, <2>4 DEF RepliesOnceInOrder
<1> QED BY <1>1, InitIInv, NextIInv, PTL DEF Spec
=============================================================================
