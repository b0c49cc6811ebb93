------------------------------- MODULE Session -------------------------------
(***************************************************************************)
(* The link layer of the controlled station (crates/iec104, session.rs):   *)
(* sequence numbers, the k and w windows and the timers t1, t2, t3 of      *)
(* IEC 60870-5-104.  The peer is arbitrary here: every APDU the format     *)
(* allows may arrive at any time.  SessionLink puts a conforming           *)
(* controlling station and a TCP connection around it.                     *)
(*                                                                         *)
(* The driver (connection.rs) calls one handler at a time, so each handler *)
(* is one action and out holds what the last one produced; the outputs of  *)
(* all the frames of one read leave together, or not at all if a later one *)
(* closes the session.  Time is counted in timer ticks.                    *)
(***************************************************************************)
EXTENDS Integers, Sequences

CONSTANTS
  K, W,           \* send and acknowledge windows
  T1, T2, T3,     \* time-outs, in ticks
  MaxQueue,       \* max_queue
  Modulo,         \* SEQ_MODULO
  Asdus,          \* the ASDUs the two sides exchange
  MaxTime,        \* bound: the clock stops here
  None            \* Option::None

ASSUME WindowAssumption ==
  /\ K \in Nat \ {0} /\ W \in Nat \ {0} /\ Modulo \in Nat
  /\ K < Modulo /\ W < Modulo
  /\ MaxQueue \in Nat \ {0}

ASSUME TimerAssumption ==
  /\ T1 \in Nat \ {0} /\ T2 \in Nat \ {0} /\ T3 \in Nat \ {0}
  /\ MaxTime \in Nat
  /\ None \notin Nat

VARIABLES
  now,                 \* the time of the last call
  closed,              \* why the session asked to close, or "open"
  started,             \* data transfer is started
  send_seq,            \* N(S) of the next I-frame sent
  recv_seq,            \* N(S) expected in the next I-frame received
  last_acked_to_peer,  \* the N(R) the peer has last seen from us
  unacked,             \* send times of unacknowledged I-frames, oldest first
  oldest_unacked_seq,  \* N(S) of the oldest of them
  queue,               \* ASDUs waiting for STARTDT or the k window
  unacked_rx_since,    \* when the first unacknowledged I-frame arrived
  last_rx,             \* when any frame last arrived
  test_sent,           \* when a TESTFR act still unanswered was sent
  out                  \* outputs of the last call

session == <<started, send_seq, recv_seq, last_acked_to_peer, unacked,
             oldest_unacked_seq, queue, unacked_rx_since, last_rx, test_sent>>
svars == <<now, closed, session, out>>

SeqNumbers == 0 .. (Modulo - 1)

UFunctions == {"StartDtAct", "StartDtCon", "StopDtAct", "StopDtCon",
               "TestFrAct", "TestFrCon"}

IFrame(ns, nr, asdu) == [type |-> "I", ns |-> ns, nr |-> nr, asdu |-> asdu]
SFrame(nr) == [type |-> "S", nr |-> nr]
UFrame(f) == [type |-> "U", f |-> f]

\* Outputs for the application.
Received(asdu) == [type |-> "Received", asdu |-> asdu]
Started == [type |-> "Started"]
Stopped == [type |-> "Stopped"]

Advance(seq, n) == (seq + n) % Modulo

\* seq_distance: the u16 subtraction wraps at a multiple of Modulo.
SeqDistance(from, to) == (to - from) % Modulo

Least(a, b) == IF a < b THEN a ELSE b

-----------------------------------------------------------------------------
\* Helpers of the handlers.

\* Mutant: only the acknowledged frame itself leaves the window.
AfterAckOne(nr) ==
  IF SeqDistance(oldest_unacked_seq, nr) > 0 THEN Tail(unacked) ELSE unacked

\* acknowledge: the frames before nr leave the window.
AfterAck(nr) ==
  SubSeq(unacked, SeqDistance(oldest_unacked_seq, nr) + 1, Len(unacked))

\* Mutant: an acknowledgement of the whole window is refused.
BadAcknowledgeEqual(nr) ==
  SeqDistance(oldest_unacked_seq, nr) > 0
    /\ SeqDistance(oldest_unacked_seq, nr) >= Len(unacked)

\* The peer acknowledges frames that were never sent.
BadAcknowledge(nr) == SeqDistance(oldest_unacked_seq, nr) > Len(unacked)

\* Mutant: frames go out as long as there are any.
RoomWithoutWindow(st, un, q) == IF st THEN Len(q) ELSE 0

\* How many queued ASDUs the started session may send now.
Room(st, un, q) == IF st THEN Least(K - Len(un), Len(q)) ELSE 0

\* flush, after the handler has brought the session to started = st,
\* queue = q, unacked = un, recv_seq = recv, last_acked_to_peer = acked,
\* unacked_rx_since = since and produced the outputs sofar.  Every I-frame
\* carries recv, so sending one acknowledges the peer.
Flush(st, q, un, recv, acked, since, sofar) ==
  LET n == Room(st, un, q)
  IN  /\ started' = st
      /\ queue' = SubSeq(q, n + 1, Len(q))
      /\ unacked' = un \o [i \in 1 .. n |-> now]
      /\ send_seq' = Advance(send_seq, n)
      /\ recv_seq' = recv
      /\ last_acked_to_peer' = IF n > 0 THEN recv ELSE acked
      /\ unacked_rx_since' = IF n > 0 THEN None ELSE since
      /\ out' = sofar \o
                [i \in 1 .. n |-> IFrame(Advance(send_seq, i - 1), recv, q[i])]

\* The driver drops the session and what it had not drained.
Close(reason) ==
  /\ closed' = reason
  /\ out' = <<>>
  /\ UNCHANGED <<now, session>>

-----------------------------------------------------------------------------
\* The handlers.

\* Mutant: a full queue gives up its newest ASDU.
MakeRoomAtTheBack(q) ==
  IF Len(q) >= MaxQueue THEN SubSeq(q, 1, Len(q) - 1) ELSE q

\* Mutant: the bound is checked too late.
MakeRoomLate(q) == IF Len(q) > MaxQueue THEN Tail(q) ELSE q

\* A full queue gives up its oldest ASDU.
MakeRoom(q) == IF Len(q) >= MaxQueue THEN Tail(q) ELSE q

\* send_raw
SendRaw(asdu) ==
  /\ closed = "open"
  /\ Flush(started, Append(MakeRoom(queue), asdu), unacked, recv_seq,
           last_acked_to_peer, unacked_rx_since, <<>>)
  /\ UNCHANGED <<now, closed, oldest_unacked_seq, last_rx, test_sent>>

\* Mutant: t2 starts again with every frame.
SinceRestarted == now

\* When the first unacknowledged I-frame arrived, this one included.
Since == IF unacked_rx_since = None THEN now ELSE unacked_rx_since

\* Mutant: one frame more than w.
WindowPassed(recv) == SeqDistance(last_acked_to_peer, recv) > W

\* The frame that makes recv the next one completes the w window.
WindowFull(recv) == SeqDistance(last_acked_to_peer, recv) >= W

\* An I-frame in sequence: acknowledged at once when it completes the w window.
OnI(ns, nr, asdu) ==
  /\ ns = recv_seq
  /\ ~BadAcknowledge(nr)
  /\ LET recv == Advance(recv_seq, 1)
         full == WindowFull(recv)
     IN  Flush(started, queue, AfterAck(nr), recv,
               IF full THEN recv ELSE last_acked_to_peer,
               IF full THEN None ELSE Since,
               <<Received(asdu)>> \o IF full THEN <<SFrame(recv)>> ELSE <<>>)
  /\ oldest_unacked_seq' = nr
  /\ last_rx' = now
  /\ UNCHANGED <<now, closed, test_sent>>

\* Mutant: the acknowledgement frees the window but nothing moves up.
OnSWithoutFlush(nr) ==
  /\ ~BadAcknowledge(nr)
  /\ unacked' = AfterAck(nr)
  /\ oldest_unacked_seq' = nr
  /\ last_rx' = now
  /\ out' = <<>>
  /\ UNCHANGED <<now, closed, started, queue, send_seq, recv_seq,
                 last_acked_to_peer, unacked_rx_since, test_sent>>

\* An S-frame.
OnS(nr) ==
  /\ ~BadAcknowledge(nr)
  /\ Flush(started, queue, AfterAck(nr), recv_seq, last_acked_to_peer,
           unacked_rx_since, <<>>)
  /\ oldest_unacked_seq' = nr
  /\ last_rx' = now
  /\ UNCHANGED <<now, closed, test_sent>>

\* STARTDT is confirmed, and what was queued goes out behind it.
OnStartDt ==
  /\ Flush(TRUE, queue, unacked, recv_seq, last_acked_to_peer,
           unacked_rx_since,
           <<UFrame("StartDtCon")>> \o IF started THEN <<>> ELSE <<Started>>)
  /\ last_rx' = now
  /\ UNCHANGED <<now, closed, oldest_unacked_seq, test_sent>>

\* STOPDT first acknowledges what was received.
OnStopDt ==
  /\ LET owed == recv_seq # last_acked_to_peer
     IN  Flush(FALSE, queue, unacked, recv_seq, recv_seq,
               IF owed THEN None ELSE unacked_rx_since,
               (IF owed THEN <<SFrame(recv_seq)>> ELSE <<>>)
                 \o <<UFrame("StopDtCon")>>
                 \o IF started THEN <<Stopped>> ELSE <<>>)
  /\ last_rx' = now
  /\ UNCHANGED <<now, closed, oldest_unacked_seq, test_sent>>

\* TESTFR act is confirmed, its confirmation stops the test; the other
\* confirmations are ignored.
OnTestOrCon(f) ==
  /\ f \notin {"StartDtAct", "StopDtAct"}
  /\ Flush(started, queue, unacked, recv_seq, last_acked_to_peer,
           unacked_rx_since,
           IF f = "TestFrAct" THEN <<UFrame("TestFrCon")>> ELSE <<>>)
  /\ test_sent' = IF f = "TestFrCon" THEN None ELSE test_sent
  /\ last_rx' = now
  /\ UNCHANGED <<now, closed, oldest_unacked_seq>>

\* on_apdu
OnApdu(apdu) ==
  /\ closed = "open"
  /\ \/ /\ apdu.type = "I"
        /\ \/ OnI(apdu.ns, apdu.nr, apdu.asdu)
           \/ apdu.ns # recv_seq /\ Close("SequenceError")
           \/ apdu.ns = recv_seq /\ BadAcknowledge(apdu.nr)
                /\ Close("BadAcknowledge")
     \/ /\ apdu.type = "S"
        /\ \/ OnS(apdu.nr)
           \/ BadAcknowledge(apdu.nr) /\ Close("BadAcknowledge")
     \/ apdu.type = "U" /\ apdu.f = "StartDtAct" /\ OnStartDt
     \/ apdu.type = "U" /\ apdu.f = "StopDtAct" /\ OnStopDt
     \/ apdu.type = "U" /\ OnTestOrCon(apdu.f)

\* Mutant: one tick late.
ExpiredLate(armed, timeout) == armed # None /\ now' - armed > timeout

\* An armed timer has run for its time-out.
Expired(armed, timeout) == armed # None /\ now' - armed >= timeout

AckTimeout == unacked # <<>> /\ now' - Head(unacked) >= T1
TestTimeout == Expired(test_sent, T1)

\* Nothing has arrived for t3 and no test is running.
TestDue == test_sent = None /\ now' - last_rx >= T3

\* on_tick: the acknowledgement t2 asks for, then the test frame of t3.
OnTick ==
  LET owed == Expired(unacked_rx_since, T2)
  IN  /\ last_acked_to_peer' = IF owed THEN recv_seq ELSE last_acked_to_peer
      /\ unacked_rx_since' = IF owed THEN None ELSE unacked_rx_since
      /\ test_sent' = IF TestDue THEN now' ELSE test_sent
      /\ out' = (IF owed THEN <<SFrame(recv_seq)>> ELSE <<>>)
                \o IF TestDue THEN <<UFrame("TestFrAct")>> ELSE <<>>
      /\ UNCHANGED <<closed, started, send_seq, recv_seq, unacked,
                     oldest_unacked_seq, queue, last_rx>>

\* The next tick of the driver's 100 ms interval.
Tick ==
  /\ closed = "open"
  /\ now < MaxTime
  /\ now' = now + 1
  /\ \/ AckTimeout /\ closed' = "AckTimeout" /\ out' = <<>> /\ UNCHANGED session
     \/ ~AckTimeout /\ TestTimeout /\ closed' = "TestTimeout" /\ out' = <<>>
          /\ UNCHANGED session
     \/ ~AckTimeout /\ ~TestTimeout /\ OnTick

-----------------------------------------------------------------------------

\* Session::new
NewSession(t) ==
  /\ closed = "open"
  /\ started = FALSE
  /\ send_seq = 0 /\ recv_seq = 0 /\ last_acked_to_peer = 0
  /\ unacked = <<>> /\ oldest_unacked_seq = 0
  /\ queue = <<>>
  /\ unacked_rx_since = None
  /\ last_rx = t
  /\ test_sent = None
  /\ out = <<>>

SessionInit == now = 0 /\ NewSession(0)

Apdus == [type : {"I"}, ns : SeqNumbers, nr : SeqNumbers, asdu : Asdus]
           \cup [type : {"S"}, nr : SeqNumbers]
           \cup [type : {"U"}, f : UFunctions]

\* The driver dropped the session; the next connection has one of its own.
Gone == closed # "open" /\ UNCHANGED svars

SessionNext ==
  \/ \E asdu \in Asdus : SendRaw(asdu)
  \/ \E apdu \in Apdus : OnApdu(apdu)
  \/ Tick
  \/ Gone

SessionSpec == SessionInit /\ [][SessionNext]_svars

-----------------------------------------------------------------------------
\* Properties, whatever the peer sends.

Reasons == {"open", "SequenceError", "BadAcknowledge", "AckTimeout",
            "TestTimeout"}

\* The state has its types, and the queue and the window their bounds.
SessionTypeOK ==
  /\ now \in Nat
  /\ closed \in Reasons
  /\ started \in BOOLEAN
  /\ send_seq \in SeqNumbers
  /\ recv_seq \in SeqNumbers
  /\ last_acked_to_peer \in SeqNumbers
  /\ unacked \in Seq(Nat)
  /\ oldest_unacked_seq \in SeqNumbers
  /\ queue \in Seq(Asdus)
  /\ unacked_rx_since \in Nat \cup {None}
  /\ last_rx \in Nat
  /\ test_sent \in Nat \cup {None}
  /\ Len(queue) <= MaxQueue

\* The k window survives every wrap of the sequence numbers and every
\* acknowledgement, good or bad: the frames counted as unacknowledged are
\* exactly the numbers from the oldest to the next, never more than k.
SendWindow ==
  /\ Len(unacked) <= K
  /\ SeqDistance(oldest_unacked_seq, send_seq) = Len(unacked)

\* The w window: fewer than w frames are ever owed an acknowledgement after a
\* handler has run, and the t2 timer runs exactly while one is owed.
AckDiscipline ==
  /\ SeqDistance(last_acked_to_peer, recv_seq) < W
  /\ unacked_rx_since = None <=> recv_seq = last_acked_to_peer

\* No live session is past one of its timers: neither an unacknowledged frame
\* of ours, nor one of the peer's, nor a test, nor a silence outlives its
\* time-out.
NoTimerMissed ==
  closed = "open" =>
    /\ \A i \in 1 .. Len(unacked) : now - unacked[i] < T1
    /\ unacked_rx_since # None => now - unacked_rx_since < T2
    /\ test_sent # None => now - test_sent < T1
    /\ test_sent = None => now - last_rx < T3

\* Nothing waits while it could be sent: a started session with an ASDU in
\* its queue has a full window.
NoIdleWindow ==
  closed = "open" /\ started /\ queue # <<>> => Len(unacked) = K

=============================================================================
