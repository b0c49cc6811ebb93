---------------------------- MODULE Session_proof ----------------------------
(* Theorems about Session for every window, modulus and peer, and about two *)
(* stations that keep to the standard (SessionLink): the link implements    *)
(* the channel of ReportChannel, and neither ever has a reason to close.    *)
(* The windows are facts about distances on the ring of sequence numbers,   *)
(* so the first lemmas say what Advance and SeqDistance are without the     *)
(* remainder.                                                               *)
EXTENDS SessionLink, SequenceTheorems, WellFoundedInduction, TLAPS

USE WindowAssumption, TimerAssumption

-----------------------------------------------------------------------------
\* The ring of sequence numbers.

\* A remainder is a sequence number.
LEMMA ModType ==
  ASSUME NEW x \in Int
  PROVE  x % Modulo \in SeqNumbers
BY DEF SeqNumbers

\* Advancing by less than a full turn wraps at most once.
LEMMA AdvanceExplicit ==
  ASSUME NEW a \in SeqNumbers, NEW n \in Nat, n < Modulo
  PROVE  /\ Advance(a, n) \in SeqNumbers
         /\ Advance(a, n) = IF a + n < Modulo THEN a + n ELSE a + n - Modulo
BY DEF Advance, SeqNumbers

\* The distance of two sequence numbers, by cases.
LEMMA DistanceExplicit ==
  ASSUME NEW a \in SeqNumbers, NEW b \in SeqNumbers
  PROVE  /\ SeqDistance(a, b) \in SeqNumbers
         /\ SeqDistance(a, b) = IF b >= a THEN b - a ELSE b - a + Modulo
BY DEF SeqDistance, SeqNumbers

\* Only a number itself is at distance zero.
LEMMA DistanceZero ==
  ASSUME NEW a \in SeqNumbers, NEW b \in SeqNumbers
  PROVE  SeqDistance(a, b) = 0 <=> a = b
<1>1. a \in Nat /\ b \in Nat /\ a < Modulo /\ b < Modulo
  BY DEF SeqNumbers
<1>2. SeqDistance(a, b) = IF b >= a THEN b - a ELSE b - a + Modulo
  BY DistanceExplicit
<1> QED
  BY <1>1, <1>2

\* Moving the far end forward adds to the distance.
LEMMA DistanceAdvance ==
  ASSUME NEW a \in SeqNumbers, NEW b \in SeqNumbers, NEW n \in Nat,
         SeqDistance(a, b) + n < Modulo
  PROVE  SeqDistance(a, Advance(b, n)) = SeqDistance(a, b) + n
<1> DEFINE c == Advance(b, n)
<1>1. a \in Nat /\ b \in Nat /\ a < Modulo /\ b < Modulo
  BY DEF SeqNumbers
<1>2. SeqDistance(a, b) = IF b >= a THEN b - a ELSE b - a + Modulo
  BY DistanceExplicit
<1>3. n < Modulo
  BY <1>1, <1>2
<1>4. c \in SeqNumbers /\ c = IF b + n < Modulo THEN b + n ELSE b + n - Modulo
  BY <1>3, AdvanceExplicit
<1> HIDE DEF c
<1>5. SeqDistance(a, c) = IF c >= a THEN c - a ELSE c - a + Modulo
  BY <1>4, DistanceExplicit
<1>6. SeqDistance(a, c) = SeqDistance(a, b) + n
  BY <1>1, <1>2, <1>3, <1>4, <1>5
<1> QED
  BY <1>6 DEF c

\* Moving the near end forward within the distance takes from it.
LEMMA DistanceSplit ==
  ASSUME NEW a \in SeqNumbers, NEW b \in SeqNumbers, NEW c \in SeqNumbers,
         SeqDistance(a, c) <= SeqDistance(a, b)
  PROVE  SeqDistance(c, b) = SeqDistance(a, b) - SeqDistance(a, c)
<1>1. /\ a \in Nat /\ b \in Nat /\ c \in Nat
      /\ a < Modulo /\ b < Modulo /\ c < Modulo
  BY DEF SeqNumbers
<1>2. SeqDistance(a, b) = IF b >= a THEN b - a ELSE b - a + Modulo
  BY DistanceExplicit
<1>3. SeqDistance(a, c) = IF c >= a THEN c - a ELSE c - a + Modulo
  BY DistanceExplicit
<1>4. SeqDistance(c, b) = IF b >= c THEN b - c ELSE b - c + Modulo
  BY DistanceExplicit
<1> QED
  BY <1>1, <1>2, <1>3, <1>4

-----------------------------------------------------------------------------
\* The handlers' helpers.

\* Room is a number of ASDUs that the queue has and the window can take.
LEMMA RoomType ==
  ASSUME NEW st \in BOOLEAN, NEW un \in Seq(Nat), NEW q \in Seq(Asdus),
         Len(un) <= K
  PROVE  /\ Room(st, un, q) \in Nat
         /\ Room(st, un, q) <= Len(q)
         /\ Len(un) + Room(st, un, q) <= K
<1>1. Len(un) \in Nat /\ Len(q) \in Nat
  BY LenProperties
<1> QED
  BY <1>1 DEF Room, Least

\* An acknowledgement that is not refused leaves the rest of the window.
LEMMA AfterAckWindow ==
  ASSUME SessionTypeOK, SendWindow, NEW nr \in SeqNumbers, ~BadAcknowledge(nr)
  PROVE  /\ AfterAck(nr) \in Seq(Nat)
         /\ Len(AfterAck(nr)) <= K
         /\ SeqDistance(nr, send_seq) = Len(AfterAck(nr))
<1> DEFINE count == SeqDistance(oldest_unacked_seq, nr)
<1>1. /\ unacked \in Seq(Nat) /\ Len(unacked) \in Nat
      /\ send_seq \in SeqNumbers /\ oldest_unacked_seq \in SeqNumbers
  BY LenProperties DEF SessionTypeOK
<1>2. count \in Nat /\ count <= Len(unacked)
  BY <1>1, DistanceExplicit DEF BadAcknowledge, SeqNumbers
<1>3. AfterAck(nr) = SubSeq(unacked, count + 1, Len(unacked))
  BY DEF AfterAck
<1>4. AfterAck(nr) \in Seq(Nat) /\ Len(AfterAck(nr)) = Len(unacked) - count
  <2> HIDE DEF count
  <2>1. count + 1 \in Int /\ Len(unacked) \in Int
    BY <1>1, <1>2
  <2>2. \A i \in (count + 1) .. Len(unacked) : unacked[i] \in Nat
    BY <1>1, <1>2, ElementOfSeq
  <2> QED
    BY <1>2, <1>3, <2>1, <2>2, SubSeqProperties
<1>5. SeqDistance(nr, send_seq) = Len(unacked) - count
  BY <1>1, <1>2, DistanceSplit DEF SendWindow
<1> QED
  BY <1>1, <1>2, <1>4, <1>5 DEF SendWindow

\* The inductive invariant: the types and the two windows.
Windows == SessionTypeOK /\ SendWindow /\ AckDiscipline

\* The facts about the state that every step uses.
LEMMA Types ==
  ASSUME SessionTypeOK
  PROVE  /\ now \in Nat /\ started \in BOOLEAN
         /\ send_seq \in SeqNumbers /\ recv_seq \in SeqNumbers
         /\ last_acked_to_peer \in SeqNumbers /\ oldest_unacked_seq \in SeqNumbers
         /\ unacked \in Seq(Nat) /\ Len(unacked) \in Nat
         /\ queue \in Seq(Asdus) /\ Len(queue) \in Nat /\ Len(queue) <= MaxQueue
         /\ unacked_rx_since \in Nat \cup {None}
         /\ last_rx \in Nat /\ test_sent \in Nat \cup {None}
         /\ closed \in Reasons
BY LenProperties DEF SessionTypeOK

\* flush keeps both windows, whatever the handler did before it.
LEMMA FlushWindows ==
  ASSUME Windows,
         NEW st \in BOOLEAN, NEW q \in Seq(Asdus), Len(q) <= MaxQueue,
         NEW un \in Seq(Nat), Len(un) <= K,
         NEW recv \in SeqNumbers, NEW acked \in SeqNumbers,
         NEW since \in Nat \cup {None}, NEW sofar,
         oldest_unacked_seq' \in SeqNumbers,
         SeqDistance(oldest_unacked_seq', send_seq) = Len(un),
         SeqDistance(acked, recv) < W,
         since = None <=> recv = acked,
         now' = now, closed' = closed, last_rx' \in {last_rx, now},
         test_sent' \in {test_sent, None},
         Flush(st, q, un, recv, acked, since, sofar)
  PROVE  Windows'
<1> DEFINE n == Room(st, un, q)
           times == [i \in 1 .. n |-> now]
<1>1. n \in Nat /\ n <= Len(q) /\ Len(un) + n <= K
  BY RoomType
<1>2. /\ started' = st
      /\ queue' = SubSeq(q, n + 1, Len(q))
      /\ unacked' = un \o times
      /\ send_seq' = Advance(send_seq, n)
      /\ recv_seq' = recv
      /\ last_acked_to_peer' = IF n > 0 THEN recv ELSE acked
      /\ unacked_rx_since' = IF n > 0 THEN None ELSE since
  BY DEF Flush
<1> HIDE DEF n
<1>3. Len(un) \in Nat /\ Len(q) \in Nat
  BY LenProperties
<1>4. now \in Nat /\ send_seq \in SeqNumbers
  BY DEF Windows, SessionTypeOK
<1>5. times \in Seq(Nat) /\ Len(times) = n
  BY <1>1, <1>4
<1>6. unacked' \in Seq(Nat) /\ Len(unacked') = Len(un) + n
  <2> HIDE DEF times
  <2>1. Len(un \o times) = Len(un) + Len(times) /\ un \o times \in Seq(Nat)
    BY <1>5, ConcatProperties
  <2> QED
    BY <1>2, <1>5, <2>1
<1>7. queue' \in Seq(Asdus) /\ Len(queue') = Len(q) - n
  <2>1. \A i \in (n + 1) .. Len(q) : q[i] \in Asdus
    BY <1>1, <1>3, ElementOfSeq
  <2> QED
    BY <1>1, <1>2, <1>3, <2>1, SubSeqProperties
<1>8. send_seq' \in SeqNumbers
  BY <1>1, <1>2, <1>3, <1>4, AdvanceExplicit
<1>9. SeqDistance(oldest_unacked_seq', send_seq') = Len(un) + n
  <2>1. SeqDistance(oldest_unacked_seq', send_seq) + n < Modulo
    BY <1>1, <1>3
  <2>2. SeqDistance(oldest_unacked_seq', Advance(send_seq, n))
          = SeqDistance(oldest_unacked_seq', send_seq) + n
    BY <1>1, <1>4, <2>1, DistanceAdvance
  <2> QED
    BY <1>2, <2>2
<1>10. SendWindow'
  BY <1>1, <1>6, <1>9 DEF SendWindow
<1>11. AckDiscipline'
  <2>1. CASE n > 0
    <3>1. recv_seq' = recv /\ last_acked_to_peer' = recv /\ unacked_rx_since' = None
      BY <1>2, <2>1
    <3>2. SeqDistance(recv, recv) = 0
      BY DistanceZero
    <3> QED
      BY <3>1, <3>2 DEF AckDiscipline
  <2>2. CASE ~(n > 0)
    BY <1>2, <2>2 DEF AckDiscipline
  <2> QED
    BY <2>1, <2>2
<1>12. SessionTypeOK'
  <2>1. queue' \in Seq(Asdus) /\ Len(queue') <= MaxQueue
    BY <1>1, <1>3, <1>7
  <2> QED
    BY <1>2, <1>6, <1>8, <2>1, Types DEF SessionTypeOK, Windows
<1> QED
  BY <1>10, <1>11, <1>12 DEF Windows

-----------------------------------------------------------------------------
\* A new session has empty windows.
LEMMA InitWindows == SessionInit => Windows
<1> SUFFICES ASSUME SessionInit PROVE Windows
  OBVIOUS
<1>1. 0 \in SeqNumbers
  BY DEF SeqNumbers
<1>2. SeqDistance(0, 0) = 0
  BY <1>1, DistanceZero
<1>3. <<>> \in Seq(Nat) /\ <<>> \in Seq(Asdus) /\ Len(<<>>) = 0
  BY EmptySeq
<1>4. SessionTypeOK
  <2>1. now = 0 /\ NewSession(0)
    BY DEF SessionInit
  <2>2. started \in BOOLEAN
    BY <2>1 DEF NewSession
  <2>3. queue = <<>> /\ unacked = <<>>
    BY <2>1 DEF NewSession
  <2>4. Len(queue) <= MaxQueue
    BY <1>3, <2>3, WindowAssumption
  <2>5. queue \in Seq(Asdus) /\ unacked \in Seq(Nat)
    BY <1>3, <2>3
  <2>6. /\ closed \in Reasons
        /\ send_seq \in SeqNumbers /\ recv_seq \in SeqNumbers
        /\ last_acked_to_peer \in SeqNumbers
        /\ oldest_unacked_seq \in SeqNumbers
        /\ unacked_rx_since \in Nat \cup {None}
        /\ last_rx \in Nat /\ test_sent \in Nat \cup {None}
    BY <1>1, <2>1 DEF NewSession, Reasons
  <2> QED
    BY <2>1, <2>2, <2>4, <2>5, <2>6 DEF SessionTypeOK
<1>5. SendWindow /\ AckDiscipline
  BY <1>2, <1>3 DEF SessionInit, NewSession, SendWindow, AckDiscipline
<1> QED
  BY <1>4, <1>5 DEF Windows

\* send_raw makes room in a full queue before it adds to it.
LEMMA SendRawWindows ==
  ASSUME Windows, NEW asdu \in Asdus, SendRaw(asdu)
  PROVE  Windows'
<1> USE DEF Windows
<1> DEFINE q == Append(MakeRoom(queue), asdu)
<1>1. MakeRoom(queue) \in Seq(Asdus) /\ Len(MakeRoom(queue)) < MaxQueue
  <2>1. CASE Len(queue) >= MaxQueue
    <3>1. queue # <<>>
      BY <2>1, Types, EmptySeq
    <3> QED
      BY <2>1, <3>1, Types, HeadTailProperties DEF MakeRoom
  <2>2. CASE ~(Len(queue) >= MaxQueue)
    BY <2>2, Types DEF MakeRoom
  <2> QED
    BY <2>1, <2>2
<1>2. q \in Seq(Asdus) /\ Len(q) <= MaxQueue
  BY <1>1, AppendProperties, LenProperties
<1>3. Flush(started, q, unacked, recv_seq, last_acked_to_peer,
            unacked_rx_since, <<>>)
  BY DEF SendRaw
<1>4. UNCHANGED <<now, closed, oldest_unacked_seq, last_rx, test_sent>>
  BY DEF SendRaw
<1> HIDE DEF q
<1>5. /\ Len(unacked) <= K
      /\ SeqDistance(oldest_unacked_seq', send_seq) = Len(unacked)
      /\ SeqDistance(last_acked_to_peer, recv_seq) < W
      /\ unacked_rx_since = None <=> recv_seq = last_acked_to_peer
      /\ oldest_unacked_seq' \in SeqNumbers
  BY <1>4, Types DEF SendWindow, AckDiscipline
<1> QED
  BY <1>2, <1>3, <1>4, <1>5, Types, FlushWindows

\* An I-frame in sequence is owed an acknowledgement, or completes w.
LEMMA OnIWindows ==
  ASSUME Windows, NEW ns, NEW nr \in SeqNumbers, NEW asdu, OnI(ns, nr, asdu)
  PROVE  Windows'
<1> USE DEF Windows
<1> DEFINE recv == Advance(recv_seq, 1)
           full == WindowFull(recv)
           acked == IF full THEN recv ELSE last_acked_to_peer
           since == IF full THEN None ELSE Since
<1>1. PICK sofar :
        Flush(started, queue, AfterAck(nr), recv, acked, since, sofar)
  BY DEF OnI
<1>2. /\ ~BadAcknowledge(nr)
      /\ oldest_unacked_seq' = nr /\ last_rx' = now
      /\ UNCHANGED <<now, closed, test_sent>>
  BY DEF OnI
<1>3. recv \in SeqNumbers
  BY Types, AdvanceExplicit
<1>4. SeqDistance(last_acked_to_peer, recv_seq) \in Nat
  <2>1. SeqDistance(last_acked_to_peer, recv_seq) \in SeqNumbers
    BY Types, DistanceExplicit
  <2> QED
    BY <2>1 DEF SeqNumbers
<1>5. SeqDistance(last_acked_to_peer, recv)
        = SeqDistance(last_acked_to_peer, recv_seq) + 1
  <2>1. SeqDistance(last_acked_to_peer, recv_seq) + 1 < Modulo
    BY <1>4 DEF AckDiscipline
  <2> QED
    BY <2>1, Types, DistanceAdvance
<1>6. /\ acked \in SeqNumbers
      /\ since \in Nat \cup {None}
      /\ SeqDistance(acked, recv) < W
      /\ since = None <=> recv = acked
  <2>1. CASE full
    <3>1. acked = recv /\ since = None
      BY <2>1
    <3>2. SeqDistance(recv, recv) = 0
      BY <1>3, DistanceZero
    <3> QED
      BY <1>3, <3>1, <3>2
  <2>2. CASE ~full
    <3>1. acked = last_acked_to_peer /\ since = Since
      BY <2>2
    <3>2. Since \in Nat
      BY Types DEF Since
    <3>3. SeqDistance(last_acked_to_peer, recv) < W
      BY <1>4, <1>5, <2>2 DEF WindowFull
    <3>4. recv # last_acked_to_peer
      BY <1>3, <1>4, <1>5, Types, DistanceZero
    <3> QED
      BY <3>1, <3>2, <3>3, <3>4, Types
  <2> QED
    BY <2>1, <2>2
<1>7. /\ AfterAck(nr) \in Seq(Nat)
      /\ Len(AfterAck(nr)) <= K
      /\ SeqDistance(nr, send_seq) = Len(AfterAck(nr))
  BY <1>2, AfterAckWindow
<1> HIDE DEF recv, full, acked, since
<1> QED
  BY <1>1, <1>2, <1>3, <1>6, <1>7, Types, FlushWindows

\* An S-frame only acknowledges.
LEMMA OnSWindows ==
  ASSUME Windows, NEW nr \in SeqNumbers, OnS(nr)
  PROVE  Windows'
<1> USE DEF Windows
<1>1. Flush(started, queue, AfterAck(nr), recv_seq, last_acked_to_peer,
            unacked_rx_since, <<>>)
  BY DEF OnS
<1>2. /\ ~BadAcknowledge(nr)
      /\ oldest_unacked_seq' = nr /\ last_rx' = now
      /\ UNCHANGED <<now, closed, test_sent>>
  BY DEF OnS
<1>3. /\ AfterAck(nr) \in Seq(Nat)
      /\ Len(AfterAck(nr)) <= K
      /\ SeqDistance(nr, send_seq) = Len(AfterAck(nr))
  BY <1>2, AfterAckWindow
<1> QED
  BY <1>1, <1>2, <1>3, Types, FlushWindows DEF AckDiscipline

\* STARTDT and the frames that change no window but may set one going.
LEMMA OnStartDtWindows ==
  ASSUME Windows, OnStartDt
  PROVE  Windows'
<1> USE DEF Windows
<1>1. PICK sofar : Flush(TRUE, queue, unacked, recv_seq, last_acked_to_peer,
                         unacked_rx_since, sofar)
  BY DEF OnStartDt
<1>2. last_rx' = now /\ UNCHANGED <<now, closed, oldest_unacked_seq, test_sent>>
  BY DEF OnStartDt
<1> QED
  BY <1>1, <1>2, Types, FlushWindows DEF SendWindow, AckDiscipline

\* A test frame or a confirmation preserves the windows.
LEMMA OnTestOrConWindows ==
  ASSUME Windows, NEW f, OnTestOrCon(f)
  PROVE  Windows'
<1> USE DEF Windows
<1>1. PICK sofar : Flush(started, queue, unacked, recv_seq, last_acked_to_peer,
                         unacked_rx_since, sofar)
  BY DEF OnTestOrCon
<1>2. /\ last_rx' = now /\ UNCHANGED <<now, closed, oldest_unacked_seq>>
      /\ test_sent' \in {test_sent, None}
  BY DEF OnTestOrCon
<1> QED
  BY <1>1, <1>2, Types, FlushWindows DEF SendWindow, AckDiscipline

\* STOPDT acknowledges everything received.
LEMMA OnStopDtWindows ==
  ASSUME Windows, OnStopDt
  PROVE  Windows'
<1> USE DEF Windows
<1>1. (IF recv_seq # last_acked_to_peer THEN None ELSE unacked_rx_since) = None
  BY DEF AckDiscipline
<1>2. PICK sofar : Flush(FALSE, queue, unacked, recv_seq, recv_seq, None, sofar)
  BY <1>1 DEF OnStopDt
<1>3. last_rx' = now /\ UNCHANGED <<now, closed, oldest_unacked_seq, test_sent>>
  BY DEF OnStopDt
<1>4. SeqDistance(recv_seq, recv_seq) = 0
  BY Types, DistanceZero
<1>5. /\ Len(unacked) <= K
      /\ SeqDistance(oldest_unacked_seq', send_seq) = Len(unacked)
      /\ SeqDistance(recv_seq, recv_seq) < W
      /\ None \in Nat \cup {None}
      /\ None = None <=> recv_seq = recv_seq
      /\ oldest_unacked_seq' \in SeqNumbers
  BY <1>3, <1>4, Types, WindowAssumption DEF SendWindow
<1>6. queue \in Seq(Asdus) /\ Len(queue) <= MaxQueue /\ FALSE \in BOOLEAN
  BY Types
<1> QED
  BY <1>2, <1>3, <1>5, <1>6, Types, FlushWindows

\* A tick sends the acknowledgement that is due; a timeout changes nothing.
LEMMA TickWindows ==
  ASSUME Windows, Tick
  PROVE  Windows'
<1> USE DEF Windows
<1>1. now' \in Nat
  BY Types DEF Tick
<1>2. CASE closed' \in Reasons /\ UNCHANGED session
  BY <1>1, <1>2, Types DEF session, SessionTypeOK, SendWindow, AckDiscipline
<1>3. CASE OnTick
  <2>1. UNCHANGED <<closed, started, send_seq, recv_seq, unacked,
                    oldest_unacked_seq, queue, last_rx>>
    BY <1>3 DEF OnTick
  <2>2. test_sent' \in Nat \cup {None}
    BY <1>1, <1>3, Types DEF OnTick
  <2>3. SendWindow'
    BY <2>1 DEF SendWindow
  <2>4. \/ /\ last_acked_to_peer' = last_acked_to_peer
           /\ unacked_rx_since' = unacked_rx_since
        \/ last_acked_to_peer' = recv_seq /\ unacked_rx_since' = None
    BY <1>3 DEF OnTick
  <2>5. SeqDistance(recv_seq, recv_seq) = 0
    BY Types, DistanceZero
  <2>6. AckDiscipline'
    BY <2>1, <2>4, <2>5 DEF AckDiscipline
  <2>7. SessionTypeOK'
    BY <1>1, <2>1, <2>2, <2>4, Types DEF SessionTypeOK
  <2> QED
    BY <2>3, <2>6, <2>7
<1> QED
  BY <1>2, <1>3 DEF Tick, Reasons

\* A frame of the peer, accepted or refused.
LEMMA OnApduWindows ==
  ASSUME Windows, NEW apdu \in Apdus, OnApdu(apdu)
  PROVE  Windows'
<1>1. CASE apdu.type = "I" /\ OnI(apdu.ns, apdu.nr, apdu.asdu)
  <2>1. apdu.nr \in SeqNumbers
    BY <1>1 DEF Apdus
  <2> QED
    BY <1>1, <2>1, OnIWindows
<1>2. CASE apdu.type = "S" /\ OnS(apdu.nr)
  <2>1. apdu.nr \in SeqNumbers
    BY <1>2 DEF Apdus
  <2> QED
    BY <1>2, <2>1, OnSWindows
<1>3. CASE \E reason \in Reasons : Close(reason)
  <2>1. closed' \in Reasons /\ UNCHANGED <<now, session>>
    BY <1>3 DEF Close
  <2> QED
    BY <2>1, Types DEF Windows, session, SessionTypeOK, SendWindow, AckDiscipline
<1>4. CASE OnStartDt \/ OnStopDt
  BY <1>4, OnStartDtWindows, OnStopDtWindows
<1>5. CASE \E f : OnTestOrCon(f)
  BY <1>5, OnTestOrConWindows
<1> QED
  BY <1>1, <1>2, <1>3, <1>4, <1>5 DEF OnApdu, Reasons

\* Every step of the session keeps the invariant.
LEMMA NextWindows == Windows /\ [SessionNext]_svars => Windows'
<1> SUFFICES ASSUME Windows, [SessionNext]_svars PROVE Windows'
  OBVIOUS
<1>1. CASE \E asdu \in Asdus : SendRaw(asdu)
  BY <1>1, SendRawWindows
<1>2. CASE \E apdu \in Apdus : OnApdu(apdu)
  BY <1>2, OnApduWindows
<1>3. CASE Tick
  BY <1>3, TickWindows
<1>4. CASE UNCHANGED svars
  BY <1>4 DEF svars, session, Windows, SessionTypeOK, SendWindow, AckDiscipline
<1> QED
  BY <1>1, <1>2, <1>3, <1>4 DEF SessionNext, Gone

\* The windows invariant holds in every reachable state.
LEMMA WindowsInvariant == SessionSpec => []Windows
BY InitWindows, NextWindows, PTL DEF SessionSpec

\* The session's fields keep their types and the queue its bound.
THEOREM SessionTypeCorrect == SessionSpec => []SessionTypeOK
<1>1. Windows => SessionTypeOK
  BY DEF Windows
<1> QED
  BY <1>1, WindowsInvariant, PTL

\* The k window is exact and never exceeded, whatever the peer sends.
THEOREM SendWindowHolds == SessionSpec => []SendWindow
<1>1. Windows => SendWindow
  BY DEF Windows
<1> QED
  BY <1>1, WindowsInvariant, PTL

\* Fewer than w frames are owed an acknowledgement, and t2 runs while any is.
THEOREM AckDisciplineHolds == SessionSpec => []AckDiscipline
<1>1. Windows => AckDiscipline
  BY DEF Windows
<1> QED
  BY <1>1, WindowsInvariant, PTL
-----------------------------------------------------------------------------
\* Nothing idles and no timer is missed.

\* The times of the window are in order and not in the future.
Ordered(un) ==
  /\ \A i \in 1 .. Len(un) : un[i] <= now
  /\ \A i, j \in 1 .. Len(un) : i <= j => un[i] <= un[j]

\* The oldest of the window stands for all of it: this is why looking at the
\* head alone, as the tick does, is enough.
Punctual == Ordered(unacked) /\ NoTimerMissed

\* What flush leaves behind in the queue did not fit into the window.
LEMMA FlushFills ==
  ASSUME Windows, NEW st \in BOOLEAN, NEW q \in Seq(Asdus),
         NEW un \in Seq(Nat), Len(un) <= K, NEW recv, NEW acked, NEW since,
         NEW sofar, Flush(st, q, un, recv, acked, since, sofar)
  PROVE  NoIdleWindow'
<1> DEFINE n == Room(st, un, q)
           times == [i \in 1 .. n |-> now]
<1>1. n \in Nat /\ n <= Len(q)
  BY RoomType
<1>2. started' = st /\ queue' = SubSeq(q, n + 1, Len(q)) /\ unacked' = un \o times
  BY DEF Flush
<1>3. st => n = Least(K - Len(un), Len(q))
  BY DEF Room
<1> HIDE DEF n
<1>4. Len(un) \in Nat /\ Len(q) \in Nat
  BY LenProperties
<1>5. times \in Seq(Nat) /\ Len(times) = n
  BY <1>1 DEF Windows, SessionTypeOK
<1>6. Len(unacked') = Len(un) + n
  <2> HIDE DEF times
  <2>1. Len(un \o times) = Len(un) + Len(times) /\ un \o times \in Seq(Nat)
    BY <1>5, ConcatProperties
  <2> QED
    BY <1>2, <1>5, <2>1
<1>7. queue' # <<>> => n < Len(q)
  BY <1>1, <1>2, <1>4
<1> QED
  BY <1>2, <1>3, <1>4, <1>6, <1>7 DEF NoIdleWindow, Least

\* flush adds the newest times, so it keeps the order and every timer.
LEMMA FlushPunctual ==
  ASSUME Windows, NEW st \in BOOLEAN, NEW q \in Seq(Asdus),
         NEW un \in Seq(Nat), Len(un) <= K, Ordered(un),
         \A i \in 1 .. Len(un) : now - un[i] < T1,
         NEW recv, NEW acked, NEW since \in Nat \cup {None}, NEW sofar,
         since # None => now - since < T2,
         test_sent' # None => now - test_sent' < T1,
         test_sent' = None => now - last_rx' < T3,
         now' = now,
         Flush(st, q, un, recv, acked, since, sofar)
  PROVE  Punctual'
<1> DEFINE n == Room(st, un, q)
           times == [i \in 1 .. n |-> now]
           new == un \o times
<1>1. n \in Nat
  BY RoomType
<1>2. unacked' = new /\ unacked_rx_since' = IF n > 0 THEN None ELSE since
  BY DEF Flush
<1> HIDE DEF n
<1>3. Len(un) \in Nat /\ now \in Nat
  BY LenProperties DEF Windows, SessionTypeOK
<1>4. times \in Seq(Nat) /\ Len(times) = n
  BY <1>1, <1>3
<1>5. \A i \in 1 .. Len(un) : un[i] \in Nat
  BY ElementOfSeq
<1>6. /\ Len(new) = Len(un) + n
      /\ \A i \in 1 .. Len(new) : new[i] = IF i <= Len(un) THEN un[i] ELSE now
  <2>1. /\ Len(new) = Len(un) + n
        /\ \A i \in 1 .. Len(un) + n :
             new[i] = IF i <= Len(un) THEN un[i] ELSE times[i - Len(un)]
    <3> HIDE DEF times
    <3>1. /\ Len(un \o times) = Len(un) + Len(times)
          /\ \A i \in 1 .. Len(un) + Len(times) :
               (un \o times)[i] = IF i <= Len(un) THEN un[i] ELSE times[i - Len(un)]
      BY <1>4, ConcatProperties
    <3> QED
      BY <1>4, <3>1
  <2>2. \A i \in 1 .. Len(un) + n : i > Len(un) => i - Len(un) \in 1 .. n
    BY <1>1, <1>3
  <2>3. \A i \in 1 .. n : times[i] = now
    OBVIOUS
  <2> HIDE DEF times, new
  <2>4. ASSUME NEW i \in 1 .. Len(un) + n
        PROVE  new[i] = IF i <= Len(un) THEN un[i] ELSE now
    <3>1. CASE i <= Len(un)
      BY <2>1, <3>1
    <3>2. CASE ~(i <= Len(un))
      <4>1. i - Len(un) \in 1 .. n
        BY <1>3, <2>2, <3>2
      <4>2. times[i - Len(un)] = now
        BY <2>3, <4>1
      <4> QED
        BY <2>1, <3>2, <4>2
    <3> QED
      BY <3>1, <3>2
  <2> QED
    BY <2>1, <2>4
<1> HIDE DEF new
<1>7. Ordered(unacked)'
  <2>1. /\ \A i \in 1 .. Len(un) : un[i] <= now
        /\ \A i, j \in 1 .. Len(un) : i <= j => un[i] <= un[j]
    BY DEF Ordered
  <2>2. \A i \in 1 .. Len(new) : new[i] <= now
    <3> SUFFICES ASSUME NEW i \in 1 .. Len(new) PROVE new[i] <= now
      OBVIOUS
    <3>1. CASE i <= Len(un)
      <4>1. i \in 1 .. Len(un)
        BY <1>1, <1>3, <1>6, <3>1
      <4> QED
        BY <1>6, <2>1, <4>1
    <3>2. CASE ~(i <= Len(un))
      BY <1>3, <1>6, <3>2
    <3> QED
      BY <3>1, <3>2
  <2>3. \A i, j \in 1 .. Len(new) : i <= j => new[i] <= new[j]
    <3> SUFFICES ASSUME NEW i \in 1 .. Len(new), NEW j \in 1 .. Len(new), i <= j
                 PROVE  new[i] <= new[j]
      OBVIOUS
    <3>1. CASE j <= Len(un)
      <4>1. i \in 1 .. Len(un) /\ j \in 1 .. Len(un)
        BY <1>1, <1>3, <1>6, <3>1
      <4>2. new[i] = un[i] /\ new[j] = un[j]
        BY <1>6, <4>1
      <4> QED
        BY <2>1, <4>1, <4>2
    <3>2. CASE j > Len(un)
      BY <1>1, <1>3, <1>6, <2>2, <3>2
    <3> QED
      BY <1>1, <1>3, <1>6, <3>1, <3>2
  <2> QED
    BY <1>2, <2>2, <2>3 DEF Ordered
<1>8. \A i \in 1 .. Len(new) : now - new[i] < T1
  <2> SUFFICES ASSUME NEW i \in 1 .. Len(new) PROVE now - new[i] < T1
    OBVIOUS
  <2>1. CASE i <= Len(un)
    <3>1. i \in 1 .. Len(un)
      BY <1>1, <1>3, <1>6, <2>1
    <3> QED
      BY <1>6, <3>1
  <2>2. CASE ~(i <= Len(un))
    <3>1. new[i] = now
      BY <1>6, <2>2
    <3> QED
      BY <1>3, <3>1, TimerAssumption
  <2> QED
    BY <2>1, <2>2
<1> QED
  BY <1>2, <1>7, <1>8 DEF Punctual, NoTimerMissed

\* What an acknowledgement leaves is the newer end of the window.
LEMMA AfterAckOrdered ==
  ASSUME Windows, Punctual, closed = "open",
         NEW nr \in SeqNumbers, ~BadAcknowledge(nr)
  PROVE  /\ Ordered(AfterAck(nr))
         /\ \A i \in 1 .. Len(AfterAck(nr)) : now - AfterAck(nr)[i] < T1
<1> DEFINE count == SeqDistance(oldest_unacked_seq, nr)
<1>1. /\ unacked \in Seq(Nat) /\ Len(unacked) \in Nat /\ now \in Nat
      /\ oldest_unacked_seq \in SeqNumbers
  BY Types DEF Windows
<1>2. count \in Nat /\ count <= Len(unacked)
  BY <1>1, DistanceExplicit DEF BadAcknowledge, SeqNumbers
<1>3. AfterAck(nr) = SubSeq(unacked, count + 1, Len(unacked))
  BY DEF AfterAck
<1> HIDE DEF count
<1>4. /\ Len(AfterAck(nr)) = Len(unacked) - count
      /\ \A i \in 1 .. Len(unacked) - count : AfterAck(nr)[i] = unacked[count + i]
  BY <1>1, <1>2, <1>3
<1>5. \A i \in 1 .. Len(unacked) - count : count + i \in 1 .. Len(unacked)
  BY <1>1, <1>2
<1>6. \A i \in 1 .. Len(unacked) : unacked[i] \in Nat
  BY <1>1, ElementOfSeq
<1> HIDE DEF Ordered
<1>7. /\ \A i \in 1 .. Len(unacked) : unacked[i] <= now /\ now - unacked[i] < T1
      /\ \A i, j \in 1 .. Len(unacked) : i <= j => unacked[i] <= unacked[j]
  BY DEF Punctual, Ordered, NoTimerMissed
<1>8. /\ \A i \in 1 .. Len(AfterAck(nr)) :
           AfterAck(nr)[i] <= now /\ now - AfterAck(nr)[i] < T1
      /\ \A i, j \in 1 .. Len(AfterAck(nr)) : i <= j => AfterAck(nr)[i] <= AfterAck(nr)[j]
  <2>1. \A i \in 1 .. Len(AfterAck(nr)) :
          count + i \in 1 .. Len(unacked) /\ AfterAck(nr)[i] = unacked[count + i]
    BY <1>4, <1>5
  <2>2. \A i, j \in 1 .. Len(AfterAck(nr)) : i <= j => count + i <= count + j
    BY <1>1, <1>2, <1>4
  <2> QED
    BY <1>7, <2>1, <2>2
<1> QED
  BY <1>8 DEF Ordered

\* The inductive invariant: the windows, their times and their use.
Prompt == Windows /\ Punctual /\ NoIdleWindow

\* A new session has no timer running but t3.
LEMMA InitPrompt == SessionInit => Prompt
<1> SUFFICES ASSUME SessionInit PROVE Prompt
  OBVIOUS
<1>1. /\ now = 0 /\ unacked = <<>> /\ queue = <<>> /\ unacked_rx_since = None
      /\ test_sent = None /\ last_rx = 0
  BY DEF SessionInit, NewSession
<1>2. 1 .. Len(unacked) = {}
  BY <1>1, EmptySeq
<1> QED
  BY <1>1, <1>2, InitWindows DEF Prompt, Punctual, Ordered, NoTimerMissed, NoIdleWindow

\* An ASDU handed over joins the queue or the window.
LEMMA SendRawPrompt ==
  ASSUME Prompt, NEW asdu \in Asdus, SendRaw(asdu)
  PROVE  Prompt'
<1> DEFINE q == Append(MakeRoom(queue), asdu)
<1>1. Windows'
  BY SendRawWindows DEF Prompt
<1>2. Flush(started, q, unacked, recv_seq, last_acked_to_peer, unacked_rx_since, <<>>)
      /\ UNCHANGED <<now, closed, oldest_unacked_seq, last_rx, test_sent>>
      /\ closed = "open"
  BY DEF SendRaw
<1>3. q \in Seq(Asdus)
  <2>1. MakeRoom(queue) \in Seq(Asdus)
    <3>1. CASE Len(queue) >= MaxQueue
      <4>1. queue # <<>>
        BY <3>1, Types, EmptySeq DEF Prompt, Windows
      <4> QED
        BY <3>1, <4>1, Types, HeadTailProperties DEF MakeRoom, Prompt, Windows
    <3>2. CASE ~(Len(queue) >= MaxQueue)
      BY <3>2, Types DEF MakeRoom, Prompt, Windows
    <3> QED
      BY <3>1, <3>2
  <2> QED
    BY <2>1, AppendProperties
<1> HIDE DEF q
<1>4. Len(unacked) <= K /\ Windows
  BY DEF Prompt, Windows, SendWindow
<1>5. started \in BOOLEAN /\ unacked \in Seq(Nat) /\ unacked_rx_since \in Nat \cup {None}
  BY Types DEF Prompt, Windows
<1>6. NoIdleWindow'
  BY <1>2, <1>3, <1>4, <1>5, FlushFills
<1>7. Punctual'
  BY <1>2, <1>3, <1>4, <1>5, FlushPunctual DEF Prompt, Punctual, NoTimerMissed
<1> QED
  BY <1>1, <1>6, <1>7 DEF Prompt

\* A frame that is accepted: whatever the handler has done to the window, it
\* ends in flush, and the frame has just been received.
LEMMA ReceivedPrompt ==
  ASSUME Prompt, closed = "open", Windows',
         NEW st \in BOOLEAN, NEW un \in Seq(Nat), Len(un) <= K, Ordered(un),
         \A i \in 1 .. Len(un) : now - un[i] < T1,
         NEW recv, NEW acked, NEW since \in Nat \cup {None}, NEW sofar,
         since \in {None, now, unacked_rx_since},
         test_sent' \in {None, test_sent},
         last_rx' = now, now' = now,
         Flush(st, queue, un, recv, acked, since, sofar)
  PROVE  Prompt'
<1>1. Windows /\ queue \in Seq(Asdus) /\ now \in Nat
  BY Types DEF Prompt, Windows
<1>2. NoIdleWindow'
  BY <1>1, FlushFills
<1>3. /\ since # None => now - since < T2
      /\ test_sent' # None => now - test_sent' < T1
      /\ test_sent' = None => now - last_rx' < T3
  <2>1. now - now = 0
    BY <1>1
  <2>2. 0 < T2 /\ 0 < T3
    OBVIOUS
  <2>3. /\ unacked_rx_since # None => now - unacked_rx_since < T2
        /\ test_sent # None => now - test_sent < T1
    BY DEF Prompt, Punctual, NoTimerMissed
  <2> QED
    BY <2>1, <2>2, <2>3
<1>4. Punctual'
  BY <1>1, <1>3, FlushPunctual
<1> QED
  BY <1>2, <1>4 DEF Prompt

\* A frame of the peer, accepted or refused.
LEMMA OnApduPrompt ==
  ASSUME Prompt, NEW apdu \in Apdus, OnApdu(apdu)
  PROVE  Prompt'
<1>1. closed = "open" /\ Windows /\ Windows'
  BY OnApduWindows DEF Prompt, OnApdu
<1>2. /\ unacked \in Seq(Nat) /\ Len(unacked) <= K /\ Ordered(unacked)
      /\ \A i \in 1 .. Len(unacked) : now - unacked[i] < T1
  BY <1>1, Types DEF Prompt, Windows, SendWindow, Punctual, NoTimerMissed
<1>3. started \in BOOLEAN /\ unacked_rx_since \in Nat \cup {None} /\ now \in Nat
  BY <1>1, Types DEF Windows
<1>4. ASSUME NEW nr \in SeqNumbers, ~BadAcknowledge(nr)
      PROVE  /\ AfterAck(nr) \in Seq(Nat) /\ Len(AfterAck(nr)) <= K
             /\ Ordered(AfterAck(nr))
             /\ \A i \in 1 .. Len(AfterAck(nr)) : now - AfterAck(nr)[i] < T1
  BY <1>1, <1>4, AfterAckWindow, AfterAckOrdered DEF Prompt, Windows
<1>5. CASE apdu.type = "I" /\ OnI(apdu.ns, apdu.nr, apdu.asdu)
  <2> DEFINE recv == Advance(recv_seq, 1)
             full == WindowFull(recv)
             acked == IF full THEN recv ELSE last_acked_to_peer
             since == IF full THEN None ELSE Since
  <2>1. apdu.nr \in SeqNumbers
    BY <1>5 DEF Apdus
  <2>2. PICK sofar :
          Flush(started, queue, AfterAck(apdu.nr), recv, acked, since, sofar)
    BY <1>5 DEF OnI
  <2>3. ~BadAcknowledge(apdu.nr) /\ last_rx' = now /\ now' = now /\ test_sent' = test_sent
    BY <1>5 DEF OnI
  <2>4. since \in {None, now, unacked_rx_since}
    BY DEF Since
  <2>5. since \in Nat \cup {None}
    BY <1>3, <2>4
  <2> HIDE DEF recv, full, acked, since
  <2> QED
    BY <1>1, <1>3, <1>4, <2>1, <2>2, <2>3, <2>4, <2>5, ReceivedPrompt
<1>6. CASE apdu.type = "S" /\ OnS(apdu.nr)
  <2>1. apdu.nr \in SeqNumbers
    BY <1>6 DEF Apdus
  <2>2. /\ Flush(started, queue, AfterAck(apdu.nr), recv_seq, last_acked_to_peer,
                 unacked_rx_since, <<>>)
        /\ ~BadAcknowledge(apdu.nr)
        /\ last_rx' = now /\ now' = now /\ test_sent' = test_sent
    BY <1>6 DEF OnS
  <2> QED
    BY <1>1, <1>3, <1>4, <2>1, <2>2, ReceivedPrompt
<1>7. CASE \E reason \in Reasons \ {"open"} : Close(reason)
  <2>1. closed' # "open" /\ UNCHANGED <<now, session>>
    BY <1>7 DEF Close
  <2> QED
    BY <1>1, <2>1 DEF Prompt, Punctual, Ordered, NoTimerMissed, NoIdleWindow, session
<1>8. CASE OnStartDt
  <2>0. PICK st \in BOOLEAN :
          \E sofar : Flush(st, queue, unacked, recv_seq, last_acked_to_peer,
                           unacked_rx_since, sofar)
    BY <1>8 DEF OnStartDt
  <2>1. PICK sofar : Flush(st, queue, unacked, recv_seq, last_acked_to_peer,
                           unacked_rx_since, sofar)
    BY <2>0
  <2>2. last_rx' = now /\ now' = now /\ test_sent' \in {None, test_sent}
    BY <1>8 DEF OnStartDt
  <2>3. unacked_rx_since \in {None, now, unacked_rx_since}
    OBVIOUS
  <2> QED
    BY <1>1, <1>2, <1>3, <2>1, <2>2, <2>3, ReceivedPrompt
<1>9. CASE OnStopDt
  <2> DEFINE since == IF recv_seq # last_acked_to_peer THEN None ELSE unacked_rx_since
  <2>0. PICK st \in BOOLEAN :
          \E sofar : Flush(st, queue, unacked, recv_seq, recv_seq, since, sofar)
    BY <1>9 DEF OnStopDt
  <2>1. PICK sofar : Flush(st, queue, unacked, recv_seq, recv_seq, since, sofar)
    BY <2>0
  <2>2. last_rx' = now /\ now' = now /\ test_sent' \in {None, test_sent}
    BY <1>9 DEF OnStopDt
  <2>3. since \in {None, now, unacked_rx_since} /\ since \in Nat \cup {None}
    BY <1>3
  <2> HIDE DEF since
  <2> QED
    BY <1>1, <1>2, <2>1, <2>2, <2>3, ReceivedPrompt
<1>10. CASE \E f : OnTestOrCon(f)
  <2>1. PICK sofar : Flush(started, queue, unacked, recv_seq, last_acked_to_peer,
                           unacked_rx_since, sofar)
    BY <1>10 DEF OnTestOrCon
  <2>2. last_rx' = now /\ now' = now /\ test_sent' \in {None, test_sent}
    BY <1>10 DEF OnTestOrCon
  <2> QED
    BY <1>1, <1>2, <1>3, <2>1, <2>2, ReceivedPrompt
<1> QED
  BY <1>5, <1>6, <1>7, <1>8, <1>9, <1>10 DEF OnApdu, Reasons

\* A tick that closes nothing finds every timer short of its limit.
LEMMA TickPrompt ==
  ASSUME Prompt, Tick
  PROVE  Prompt'
<1>1. Windows /\ Windows' /\ closed = "open"
  BY TickWindows DEF Prompt, Tick
<1>2. /\ now \in Nat /\ now' = now + 1
      /\ unacked \in Seq(Nat) /\ Len(unacked) \in Nat
      /\ unacked_rx_since \in Nat \cup {None} /\ test_sent \in Nat \cup {None}
      /\ last_rx \in Nat
  BY <1>1, Types DEF Windows, Tick
<1>3. \A i \in 1 .. Len(unacked) : unacked[i] \in Nat
  BY <1>2, ElementOfSeq
<1>4. CASE closed' # "open" /\ UNCHANGED session
  <2>1. Ordered(unacked)'
    BY <1>2, <1>3, <1>4 DEF Prompt, Punctual, Ordered, session
  <2> QED
    BY <1>1, <1>4, <2>1 DEF Prompt, Punctual, NoTimerMissed, NoIdleWindow, session
<1>5. CASE ~AckTimeout /\ ~TestTimeout /\ OnTick
  <2>1. UNCHANGED <<closed, started, unacked, queue, last_rx>>
    BY <1>5 DEF OnTick
  <2>2. NoIdleWindow'
    BY <2>1 DEF Prompt, NoIdleWindow
  <2>3. Ordered(unacked)'
    BY <1>2, <1>3, <2>1 DEF Prompt, Punctual, Ordered
  <2>4. \A i \in 1 .. Len(unacked) : now' - unacked[i] < T1
    <3> SUFFICES ASSUME NEW i \in 1 .. Len(unacked) PROVE now' - unacked[i] < T1
      OBVIOUS
    <3>1. unacked # <<>> /\ 1 \in 1 .. Len(unacked)
      BY <1>2, EmptySeq
    <3>2. Head(unacked) = unacked[1]
      BY <1>2, <3>1, HeadTailProperties
    <3>3. unacked[1] <= unacked[i]
      BY <1>2, <3>1 DEF Prompt, Punctual, Ordered
    <3>4. now' - unacked[1] < T1
      BY <1>2, <1>3, <1>5, <3>1, <3>2 DEF AckTimeout
    <3> QED
      BY <1>2, <1>3, <3>1, <3>3, <3>4
  <2>5. unacked_rx_since' # None => now' - unacked_rx_since' < T2
    BY <1>2, <1>5 DEF OnTick, Expired
  <2>6. test_sent' # None => now' - test_sent' < T1
    BY <1>2, <1>5 DEF OnTick, TestTimeout, Expired
  <2>7. test_sent' = None => now' - last_rx' < T3
    BY <1>2, <1>5, <2>1 DEF OnTick, TestDue
  <2> QED
    BY <1>1, <2>1, <2>2, <2>3, <2>4, <2>5, <2>6, <2>7
       DEF Prompt, Punctual, NoTimerMissed
<1> QED
  BY <1>4, <1>5 DEF Tick

\* Every step of the session keeps the invariant.
LEMMA NextPrompt == Prompt /\ [SessionNext]_svars => Prompt'
<1> SUFFICES ASSUME Prompt, [SessionNext]_svars PROVE Prompt'
  OBVIOUS
<1>1. CASE \E asdu \in Asdus : SendRaw(asdu)
  BY <1>1, SendRawPrompt
<1>2. CASE \E apdu \in Apdus : OnApdu(apdu)
  BY <1>2, OnApduPrompt
<1>3. CASE Tick
  BY <1>3, TickPrompt
<1>4. CASE UNCHANGED svars
  <2>1. Windows'
    BY <1>4, NextWindows DEF Prompt
  <2> QED
    BY <1>4, <2>1 DEF svars, session, Prompt, Punctual, Ordered, NoTimerMissed, NoIdleWindow
<1> QED
  BY <1>1, <1>2, <1>3, <1>4 DEF SessionNext, Gone

\* No live session is past one of its timers, whatever the peer sends.
THEOREM NoTimerMissedHolds == SessionSpec => []NoTimerMissed
<1>1. Prompt => NoTimerMissed
  BY DEF Prompt, Punctual
<1> QED
  BY <1>1, InitPrompt, NextPrompt, PTL DEF SessionSpec

\* Nothing waits in the queue while the window has room.
THEOREM NoIdleWindowHolds == SessionSpec => []NoIdleWindow
<1>1. Prompt => NoIdleWindow
  BY DEF Prompt
<1> QED
  BY <1>1, InitPrompt, NextPrompt, PTL DEF SessionSpec
-----------------------------------------------------------------------------
\* The link: two stations and the streams between them.

USE LinkAssumption

-----------------------------------------------------------------------------
\* Sequences by type.

\* Induction over the naturals, for a set.
LEMMA SetInduction ==
  ASSUME NEW S \in SUBSET Nat, 0 \in S, \A n \in S : n + 1 \in S
  PROVE  S = Nat
<1> DEFINE R == OpToRel(<, Nat)
           T == Nat \ S
<1> SUFFICES ASSUME T # {} PROVE FALSE
  OBVIOUS
<1>1. PICK m \in T : \A k \in T : <<k, m>> \notin R
  BY NatLessThanWellFounded, WFMin
<1>2. \A k \in T : ~(k < m)
  BY <1>1 DEF OpToRel
<1>3. m - 1 \in Nat /\ m - 1 \in S
  BY <1>2
<1> QED
  BY <1>3

\* What the recursion in OfType defines, up to n.
Keeps(f, s, types, n) ==
  f = [i \in 0 .. n |->
        IF i = 0 THEN <<>>
        ELSE IF s[i].type \in types THEN Append(f[i - 1], s[i]) ELSE f[i - 1]]

\* There is such a function.
LEMMA KeepsExists ==
  ASSUME NEW s, NEW types, NEW n \in Nat
  PROVE  \E f : Keeps(f, s, types, n)
<1> DEFINE S == {m \in Nat : \E f : Keeps(f, s, types, m)}
<1>1. 0 \in S
  <2> DEFINE f == [i \in 0 .. 0 |-> <<>>]
  <2>1. Keeps(f, s, types, 0)
    BY DEF Keeps
  <2> HIDE DEF f
  <2> QED
    BY <2>1
<1>2. \A m \in S : m + 1 \in S
  <2> SUFFICES ASSUME NEW m \in S PROVE m + 1 \in S
    OBVIOUS
  <2>1. PICK f : Keeps(f, s, types, m)
    OBVIOUS
  <2> DEFINE last == IF s[m + 1].type \in types THEN Append(f[m], s[m + 1]) ELSE f[m]
             g == [i \in 0 .. m + 1 |-> IF i = m + 1 THEN last ELSE f[i]]
  <2>2. \A i \in 0 .. m : f[i] =
          IF i = 0 THEN <<>>
          ELSE IF s[i].type \in types THEN Append(f[i - 1], s[i]) ELSE f[i - 1]
    BY <2>1 DEF Keeps
  <2>3. \A i \in 0 .. m : g[i] = f[i]
    OBVIOUS
  <2>4. \A i \in 0 .. m + 1 : g[i] =
          IF i = 0 THEN <<>>
          ELSE IF s[i].type \in types THEN Append(g[i - 1], s[i]) ELSE g[i - 1]
    <3> SUFFICES ASSUME NEW i \in 0 .. m + 1
                 PROVE  g[i] = IF i = 0 THEN <<>>
                               ELSE IF s[i].type \in types THEN Append(g[i - 1], s[i])
                                    ELSE g[i - 1]
      OBVIOUS
    <3>1. CASE i = m + 1
      <4>1. g[i] = last /\ i # 0 /\ g[i - 1] = f[m]
        BY <3>1, <2>3
      <4> QED
        BY <3>1, <4>1
    <3>2. CASE i \in 0 .. m
      <4>1. g[i] = f[i] /\ (i # 0 => g[i - 1] = f[i - 1])
        BY <2>3, <3>2
      <4> HIDE DEF g
      <4> QED
        BY <2>2, <3>2, <4>1
    <3> QED
      BY <3>1, <3>2
  <2>5. g = [i \in 0 .. m + 1 |-> g[i]]
    OBVIOUS
  <2> HIDE DEF g
  <2>6. Keeps(g, s, types, m + 1)
    BY <2>4, <2>5 DEF Keeps
  <2> QED
    BY <2>6
<1> HIDE DEF S
<1>3. S = Nat
  <2>1. S \in SUBSET Nat
    BY DEF S
  <2> QED
    BY <1>1, <1>2, <2>1, SetInduction
<1> QED
  BY <1>3 DEF S
\* The steps of the recursion.
LEMMA KeepsSteps ==
  ASSUME NEW f, NEW s, NEW types, NEW n \in Nat, Keeps(f, s, types, n)
  PROVE  /\ f[0] = <<>>
         /\ \A i \in 1 .. n :
              f[i] = IF s[i].type \in types THEN Append(f[i - 1], s[i]) ELSE f[i - 1]
<1>1. \A i \in 0 .. n : f[i] =
        IF i = 0 THEN <<>>
        ELSE IF s[i].type \in types THEN Append(f[i - 1], s[i]) ELSE f[i - 1]
  BY DEF Keeps
<1>2. f[0] = <<>>
  <2>1. 0 \in 0 .. n
    OBVIOUS
  <2> QED
    BY <1>1, <2>1
<1>3. ASSUME NEW i \in 1 .. n
      PROVE  f[i] = IF s[i].type \in types THEN Append(f[i - 1], s[i]) ELSE f[i - 1]
  <2>1. i \in 0 .. n /\ i # 0
    OBVIOUS
  <2> QED
    BY <1>1, <2>1
<1> QED
  BY <1>2, <1>3

\* OfType is the last value of the function it chooses.
LEMMA OfTypeKeeps ==
  ASSUME NEW s, NEW types, Len(s) \in Nat
  PROVE  \E f : Keeps(f, s, types, Len(s)) /\ OfType(s, types) = f[Len(s)]
<1>1. \E f : Keeps(f, s, types, Len(s))
  BY KeepsExists
<1> DEFINE f == CHOOSE f : Keeps(f, s, types, Len(s))
<1>2. Keeps(f, s, types, Len(s))
  BY <1>1
<1>3. OfType(s, types) = f[Len(s)]
  BY DEF OfType, Keeps
<1> QED
  BY <1>2, <1>3

\* Two sequences with the same beginning keep the same of it.
LEMMA KeepsPrefix ==
  ASSUME NEW f, NEW g, NEW s, NEW t, NEW types, NEW n \in Nat, NEW m \in Nat,
         NEW l \in Nat, l <= n, l <= m,
         Keeps(f, s, types, n), Keeps(g, t, types, m),
         \A i \in 1 .. l : s[i] = t[i]
  PROVE  f[l] = g[l]
<1> DEFINE S == {i \in Nat : i <= l => f[i] = g[i]}
<1>1. 0 \in S
  BY KeepsSteps
<1>2. \A i \in S : i + 1 \in S
  <2> SUFFICES ASSUME NEW i \in S, i + 1 <= l PROVE f[i + 1] = g[i + 1]
    OBVIOUS
  <2>1. f[i] = g[i] /\ i + 1 \in 1 .. l /\ i + 1 \in 1 .. n /\ i + 1 \in 1 .. m
    OBVIOUS
  <2>2. f[i + 1] = IF s[i + 1].type \in types THEN Append(f[i], s[i + 1]) ELSE f[i]
    BY <2>1, KeepsSteps
  <2>3. g[i + 1] = IF t[i + 1].type \in types THEN Append(g[i], t[i + 1]) ELSE g[i]
    BY <2>1, KeepsSteps
  <2> QED
    BY <2>1, <2>2, <2>3
<1> HIDE DEF S
<1>3. S = Nat
  <2>1. S \in SUBSET Nat
    BY DEF S
  <2> QED
    BY <1>1, <1>2, <2>1, SetInduction
<1> QED
  BY <1>3 DEF S

\* Of an empty sequence nothing is kept, and an element more adds itself, if
\* it is of the types.
LEMMA OfTypeEmpty ==
  ASSUME NEW types
  PROVE  OfType(<<>>, types) = <<>>
<1>1. Len(<<>>) = 0
  BY EmptySeq
<1> QED
  BY <1>1, OfTypeKeeps, KeepsSteps

LEMMA OfTypeAppend ==
  ASSUME NEW X, NEW s \in Seq(X), NEW x \in X, NEW types
  PROVE  OfType(Append(s, x), types) =
           IF x.type \in types THEN Append(OfType(s, types), x) ELSE OfType(s, types)
<1> DEFINE t == Append(s, x)
           n == Len(s)
<1>1. n \in Nat /\ t \in Seq(X) /\ Len(t) = n + 1 /\ t[n + 1] = x
      /\ \A i \in 1 .. n : s[i] = t[i]
  BY AppendProperties, LenProperties
<1> HIDE DEF t, n
<1>2. PICK f : Keeps(f, s, types, n) /\ OfType(s, types) = f[n]
  BY <1>1, OfTypeKeeps DEF n
<1>3. PICK g : Keeps(g, t, types, n + 1) /\ OfType(t, types) = g[n + 1]
  BY <1>1, OfTypeKeeps
<1>4. f[n] = g[n]
  BY <1>1, <1>2, <1>3, KeepsPrefix
<1>5. g[n + 1] = IF t[n + 1].type \in types THEN Append(g[n], t[n + 1]) ELSE g[n]
  BY <1>1, <1>3, KeepsSteps
<1>6. OfType(t, types) =
        IF x.type \in types THEN Append(OfType(s, types), x) ELSE OfType(s, types)
  BY <1>1, <1>2, <1>3, <1>4, <1>5
<1> QED
  BY <1>6 DEF t

\* Induction over sequences, for a set: the library's takes an operator.
LEMMA SeqInduction ==
  ASSUME NEW X, NEW P \in SUBSET Seq(X), <<>> \in P,
         \A s \in P, x \in X : Append(s, x) \in P
  PROVE  P = Seq(X)
<1> DEFINE Upto(n) == \A s \in Seq(X) : Len(s) = n => s \in P
           S == {n \in Nat : Upto(n)}
<1>1. Upto(0)
  BY EmptySeq
<1>2. ASSUME NEW n \in Nat, Upto(n) PROVE Upto(n + 1)
  <2> SUFFICES ASSUME NEW t \in Seq(X), Len(t) = n + 1 PROVE t \in P
    OBVIOUS
  <2>1. t # <<>>
    BY EmptySeq
  <2>2. PICK s \in Seq(X), x \in X : t = Append(s, x)
    BY <2>1, SequenceEmptyOrAppend
  <2>3. Len(s) = n
    BY <2>2, AppendProperties, LenProperties
  <2> QED
    BY <1>2, <2>2, <2>3
<1> HIDE DEF Upto
<1>3. S = Nat
  <2>1. 0 \in S /\ \A n \in S : n + 1 \in S
    BY <1>1, <1>2
  <2> HIDE DEF S
  <2>2. S \in SUBSET Nat
    BY DEF S
  <2> QED
    BY <2>1, <2>2, SetInduction
<1>4. \A s \in Seq(X) : s \in P
  BY <1>3, LenProperties DEF Upto
<1> QED
  BY <1>4

\* What is kept is a sequence of the same kind, all of the types.
LEMMA OfTypeType ==
  ASSUME NEW X, NEW types
  PROVE  \A s \in Seq(X) : OfType(s, types) \in Seq({x \in X : x.type \in types})
<1> DEFINE Y == {x \in X : x.type \in types}
           P == {s \in Seq(X) : OfType(s, types) \in Seq(Y)}
<1>1. <<>> \in P
  BY OfTypeEmpty, EmptySeq
<1>2. \A s \in P, x \in X : Append(s, x) \in P
  <2> SUFFICES ASSUME NEW s \in P, NEW x \in X PROVE Append(s, x) \in P
    OBVIOUS
  <2>1. Append(s, x) \in Seq(X)
    BY AppendProperties
  <2>2. CASE x.type \in types
    <3>1. x \in Y /\ Append(OfType(s, types), x) \in Seq(Y)
      BY <2>2, AppendProperties
    <3> QED
      BY <2>1, <2>2, <3>1, OfTypeAppend
  <2>3. CASE x.type \notin types
    BY <2>1, <2>3, OfTypeAppend
  <2> QED
    BY <2>2, <2>3
<1> HIDE DEF P
<1>3. P = Seq(X)
  <2>1. P \in SUBSET Seq(X)
    BY DEF P
  <2> QED
    BY <1>1, <1>2, <2>1, SeqInduction
<1> QED
  BY <1>3 DEF P

\* Appending to a concatenation.
LEMMA ConcatAppend ==
  ASSUME NEW X, NEW s \in Seq(X), NEW t \in Seq(X), NEW x \in X
  PROVE  s \o Append(t, x) = Append(s \o t, x)
<1>1. Append(t, x) = t \o <<x>> /\ Append(s \o t, x) = (s \o t) \o <<x>>
  BY AppendIsConcat, ConcatProperties
<1>2. <<x>> \in Seq(X)
  OBVIOUS
<1> QED
  BY <1>1, <1>2, ConcatAssociative

\* What is kept of two sequences in a row.
LEMMA OfTypeConcat ==
  ASSUME NEW X, NEW types, NEW s \in Seq(X)
  PROVE  \A t \in Seq(X) :
           OfType(s \o t, types) = OfType(s, types) \o OfType(t, types)
<1> DEFINE P == {t \in Seq(X) :
                   OfType(s \o t, types) = OfType(s, types) \o OfType(t, types)}
<1>0. \A t \in Seq(X) : OfType(t, types) \in Seq(X)
  <2> SUFFICES ASSUME NEW t \in Seq(X) PROVE OfType(t, types) \in Seq(X)
    OBVIOUS
  <2>1. OfType(t, types) \in Seq({x \in X : x.type \in types})
    BY OfTypeType
  <2> QED
    BY <2>1, SeqMonotonic
<1>1. <<>> \in P
  BY <1>0, OfTypeEmpty, EmptySeq, ConcatEmptySeq
<1>2. \A t \in P, x \in X : Append(t, x) \in P
  <2> SUFFICES ASSUME NEW t \in P, NEW x \in X PROVE Append(t, x) \in P
    OBVIOUS
  <2>1. Append(t, x) \in Seq(X) /\ s \o t \in Seq(X)
    BY AppendProperties, ConcatProperties
  <2>2. s \o Append(t, x) = Append(s \o t, x)
    BY ConcatAppend
  <2>3. OfType(s \o Append(t, x), types) =
          IF x.type \in types THEN Append(OfType(s \o t, types), x)
          ELSE OfType(s \o t, types)
    <3> DEFINE u == s \o t
    <3>1. u \in Seq(X) /\ s \o Append(t, x) = Append(u, x)
      BY <2>1, <2>2
    <3> HIDE DEF u
    <3>2. OfType(Append(u, x), types) =
            IF x.type \in types THEN Append(OfType(u, types), x) ELSE OfType(u, types)
      BY <3>1, OfTypeAppend
    <3>3. OfType(s \o Append(t, x), types) = OfType(Append(u, x), types)
      BY <3>1
    <3> QED
      BY <3>2, <3>3 DEF u
  <2>4. OfType(Append(t, x), types) =
          IF x.type \in types THEN Append(OfType(t, types), x) ELSE OfType(t, types)
    BY OfTypeAppend
  <2>5. OfType(s \o t, types) = OfType(s, types) \o OfType(t, types)
    OBVIOUS
  <2>6. Append(OfType(s, types) \o OfType(t, types), x)
          = OfType(s, types) \o Append(OfType(t, types), x)
    <3> DEFINE a == OfType(s, types)
               b == OfType(t, types)
    <3>1. a \in Seq(X) /\ b \in Seq(X)
      BY <1>0
    <3> HIDE DEF a, b
    <3>2. a \o Append(b, x) = Append(a \o b, x)
      BY <3>1, ConcatAppend
    <3> QED
      BY <3>2 DEF a, b
  <2> QED
    BY <2>1, <2>3, <2>4, <2>5, <2>6
<1> HIDE DEF P
<1>3. P = Seq(X)
  <2>1. P \in SUBSET Seq(X)
    BY DEF P
  <2> QED
    BY <1>1, <1>2, <2>1, SeqInduction
<1> QED
  BY <1>3 DEF P
\* The first element comes first.
LEMMA OfTypeOne ==
  ASSUME NEW X, NEW x \in X, NEW types
  PROVE  OfType(<<x>>, types) = IF x.type \in types THEN <<x>> ELSE <<>>
<1> DEFINE none == <<>>
<1>1. none \in Seq(X)
  BY EmptySeq
<1>2. Append(none, x) = <<x>> /\ OfType(none, types) = none
  BY OfTypeEmpty
<1> HIDE DEF none
<1>3. OfType(Append(none, x), types) =
        IF x.type \in types THEN Append(OfType(none, types), x) ELSE OfType(none, types)
  BY <1>1, OfTypeAppend
<1> QED
  BY <1>2, <1>3 DEF none

LEMMA OfTypeHead ==
  ASSUME NEW X, NEW s \in Seq(X), s # <<>>, NEW types
  PROVE  OfType(s, types) = IF Head(s).type \in types
                            THEN <<Head(s)>> \o OfType(Tail(s), types)
                            ELSE OfType(Tail(s), types)
<1> DEFINE x == Head(s)
           t == Tail(s)
<1>1. x \in X /\ t \in Seq(X)
  BY HeadTailProperties
<1>2. s = <<x>> \o t
  OBVIOUS
<1> HIDE DEF x, t
<1>3. <<x>> \in Seq(X)
  BY <1>1
<1>4. OfType(s, types) = OfType(<<x>>, types) \o OfType(t, types)
  <2> DEFINE first == <<x>>
  <2>1. first \in Seq(X) /\ s = first \o t
    BY <1>2, <1>3
  <2> HIDE DEF first
  <2>2. OfType(first \o t, types) = OfType(first, types) \o OfType(t, types)
    BY <1>1, <2>1, OfTypeConcat
  <2> QED
    BY <2>1, <2>2 DEF first
<1>5. OfType(<<x>>, types) = IF x.type \in types THEN <<x>> ELSE <<>>
  BY <1>1, OfTypeOne
<1>6. <<>> \o OfType(t, types) = OfType(t, types)
  BY <1>1, OfTypeType, ConcatEmptySeq
<1> QED
  BY <1>4, <1>5, <1>6 DEF x, t

\* All of it, or nothing of it, is kept.
LEMMA OfTypeAll ==
  ASSUME NEW X, NEW types, \A x \in X : x.type \in types
  PROVE  \A s \in Seq(X) : OfType(s, types) = s
<1> DEFINE P == {s \in Seq(X) : OfType(s, types) = s}
<1>1. <<>> \in P
  BY OfTypeEmpty, EmptySeq
<1>2. \A s \in P, x \in X : Append(s, x) \in P
  BY OfTypeAppend, AppendProperties
<1> HIDE DEF P
<1>3. P = Seq(X)
  <2>1. P \in SUBSET Seq(X)
    BY DEF P
  <2> QED
    BY <1>1, <1>2, <2>1, SeqInduction
<1> QED
  BY <1>3 DEF P

LEMMA OfTypeNone ==
  ASSUME NEW X, NEW types, \A x \in X : x.type \notin types
  PROVE  \A s \in Seq(X) : OfType(s, types) = <<>>
<1> DEFINE P == {s \in Seq(X) : OfType(s, types) = <<>>}
<1>1. <<>> \in P
  BY OfTypeEmpty, EmptySeq
<1>2. \A s \in P, x \in X : Append(s, x) \in P
  BY OfTypeAppend, AppendProperties
<1> HIDE DEF P
<1>3. P = Seq(X)
  <2>1. P \in SUBSET Seq(X)
    BY DEF P
  <2> QED
    BY <1>1, <1>2, <2>1, SeqInduction
<1> QED
  BY <1>3 DEF P

\* Keeping some types of what was kept of more types.
LEMMA OfTypeTwice ==
  ASSUME NEW X, NEW types, NEW more, types \subseteq more
  PROVE  \A s \in Seq(X) : OfType(OfType(s, more), types) = OfType(s, types)
<1> DEFINE P == {s \in Seq(X) : OfType(OfType(s, more), types) = OfType(s, types)}
<1>1. <<>> \in P
  BY OfTypeEmpty, EmptySeq
<1>2. ASSUME NEW s \in P, NEW x \in X PROVE Append(s, x) \in P
  <2> DEFINE k == OfType(s, more)
  <2>1. k \in Seq(X)
    <3>1. k \in Seq({e \in X : e.type \in more})
      BY OfTypeType
    <3> QED
      BY <3>1, SeqMonotonic
  <2>2. OfType(k, types) = OfType(s, types)
    OBVIOUS
  <2>3. OfType(Append(s, x), more) = IF x.type \in more THEN Append(k, x) ELSE k
    BY OfTypeAppend
  <2>4. OfType(Append(s, x), types) =
          IF x.type \in types THEN Append(OfType(s, types), x) ELSE OfType(s, types)
    BY OfTypeAppend
  <2> HIDE DEF k
  <2>5. OfType(Append(k, x), types) =
          IF x.type \in types THEN Append(OfType(k, types), x) ELSE OfType(k, types)
    BY <2>1, OfTypeAppend
  <2>6. OfType(OfType(Append(s, x), more), types) = OfType(Append(s, x), types)
    BY <2>2, <2>3, <2>4, <2>5
  <2> QED
    BY <2>6, AppendProperties
<1> HIDE DEF P
<1>3. P = Seq(X)
  <2>1. P \in SUBSET Seq(X)
    BY DEF P
  <2> QED
    BY <1>1, <1>2, <2>1, SeqInduction
<1> QED
  BY <1>3 DEF P

-----------------------------------------------------------------------------
\* More of the ring of sequence numbers.

LEMMA AdvanceAdd ==
  ASSUME NEW a \in SeqNumbers, NEW m \in Nat, NEW n \in Nat, m + n < Modulo
  PROVE  Advance(Advance(a, m), n) = Advance(a, m + n)
<1> DEFINE b == Advance(a, m)
<1>1. a \in Nat /\ a < Modulo
  BY DEF SeqNumbers
<1>2. b \in SeqNumbers /\ b = IF a + m < Modulo THEN a + m ELSE a + m - Modulo
  BY <1>1, AdvanceExplicit
<1> HIDE DEF b
<1>3. Advance(b, n) = IF b + n < Modulo THEN b + n ELSE b + n - Modulo
  BY <1>2, AdvanceExplicit
<1>4. Advance(a, m + n) = IF a + m + n < Modulo THEN a + m + n ELSE a + m + n - Modulo
  BY <1>1, AdvanceExplicit
<1>5. b \in Nat /\ b < Modulo
  BY <1>2 DEF SeqNumbers
<1> QED
  BY <1>1, <1>2, <1>3, <1>4, <1>5 DEF b

LEMMA AdvanceDistance ==
  ASSUME NEW a \in SeqNumbers, NEW b \in SeqNumbers
  PROVE  b = Advance(a, SeqDistance(a, b))
<1> DEFINE n == SeqDistance(a, b)
<1>1. a \in Nat /\ b \in Nat /\ a < Modulo /\ b < Modulo
  BY DEF SeqNumbers
<1>2. n \in Nat /\ n < Modulo /\ n = IF b >= a THEN b - a ELSE b - a + Modulo
  BY <1>1, DistanceExplicit DEF SeqNumbers
<1> HIDE DEF n
<1>3. Advance(a, n) = IF a + n < Modulo THEN a + n ELSE a + n - Modulo
  BY <1>2, AdvanceExplicit
<1> QED
  BY <1>1, <1>2, <1>3 DEF n

LEMMA AdvanceZero ==
  ASSUME NEW a \in SeqNumbers
  PROVE  Advance(a, 0) = a
<1>1. a \in Nat /\ a < Modulo
  BY DEF SeqNumbers
<1> QED
  BY <1>1, AdvanceExplicit

LEMMA DistanceNat ==
  ASSUME NEW a \in SeqNumbers, NEW b \in SeqNumbers
  PROVE  SeqDistance(a, b) \in Nat /\ SeqDistance(a, b) < Modulo
BY DistanceExplicit DEF SeqNumbers
-----------------------------------------------------------------------------
\* One direction of the link: a sender that has count frames unacknowledged,
\* the oldest of them numbered base; a receiver that expects next and has told
\* the sender so up to told; the data on its way, and the acknowledgements on
\* theirs.  Both directions of the link are of this form.

IFrames == [type : {"I"}, ns : SeqNumbers, nr : SeqNumbers, asdu : Asdus]
AckFrames == IFrames \cup [type : {"S"}, nr : SeqNumbers]

Data(frames) == OfType(frames, {"I"})
Acks(frames) == OfType(frames, {"I", "S"})

OneWayTypeOK(base, count, next, told, data, acks) ==
  /\ base \in SeqNumbers /\ next \in SeqNumbers /\ told \in SeqNumbers
  /\ count \in Nat /\ count <= K
  /\ data \in Seq(IFrames)
  /\ acks \in Seq(AckFrames)

\* The data on its way is what the receiver expects, in order; what it has
\* told never goes back, and never beyond what it has received.
OneWay(base, count, next, told, data, acks) ==
  /\ OneWayTypeOK(base, count, next, told, data, acks)
  /\ SeqDistance(base, next) + Len(data) = count
  /\ \A i \in 1 .. Len(data) : data[i].ns = Advance(next, i - 1)
  /\ \A i, j \in 1 .. Len(acks) :
       i <= j => SeqDistance(base, acks[i].nr) <= SeqDistance(base, acks[j].nr)
  /\ acks = <<>> => told = base
  /\ acks # <<>> => told = acks[Len(acks)].nr
  /\ SeqDistance(base, told) <= SeqDistance(base, next)

\* The types of the elements.
LEMMA OneWayElements ==
  ASSUME NEW base, NEW count, NEW next, NEW told, NEW data, NEW acks,
         OneWayTypeOK(base, count, next, told, data, acks)
  PROVE  /\ Len(data) \in Nat /\ Len(acks) \in Nat
         /\ \A i \in 1 .. Len(data) : data[i] \in IFrames
         /\ \A i \in 1 .. Len(acks) : acks[i] \in AckFrames /\ acks[i].nr \in SeqNumbers
<1>1. data \in Seq(IFrames) /\ acks \in Seq(AckFrames)
  BY DEF OneWayTypeOK
<1>2. \A f \in AckFrames : f.nr \in SeqNumbers
  BY DEF AckFrames, IFrames
<1> QED
  BY <1>1, <1>2, LenProperties, ElementOfSeq

\* Frames numbered on from the sender's next number continue the data.
LEMMA OneWaySend ==
  ASSUME NEW base, NEW count, NEW next, NEW told, NEW data, NEW acks,
         OneWay(base, count, next, told, data, acks),
         NEW seq \in SeqNumbers, SeqDistance(base, seq) = count,
         NEW more \in Seq(IFrames), count + Len(more) <= K,
         \A i \in 1 .. Len(more) : more[i].ns = Advance(seq, i - 1)
  PROVE  OneWay(base, count + Len(more), next, told, data \o more, acks)
<1> DEFINE all == data \o more
<1>1. OneWayTypeOK(base, count, next, told, data, acks)
  BY DEF OneWay
<1>2. /\ base \in SeqNumbers /\ next \in SeqNumbers /\ count \in Nat /\ count <= K
      /\ data \in Seq(IFrames) /\ Len(data) \in Nat /\ Len(more) \in Nat
  BY <1>1, OneWayElements, LenProperties DEF OneWayTypeOK
<1>3. /\ all \in Seq(IFrames) /\ Len(all) = Len(data) + Len(more)
      /\ \A i \in 1 .. Len(data) + Len(more) :
           all[i] = IF i <= Len(data) THEN data[i] ELSE more[i - Len(data)]
  BY <1>2, ConcatProperties
<1> HIDE DEF all
<1>4. SeqDistance(base, next) \in Nat /\ SeqDistance(base, next) + Len(data) = count
  BY <1>2, DistanceNat DEF OneWay
<1>5. seq = Advance(next, Len(data))
  <2>1. SeqDistance(next, seq) = Len(data)
    BY <1>2, <1>4, DistanceSplit
  <2> QED
    BY <1>2, <2>1, AdvanceDistance
<1>6. \A i \in 1 .. Len(all) : all[i].ns = Advance(next, i - 1)
  <2> SUFFICES ASSUME NEW i \in 1 .. Len(all) PROVE all[i].ns = Advance(next, i - 1)
    OBVIOUS
  <2>1. CASE i <= Len(data)
    <3>1. all[i] = data[i] /\ i \in 1 .. Len(data)
      BY <1>2, <1>3, <2>1
    <3> QED
      BY <3>1 DEF OneWay
  <2>2. CASE i > Len(data)
    <3> DEFINE j == i - Len(data)
    <3>1. j \in 1 .. Len(more) /\ all[i] = more[j] /\ Len(data) + (j - 1) = i - 1
          /\ j - 1 \in Nat /\ Len(data) + (j - 1) < Modulo
      BY <1>2, <1>3, <1>4, <2>2
    <3> HIDE DEF j
    <3>2. more[j].ns = Advance(seq, j - 1)
      BY <3>1
    <3>3. Advance(seq, j - 1) = Advance(next, Len(data) + (j - 1))
      BY <1>2, <1>5, <3>1, AdvanceAdd
    <3> QED
      BY <3>1, <3>2, <3>3
  <2> QED
    BY <1>2, <1>3, <2>1, <2>2
<1>7. OneWayTypeOK(base, count + Len(more), next, told, all, acks)
  BY <1>1, <1>2, <1>3 DEF OneWayTypeOK
<1>8. SeqDistance(base, next) + Len(all) = count + Len(more)
  BY <1>2, <1>3, <1>4
<1> QED
  BY <1>6, <1>7, <1>8 DEF OneWay, all

\* The first of the data is the one expected.
LEMMA OneWayReceive ==
  ASSUME NEW base, NEW count, NEW next, NEW told, NEW data, NEW acks,
         OneWay(base, count, next, told, data, acks), data # <<>>
  PROVE  /\ Head(data).ns = next
         /\ Advance(next, 1) \in SeqNumbers
         /\ SeqDistance(base, next) <= SeqDistance(base, Advance(next, 1))
         /\ OneWay(base, count, Advance(next, 1), told, Tail(data), acks)
<1> DEFINE rest == Tail(data)
           then == Advance(next, 1)
<1>1. OneWayTypeOK(base, count, next, told, data, acks)
  BY DEF OneWay
<1>2. /\ base \in SeqNumbers /\ next \in SeqNumbers /\ count \in Nat /\ count <= K
      /\ data \in Seq(IFrames) /\ Len(data) \in Nat /\ Len(data) > 0
      /\ told \in SeqNumbers
  BY <1>1, OneWayElements, EmptySeq DEF OneWayTypeOK
<1>3. /\ rest \in Seq(IFrames) /\ Len(rest) = Len(data) - 1
      /\ \A i \in 1 .. Len(rest) : rest[i] = data[i + 1]
  BY <1>2, HeadTailProperties
<1>4. Head(data) = data[1]
  BY <1>2
<1>5. Head(data).ns = next
  <2>1. data[1].ns = Advance(next, 1 - 1)
    BY <1>2 DEF OneWay
  <2> QED
    BY <1>2, <1>4, <2>1, AdvanceZero
<1>6. SeqDistance(base, next) \in Nat /\ SeqDistance(base, next) + Len(data) = count
  BY <1>2, DistanceNat DEF OneWay
<1>7. then \in SeqNumbers /\ SeqDistance(base, then) = SeqDistance(base, next) + 1
  BY <1>2, <1>6, AdvanceExplicit, DistanceAdvance
<1>8. \A i \in 1 .. Len(rest) : rest[i].ns = Advance(then, i - 1)
  <2> SUFFICES ASSUME NEW i \in 1 .. Len(rest) PROVE rest[i].ns = Advance(then, i - 1)
    OBVIOUS
  <2>1. i + 1 \in 1 .. Len(data) /\ rest[i] = data[i + 1]
        /\ i - 1 \in Nat /\ 1 + (i - 1) < Modulo /\ (i + 1) - 1 = 1 + (i - 1)
    BY <1>2, <1>3, <1>6
  <2>2. data[i + 1].ns = Advance(next, (i + 1) - 1)
    BY <2>1 DEF OneWay
  <2>3. Advance(then, i - 1) = Advance(next, 1 + (i - 1))
    BY <1>2, <2>1, AdvanceAdd
  <2> QED
    BY <2>1, <2>2, <2>3
<1> HIDE DEF rest, then
<1>9. OneWayTypeOK(base, count, then, told, rest, acks)
  BY <1>1, <1>3, <1>7 DEF OneWayTypeOK
<1>10. SeqDistance(base, then) + Len(rest) = count
  BY <1>2, <1>3, <1>6, <1>7
<1>11. SeqDistance(base, told) <= SeqDistance(base, then)
  <2>1. SeqDistance(base, told) <= SeqDistance(base, next)
    BY DEF OneWay
  <2>2. SeqDistance(base, told) \in Nat
    BY <1>2, DistanceNat
  <2> QED
    BY <1>6, <1>7, <2>1, <2>2
<1>12. OneWay(base, count, then, told, rest, acks)
  BY <1>8, <1>9, <1>10, <1>11 DEF OneWay
<1>13. SeqDistance(base, next) <= SeqDistance(base, then)
  BY <1>6, <1>7
<1> QED
  BY <1>5, <1>7, <1>12, <1>13 DEF rest, then

\* The receiver tells what it expects, in one frame or more.
LEMMA OneWayTell ==
  ASSUME NEW base, NEW count, NEW next, NEW told, NEW data, NEW acks,
         OneWay(base, count, next, told, data, acks),
         NEW more \in Seq(AckFrames), more # <<>>,
         \A i \in 1 .. Len(more) : more[i].nr = next
  PROVE  OneWay(base, count, next, next, data, acks \o more)
<1> DEFINE all == acks \o more
<1>1. OneWayTypeOK(base, count, next, told, data, acks)
  BY DEF OneWay
<1>2. /\ base \in SeqNumbers /\ next \in SeqNumbers /\ told \in SeqNumbers
      /\ acks \in Seq(AckFrames) /\ Len(acks) \in Nat
      /\ Len(more) \in Nat /\ Len(more) > 0
      /\ \A i \in 1 .. Len(acks) : acks[i].nr \in SeqNumbers
  <2>1. Len(more) \in Nat /\ Len(more) # 0
    BY EmptySeq, LenProperties
  <2>2. Len(acks) \in Nat /\ \A i \in 1 .. Len(acks) : acks[i].nr \in SeqNumbers
    BY <1>1, OneWayElements
  <2> QED
    BY <1>1, <2>1, <2>2 DEF OneWayTypeOK
<1>3. /\ all \in Seq(AckFrames) /\ Len(all) = Len(acks) + Len(more)
      /\ \A i \in 1 .. Len(acks) + Len(more) :
           all[i] = IF i <= Len(acks) THEN acks[i] ELSE more[i - Len(acks)]
  BY <1>2, ConcatProperties
<1> HIDE DEF all
<1>4. \A i \in 1 .. Len(all) : i > Len(acks) => all[i].nr = next
  <2> SUFFICES ASSUME NEW i \in 1 .. Len(all), i > Len(acks) PROVE all[i].nr = next
    OBVIOUS
  <2>1. i - Len(acks) \in 1 .. Len(more) /\ all[i] = more[i - Len(acks)]
    BY <1>2, <1>3
  <2> QED
    BY <2>1
<1>5. \A i \in 1 .. Len(acks) : SeqDistance(base, acks[i].nr) <= SeqDistance(base, next)
  <2> SUFFICES ASSUME NEW i \in 1 .. Len(acks)
               PROVE  SeqDistance(base, acks[i].nr) <= SeqDistance(base, next)
    OBVIOUS
  <2>1. acks # <<>> /\ Len(acks) \in 1 .. Len(acks) /\ i <= Len(acks)
    BY <1>2, EmptySeq
  <2>2. SeqDistance(base, acks[i].nr) <= SeqDistance(base, told)
    BY <2>1 DEF OneWay
  <2>3. SeqDistance(base, told) <= SeqDistance(base, next)
    BY DEF OneWay
  <2>4. /\ SeqDistance(base, acks[i].nr) \in Nat /\ SeqDistance(base, told) \in Nat
        /\ SeqDistance(base, next) \in Nat
    BY <1>2, DistanceNat
  <2> QED
    BY <2>2, <2>3, <2>4
<1>6. \A i, j \in 1 .. Len(all) :
        i <= j => SeqDistance(base, all[i].nr) <= SeqDistance(base, all[j].nr)
  <2> SUFFICES ASSUME NEW i \in 1 .. Len(all), NEW j \in 1 .. Len(all), i <= j
               PROVE  SeqDistance(base, all[i].nr) <= SeqDistance(base, all[j].nr)
    OBVIOUS
  <2>1. CASE j <= Len(acks)
    <3>1. i \in 1 .. Len(acks) /\ j \in 1 .. Len(acks) /\ all[i] = acks[i] /\ all[j] = acks[j]
      BY <1>2, <1>3, <2>1
    <3> QED
      BY <3>1 DEF OneWay
  <2>2. CASE j > Len(acks)
    <3>1. all[j].nr = next
      BY <1>4, <2>2
    <3>2. CASE i <= Len(acks)
      <4>1. i \in 1 .. Len(acks) /\ all[i] = acks[i]
        BY <1>2, <1>3, <3>2
      <4> QED
        BY <1>5, <3>1, <4>1
    <3>3. CASE i > Len(acks)
      <4>1. all[i].nr = next
        BY <1>4, <3>3
      <4>2. SeqDistance(base, next) \in Nat
        BY <1>2, DistanceNat
      <4> QED
        BY <3>1, <4>1, <4>2
    <3> QED
      BY <1>2, <3>2, <3>3
  <2> QED
    BY <1>2, <1>3, <2>1, <2>2
<1>7. all # <<>> /\ all[Len(all)].nr = next
  <2>1. Len(all) \in 1 .. Len(all) /\ Len(all) > Len(acks)
    BY <1>2, <1>3
  <2> QED
    BY <1>2, <1>3, <1>4, <2>1, EmptySeq
<1>8. OneWayTypeOK(base, count, next, next, data, all)
  BY <1>1, <1>3 DEF OneWayTypeOK
<1>9. SeqDistance(base, next) <= SeqDistance(base, next)
  BY <1>2, DistanceNat
<1> QED
  BY <1>6, <1>7, <1>8, <1>9 DEF OneWay, all

\* The sender takes an acknowledgement, which is one it can believe.
LEMMA OneWayAck ==
  ASSUME NEW base, NEW count, NEW next, NEW told, NEW data, NEW acks,
         OneWay(base, count, next, told, data, acks), acks # <<>>
  PROVE  LET nr == Head(acks).nr
             d == SeqDistance(base, nr)
         IN  /\ nr \in SeqNumbers
             /\ d \in Nat /\ d <= SeqDistance(base, told) /\ d <= count
             /\ OneWay(nr, count - d, next, told, data, Tail(acks))
<1> DEFINE nr == Head(acks).nr
           d == SeqDistance(base, nr)
           rest == Tail(acks)
<1>1. OneWayTypeOK(base, count, next, told, data, acks)
  BY DEF OneWay
<1>2. /\ base \in SeqNumbers /\ next \in SeqNumbers /\ told \in SeqNumbers
      /\ count \in Nat /\ count <= K /\ Len(data) \in Nat
      /\ acks \in Seq(AckFrames) /\ Len(acks) \in Nat /\ Len(acks) > 0
      /\ \A i \in 1 .. Len(acks) : acks[i].nr \in SeqNumbers
  <2>1. acks \in Seq(AckFrames)
    BY <1>1 DEF OneWayTypeOK
  <2>2. Len(acks) # 0
    BY <2>1, EmptySeq
  <2>3. /\ Len(data) \in Nat /\ Len(acks) \in Nat
        /\ \A i \in 1 .. Len(acks) : acks[i].nr \in SeqNumbers
    BY <1>1, OneWayElements
  <2> QED
    BY <1>1, <2>1, <2>2, <2>3 DEF OneWayTypeOK
<1>3. Head(acks) = acks[1] /\ 1 \in 1 .. Len(acks) /\ Len(acks) \in 1 .. Len(acks)
  BY <1>2
<1>4. /\ rest \in Seq(AckFrames) /\ Len(rest) = Len(acks) - 1
      /\ \A i \in 1 .. Len(rest) : rest[i] = acks[i + 1]
  BY <1>2, HeadTailProperties
<1>5. nr \in SeqNumbers
  BY <1>2, <1>3
<1>6. \A i \in 1 .. Len(acks) : d <= SeqDistance(base, acks[i].nr)
  BY <1>2, <1>3 DEF OneWay
<1>7. d \in Nat /\ d <= SeqDistance(base, told)
  BY <1>2, <1>3, <1>5, <1>6, DistanceNat DEF OneWay
<1>8. /\ SeqDistance(base, told) \in Nat /\ SeqDistance(base, next) \in Nat
      /\ SeqDistance(base, told) <= SeqDistance(base, next)
      /\ SeqDistance(base, next) + Len(data) = count
  BY <1>2, DistanceNat DEF OneWay
<1> HIDE DEF nr, rest
<1>9. \A x \in SeqNumbers : d <= SeqDistance(base, x) =>
        SeqDistance(nr, x) = SeqDistance(base, x) - d
  BY <1>2, <1>5, DistanceSplit
<1> HIDE DEF d
<1>10. /\ SeqDistance(nr, told) = SeqDistance(base, told) - d
       /\ SeqDistance(nr, next) = SeqDistance(base, next) - d
  BY <1>2, <1>7, <1>8, <1>9
<1>11. \A i \in 1 .. Len(rest) :
         /\ i + 1 \in 1 .. Len(acks)
         /\ SeqDistance(nr, rest[i].nr) = SeqDistance(base, acks[i + 1].nr) - d
         /\ SeqDistance(base, acks[i + 1].nr) \in Nat
  <2> SUFFICES ASSUME NEW i \in 1 .. Len(rest)
               PROVE  /\ i + 1 \in 1 .. Len(acks)
                      /\ SeqDistance(nr, rest[i].nr) = SeqDistance(base, acks[i + 1].nr) - d
                      /\ SeqDistance(base, acks[i + 1].nr) \in Nat
    OBVIOUS
  <2>1. i + 1 \in 1 .. Len(acks) /\ rest[i] = acks[i + 1]
    BY <1>2, <1>4
  <2>2. acks[i + 1].nr \in SeqNumbers /\ d <= SeqDistance(base, acks[i + 1].nr)
    BY <1>2, <1>6, <2>1
  <2> QED
    BY <1>2, <1>9, <2>1, <2>2, DistanceNat
<1>12. \A i, j \in 1 .. Len(rest) :
         i <= j => SeqDistance(nr, rest[i].nr) <= SeqDistance(nr, rest[j].nr)
  <2> SUFFICES ASSUME NEW i \in 1 .. Len(rest), NEW j \in 1 .. Len(rest), i <= j
               PROVE  SeqDistance(nr, rest[i].nr) <= SeqDistance(nr, rest[j].nr)
    OBVIOUS
  <2>1. i + 1 \in 1 .. Len(acks) /\ j + 1 \in 1 .. Len(acks) /\ i + 1 <= j + 1
    BY <1>11
  <2>2. SeqDistance(base, acks[i + 1].nr) <= SeqDistance(base, acks[j + 1].nr)
    BY <2>1 DEF OneWay
  <2> QED
    BY <1>7, <1>11, <2>2
<1>13. rest = <<>> => told = nr
  <2> SUFFICES ASSUME rest = <<>> PROVE told = nr
    OBVIOUS
  <2>1. Len(acks) = 1 /\ acks # <<>>
    BY <1>2, <1>4, EmptySeq
  <2>2. told = acks[1].nr
    BY <2>1 DEF OneWay
  <2> QED
    BY <1>3, <2>2 DEF nr
<1>14. rest # <<>> => told = rest[Len(rest)].nr
  <2> SUFFICES ASSUME rest # <<>> PROVE told = rest[Len(rest)].nr
    OBVIOUS
  <2>1. Len(rest) \in 1 .. Len(rest) /\ Len(rest) + 1 = Len(acks)
    BY <1>2, <1>4, EmptySeq
  <2>2. rest[Len(rest)] = acks[Len(acks)]
    BY <1>4, <2>1
  <2> QED
    BY <2>2 DEF OneWay
<1>15. OneWayTypeOK(nr, count - d, next, told, data, rest)
  BY <1>1, <1>2, <1>4, <1>5, <1>7, <1>8 DEF OneWayTypeOK
<1>16. OneWay(nr, count - d, next, told, data, rest)
  <2>1. SeqDistance(nr, next) + Len(data) = count - d
    <3> DEFINE m == SeqDistance(base, next)
               n == Len(data)
    <3>1. m \in Nat /\ n \in Nat /\ m + n = count /\ SeqDistance(nr, next) = m - d
      BY <1>2, <1>8, <1>10
    <3> HIDE DEF m, n
    <3>2. m - d + n = count - d
      BY <1>2, <1>7, <3>1
    <3> QED
      BY <3>1, <3>2 DEF n
  <2>2. SeqDistance(nr, told) <= SeqDistance(nr, next)
    BY <1>7, <1>8, <1>10
  <2>3. \A i \in 1 .. Len(data) : data[i].ns = Advance(next, i - 1)
    BY DEF OneWay
  <2> QED
    BY <1>12, <1>13, <1>14, <1>15, <2>1, <2>2, <2>3 DEF OneWay
<1>17. d <= count
  BY <1>2, <1>7, <1>8
<1> QED
  BY <1>5, <1>7, <1>16, <1>17 DEF nr, d, rest
-----------------------------------------------------------------------------
\* The invariant of the link.

\* The N(S) of the oldest frame the controlling station has unacknowledged.
PeerBase == Advance(p_send, Modulo - Len(p_unacked))

LinkTypeOK ==
  /\ to_peer \in Seq(Apdus) /\ to_station \in Seq(Apdus)
  /\ p_send \in SeqNumbers
  /\ p_unacked \in Seq(Nat) /\ Len(p_unacked) <= K
  /\ p_started \in BOOLEAN
  /\ sent \in 0 .. MaxSends

\* The reports, from the gateway's window to the controlling station.
Reports ==
  OneWay(oldest_unacked_seq, Len(unacked), p_recv, p_acked,
         Data(to_peer), Acks(to_station))

\* The commands, the other way.
Commands ==
  OneWay(PeerBase, Len(p_unacked), recv_seq, last_acked_to_peer,
         Data(to_station), Acks(to_peer))

\* A command still in the stream was sent at this very time; one the gateway
\* has not acknowledged, since its t2 timer started.
Timely ==
  /\ \A i \in 1 .. Len(p_unacked) : p_unacked[i] <= now
  /\ closed = "open" =>
       /\ \A i \in 1 .. Len(p_unacked) :
            /\ now - p_unacked[i] <= T2
            /\ i > SeqDistance(PeerBase, recv_seq) => p_unacked[i] = now
       /\ unacked_rx_since # None =>
            /\ unacked_rx_since <= now
            /\ \A i \in 1 .. Len(p_unacked) :
                 i > SeqDistance(PeerBase, last_acked_to_peer) =>
                   p_unacked[i] >= unacked_rx_since

LinkInv ==
  Prompt /\ LinkTypeOK /\ Reports /\ Commands /\ Timely /\ PeersAgree
-----------------------------------------------------------------------------
\* Lemmas for the steps of the link.

\* The number n before a, whose distance to a is n.
LEMMA Before ==
  ASSUME NEW a \in SeqNumbers, NEW n \in Nat, n < Modulo
  PROVE  /\ Advance(a, Modulo - n) \in SeqNumbers
         /\ SeqDistance(Advance(a, Modulo - n), a) = n
         /\ \A b \in SeqNumbers : SeqDistance(b, a) = n => b = Advance(a, Modulo - n)
<1> DEFINE c == Advance(a, Modulo - n)
<1>1. a \in Nat /\ a < Modulo
  BY DEF SeqNumbers
<1>2. c = IF a >= n THEN a - n ELSE a - n + Modulo
  BY <1>1 DEF Advance
<1> HIDE DEF c
<1>3. c \in SeqNumbers
  BY <1>1, <1>2 DEF SeqNumbers
<1>4. SeqDistance(c, a) = n
  <2>1. SeqDistance(c, a) = IF a >= c THEN a - c ELSE a - c + Modulo
    BY <1>3, DistanceExplicit
  <2> QED
    BY <1>1, <1>2, <2>1
<1>5. ASSUME NEW b \in SeqNumbers, SeqDistance(b, a) = n PROVE b = c
  <2>1. b \in Nat /\ b < Modulo
    BY DEF SeqNumbers
  <2>2. n = IF a >= b THEN a - b ELSE a - b + Modulo
    BY <1>5, DistanceExplicit
  <2> QED
    BY <1>1, <1>2, <2>1, <2>2
<1> QED
  BY <1>3, <1>4, <1>5 DEF c

\* What a handler may put out.
Outputs == Apdus \cup {Received(asdu) : asdu \in Asdus} \cup {Started, Stopped}

FrameTypes == {"I", "S", "U"}

\* Frames by type.
LEMMA FrameKinds ==
  /\ {x \in Apdus : x.type \in {"I"}} = IFrames
  /\ {x \in Apdus : x.type \in {"I", "S"}} = AckFrames
  /\ {x \in Outputs : x.type \in FrameTypes} = Apdus
  /\ IFrames \subseteq Apdus /\ IFrames \subseteq AckFrames /\ Apdus \subseteq Outputs
  /\ \A x \in IFrames : x.type \in {"I"} /\ x.type \in {"I", "S"}
<1> DEFINE S == [type : {"S"}, nr : SeqNumbers]
           U == [type : {"U"}, f : UFunctions]
           R == {Received(asdu) : asdu \in Asdus}
<1>1. \A x \in IFrames : x.type = "I"
  BY DEF IFrames
<1>2. \A x \in S : x.type = "S"
  OBVIOUS
<1>3. \A x \in U : x.type = "U"
  OBVIOUS
<1>4. \A x \in R : x.type = "Received"
  BY DEF Received
<1>5. Started.type = "Started" /\ Stopped.type = "Stopped"
  BY DEF Started, Stopped
<1>6. Apdus = IFrames \cup S \cup U /\ AckFrames = IFrames \cup S
      /\ Outputs = Apdus \cup R \cup {Started, Stopped}
  BY DEF Apdus, IFrames, AckFrames, Outputs
<1> HIDE DEF S, U, R
<1>7. /\ {x \in Apdus : x.type \in {"I"}} = IFrames
      /\ {x \in Apdus : x.type \in {"I", "S"}} = AckFrames
  BY <1>1, <1>2, <1>3, <1>6
<1>8. \A x \in Apdus : x.type \in FrameTypes
  BY <1>1, <1>2, <1>3, <1>6 DEF FrameTypes
<1>9. \A x \in R \cup {Started, Stopped} : x.type \notin FrameTypes
  BY <1>4, <1>5 DEF FrameTypes
<1>10. {x \in Outputs : x.type \in FrameTypes} = Apdus
  BY <1>6, <1>8, <1>9
<1> QED
  BY <1>1, <1>6, <1>7, <1>10

LEMMA StreamTypes ==
  ASSUME NEW s \in Seq(Apdus)
  PROVE  Data(s) \in Seq(IFrames) /\ Acks(s) \in Seq(AckFrames)
<1>1. OfType(s, {"I"}) \in Seq({x \in Apdus : x.type \in {"I"}})
  BY OfTypeType
<1>2. OfType(s, {"I", "S"}) \in Seq({x \in Apdus : x.type \in {"I", "S"}})
  BY OfTypeType
<1> QED
  BY <1>1, <1>2, FrameKinds DEF Data, Acks

\* What the window lets go of q, behind recv.
Flushed(st, q, un, recv) ==
  [i \in 1 .. Room(st, un, q) |-> IFrame(Advance(send_seq, i - 1), recv, q[i])]

LEMMA FlushedType ==
  ASSUME SessionTypeOK, NEW st \in BOOLEAN, NEW q \in Seq(Asdus),
         NEW un \in Seq(Nat), Len(un) <= K, NEW recv \in SeqNumbers
  PROVE  /\ Flushed(st, q, un, recv) \in Seq(IFrames)
         /\ Len(Flushed(st, q, un, recv)) = Room(st, un, q)
         /\ \A i \in 1 .. Room(st, un, q) :
              /\ Flushed(st, q, un, recv)[i].ns = Advance(send_seq, i - 1)
              /\ Flushed(st, q, un, recv)[i].nr = recv
              /\ Flushed(st, q, un, recv)[i].asdu = q[i]
<1> DEFINE n == Room(st, un, q)
<1>1. n \in Nat /\ n <= Len(q) /\ Len(un) + n <= K /\ Len(un) \in Nat /\ Len(q) \in Nat
  BY RoomType, LenProperties
<1> HIDE DEF n
<1>2. \A i \in 1 .. n : /\ Advance(send_seq, i - 1) \in SeqNumbers
                        /\ q[i] \in Asdus
  <2> SUFFICES ASSUME NEW i \in 1 .. n
               PROVE  Advance(send_seq, i - 1) \in SeqNumbers /\ q[i] \in Asdus
    OBVIOUS
  <2>1. i - 1 \in Nat /\ i - 1 < Modulo /\ i \in 1 .. Len(q) /\ send_seq \in SeqNumbers
    BY <1>1 DEF SessionTypeOK
  <2> QED
    BY <2>1, AdvanceExplicit, ElementOfSeq
<1> DEFINE f == [i \in 1 .. n |-> IFrame(Advance(send_seq, i - 1), recv, q[i])]
<1>3. f \in [1 .. n -> IFrames]
  BY <1>2 DEF IFrame, IFrames
<1>4. \A i \in 1 .. n : /\ f[i].ns = Advance(send_seq, i - 1)
                        /\ f[i].nr = recv
                        /\ f[i].asdu = q[i]
  BY DEF IFrame
<1> HIDE DEF f
<1>5. f \in Seq(IFrames) /\ Len(f) = n
  BY <1>1, <1>3
<1> QED
  BY <1>4, <1>5 DEF Flushed, f, n

\* What the driver writes of a call's outputs.
LEMMA Written ==
  ASSUME to_peer \in Seq(Apdus), NEW sofar \in Seq(Outputs), NEW fl \in Seq(IFrames),
         out' = sofar \o fl, WriteFrames(out'), Data(sofar) = <<>>
  PROVE  /\ to_peer' \in Seq(Apdus)
         /\ Data(to_peer') = Data(to_peer) \o fl
         /\ Acks(to_peer') = Acks(to_peer) \o (Acks(sofar) \o fl)
<1> DEFINE o == sofar \o fl
           w == OfType(o, FrameTypes)
<1>1. fl \in Seq(Outputs) /\ fl \in Seq(Apdus)
  BY FrameKinds, SeqMonotonic
<1>2. o \in Seq(Outputs)
  BY <1>1, ConcatProperties
<1>3. OfType(o, {"I"}) = fl
  <2>1. OfType(fl, {"I"}) = fl
    BY FrameKinds, OfTypeAll
  <2>2. OfType(o, {"I"}) = OfType(sofar, {"I"}) \o OfType(fl, {"I"})
    BY <1>1, OfTypeConcat
  <2> QED
    BY <2>1, <2>2, ConcatEmptySeq DEF Data
<1>4. OfType(o, {"I", "S"}) = Acks(sofar) \o fl
  <2>1. OfType(fl, {"I", "S"}) = fl
    BY FrameKinds, OfTypeAll
  <2>2. OfType(o, {"I", "S"}) = OfType(sofar, {"I", "S"}) \o OfType(fl, {"I", "S"})
    BY <1>1, OfTypeConcat
  <2> QED
    BY <2>1, <2>2 DEF Acks
<1> HIDE DEF o
<1>5. w \in Seq(Apdus)
  <2>1. w \in Seq({x \in Outputs : x.type \in FrameTypes})
    BY <1>2, OfTypeType
  <2> QED
    BY <2>1, FrameKinds
<1>6. to_peer' = to_peer \o w
  BY DEF WriteFrames, o, FrameTypes
<1>7. ASSUME NEW types, types \subseteq FrameTypes
      PROVE  OfType(to_peer', types) = OfType(to_peer, types) \o OfType(o, types)
  <2>1. OfType(w, types) = OfType(o, types)
    BY <1>2, <1>7, OfTypeTwice
  <2> HIDE DEF w
  <2>2. OfType(to_peer \o w, types) = OfType(to_peer, types) \o OfType(w, types)
    BY <1>5, OfTypeConcat
  <2> QED
    BY <1>6, <2>1, <2>2
<1> HIDE DEF w
<1>8. to_peer' \in Seq(Apdus)
  BY <1>5, <1>6, ConcatProperties
<1>9. /\ OfType(to_peer', {"I"}) = OfType(to_peer, {"I"}) \o OfType(o, {"I"})
      /\ OfType(to_peer', {"I", "S"}) = OfType(to_peer, {"I", "S"}) \o OfType(o, {"I", "S"})
  <2>1. {"I"} \subseteq FrameTypes /\ {"I", "S"} \subseteq FrameTypes
    BY DEF FrameTypes
  <2> QED
    BY <1>7, <2>1
<1> QED
  BY <1>3, <1>4, <1>8, <1>9 DEF Data, Acks
\* The payloads of more data come after those of the data before.
LEMMA PayloadsConcat ==
  ASSUME NEW s \in Seq(Apdus), NEW t \in Seq(Apdus), NEW fl \in Seq(IFrames),
         Data(t) = Data(s) \o fl,
         NEW q \in Seq(Asdus), Len(fl) <= Len(q),
         \A i \in 1 .. Len(fl) : fl[i].asdu = q[i]
  PROVE  /\ Payloads(t) = Payloads(s) \o SubSeq(q, 1, Len(fl))
         /\ Len(Payloads(s)) = Len(Data(s))
<1> DEFINE a == Data(s)
           n == Len(fl)
           b == SubSeq(q, 1, n)
           p == Payloads(s)
           r == Payloads(t)
<1>1. /\ a \in Seq(IFrames) /\ Len(a) \in Nat /\ n \in Nat /\ Len(q) \in Nat
      /\ \A i \in 1 .. Len(a) : a[i] \in IFrames
  BY StreamTypes, LenProperties, ElementOfSeq
<1>2. /\ Len(a \o fl) = Len(a) + n
      /\ \A i \in 1 .. Len(a) + n :
           (a \o fl)[i] = IF i <= Len(a) THEN a[i] ELSE fl[i - Len(a)]
  BY <1>1, ConcatProperties
<1>3. p = [i \in 1 .. Len(a) |-> a[i].asdu]
  BY DEF Payloads, Data
<1>4. r = [i \in 1 .. Len(a) + n |-> (a \o fl)[i].asdu]
  BY <1>2 DEF Payloads, Data
<1>5. b \in Seq(Asdus) /\ Len(b) = n /\ \A i \in 1 .. n : b[i] = q[i]
  <2> HIDE DEF n
  <2>1. n \in 1 .. Len(q) \/ n = 0
    BY <1>1 DEF n
  <2> QED
    BY <1>1, <2>1, SubSeqProperties
<1> HIDE DEF a, b, n
<1>6. \A f \in IFrames : f.asdu \in Asdus
  BY DEF IFrames
<1>7. p \in Seq(Asdus) /\ Len(p) = Len(a) /\ \A i \in 1 .. Len(a) : p[i] = a[i].asdu
  BY <1>1, <1>3, <1>6
<1> HIDE DEF p, r
<1>8. /\ p \o b \in Seq(Asdus) /\ Len(p \o b) = Len(a) + n
      /\ \A i \in 1 .. Len(a) + n :
           (p \o b)[i] = IF i <= Len(a) THEN p[i] ELSE b[i - Len(a)]
  <2>1. p \in Seq(Asdus) /\ b \in Seq(Asdus)
    BY <1>5, <1>7
  <2>2. /\ p \o b \in Seq(Asdus) /\ Len(p \o b) = Len(p) + Len(b)
        /\ \A i \in 1 .. Len(p) + Len(b) :
             (p \o b)[i] = IF i <= Len(p) THEN p[i] ELSE b[i - Len(p)]
    BY <2>1, ConcatProperties
  <2> QED
    BY <1>5, <1>7, <2>2
<1>9. \A i \in 1 .. Len(a) + n : (a \o fl)[i].asdu = (p \o b)[i]
  <2> SUFFICES ASSUME NEW i \in 1 .. Len(a) + n
               PROVE  (a \o fl)[i].asdu = (p \o b)[i]
    OBVIOUS
  <2>1. CASE i <= Len(a)
    <3>1. i \in 1 .. Len(a)
      BY <1>1, <2>1
    <3> QED
      BY <1>2, <1>7, <1>8, <2>1, <3>1
  <2>2. CASE i > Len(a)
    <3>1. i - Len(a) \in 1 .. n /\ ~(i <= Len(a))
      BY <1>1, <2>2
    <3>2. (a \o fl)[i] = fl[i - Len(a)] /\ (p \o b)[i] = b[i - Len(a)]
      BY <1>2, <1>8, <3>1
    <3> QED
      BY <1>5, <3>1, <3>2 DEF n
  <2>3. i <= Len(a) \/ i > Len(a)
    BY <1>1
  <2> QED
    BY <2>1, <2>2, <2>3
<1>10. r = p \o b
  <2> DEFINE z == p \o b
             m == Len(a) + n
             g == a \o fl
  <2>1. z \in Seq(Asdus) /\ Len(z) = m /\ \A i \in 1 .. m : g[i].asdu = z[i]
    BY <1>8, <1>9
  <2>2. r = [i \in 1 .. m |-> g[i].asdu]
    BY <1>4
  <2> HIDE DEF z, m, g
  <2>3. z \in [1 .. m -> Asdus]
    BY <2>1, LenProperties
  <2>4. r = z
    BY <2>1, <2>2, <2>3
  <2> QED
    BY <2>4 DEF z
<1> QED
  BY <1>7, <1>10 DEF a, b, n, p, r
\* The facts of a state that the steps need.
LEMMA LinkTypes ==
  ASSUME LinkTypeOK
  PROVE  /\ to_peer \in Seq(Apdus) /\ to_station \in Seq(Apdus)
         /\ p_send \in SeqNumbers
         /\ p_unacked \in Seq(Nat) /\ Len(p_unacked) \in Nat /\ Len(p_unacked) <= K
         /\ Len(p_unacked) < Modulo
         /\ PeerBase \in SeqNumbers
<1>1. p_unacked \in Seq(Nat) /\ Len(p_unacked) \in Nat /\ Len(p_unacked) <= K
  BY LenProperties DEF LinkTypeOK
<1>2. Len(p_unacked) < Modulo /\ p_send \in SeqNumbers
  BY <1>1 DEF LinkTypeOK
<1> QED
  BY <1>1, <1>2, Before DEF LinkTypeOK, PeerBase

\* A handler that flushes keeps both directions in order: seq is the sender's
\* base after it, told what the controlling station was told before it, and
\* sofar acknowledges, if at all, recv.
LEMMA FlushLink ==
  ASSUME SessionTypeOK, LinkTypeOK,
         NEW st \in BOOLEAN, NEW q \in Seq(Asdus),
         NEW un \in Seq(Nat), Len(un) <= K,
         NEW recv \in SeqNumbers, NEW acked, NEW since,
         NEW sofar \in Seq(Outputs), Data(sofar) = <<>>,
         \A i \in 1 .. Len(Acks(sofar)) : Acks(sofar)[i].nr = recv,
         NEW told, acked = IF Acks(sofar) = <<>> THEN told ELSE recv,
         NEW seq \in SeqNumbers, SeqDistance(seq, send_seq) = Len(un),
         OneWay(seq, Len(un), p_recv, p_acked, Data(to_peer), Acks(to_station')),
         OneWay(PeerBase, Len(p_unacked), recv, told,
                Data(to_station'), Acks(to_peer)),
         Flush(st, q, un, recv, acked, since, sofar),
         WriteFrames(out'),
         oldest_unacked_seq' = seq,
         UNCHANGED <<p_recv, p_acked, p_send, p_unacked>>
  PROVE  /\ to_peer' \in Seq(Apdus)
         /\ Reports' /\ Commands'
         /\ Channel!Leave(q)
<1> DEFINE n == Room(st, un, q)
           fl == Flushed(st, q, un, recv)
           out1 == Acks(sofar) \o fl
<1>1. n \in Nat /\ n <= Len(q) /\ Len(un) + n <= K /\ Len(un) \in Nat /\ Len(q) \in Nat
  BY RoomType, LenProperties
<1>2. /\ fl \in Seq(IFrames) /\ Len(fl) = n
      /\ \A i \in 1 .. n : /\ fl[i].ns = Advance(send_seq, i - 1)
                           /\ fl[i].nr = recv
                           /\ fl[i].asdu = q[i]
  BY FlushedType
<1>3. out' = sofar \o fl
  BY DEF Flush, Flushed
<1>4. /\ queue' = SubSeq(q, n + 1, Len(q))
      /\ unacked' = un \o [i \in 1 .. n |-> now]
      /\ recv_seq' = recv
      /\ last_acked_to_peer' = IF n > 0 THEN recv ELSE acked
  BY DEF Flush
<1> HIDE DEF n, fl
<1>5. /\ to_peer' \in Seq(Apdus)
      /\ Data(to_peer') = Data(to_peer) \o fl
      /\ Acks(to_peer') = Acks(to_peer) \o out1
  BY <1>2, <1>3, LinkTypes, Written
<1>6. Acks(sofar) \in Seq(AckFrames)
  <2>1. OfType(sofar, {"I", "S"}) \in Seq({x \in Outputs : x.type \in {"I", "S"}})
    BY OfTypeType
  <2>2. {x \in Outputs : x.type \in {"I", "S"}} = AckFrames
    <3>1. {"I", "S"} \subseteq FrameTypes
      BY DEF FrameTypes
    <3> QED
      BY <3>1, FrameKinds
  <2> QED
    BY <2>1, <2>2 DEF Acks
<1>7. /\ out1 \in Seq(AckFrames) /\ Len(out1) = Len(Acks(sofar)) + n
      /\ Len(Acks(sofar)) \in Nat
      /\ \A i \in 1 .. Len(out1) : out1[i].nr = recv
  <2> DEFINE a == Acks(sofar)
  <2>1. fl \in Seq(AckFrames) /\ a \in Seq(AckFrames) /\ Len(a) \in Nat
    BY <1>2, <1>6, FrameKinds, SeqMonotonic, LenProperties
  <2>2. \A i \in 1 .. Len(a) : a[i].nr = recv
    OBVIOUS
  <2> HIDE DEF a
  <2>3. /\ a \o fl \in Seq(AckFrames) /\ Len(a \o fl) = Len(a) + Len(fl)
        /\ \A i \in 1 .. Len(a) + Len(fl) :
             (a \o fl)[i] = IF i <= Len(a) THEN a[i] ELSE fl[i - Len(a)]
    BY <2>1, ConcatProperties
  <2>4. \A i \in 1 .. Len(a) + n : (a \o fl)[i].nr = recv
    <3> SUFFICES ASSUME NEW i \in 1 .. Len(a) + n PROVE (a \o fl)[i].nr = recv
      OBVIOUS
    <3>1. CASE i <= Len(a)
      <4>1. i \in 1 .. Len(a) /\ (a \o fl)[i] = a[i]
        BY <1>1, <1>2, <2>1, <2>3, <3>1
      <4> QED
        BY <2>2, <4>1
    <3>2. CASE i > Len(a)
      <4>1. i - Len(a) \in 1 .. n /\ (a \o fl)[i] = fl[i - Len(a)]
        BY <1>1, <1>2, <2>1, <2>3, <3>2
      <4> QED
        BY <1>2, <4>1
    <3>3. i <= Len(a) \/ i > Len(a)
      BY <1>1, <2>1
    <3> QED
      BY <3>1, <3>2, <3>3
  <2> QED
    BY <1>2, <2>1, <2>3, <2>4 DEF a
<1> HIDE DEF out1
<1>8. OneWay(seq, Len(un) + n, p_recv, p_acked, Data(to_peer) \o fl, Acks(to_station'))
  <2>1. \A i \in 1 .. Len(fl) : fl[i].ns = Advance(send_seq, i - 1)
    BY <1>2
  <2>2. send_seq \in SeqNumbers /\ Len(un) + Len(fl) <= K
    BY <1>1, <1>2 DEF SessionTypeOK
  <2> QED
    BY <1>2, <2>1, <2>2, OneWaySend
<1>9. Len(unacked') = Len(un) + n
  <2> DEFINE u == [i \in 1 .. n |-> now]
  <2>1. u \in Seq(Nat) /\ Len(u) = n
    BY <1>1 DEF SessionTypeOK
  <2> HIDE DEF u
  <2>2. unacked' = un \o u
    BY <1>4 DEF u
  <2> QED
    BY <2>1, <2>2, ConcatProperties
<1>10. Reports'
  BY <1>5, <1>8, <1>9 DEF Reports
<1>11. OneWay(PeerBase, Len(p_unacked), recv, last_acked_to_peer',
              Data(to_station'), Acks(to_peer) \o out1)
  <2>1. CASE out1 = <<>>
    <3>1. Len(out1) = 0
      BY <2>1, EmptySeq
    <3>2. n = 0 /\ Len(Acks(sofar)) = 0
      <4> DEFINE l == Len(Acks(sofar))
      <4>1. l \in Nat /\ n \in Nat /\ l + n = 0
        BY <1>1, <1>7, <3>1
      <4> HIDE DEF l
      <4>2. n = 0 /\ l = 0
        BY <4>1
      <4> QED
        BY <4>2 DEF l
    <3>3. Acks(sofar) = <<>>
      BY <1>6, <3>2, EmptySeq
    <3>4. last_acked_to_peer' = told
      BY <1>4, <3>2, <3>3
    <3>5. Acks(to_peer) \o out1 = Acks(to_peer)
      BY <2>1, LinkTypes, StreamTypes, ConcatEmptySeq
    <3> QED
      BY <3>4, <3>5
  <2>2. CASE out1 # <<>>
    <3>1. OneWay(PeerBase, Len(p_unacked), recv, recv,
                 Data(to_station'), Acks(to_peer) \o out1)
      BY <1>7, <2>2, OneWayTell
    <3>2. Len(out1) # 0
      BY <1>7, <2>2, EmptySeq
    <3>3. n > 0 \/ Len(Acks(sofar)) # 0
      BY <1>1, <1>7, <3>2
    <3>4. n > 0 \/ Acks(sofar) # <<>>
      BY <3>3, EmptySeq
    <3>5. last_acked_to_peer' = recv
      BY <1>4, <3>4
    <3> QED
      BY <3>1, <3>5
  <2> QED
    BY <2>1, <2>2
<1>12. Commands'
  BY <1>4, <1>5, <1>11 DEF Commands, PeerBase
<1>13. Channel!Leave(q)
  <2>1. /\ Payloads(to_peer') = Payloads(to_peer) \o SubSeq(q, 1, n)
        /\ Len(Payloads(to_peer)) = Len(Data(to_peer))
    <3>1. Len(fl) <= Len(q) /\ \A i \in 1 .. Len(fl) : fl[i].asdu = q[i]
      BY <1>1, <1>2
    <3>2. to_peer \in Seq(Apdus)
      BY LinkTypes
    <3> DEFINE then == to_peer'
    <3>3. then \in Seq(Apdus) /\ Data(then) = Data(to_peer) \o fl
      BY <1>5
    <3> HIDE DEF then
    <3>4. /\ Payloads(then) = Payloads(to_peer) \o SubSeq(q, 1, Len(fl))
          /\ Len(Payloads(to_peer)) = Len(Data(to_peer))
      BY <1>2, <3>1, <3>2, <3>3, PayloadsConcat
    <3> QED
      BY <1>2, <3>4 DEF then
  <2>2. Len(Data(to_peer)) + n <= K
    <3>1. OneWayTypeOK(seq, Len(un), p_recv, p_acked, Data(to_peer), Acks(to_station'))
      BY DEF OneWay
    <3>2. p_recv \in SeqNumbers /\ Len(Data(to_peer)) \in Nat
      BY <3>1, OneWayElements DEF OneWayTypeOK
    <3>3. SeqDistance(seq, p_recv) + Len(Data(to_peer)) = Len(un)
      BY DEF OneWay
    <3>4. SeqDistance(seq, p_recv) \in Nat
      BY <3>2, DistanceNat
    <3> QED
      BY <1>1, <3>2, <3>3, <3>4
  <2>3. n \in 0 .. Len(q)
    BY <1>1
  <2> QED
    BY <1>4, <2>1, <2>2, <2>3 DEF Channel!Leave
<1> QED
  BY <1>5, <1>10, <1>12, <1>13
\* Outputs without data, which acknowledge, if at all, recv.
Quiet(recv, s) ==
  /\ s \in Seq(Outputs)
  /\ Data(s) = <<>>
  /\ Acks(s) \in Seq(AckFrames)
  /\ \A i \in 1 .. Len(Acks(s)) : Acks(s)[i].nr = recv

LEMMA QuietNone ==
  ASSUME NEW recv
  PROVE  Quiet(recv, <<>>) /\ Acks(<<>>) = <<>>
<1>1. Data(<<>>) = <<>> /\ Acks(<<>>) = <<>>
  BY OfTypeEmpty DEF Data, Acks
<1>2. Len(<<>>) = 0
  BY EmptySeq
<1>3. \A i \in 1 .. Len(Acks(<<>>)) : Acks(<<>>)[i].nr = recv
  BY <1>1, <1>2
<1> QED
  BY <1>1, <1>3, EmptySeq DEF Quiet

LEMMA QuietOne ==
  ASSUME NEW recv, NEW x \in Outputs, x.type # "I",
         x.type = "S" => x \in AckFrames /\ x.nr = recv
  PROVE  Quiet(recv, <<x>>) /\ (Acks(<<x>>) = <<>> <=> x.type # "S")
<1> DEFINE one == <<x>>
           none == <<>>
<1>1. Data(one) = none
  <2>1. x.type \notin {"I"}
    OBVIOUS
  <2> QED
    BY <2>1, OfTypeOne DEF Data
<1>2. Acks(one) = IF x.type = "S" THEN one ELSE none
  <2>1. x.type \in {"I", "S"} <=> x.type = "S"
    OBVIOUS
  <2> QED
    BY <2>1, OfTypeOne DEF Acks
<1>3. one \in Seq(Outputs) /\ (x \in AckFrames => one \in Seq(AckFrames))
      /\ Len(one) = 1 /\ one[1] = x /\ one # none
      /\ none \in Seq(AckFrames) /\ Len(none) = 0
  BY EmptySeq
<1> HIDE DEF one, none
<1>4. \A i \in 1 .. Len(Acks(one)) : Acks(one)[i].nr = recv
  <2>1. CASE x.type = "S"
    <3>1. Acks(one) = one /\ x.nr = recv
      BY <1>2, <2>1
    <3>2. \A i \in 1 .. 1 : i = 1
      OBVIOUS
    <3> QED
      BY <1>3, <3>1, <3>2
  <2>2. CASE x.type # "S"
    <3>1. Len(Acks(one)) = 0
      BY <1>2, <1>3, <2>2
    <3> QED
      BY <3>1
  <2> QED
    BY <2>1, <2>2
<1>5. Acks(one) \in Seq(AckFrames)
  BY <1>2, <1>3
<1>6. Quiet(recv, one)
  BY <1>1, <1>3, <1>4, <1>5 DEF Quiet, none
<1>7. Acks(one) = none <=> x.type # "S"
  BY <1>2, <1>3
<1> QED
  BY <1>6, <1>7 DEF one, none

LEMMA QuietConcat ==
  ASSUME NEW recv, NEW s, NEW t, Quiet(recv, s), Quiet(recv, t)
  PROVE  /\ Quiet(recv, s \o t)
         /\ Acks(s \o t) = <<>> <=> Acks(s) = <<>> /\ Acks(t) = <<>>
<1> DEFINE a == Acks(s)
           b == Acks(t)
           z == s \o t
<1>1. /\ s \in Seq(Outputs) /\ t \in Seq(Outputs)
      /\ Data(s) = <<>> /\ Data(t) = <<>>
      /\ a \in Seq(AckFrames) /\ b \in Seq(AckFrames)
      /\ Len(a) \in Nat /\ Len(b) \in Nat
      /\ \A i \in 1 .. Len(a) : a[i].nr = recv
      /\ \A i \in 1 .. Len(b) : b[i].nr = recv
  BY LenProperties DEF Quiet
<1>2. z \in Seq(Outputs)
  BY <1>1, ConcatProperties
<1>3. Data(z) = Data(s) \o Data(t) /\ Acks(z) = a \o b
  BY <1>1, OfTypeConcat DEF Data, Acks
<1>4. Data(z) = <<>>
  BY <1>1, <1>3, EmptySeq, ConcatEmptySeq
<1> HIDE DEF a, b, z
<1>5. /\ a \o b \in Seq(AckFrames) /\ Len(a \o b) = Len(a) + Len(b)
      /\ \A i \in 1 .. Len(a) + Len(b) :
           (a \o b)[i] = IF i <= Len(a) THEN a[i] ELSE b[i - Len(a)]
  BY <1>1, ConcatProperties
<1>6. \A i \in 1 .. Len(a) + Len(b) : (a \o b)[i].nr = recv
  <2> SUFFICES ASSUME NEW i \in 1 .. Len(a) + Len(b) PROVE (a \o b)[i].nr = recv
    OBVIOUS
  <2>1. CASE i <= Len(a)
    <3>1. i \in 1 .. Len(a) /\ (a \o b)[i] = a[i]
      BY <1>1, <1>5, <2>1
    <3> QED
      BY <1>1, <3>1
  <2>2. CASE i > Len(a)
    <3>1. i - Len(a) \in 1 .. Len(b) /\ (a \o b)[i] = b[i - Len(a)]
      BY <1>1, <1>5, <2>2
    <3> QED
      BY <1>1, <3>1
  <2>3. i <= Len(a) \/ i > Len(a)
    BY <1>1
  <2> QED
    BY <2>1, <2>2, <2>3
<1>7. \A i \in 1 .. Len(Acks(z)) : Acks(z)[i].nr = recv
  BY <1>3, <1>5, <1>6
<1>8. Quiet(recv, z)
  BY <1>2, <1>3, <1>4, <1>5, <1>7 DEF Quiet
<1>9. Acks(z) = <<>> <=> a = <<>> /\ b = <<>>
  BY <1>1, <1>3, ConcatEqualIffEmpty
<1> QED
  BY <1>8, <1>9 DEF a, b, z

\* The first frame of a stream, and what follows.
LEMMA StreamHead ==
  ASSUME NEW s \in Seq(Apdus), s # <<>>
  PROVE  LET x == Head(s)
             t == Tail(s)
         IN  /\ x \in Apdus /\ t \in Seq(Apdus)
             /\ x.type = "I" => /\ Data(s) # <<>> /\ Head(Data(s)) = x
                                /\ Tail(Data(s)) = Data(t)
             /\ x.type # "I" => Data(s) = Data(t)
             /\ x.type \in {"I", "S"} => /\ Acks(s) # <<>> /\ Head(Acks(s)) = x
                                         /\ Tail(Acks(s)) = Acks(t)
             /\ x.type \notin {"I", "S"} => Acks(s) = Acks(t)
<1> DEFINE x == Head(s)
           t == Tail(s)
           one == <<x>>
<1>1. x \in Apdus /\ t \in Seq(Apdus)
  BY HeadTailProperties
<1>2. ASSUME NEW types
      PROVE  OfType(s, types) = IF x.type \in types THEN one \o OfType(t, types)
                                ELSE OfType(t, types)
  BY OfTypeHead
<1> HIDE DEF x, t
<1>3. ASSUME NEW u \in Seq(Apdus)
      PROVE  one \o u # <<>> /\ Head(one \o u) = x /\ Tail(one \o u) = u
  <2>1. one \in Seq(Apdus) /\ Len(one) = 1 /\ one[1] = x
    BY <1>1
  <2> DEFINE z == one \o u
  <2>2. /\ z \in Seq(Apdus) /\ Len(z) = 1 + Len(u) /\ Len(u) \in Nat
        /\ \A i \in 1 .. 1 + Len(u) : z[i] = IF i <= 1 THEN one[i] ELSE u[i - 1]
    BY <2>1, ConcatProperties, LenProperties
  <2> HIDE DEF z, one
  <2>3. z # <<>> /\ z[1] = x
    BY <2>1, <2>2, EmptySeq
  <2>4. Head(z) = x /\ Tail(z) \in Seq(Apdus) /\ Len(Tail(z)) = Len(u)
        /\ \A i \in 1 .. Len(u) : Tail(z)[i] = z[i + 1]
    BY <2>2, <2>3, HeadTailProperties
  <2>5. \A i \in 1 .. Len(u) : z[i + 1] = u[i]
    BY <2>2
  <2>6. Tail(z) = u
    BY <2>4, <2>5, SeqEqual
  <2> QED
    BY <2>3, <2>4, <2>6 DEF z
<1> HIDE DEF one
<1>4. \A types : OfType(t, types) \in Seq(Apdus)
  <2> SUFFICES ASSUME NEW types PROVE OfType(t, types) \in Seq(Apdus)
    OBVIOUS
  <2>1. OfType(t, types) \in Seq({y \in Apdus : y.type \in types})
    BY <1>1, OfTypeType
  <2> QED
    BY <2>1, SeqMonotonic
<1>5. ASSUME NEW types, x.type \in types
      PROVE  /\ OfType(s, types) # <<>> /\ Head(OfType(s, types)) = x
             /\ Tail(OfType(s, types)) = OfType(t, types)
  <2>1. OfType(s, types) = one \o OfType(t, types)
    BY <1>2, <1>5
  <2>2. OfType(t, types) \in Seq(Apdus)
    BY <1>4
  <2> QED
    BY <1>3, <2>1, <2>2
<1>6. ASSUME NEW types, x.type \notin types PROVE OfType(s, types) = OfType(t, types)
  BY <1>2, <1>6
<1>7. /\ x.type = "I" => /\ Data(s) # <<>> /\ Head(Data(s)) = x
                         /\ Tail(Data(s)) = Data(t)
      /\ x.type # "I" => Data(s) = Data(t)
  <2>1. x.type \in {"I"} <=> x.type = "I"
    OBVIOUS
  <2> QED
    BY <1>5, <1>6, <2>1 DEF Data
<1>8. /\ x.type \in {"I", "S"} => /\ Acks(s) # <<>> /\ Head(Acks(s)) = x
                                  /\ Tail(Acks(s)) = Acks(t)
      /\ x.type \notin {"I", "S"} => Acks(s) = Acks(t)
  BY <1>5, <1>6 DEF Acks
<1> QED
  BY <1>1, <1>7, <1>8 DEF x, t
-----------------------------------------------------------------------------
\* The steps of the gateway's side.

\* The facts of the invariant that are used most.
LEMMA LinkFacts ==
  ASSUME LinkInv
  PROVE  /\ SessionTypeOK /\ SendWindow /\ AckDiscipline /\ Windows /\ Prompt
         /\ LinkTypeOK /\ Timely /\ Reports /\ Commands
         /\ now \in Nat /\ started \in BOOLEAN /\ queue \in Seq(Asdus)
         /\ Len(queue) <= MaxQueue
         /\ unacked \in Seq(Nat) /\ Len(unacked) \in Nat /\ Len(unacked) <= K
         /\ send_seq \in SeqNumbers /\ recv_seq \in SeqNumbers
         /\ last_acked_to_peer \in SeqNumbers /\ oldest_unacked_seq \in SeqNumbers
         /\ unacked_rx_since \in Nat \cup {None}
         /\ SeqDistance(oldest_unacked_seq, send_seq) = Len(unacked)
         /\ ~p_fault
         /\ closed \notin {"SequenceError", "BadAcknowledge"}
<1>1. SessionTypeOK /\ SendWindow /\ AckDiscipline
  BY DEF LinkInv, Prompt, Windows
<1> QED
  BY <1>1, Types DEF LinkInv, Prompt, Windows, PeersAgree, SendWindow

\* Time stands still, and the t2 timer is stopped, kept, or started by the
\* first frame not acknowledged.
LEMMA TimelyKept ==
  ASSUME LinkInv, closed = "open", closed' = "open", now' = now,
         UNCHANGED <<p_send, p_unacked>>,
         recv_seq' \in SeqNumbers,
         SeqDistance(PeerBase, recv_seq) <= SeqDistance(PeerBase, recv_seq'),
         \/ unacked_rx_since' = None
         \/ /\ last_acked_to_peer' = last_acked_to_peer
            /\ unacked_rx_since' \in {unacked_rx_since, Since}
  PROVE  Timely'
<1>1. PeerBase' = PeerBase
  BY DEF PeerBase
<1>2. /\ now \in Nat /\ PeerBase \in SeqNumbers /\ recv_seq \in SeqNumbers
      /\ SeqDistance(PeerBase, recv_seq) \in Nat
      /\ SeqDistance(PeerBase, recv_seq') \in Nat
      /\ p_unacked \in Seq(Nat) /\ Len(p_unacked) \in Nat
  BY LinkFacts, LinkTypes, DistanceNat
<1>3. Timely
  BY LinkFacts
<1>4. \A i \in 1 .. Len(p_unacked') :
        /\ p_unacked'[i] <= now'
        /\ now' - p_unacked'[i] <= T2
        /\ i > SeqDistance(PeerBase', recv_seq') => p_unacked'[i] = now'
  <2> SUFFICES ASSUME NEW i \in 1 .. Len(p_unacked)
               PROVE  /\ p_unacked[i] <= now
                      /\ now - p_unacked[i] <= T2
                      /\ i > SeqDistance(PeerBase, recv_seq') => p_unacked[i] = now
    BY <1>1
  <2>1. /\ p_unacked[i] <= now /\ now - p_unacked[i] <= T2
        /\ i > SeqDistance(PeerBase, recv_seq) => p_unacked[i] = now
    BY <1>3 DEF Timely
  <2>2. i > SeqDistance(PeerBase, recv_seq') => i > SeqDistance(PeerBase, recv_seq)
    BY <1>2
  <2> QED
    BY <2>1, <2>2
<1>5. ASSUME unacked_rx_since' # None
      PROVE  /\ unacked_rx_since' <= now'
             /\ \A i \in 1 .. Len(p_unacked') :
                  i > SeqDistance(PeerBase', last_acked_to_peer') =>
                    p_unacked'[i] >= unacked_rx_since'
  <2>1. last_acked_to_peer' = last_acked_to_peer
        /\ unacked_rx_since' \in {unacked_rx_since, Since}
    BY <1>5
  <2>2. CASE unacked_rx_since # None
    <3>1. unacked_rx_since' = unacked_rx_since
      BY <2>1, <2>2 DEF Since
    <3> QED
      BY <1>1, <1>3, <2>1, <2>2, <3>1 DEF Timely
  <2>3. CASE unacked_rx_since = None
    <3>1. unacked_rx_since' = now
      BY <1>5, <2>1, <2>3 DEF Since
    <3>2. last_acked_to_peer = recv_seq
      BY <2>3, LinkFacts DEF AckDiscipline
    <3>3. \A i \in 1 .. Len(p_unacked) :
            i > SeqDistance(PeerBase, recv_seq) => p_unacked[i] = now
      BY <1>3 DEF Timely
    <3> QED
      BY <1>1, <1>2, <2>1, <3>1, <3>2, <3>3
  <2> QED
    BY <2>2, <2>3
<1> QED
  BY <1>4, <1>5 DEF Timely

LEMMA StationSendLink ==
  ASSUME LinkInv, StationSend
  PROVE  LinkInv' /\ Channel!Submit
<1> DEFINE none == <<>>
           q == Append(MakeRoom(queue), sent + 1)
<1>1. sent < MaxSends /\ sent' = sent + 1 /\ SendRaw(sent + 1) /\ WriteFrames(out')
      /\ UNCHANGED <<to_station, p_started, p_send, p_recv, p_acked, p_unacked,
                     p_fault, delivered>>
  BY DEF StationSend, peer
<1>2. closed = "open" /\ closed' = closed /\ now' = now
      /\ oldest_unacked_seq' = oldest_unacked_seq
      /\ Flush(started, q, unacked, recv_seq, last_acked_to_peer, unacked_rx_since, none)
  BY <1>1 DEF SendRaw
<1>3. sent \in 0 .. MaxSends /\ sent + 1 \in 0 .. MaxSends /\ sent + 1 \in Asdus
  BY <1>1, LinkFacts DEF LinkTypeOK
<1>4. q \in Seq(Asdus)
  <2>1. MakeRoom(queue) \in Seq(Asdus)
    <3>1. CASE Len(queue) >= MaxQueue
      <4>1. queue # <<>>
        BY <3>1, EmptySeq
      <4> QED
        BY <3>1, <4>1, LinkFacts, HeadTailProperties DEF MakeRoom
    <3>2. CASE ~(Len(queue) >= MaxQueue)
      BY <3>2, LinkFacts DEF MakeRoom
    <3> QED
      BY <3>1, <3>2
  <2> QED
    BY <1>3, <2>1, AppendProperties
<1>5. Prompt'
  <2>1. [SessionNext]_svars
    BY <1>1, <1>3 DEF SessionNext
  <2> QED
    BY <2>1, LinkFacts, NextPrompt
<1>6. Quiet(recv_seq, none) /\ Acks(none) = <<>>
  BY QuietNone
<1>7. OneWay(oldest_unacked_seq, Len(unacked), p_recv, p_acked, Data(to_peer),
             Acks(to_station'))
      /\ OneWay(PeerBase, Len(p_unacked), recv_seq, last_acked_to_peer,
                Data(to_station'), Acks(to_peer))
  BY <1>1, LinkFacts DEF Reports, Commands
<1> HIDE DEF q, none
<1>8. to_peer' \in Seq(Apdus) /\ Reports' /\ Commands' /\ Channel!Leave(q)
  BY <1>1, <1>2, <1>4, <1>6, <1>7, LinkFacts, FlushLink DEF Quiet
<1>9. LinkTypeOK'
  BY <1>1, <1>3, <1>8, LinkFacts DEF LinkTypeOK
<1>10. Timely'
  <2>1. recv_seq' = recv_seq
        /\ (unacked_rx_since' = None \/ (/\ last_acked_to_peer' = last_acked_to_peer
                                         /\ unacked_rx_since' = unacked_rx_since))
    BY <1>2 DEF Flush
  <2>2. SeqDistance(PeerBase, recv_seq) <= SeqDistance(PeerBase, recv_seq')
    BY <2>1, LinkFacts, LinkTypes, DistanceNat
  <2> QED
    BY <1>1, <1>2, <2>1, <2>2, LinkFacts, TimelyKept
<1>11. PeersAgree'
  BY <1>1, <1>2, LinkFacts DEF PeersAgree
<1>12. Channel!Submit
  BY <1>1, <1>2, <1>8 DEF Channel!Submit, q, MakeRoom
<1> QED
  BY <1>5, <1>8, <1>9, <1>10, <1>11, <1>12 DEF LinkInv
\* A frame has been handled.
LEMMA ReceivedLink ==
  ASSUME LinkInv, closed = "open", Prompt',
         UNCHANGED <<peer, sent, now, closed>>,
         to_station' \in Seq(Apdus), WriteFrames(out'),
         NEW st \in BOOLEAN, NEW un \in Seq(Nat), Len(un) <= K,
         NEW recv \in SeqNumbers, NEW acked, NEW since,
         NEW sofar, Quiet(recv, sofar),
         acked = IF Acks(sofar) = <<>> THEN last_acked_to_peer ELSE recv,
         NEW seq \in SeqNumbers, SeqDistance(seq, send_seq) = Len(un),
         OneWay(seq, Len(un), p_recv, p_acked, Data(to_peer), Acks(to_station')),
         OneWay(PeerBase, Len(p_unacked), recv, last_acked_to_peer,
                Data(to_station'), Acks(to_peer)),
         SeqDistance(PeerBase, recv_seq) <= SeqDistance(PeerBase, recv),
         \/ since = None
         \/ acked = last_acked_to_peer /\ since \in {unacked_rx_since, Since},
         Flush(st, queue, un, recv, acked, since, sofar),
         oldest_unacked_seq' = seq
  PROVE  LinkInv' /\ Channel!Send
<1>1. UNCHANGED <<p_started, p_send, p_recv, p_acked, p_unacked, p_fault, delivered>>
  BY DEF peer
<1>2. to_peer' \in Seq(Apdus) /\ Reports' /\ Commands' /\ Channel!Leave(queue)
  BY <1>1, LinkFacts, FlushLink DEF Quiet
<1>3. LinkTypeOK'
  BY <1>1, <1>2, LinkFacts DEF LinkTypeOK
<1>4. Timely'
  <2>1. recv_seq' = recv
        /\ (unacked_rx_since' = None \/ (/\ last_acked_to_peer' = acked
                                         /\ unacked_rx_since' = since))
    BY DEF Flush
  <2>2. \/ unacked_rx_since' = None
        \/ /\ last_acked_to_peer' = last_acked_to_peer
           /\ unacked_rx_since' \in {unacked_rx_since, Since}
    BY <2>1
  <2> QED
    BY <1>1, <2>1, <2>2, TimelyKept
<1>5. PeersAgree'
  BY <1>1, LinkFacts DEF PeersAgree
<1>6. Channel!Send
  BY <1>1, <1>2 DEF Channel!Send
<1> QED
  BY <1>2, <1>3, <1>4, <1>5, <1>6 DEF LinkInv

\* An acknowledgement from the stream is one the session takes.
LEMMA AckAccepted ==
  ASSUME LinkInv, Acks(to_station) # <<>>
  PROVE  LET nr == Head(Acks(to_station)).nr
         IN  /\ nr \in SeqNumbers /\ ~BadAcknowledge(nr)
             /\ AfterAck(nr) \in Seq(Nat) /\ Len(AfterAck(nr)) <= K
             /\ SeqDistance(nr, send_seq) = Len(AfterAck(nr))
             /\ OneWay(nr, Len(AfterAck(nr)), p_recv, p_acked, Data(to_peer),
                       Tail(Acks(to_station)))
<1> DEFINE nr == Head(Acks(to_station)).nr
           d == SeqDistance(oldest_unacked_seq, nr)
<1>1. /\ nr \in SeqNumbers /\ d \in Nat /\ d <= Len(unacked)
      /\ OneWay(nr, Len(unacked) - d, p_recv, p_acked, Data(to_peer),
                Tail(Acks(to_station)))
  BY LinkFacts, OneWayAck DEF Reports
<1> HIDE DEF nr
<1>2. ~BadAcknowledge(nr)
  BY <1>1, LinkFacts DEF BadAcknowledge
<1>3. /\ AfterAck(nr) \in Seq(Nat) /\ Len(AfterAck(nr)) <= K
      /\ SeqDistance(nr, send_seq) = Len(AfterAck(nr))
  BY <1>1, <1>2, LinkFacts, AfterAckWindow
<1>4. SeqDistance(nr, send_seq) = Len(unacked) - d
  BY <1>1, LinkFacts, DistanceSplit
<1> QED
  BY <1>1, <1>2, <1>3, <1>4 DEF nr

\* The session handles the next frame as it should.
LEMMA ReceiveI ==
  ASSUME LinkInv, Prompt', StationReceive, Head(to_station).type = "I"
  PROVE  LinkInv' /\ Channel!Send
<1> DEFINE apdu == Head(to_station)
           recv == Advance(recv_seq, 1)
           full == WindowFull(recv)
           acked == IF full THEN recv ELSE last_acked_to_peer
           since == IF full THEN None ELSE Since
           got == <<Received(apdu.asdu)>>
           ack == IF full THEN <<SFrame(recv)>> ELSE <<>>
           sofar == got \o ack
           un == AfterAck(apdu.nr)
<1>1. /\ to_station # <<>> /\ OnApdu(apdu) /\ to_station' = Tail(to_station)
      /\ WriteFrames(out') /\ UNCHANGED <<peer, sent>>
  BY DEF StationReceive
<1>2. /\ apdu \in Apdus /\ to_station' \in Seq(Apdus)
      /\ Data(to_station) # <<>> /\ Head(Data(to_station)) = apdu
      /\ Tail(Data(to_station)) = Data(to_station')
      /\ Acks(to_station) # <<>> /\ Head(Acks(to_station)) = apdu
      /\ Tail(Acks(to_station)) = Acks(to_station')
  BY <1>1, LinkFacts, LinkTypes, StreamHead
<1>3. /\ apdu.ns = recv_seq /\ recv \in SeqNumbers
      /\ SeqDistance(PeerBase, recv_seq) <= SeqDistance(PeerBase, recv)
      /\ OneWay(PeerBase, Len(p_unacked), recv, last_acked_to_peer,
                Data(to_station'), Acks(to_peer))
  <2>1. OneWay(PeerBase, Len(p_unacked), recv_seq, last_acked_to_peer,
               Data(to_station), Acks(to_peer))
    BY LinkFacts DEF Commands
  <2> DEFINE d == Data(to_station)
  <2>2. /\ Head(d).ns = recv_seq /\ Advance(recv_seq, 1) \in SeqNumbers
        /\ SeqDistance(PeerBase, recv_seq) <= SeqDistance(PeerBase, Advance(recv_seq, 1))
        /\ OneWay(PeerBase, Len(p_unacked), Advance(recv_seq, 1), last_acked_to_peer,
                  Tail(d), Acks(to_peer))
    <3>1. d # <<>>
      BY <1>2
    <3> HIDE DEF d, recv, apdu
    <3> QED
      BY <2>1, <3>1, OneWayReceive DEF d
  <2> QED
    BY <1>2, <2>2
<1>4. /\ apdu.nr \in SeqNumbers /\ ~BadAcknowledge(apdu.nr)
      /\ un \in Seq(Nat) /\ Len(un) <= K /\ SeqDistance(apdu.nr, send_seq) = Len(un)
      /\ OneWay(apdu.nr, Len(un), p_recv, p_acked, Data(to_peer), Acks(to_station'))
  BY <1>2, AckAccepted
<1>5. closed = "open" /\ OnI(apdu.ns, apdu.nr, apdu.asdu)
  BY <1>1, <1>3, <1>4 DEF OnApdu
<1>6. /\ Flush(started, queue, un, recv, acked, since, sofar)
      /\ oldest_unacked_seq' = apdu.nr /\ UNCHANGED <<now, closed>>
  BY <1>5 DEF OnI
<1>7. Quiet(recv, got) /\ Acks(got) = <<>>
  <2>1. apdu.asdu \in Asdus
    BY <1>2 DEF Apdus
  <2>2. Received(apdu.asdu) \in Outputs /\ Received(apdu.asdu).type = "Received"
    BY <2>1 DEF Outputs, Received
  <2> QED
    BY <2>2, QuietOne
<1>8. Quiet(recv, ack) /\ (Acks(ack) = <<>> <=> ~full)
  <2>1. CASE full
    <3> DEFINE x == SFrame(recv)
    <3>1. x \in Outputs /\ x.type = "S" /\ x \in AckFrames /\ x.nr = recv
      BY <1>3 DEF SFrame, Outputs, Apdus, AckFrames
    <3> HIDE DEF x
    <3>2. Quiet(recv, <<x>>) /\ Acks(<<x>>) # <<>>
      BY <3>1, QuietOne
    <3> QED
      BY <2>1, <3>2 DEF x
  <2>2. CASE ~full
    BY <2>2, QuietNone
  <2> QED
    BY <2>1, <2>2
<1>9. Quiet(recv, sofar) /\ (Acks(sofar) = <<>> <=> ~full)
  <2> HIDE DEF got, ack, full, recv
  <2> QED
    BY <1>7, <1>8, QuietConcat
<1>10. acked = IF Acks(sofar) = <<>> THEN last_acked_to_peer ELSE recv
  BY <1>9
<1>11. \/ since = None
       \/ acked = last_acked_to_peer /\ since \in {unacked_rx_since, Since}
  OBVIOUS
<1> HIDE DEF recv, full, acked, since, got, ack, sofar, un, apdu
<1>12. UNCHANGED <<peer, sent, now, closed>>
  BY <1>1, <1>6
<1> QED
  BY <1>1, <1>2, <1>3, <1>4, <1>5, <1>6, <1>9, <1>10, <1>11, <1>12, LinkFacts,
     ReceivedLink

LEMMA ReceiveS ==
  ASSUME LinkInv, Prompt', StationReceive, Head(to_station).type = "S"
  PROVE  LinkInv' /\ Channel!Send
<1> DEFINE apdu == Head(to_station)
           un == AfterAck(apdu.nr)
           none == <<>>
<1>1. /\ to_station # <<>> /\ OnApdu(apdu) /\ to_station' = Tail(to_station)
      /\ WriteFrames(out') /\ UNCHANGED <<peer, sent>>
  BY DEF StationReceive
<1>2. /\ apdu \in Apdus /\ to_station' \in Seq(Apdus)
      /\ Data(to_station) = Data(to_station')
      /\ Acks(to_station) # <<>> /\ Head(Acks(to_station)) = apdu
      /\ Tail(Acks(to_station)) = Acks(to_station')
  BY <1>1, LinkFacts, LinkTypes, StreamHead
<1>3. /\ apdu.nr \in SeqNumbers /\ ~BadAcknowledge(apdu.nr)
      /\ un \in Seq(Nat) /\ Len(un) <= K /\ SeqDistance(apdu.nr, send_seq) = Len(un)
      /\ OneWay(apdu.nr, Len(un), p_recv, p_acked, Data(to_peer), Acks(to_station'))
  BY <1>2, AckAccepted
<1>4. OneWay(PeerBase, Len(p_unacked), recv_seq, last_acked_to_peer,
             Data(to_station'), Acks(to_peer))
  BY <1>2, LinkFacts DEF Commands
<1>5. closed = "open" /\ OnS(apdu.nr)
  BY <1>1, <1>3 DEF OnApdu
<1>6. /\ Flush(started, queue, un, recv_seq, last_acked_to_peer, unacked_rx_since, none)
      /\ oldest_unacked_seq' = apdu.nr /\ UNCHANGED <<now, closed>>
  BY <1>5 DEF OnS
<1>7. Quiet(recv_seq, none) /\ Acks(none) = <<>>
  BY QuietNone
<1>8. SeqDistance(PeerBase, recv_seq) <= SeqDistance(PeerBase, recv_seq)
  BY LinkFacts, LinkTypes, DistanceNat
<1>9. UNCHANGED <<peer, sent, now, closed>>
  BY <1>1, <1>6
<1> HIDE DEF un, none, apdu
<1> QED
  BY <1>1, <1>2, <1>3, <1>4, <1>5, <1>6, <1>7, <1>8, <1>9, LinkFacts, ReceivedLink
\* Outputs of a U-frame or for the application, one or none.
LEMMA QuietUOutputs ==
  ASSUME NEW recv
  PROVE  /\ \A f \in UFunctions : Quiet(recv, <<UFrame(f)>>) /\ Acks(<<UFrame(f)>>) = <<>>
         /\ Quiet(recv, <<Started>>) /\ Acks(<<Started>>) = <<>>
         /\ Quiet(recv, <<Stopped>>) /\ Acks(<<Stopped>>) = <<>>
<1>1. ASSUME NEW f \in UFunctions
      PROVE  Quiet(recv, <<UFrame(f)>>) /\ Acks(<<UFrame(f)>>) = <<>>
  <2> DEFINE x == UFrame(f)
  <2>1. x \in Outputs /\ x.type = "U"
    BY DEF UFrame, Outputs, Apdus
  <2> HIDE DEF x
  <2> QED
    BY <2>1, QuietOne DEF x
<1>2. Started \in Outputs /\ Started.type = "Started"
  BY DEF Outputs, Started
<1>3. Stopped \in Outputs /\ Stopped.type = "Stopped"
  BY DEF Outputs, Stopped
<1> QED
  BY <1>1, <1>2, <1>3, QuietOne

LEMMA ReceiveU ==
  ASSUME LinkInv, Prompt', StationReceive, Head(to_station).type = "U"
  PROVE  LinkInv' /\ Channel!Send
<1> DEFINE apdu == Head(to_station)
           none == <<>>
<1>1. /\ to_station # <<>> /\ OnApdu(apdu) /\ to_station' = Tail(to_station)
      /\ WriteFrames(out') /\ UNCHANGED <<peer, sent>>
  BY DEF StationReceive
<1>2. /\ to_station' \in Seq(Apdus)
      /\ Data(to_station) = Data(to_station') /\ Acks(to_station) = Acks(to_station')
  <2>1. apdu.type # "I" /\ apdu.type \notin {"I", "S"}
    OBVIOUS
  <2> QED
    BY <1>1, <2>1, LinkFacts, LinkTypes, StreamHead
<1>3. /\ closed = "open"
      /\ \/ apdu.f = "StartDtAct" /\ OnStartDt
         \/ apdu.f = "StopDtAct" /\ OnStopDt
         \/ OnTestOrCon(apdu.f)
  BY <1>1 DEF OnApdu
<1>4. OneWay(PeerBase, Len(p_unacked), recv_seq, last_acked_to_peer,
             Data(to_station'), Acks(to_peer))
      /\ OneWay(oldest_unacked_seq, Len(unacked), p_recv, p_acked, Data(to_peer),
                Acks(to_station'))
  BY <1>2, LinkFacts DEF Commands, Reports
<1>5. SeqDistance(PeerBase, recv_seq) <= SeqDistance(PeerBase, recv_seq)
  BY LinkFacts, LinkTypes, DistanceNat
<1> HIDE DEF apdu
<1>6. ASSUME NEW st \in BOOLEAN, NEW acked, NEW since, NEW sofar,
             Quiet(recv_seq, sofar),
             acked = IF Acks(sofar) = <<>> THEN last_acked_to_peer ELSE recv_seq,
             \/ since = None
             \/ acked = last_acked_to_peer /\ since \in {unacked_rx_since, Since},
             Flush(st, queue, unacked, recv_seq, acked, since, sofar),
             UNCHANGED <<now, closed, oldest_unacked_seq>>
      PROVE  LinkInv' /\ Channel!Send
  <2>1. UNCHANGED <<peer, sent, now, closed>>
    BY <1>1, <1>6
  <2> QED
    BY <1>1, <1>2, <1>3, <1>4, <1>5, <1>6, <2>1, LinkFacts, ReceivedLink
<1>7. CASE OnStartDt
  <2> DEFINE con == <<UFrame("StartDtCon")>>
             more == IF started THEN <<>> ELSE <<Started>>
             sofar == con \o more
  <2>1. Quiet(recv_seq, con) /\ Acks(con) = <<>>
    BY QuietUOutputs DEF UFunctions
  <2>2. Quiet(recv_seq, more) /\ Acks(more) = <<>>
    BY QuietUOutputs, QuietNone
  <2>3. Quiet(recv_seq, sofar) /\ Acks(sofar) = <<>>
    <3> HIDE DEF con, more
    <3> QED
      BY <2>1, <2>2, QuietConcat
  <2>4. PICK st \in BOOLEAN :
          Flush(st, queue, unacked, recv_seq, last_acked_to_peer, unacked_rx_since, sofar)
    BY <1>7 DEF OnStartDt
  <2>5. UNCHANGED <<now, closed, oldest_unacked_seq>>
    BY <1>7 DEF OnStartDt
  <2> HIDE DEF sofar
  <2> QED
    BY <1>6, <2>3, <2>4, <2>5
<1>8. CASE OnStopDt
  <2> DEFINE owed == recv_seq # last_acked_to_peer
             ack == IF owed THEN <<SFrame(recv_seq)>> ELSE <<>>
             con == <<UFrame("StopDtCon")>>
             more == IF started THEN <<Stopped>> ELSE <<>>
             first == ack \o con
             sofar == first \o more
             since == IF owed THEN None ELSE unacked_rx_since
  <2>1. Quiet(recv_seq, con) /\ Acks(con) = <<>>
    BY QuietUOutputs DEF UFunctions
  <2>2. Quiet(recv_seq, more) /\ Acks(more) = <<>>
    BY QuietUOutputs, QuietNone
  <2>3. Quiet(recv_seq, ack) /\ (Acks(ack) = <<>> <=> ~owed)
    <3> DEFINE x == SFrame(recv_seq)
    <3>1. x \in Outputs /\ x.type = "S" /\ x \in AckFrames /\ x.nr = recv_seq
      BY LinkFacts DEF SFrame, Outputs, Apdus, AckFrames
    <3> HIDE DEF x
    <3>2. Quiet(recv_seq, <<x>>) /\ Acks(<<x>>) # <<>>
      BY <3>1, QuietOne
    <3> QED
      BY <3>2, QuietNone DEF x
  <2>4. Quiet(recv_seq, sofar) /\ (Acks(sofar) = <<>> <=> ~owed)
    <3> HIDE DEF con, more, ack, owed
    <3>1. Quiet(recv_seq, first) /\ (Acks(first) = <<>> <=> ~owed)
      BY <2>1, <2>3, QuietConcat
    <3> HIDE DEF first
    <3> QED
      BY <2>2, <3>1, QuietConcat
  <2>5. PICK st \in BOOLEAN :
          Flush(st, queue, unacked, recv_seq, recv_seq, since, sofar)
    BY <1>8 DEF OnStopDt
  <2>6. UNCHANGED <<now, closed, oldest_unacked_seq>>
    BY <1>8 DEF OnStopDt
  <2>7. recv_seq = IF Acks(sofar) = <<>> THEN last_acked_to_peer ELSE recv_seq
    BY <2>4
  <2>8. \/ since = None
        \/ recv_seq = last_acked_to_peer /\ since \in {unacked_rx_since, Since}
    OBVIOUS
  <2> HIDE DEF sofar, since, owed
  <2> QED
    BY <1>6, <2>4, <2>5, <2>6, <2>7, <2>8
<1>9. CASE OnTestOrCon(apdu.f)
  <2> DEFINE sofar == IF apdu.f = "TestFrAct" THEN <<UFrame("TestFrCon")>> ELSE <<>>
  <2>1. Quiet(recv_seq, sofar) /\ Acks(sofar) = <<>>
    BY QuietUOutputs, QuietNone DEF UFunctions
  <2>2. /\ Flush(started, queue, unacked, recv_seq, last_acked_to_peer,
                 unacked_rx_since, sofar)
        /\ UNCHANGED <<now, closed, oldest_unacked_seq>>
    BY <1>9 DEF OnTestOrCon
  <2> HIDE DEF sofar
  <2> QED
    BY <1>6, <2>1, <2>2, LinkFacts
<1> QED
  BY <1>3, <1>7, <1>8, <1>9

LEMMA StationReceiveLink ==
  ASSUME LinkInv, StationReceive
  PROVE  LinkInv' /\ Channel!Send
<1> DEFINE apdu == Head(to_station)
<1>1. apdu \in Apdus /\ OnApdu(apdu)
  BY LinkFacts, LinkTypes, HeadTailProperties DEF StationReceive
<1>2. Prompt'
  <2>1. [SessionNext]_svars
    BY <1>1 DEF SessionNext
  <2> QED
    BY <2>1, LinkFacts, NextPrompt
<1>3. apdu.type = "I" \/ apdu.type = "S" \/ apdu.type = "U"
  BY <1>1 DEF OnApdu
<1> QED
  BY <1>2, <1>3, ReceiveI, ReceiveS, ReceiveU
\* What the driver writes of outputs without data.
LEMMA WrittenQuiet ==
  ASSUME to_peer \in Seq(Apdus), NEW recv, Quiet(recv, out'), WriteFrames(out')
  PROVE  /\ to_peer' \in Seq(Apdus)
         /\ Data(to_peer') = Data(to_peer)
         /\ Acks(to_peer') = Acks(to_peer) \o Acks(out')
<1> DEFINE none == <<>>
           o == out'
<1>1. /\ o \in Seq(Outputs) /\ Data(o) = <<>> /\ Acks(o) \in Seq(AckFrames)
      /\ none \in Seq(IFrames) /\ o = o \o none /\ Acks(o) = Acks(o) \o none
  BY EmptySeq, ConcatEmptySeq DEF Quiet
<1>2. Data(to_peer) = Data(to_peer) \o none
  BY StreamTypes, ConcatEmptySeq
<1> HIDE DEF none
<1>3. /\ to_peer' \in Seq(Apdus)
      /\ Data(to_peer') = Data(to_peer) \o none
      /\ Acks(to_peer') = Acks(to_peer) \o (Acks(o) \o none)
  BY <1>1, Written
<1> QED
  BY <1>1, <1>2, <1>3

\* The same data are the same payloads.
LEMMA SamePayloads ==
  ASSUME NEW s, NEW t, Data(s) = Data(t)
  PROVE  Payloads(s) = Payloads(t)
BY DEF Payloads, Data

\* On a quiet stream every command has been received, and those that have not
\* been acknowledged are no older than the t2 timer.
LEMMA QuietStream ==
  ASSUME LinkInv, to_peer = <<>>, to_station = <<>>, closed = "open"
  PROVE  /\ Data(to_station) = <<>> /\ Acks(to_peer) = <<>>
         /\ SeqDistance(PeerBase, recv_seq) = Len(p_unacked)
         /\ \A i \in 1 .. Len(p_unacked) : p_unacked[i] \in Nat /\ now + 1 - p_unacked[i] <= T2
<1>1. Data(to_station) = <<>> /\ Acks(to_peer) = <<>>
  BY OfTypeEmpty DEF Data, Acks
<1>2. /\ now \in Nat /\ PeerBase \in SeqNumbers /\ recv_seq \in SeqNumbers
      /\ last_acked_to_peer \in SeqNumbers /\ unacked_rx_since \in Nat \cup {None}
      /\ SeqDistance(PeerBase, recv_seq) \in Nat
      /\ p_unacked \in Seq(Nat) /\ Len(p_unacked) \in Nat
  BY LinkFacts, LinkTypes, DistanceNat
<1>3. SeqDistance(PeerBase, recv_seq) + Len(Data(to_station)) = Len(p_unacked)
      /\ last_acked_to_peer = PeerBase
  BY <1>1, LinkFacts DEF Commands, OneWay
<1>4. SeqDistance(PeerBase, recv_seq) = Len(p_unacked)
  <2>1. Len(Data(to_station)) = 0
    BY <1>1, EmptySeq
  <2> QED
    BY <1>2, <1>3, <2>1
<1>5. SeqDistance(PeerBase, last_acked_to_peer) = 0
  BY <1>2, <1>3, DistanceZero
<1>6. ASSUME NEW i \in 1 .. Len(p_unacked)
      PROVE  p_unacked[i] \in Nat /\ now + 1 - p_unacked[i] <= T2
  <2>1. p_unacked[i] \in Nat
    BY <1>2, ElementOfSeq
  <2>2. unacked_rx_since # None
    <3> SUFFICES ASSUME unacked_rx_since = None PROVE FALSE
      OBVIOUS
    <3>1. recv_seq = last_acked_to_peer
      BY LinkFacts DEF AckDiscipline
    <3> QED
      BY <1>4, <1>5, <3>1
  <2>3. p_unacked[i] >= unacked_rx_since
    <3>1. i > SeqDistance(PeerBase, last_acked_to_peer)
      BY <1>5
    <3> QED
      BY <2>2, <3>1, LinkFacts DEF Timely
  <2>4. now - unacked_rx_since < T2
    BY <2>2, LinkFacts DEF Prompt, Punctual, NoTimerMissed
  <2>5. unacked_rx_since \in Nat /\ T2 \in Nat
    BY <1>2, <2>2
  <2> QED
    BY <1>2, <2>1, <2>3, <2>4, <2>5
<1> QED
  BY <1>1, <1>4, <1>6

LEMMA StationTickLink ==
  ASSUME LinkInv, StationTick
  PROVE  LinkInv' /\ (Channel!GiveUp \/ UNCHANGED Channel!chvars)
<1>1. /\ to_peer = <<>> /\ to_station = <<>> /\ Tick /\ WriteFrames(out')
      /\ UNCHANGED <<to_station, sent>>
      /\ UNCHANGED <<p_started, p_send, p_recv, p_acked, p_unacked, p_fault, delivered>>
  BY DEF StationTick, peer
<1>2. closed = "open" /\ now' = now + 1
  BY <1>1 DEF Tick
<1>3. Prompt'
  <2>1. [SessionNext]_svars
    BY <1>1 DEF SessionNext
  <2> QED
    BY <2>1, LinkFacts, NextPrompt
<1>4. PeerBase' = PeerBase
  BY <1>1 DEF PeerBase
<1>5. /\ Acks(to_peer) = <<>> /\ Data(to_station) = <<>>
      /\ SeqDistance(PeerBase, recv_seq) = Len(p_unacked)
      /\ \A i \in 1 .. Len(p_unacked) : p_unacked[i] \in Nat /\ now + 1 - p_unacked[i] <= T2
  BY <1>1, <1>2, QuietStream
<1>6. now \in Nat /\ Len(p_unacked) \in Nat
  BY LinkFacts, LinkTypes
<1>7. \A i \in 1 .. Len(p_unacked) : p_unacked[i] <= now + 1
  <2> SUFFICES ASSUME NEW i \in 1 .. Len(p_unacked) PROVE p_unacked[i] <= now + 1
    OBVIOUS
  <2>1. p_unacked[i] \in Nat /\ p_unacked[i] <= now
    BY <1>5, LinkFacts DEF Timely
  <2> QED
    BY <1>6, <2>1
<1>8. ASSUME out' = <<>>, UNCHANGED session, closed' \in {"AckTimeout", "TestTimeout"}
      PROVE  LinkInv' /\ Channel!GiveUp
  <2>1. to_peer' = to_peer
    <3>1. OfType(out', {"I", "S", "U"}) = <<>>
      BY <1>8, OfTypeEmpty
    <3>2. to_peer \o <<>> = to_peer
      BY LinkFacts, LinkTypes, ConcatEmptySeq
    <3> QED
      BY <1>1, <3>1, <3>2 DEF WriteFrames
  <2>2. UNCHANGED <<oldest_unacked_seq, unacked, recv_seq, last_acked_to_peer, queue>>
    BY <1>8 DEF session
  <2>3. Reports' /\ Commands'
    BY <1>1, <1>4, <2>1, <2>2, LinkFacts DEF Reports, Commands
  <2>4. LinkTypeOK'
    BY <1>1, <2>1, LinkFacts DEF LinkTypeOK
  <2>5. Timely'
    BY <1>1, <1>2, <1>7, <1>8 DEF Timely
  <2>6. PeersAgree'
    BY <1>1, <1>8, LinkFacts DEF PeersAgree
  <2>7. Channel!GiveUp
    BY <1>1, <1>8, <2>1, <2>2 DEF Channel!GiveUp
  <2> QED
    BY <1>3, <2>3, <2>4, <2>5, <2>6, <2>7 DEF LinkInv
<1>9. ASSUME OnTick
      PROVE  LinkInv' /\ UNCHANGED Channel!chvars
  <2> DEFINE owed == Expired(unacked_rx_since, T2)
             ack == IF owed THEN <<SFrame(recv_seq)>> ELSE <<>>
             test == IF TestDue THEN <<UFrame("TestFrAct")>> ELSE <<>>
  <2>1. /\ last_acked_to_peer' = IF owed THEN recv_seq ELSE last_acked_to_peer
        /\ unacked_rx_since' = IF owed THEN None ELSE unacked_rx_since
        /\ out' = ack \o test
        /\ UNCHANGED <<closed, recv_seq, unacked, oldest_unacked_seq, queue>>
    BY <1>9 DEF OnTick
  <2>2. Quiet(recv_seq, ack) /\ (Acks(ack) = <<>> <=> ~owed)
    <3> DEFINE x == SFrame(recv_seq)
    <3>1. x \in Outputs /\ x.type = "S" /\ x \in AckFrames /\ x.nr = recv_seq
      BY LinkFacts DEF SFrame, Outputs, Apdus, AckFrames
    <3> HIDE DEF x, owed
    <3>2. Quiet(recv_seq, <<x>>) /\ Acks(<<x>>) # <<>>
      BY <3>1, QuietOne
    <3> QED
      BY <3>2, QuietNone DEF x
  <2>3. Quiet(recv_seq, test) /\ Acks(test) = <<>>
    BY QuietUOutputs, QuietNone DEF UFunctions
  <2>4. Quiet(recv_seq, out') /\ (Acks(out') = <<>> <=> ~owed)
    <3> HIDE DEF ack, test, owed
    <3> QED
      BY <2>1, <2>2, <2>3, QuietConcat
  <2> HIDE DEF owed, ack, test
  <2>5. /\ to_peer' \in Seq(Apdus)
        /\ Data(to_peer') = Data(to_peer)
        /\ Acks(to_peer') = Acks(to_peer) \o Acks(out')
    BY <1>1, <2>4, LinkFacts, LinkTypes, WrittenQuiet
  <2>6. Reports'
    BY <1>1, <2>1, <2>5, LinkFacts DEF Reports
  <2>7. OneWay(PeerBase, Len(p_unacked), recv_seq, last_acked_to_peer',
               Data(to_station), Acks(to_peer) \o Acks(out'))
    <3>0. OneWay(PeerBase, Len(p_unacked), recv_seq, last_acked_to_peer,
                 Data(to_station), Acks(to_peer))
      BY LinkFacts DEF Commands
    <3>1. CASE owed
      <4> DEFINE more == Acks(out')
      <4>1. more \in Seq(AckFrames) /\ more # <<>>
            /\ \A i \in 1 .. Len(more) : more[i].nr = recv_seq
        BY <2>4, <3>1 DEF Quiet
      <4> HIDE DEF more
      <4>2. OneWay(PeerBase, Len(p_unacked), recv_seq, recv_seq,
                   Data(to_station), Acks(to_peer) \o more)
        BY <3>0, <4>1, OneWayTell
      <4> QED
        BY <2>1, <3>1, <4>2 DEF more
    <3>2. CASE ~owed
      <4>1. Acks(to_peer) \o Acks(out') = Acks(to_peer)
        <5>1. Acks(out') = <<>>
          BY <2>4, <3>2
        <5>2. Acks(to_peer) \in Seq(AckFrames)
          BY LinkFacts, LinkTypes, StreamTypes
        <5> QED
          BY <5>1, <5>2, ConcatEmptySeq
      <4> QED
        BY <2>1, <3>0, <3>2, <4>1
    <3> QED
      BY <3>1, <3>2
  <2>8. Commands'
    BY <1>1, <1>4, <2>1, <2>5, <2>7 DEF Commands
  <2>9. LinkTypeOK'
    BY <1>1, <2>5, LinkFacts DEF LinkTypeOK
  <2>10. Timely'
    <3>1. \A i \in 1 .. Len(p_unacked') :
            /\ p_unacked'[i] <= now'
            /\ now' - p_unacked'[i] <= T2
            /\ ~(i > SeqDistance(PeerBase', recv_seq'))
      BY <1>1, <1>2, <1>4, <1>5, <1>6, <1>7, <2>1
    <3>2. ASSUME unacked_rx_since' # None
          PROVE  /\ unacked_rx_since' <= now'
                 /\ \A i \in 1 .. Len(p_unacked') :
                      i > SeqDistance(PeerBase', last_acked_to_peer') =>
                        p_unacked'[i] >= unacked_rx_since'
      <4>1. /\ unacked_rx_since' = unacked_rx_since /\ unacked_rx_since \in Nat
            /\ last_acked_to_peer' = last_acked_to_peer
        BY <2>1, <3>2, LinkFacts
      <4>2. /\ unacked_rx_since <= now
            /\ \A i \in 1 .. Len(p_unacked) :
                 i > SeqDistance(PeerBase, last_acked_to_peer) =>
                   p_unacked[i] >= unacked_rx_since
        BY <1>2, <3>2, <4>1, LinkFacts DEF Timely
      <4>3. unacked_rx_since <= now + 1
        BY <1>6, <4>1, <4>2
      <4> QED
        BY <1>1, <1>2, <1>4, <4>1, <4>2, <4>3
    <3> QED
      BY <3>1, <3>2 DEF Timely
  <2>11. PeersAgree'
    BY <1>1, <2>1, LinkFacts DEF PeersAgree
  <2>12. UNCHANGED Channel!chvars
    BY <1>1, <2>1, <2>5, SamePayloads DEF Channel!chvars
  <2> QED
    BY <1>3, <2>6, <2>8, <2>9, <2>10, <2>11, <2>12 DEF LinkInv
<1> QED
  BY <1>1, <1>8, <1>9 DEF Tick
-----------------------------------------------------------------------------
\* The steps of the controlling station's side.

\* A step of the controlling station leaves the session as it is.
LEMMA PeerPrompt == LinkInv /\ UNCHANGED svars => Prompt'
BY LinkFacts, NextPrompt

\* The first of the data takes its payload out of the stream.
LEMMA PayloadsTail ==
  ASSUME NEW s \in Seq(Apdus), NEW t, Data(s) # <<>>, Data(t) = Tail(Data(s))
  PROVE  /\ Payloads(s) # <<>>
         /\ Head(Payloads(s)) = Head(Data(s)).asdu
         /\ Payloads(t) = Tail(Payloads(s))
<1> DEFINE a == Data(s)
           p == Payloads(s)
           r == Payloads(t)
           n == Len(a)
<1>1. a \in Seq(IFrames) /\ n \in Nat /\ n # 0 /\ \A i \in 1 .. n : a[i] \in IFrames
  BY StreamTypes, EmptySeq, LenProperties, ElementOfSeq
<1>2. /\ Head(a) = a[1] /\ Len(Tail(a)) = n - 1
      /\ \A i \in 1 .. n - 1 : Tail(a)[i] = a[i + 1]
  <2>1. Len(Tail(a)) = n - 1 /\ \A i \in 1 .. Len(Tail(a)) : Tail(a)[i] = a[i + 1]
    BY <1>1, HeadTailProperties
  <2>2. Head(a) = a[1]
    BY <1>1
  <2> QED
    BY <2>1, <2>2
<1>3. p = [i \in 1 .. n |-> a[i].asdu]
  BY DEF Payloads, Data
<1>4. r = [i \in 1 .. n - 1 |-> Tail(a)[i].asdu]
  BY <1>2 DEF Payloads, Data
<1> HIDE DEF a, n, p, r
<1>5. \A f \in IFrames : f.asdu \in Asdus
  BY DEF IFrames
<1>6. p \in Seq(Asdus) /\ Len(p) = n /\ \A i \in 1 .. n : p[i] = a[i].asdu
  BY <1>1, <1>3, <1>5
<1>7. p # <<>> /\ p[1] = a[1].asdu
  BY <1>1, <1>6, EmptySeq
<1>8. Head(p) = p[1]
  BY <1>6, <1>7
<1>9. /\ Tail(p) \in Seq(Asdus) /\ Len(Tail(p)) = n - 1
      /\ \A i \in 1 .. n - 1 : Tail(p)[i] = p[i + 1]
  BY <1>6, <1>7, HeadTailProperties
<1>10. r = Tail(p)
  <2> DEFINE z == Tail(p)
             m == n - 1
             g == Tail(a)
  <2>1. \A i \in 1 .. m : g[i].asdu = z[i]
    <3> SUFFICES ASSUME NEW i \in 1 .. m PROVE g[i].asdu = z[i]
      OBVIOUS
    <3>1. i + 1 \in 1 .. n
      BY <1>1
    <3>2. g[i] = a[i + 1] /\ z[i] = p[i + 1]
      BY <1>2, <1>9
    <3> QED
      BY <1>6, <3>1, <3>2
  <2>2. z \in [1 .. m -> Asdus]
    BY <1>9, LenProperties
  <2>3. r = [i \in 1 .. m |-> g[i].asdu]
    BY <1>4
  <2> HIDE DEF z, m, g
  <2>4. r = z
    BY <2>1, <2>2, <2>3
  <2> QED
    BY <2>4 DEF z
<1> QED
  BY <1>2, <1>7, <1>8, <1>10 DEF a, p, r

\* The controlling station believes the next acknowledgement and takes the
\* frames it covers out of its window.
LEMMA PeerAcksLink ==
  ASSUME LinkInv, Acks(to_peer) # <<>>,
         UNCHANGED <<svars, p_send>>,
         PeerAcks(Head(Acks(to_peer)).nr)
  PROVE  /\ PeerDistance(Head(Acks(to_peer)).nr) <= Len(p_unacked)
         /\ p_unacked' \in Seq(Nat) /\ Len(p_unacked') <= K
         /\ OneWay(PeerBase', Len(p_unacked'), recv_seq, last_acked_to_peer,
                   Data(to_station), Tail(Acks(to_peer)))
         /\ Timely'
<1> DEFINE nr == Head(Acks(to_peer)).nr
           d == SeqDistance(PeerBase, nr)
           n == Len(p_unacked)
<1>1. /\ p_send \in SeqNumbers /\ PeerBase \in SeqNumbers
      /\ p_unacked \in Seq(Nat) /\ n \in Nat /\ n <= K /\ n < Modulo
      /\ recv_seq \in SeqNumbers /\ last_acked_to_peer \in SeqNumbers
      /\ SeqDistance(PeerBase, p_send) = n
      /\ SeqDistance(PeerBase, recv_seq) \in Nat
      /\ SeqDistance(PeerBase, last_acked_to_peer) \in Nat
  BY LinkFacts, LinkTypes, DistanceNat, Before DEF PeerBase
<1>2. OneWay(PeerBase, n, recv_seq, last_acked_to_peer, Data(to_station), Acks(to_peer))
  BY LinkFacts DEF Commands
<1>3. /\ nr \in SeqNumbers /\ d \in Nat /\ d <= n
      /\ d <= SeqDistance(PeerBase, last_acked_to_peer)
      /\ OneWay(nr, n - d, recv_seq, last_acked_to_peer, Data(to_station),
                Tail(Acks(to_peer)))
  BY <1>2, OneWayAck
<1>4. SeqDistance(PeerBase, last_acked_to_peer) <= SeqDistance(PeerBase, recv_seq)
  BY <1>2 DEF OneWay
<1>5. PeerDistance(nr) = d
  BY DEF PeerDistance, PeerBase
<1> HIDE DEF nr
<1>6. p_unacked' = SubSeq(p_unacked, d + 1, n)
  BY <1>5 DEF PeerAcks, nr
<1>7. /\ SeqDistance(nr, p_send) = n - d
      /\ SeqDistance(nr, recv_seq) = SeqDistance(PeerBase, recv_seq) - d
      /\ SeqDistance(nr, last_acked_to_peer)
           = SeqDistance(PeerBase, last_acked_to_peer) - d
  <2>1. d <= SeqDistance(PeerBase, recv_seq) /\ d <= SeqDistance(PeerBase, p_send)
    BY <1>1, <1>3, <1>4
  <2> QED
    BY <1>1, <1>3, <2>1, DistanceSplit
<1> HIDE DEF d, n
<1>8. /\ p_unacked' \in Seq(Nat) /\ Len(p_unacked') = n - d
      /\ \A i \in 1 .. n - d : i + d \in 1 .. n /\ p_unacked'[i] = p_unacked[i + d]
  <2> DEFINE z == SubSeq(p_unacked, d + 1, n)
  <2>1. CASE d = n
    <3>1. z = <<>> /\ n - d = 0
      BY <1>1, <2>1
    <3>2. z \in Seq(Nat) /\ Len(z) = 0
      BY <3>1, EmptySeq
    <3> QED
      BY <1>6, <3>1, <3>2
  <2>2. CASE d < n
    <3>1. d + 1 \in 1 .. Len(p_unacked) /\ n \in 1 .. Len(p_unacked)
      BY <1>1, <1>3, <2>2 DEF n
    <3>2. /\ z \in Seq(Nat) /\ Len(z) = n - (d + 1) + 1
          /\ \A i \in 1 .. n - (d + 1) + 1 : z[i] = p_unacked[(d + 1) + i - 1]
      BY <1>1, <1>3, <2>2, <3>1, SubSeqProperties
    <3>3. n - (d + 1) + 1 = n - d
      BY <1>1, <1>3
    <3>4. \A i \in 1 .. n - d : i + d \in 1 .. n /\ (d + 1) + i - 1 = i + d
      BY <1>1, <1>3
    <3> QED
      BY <1>6, <3>2, <3>3, <3>4
  <2> QED
    BY <1>1, <1>3, <2>1, <2>2
<1>9. PeerBase' = nr
  <2>1. n - d \in Nat /\ n - d < Modulo
    BY <1>1, <1>3
  <2>2. nr = Advance(p_send, Modulo - (n - d))
    BY <1>1, <1>3, <1>7, <2>1, Before
  <2> QED
    BY <1>8, <2>2 DEF PeerBase
<1>10. OneWay(PeerBase', Len(p_unacked'), recv_seq, last_acked_to_peer,
              Data(to_station), Tail(Acks(to_peer)))
  BY <1>3, <1>8, <1>9
<1>11. Len(p_unacked') <= K
  BY <1>1, <1>3, <1>8
<1>12. UNCHANGED <<now, closed, recv_seq, last_acked_to_peer, unacked_rx_since>>
  BY DEF svars, session
<1>13. \A i \in 1 .. Len(p_unacked') :
         /\ i + d \in 1 .. Len(p_unacked) /\ p_unacked'[i] = p_unacked[i + d]
         /\ i > SeqDistance(PeerBase', recv_seq') =>
              i + d > SeqDistance(PeerBase, recv_seq)
         /\ i > SeqDistance(PeerBase', last_acked_to_peer') =>
              i + d > SeqDistance(PeerBase, last_acked_to_peer)
  <2> SUFFICES ASSUME NEW i \in 1 .. n - d
               PROVE  /\ i + d \in 1 .. Len(p_unacked) /\ p_unacked'[i] = p_unacked[i + d]
                      /\ i > SeqDistance(nr, recv_seq) =>
                           i + d > SeqDistance(PeerBase, recv_seq)
                      /\ i > SeqDistance(nr, last_acked_to_peer) =>
                           i + d > SeqDistance(PeerBase, last_acked_to_peer)
    BY <1>8, <1>9, <1>12
  <2>1. i + d \in 1 .. Len(p_unacked) /\ p_unacked'[i] = p_unacked[i + d]
    BY <1>8 DEF n
  <2> DEFINE b == SeqDistance(PeerBase, recv_seq)
             c == SeqDistance(PeerBase, last_acked_to_peer)
  <2>2. b \in Nat /\ c \in Nat /\ d \in Nat /\ n \in Nat /\ i \in Nat
        /\ SeqDistance(nr, recv_seq) = b - d
        /\ SeqDistance(nr, last_acked_to_peer) = c - d
    BY <1>1, <1>3, <1>7
  <2> HIDE DEF b, c
  <2>3. (i > b - d => i + d > b) /\ (i > c - d => i + d > c)
    BY <2>2
  <2> QED
    BY <2>1, <2>2, <2>3 DEF b, c
<1>14. Timely
  BY LinkFacts
<1>15. \A i \in 1 .. Len(p_unacked') : p_unacked'[i] <= now'
  BY <1>12, <1>13, <1>14 DEF Timely
<1>16. ASSUME closed' = "open"
       PROVE  \A i \in 1 .. Len(p_unacked') :
                /\ now' - p_unacked'[i] <= T2
                /\ i > SeqDistance(PeerBase', recv_seq') => p_unacked'[i] = now'
  BY <1>12, <1>13, <1>14, <1>16 DEF Timely
<1>17. ASSUME closed' = "open", unacked_rx_since' # None
       PROVE  /\ unacked_rx_since' <= now'
              /\ \A i \in 1 .. Len(p_unacked') :
                   i > SeqDistance(PeerBase', last_acked_to_peer') =>
                     p_unacked'[i] >= unacked_rx_since'
  BY <1>12, <1>13, <1>14, <1>17 DEF Timely
<1>18. Timely'
  BY <1>15, <1>16, <1>17 DEF Timely
<1> QED
  BY <1>3, <1>5, <1>8, <1>10, <1>11, <1>18 DEF nr, n
\* A frame more at the end of a stream.
LEMMA StreamAppend ==
  ASSUME NEW s \in Seq(Apdus), NEW x \in Apdus
  PROVE  /\ Append(s, x) \in Seq(Apdus)
         /\ Data(Append(s, x)) = IF x.type = "I" THEN Data(s) \o <<x>> ELSE Data(s)
         /\ Acks(Append(s, x)) = IF x.type \in {"I", "S"} THEN Acks(s) \o <<x>>
                                 ELSE Acks(s)
<1>1. ASSUME NEW types
      PROVE  OfType(Append(s, x), types) =
               IF x.type \in types THEN OfType(s, types) \o <<x>> ELSE OfType(s, types)
  <2>1. OfType(Append(s, x), types) =
          IF x.type \in types THEN Append(OfType(s, types), x) ELSE OfType(s, types)
    BY OfTypeAppend
  <2>2. OfType(s, types) \in Seq(Apdus)
    <3>1. OfType(s, types) \in Seq({y \in Apdus : y.type \in types})
      BY OfTypeType
    <3> QED
      BY <3>1, SeqMonotonic
  <2>3. Append(OfType(s, types), x) = OfType(s, types) \o <<x>>
    BY <2>2, AppendIsConcat
  <2> QED
    BY <2>1, <2>3
<1>2. x.type \in {"I"} <=> x.type = "I"
  OBVIOUS
<1> QED
  BY <1>1, <1>2, AppendProperties DEF Data, Acks

LEMMA PeerReceiveLink ==
  ASSUME LinkInv, PeerReceive
  PROVE  LinkInv' /\ (Channel!Arrive \/ UNCHANGED Channel!chvars)
<1> DEFINE apdu == Head(to_peer)
<1>1. /\ to_peer # <<>> /\ to_peer' = Tail(to_peer)
      /\ PeerReceiveI(apdu) \/ PeerReceiveS(apdu) \/ PeerReceiveU(apdu)
      /\ UNCHANGED <<svars, p_send, sent>>
  BY DEF PeerReceive
<1>2. /\ apdu \in Apdus /\ to_peer' \in Seq(Apdus)
      /\ apdu.type = "I" => /\ Data(to_peer) # <<>> /\ Head(Data(to_peer)) = apdu
                            /\ Tail(Data(to_peer)) = Data(to_peer')
      /\ apdu.type # "I" => Data(to_peer) = Data(to_peer')
      /\ apdu.type \in {"I", "S"} => /\ Acks(to_peer) # <<>> /\ Head(Acks(to_peer)) = apdu
                                     /\ Tail(Acks(to_peer)) = Acks(to_peer')
      /\ apdu.type \notin {"I", "S"} => Acks(to_peer) = Acks(to_peer')
  BY <1>1, LinkFacts, LinkTypes, StreamHead
<1>3. Prompt'
  BY <1>1, PeerPrompt
<1>4. UNCHANGED <<now, closed, recv_seq, last_acked_to_peer, oldest_unacked_seq,
                  unacked, unacked_rx_since, queue, sent, p_send>>
  BY <1>1 DEF svars, session
<1>5. OneWay(oldest_unacked_seq, Len(unacked), p_recv, p_acked, Data(to_peer),
             Acks(to_station))
  BY LinkFacts DEF Reports
<1>6. ASSUME apdu.type \in {"I", "S"}, PeerAcks(apdu.nr),
             UNCHANGED to_station, p_started' \in BOOLEAN
      PROVE  /\ PeerDistance(apdu.nr) <= Len(p_unacked)
             /\ Commands' /\ Timely' /\ LinkTypeOK'
  <2>1. /\ PeerDistance(apdu.nr) <= Len(p_unacked)
        /\ p_unacked' \in Seq(Nat) /\ Len(p_unacked') <= K
        /\ OneWay(PeerBase', Len(p_unacked'), recv_seq, last_acked_to_peer,
                  Data(to_station), Tail(Acks(to_peer)))
        /\ Timely'
    BY <1>1, <1>2, <1>6, PeerAcksLink
  <2>2. Commands'
    BY <1>2, <1>4, <1>6, <2>1 DEF Commands
  <2>3. LinkTypeOK'
    BY <1>2, <1>4, <1>6, <2>1, LinkFacts DEF LinkTypeOK
  <2> QED
    BY <2>1, <2>2, <2>3
<1>7. Len(p_unacked) \in Nat /\ p_started \in BOOLEAN
  BY LinkFacts, LinkTypes DEF LinkTypeOK
<1>8. CASE PeerReceiveI(apdu)
  <2>1. /\ apdu.type = "I" /\ PeerAcks(apdu.nr)
        /\ p_fault' = (apdu.ns # p_recv \/ PeerDistance(apdu.nr) > Len(p_unacked))
        /\ p_recv' = Advance(p_recv, 1)
        /\ delivered' = Append(delivered, apdu.asdu)
        /\ UNCHANGED <<to_station, p_started, p_acked>>
    BY <1>8 DEF PeerReceiveI
  <2>2. /\ PeerDistance(apdu.nr) <= Len(p_unacked)
        /\ Commands' /\ Timely' /\ LinkTypeOK'
    BY <1>6, <1>7, <2>1
  <2>3. /\ apdu.ns = p_recv
        /\ OneWay(oldest_unacked_seq, Len(unacked), Advance(p_recv, 1), p_acked,
                  Data(to_peer'), Acks(to_station))
    <3> DEFINE d == Data(to_peer)
    <3>1. d # <<>> /\ Head(d) = apdu /\ Tail(d) = Data(to_peer')
      BY <1>2, <2>1
    <3> HIDE DEF d, apdu
    <3>2. /\ Head(d).ns = p_recv
          /\ OneWay(oldest_unacked_seq, Len(unacked), Advance(p_recv, 1), p_acked,
                    Tail(d), Acks(to_station))
      BY <1>5, <3>1, OneWayReceive DEF d
    <3> QED
      BY <3>1, <3>2
  <2>4. Reports'
    BY <1>4, <2>1, <2>3 DEF Reports
  <2>5. PeerDistance(apdu.nr) \in Int
    <3>1. apdu.nr \in SeqNumbers
      BY <1>2, <2>1 DEF Apdus
    <3>2. SeqDistance(PeerBase, apdu.nr) \in Nat
      BY <3>1, LinkTypes, LinkFacts, DistanceNat
    <3> QED
      BY <3>2 DEF PeerDistance, PeerBase
  <2>6. PeersAgree'
    <3>0. ~(PeerDistance(apdu.nr) > Len(p_unacked))
      BY <1>7, <2>2, <2>5
    <3>1. ~p_fault'
      BY <2>1, <2>3, <3>0
    <3> QED
      BY <1>4, <3>1, LinkFacts DEF PeersAgree
  <2>7. Channel!Arrive
    <3>1. /\ Payloads(to_peer) # <<>> /\ Head(Payloads(to_peer)) = apdu.asdu
          /\ Payloads(to_peer') = Tail(Payloads(to_peer))
      <4> DEFINE then == to_peer'
      <4>1. Data(to_peer) # <<>> /\ Head(Data(to_peer)) = apdu
            /\ Data(then) = Tail(Data(to_peer)) /\ to_peer \in Seq(Apdus)
        BY <1>2, <2>1, LinkFacts, LinkTypes
      <4> HIDE DEF then, apdu
      <4>2. /\ Payloads(to_peer) # <<>>
            /\ Head(Payloads(to_peer)) = Head(Data(to_peer)).asdu
            /\ Payloads(then) = Tail(Payloads(to_peer))
        BY <4>1, PayloadsTail
      <4> QED
        BY <4>1, <4>2 DEF then
    <3> QED
      BY <1>4, <2>1, <3>1 DEF Channel!Arrive
  <2> QED
    BY <1>3, <2>2, <2>4, <2>6, <2>7 DEF LinkInv
<1>9. CASE PeerReceiveS(apdu)
  <2>1. /\ apdu.type = "S" /\ PeerAcks(apdu.nr)
        /\ p_fault' = (PeerDistance(apdu.nr) > Len(p_unacked))
        /\ UNCHANGED <<to_station, p_started, p_recv, p_acked, delivered>>
    BY <1>9 DEF PeerReceiveS
  <2>2. /\ PeerDistance(apdu.nr) <= Len(p_unacked)
        /\ Commands' /\ Timely' /\ LinkTypeOK'
    BY <1>6, <1>7, <2>1
  <2>3. Data(to_peer') = Data(to_peer)
    BY <1>2, <2>1
  <2>4. Reports'
    BY <1>4, <1>5, <2>1, <2>3 DEF Reports
  <2>5. PeerDistance(apdu.nr) \in Int
    <3>1. apdu.nr \in SeqNumbers
      BY <1>2, <2>1 DEF Apdus
    <3>2. SeqDistance(PeerBase, apdu.nr) \in Nat
      BY <3>1, LinkTypes, LinkFacts, DistanceNat
    <3> QED
      BY <3>2 DEF PeerDistance, PeerBase
  <2>6. PeersAgree'
    <3>0. ~(PeerDistance(apdu.nr) > Len(p_unacked))
      BY <1>7, <2>2, <2>5
    <3>1. ~p_fault'
      BY <2>1, <3>0
    <3> QED
      BY <1>4, <3>1, LinkFacts DEF PeersAgree
  <2>7. UNCHANGED Channel!chvars
    BY <1>4, <2>1, <2>3, SamePayloads DEF Channel!chvars
  <2> QED
    BY <1>3, <2>2, <2>4, <2>6, <2>7 DEF LinkInv
<1>10. CASE PeerReceiveU(apdu)
  <2>1. /\ apdu.type = "U"
        /\ to_station' = to_station \/ to_station' = Append(to_station, UFrame("TestFrCon"))
        /\ p_started' = IF apdu.f = "StartDtCon" THEN TRUE ELSE p_started
        /\ UNCHANGED <<p_recv, p_acked, p_unacked, p_fault, delivered>>
    BY <1>10 DEF PeerReceiveU, PeerSends
  <2>2. Data(to_peer') = Data(to_peer) /\ Acks(to_peer') = Acks(to_peer)
    <3>1. apdu.type # "I" /\ apdu.type \notin {"I", "S"}
      BY <2>1
    <3> QED
      BY <1>2, <3>1
  <2>3. /\ to_station' \in Seq(Apdus)
        /\ Data(to_station') = Data(to_station) /\ Acks(to_station') = Acks(to_station)
    <3> DEFINE x == UFrame("TestFrCon")
    <3>1. x \in Apdus /\ x.type = "U"
      BY DEF UFrame, Apdus, UFunctions
    <3> HIDE DEF x
    <3>2. x.type # "I" /\ x.type \notin {"I", "S"}
      BY <3>1
    <3> QED
      BY <2>1, <3>1, <3>2, LinkFacts, LinkTypes, StreamAppend DEF x
  <2>4. PeerBase' = PeerBase
    BY <1>4, <2>1 DEF PeerBase
  <2>5. Reports' /\ Commands'
    BY <1>4, <2>1, <2>2, <2>3, <2>4, LinkFacts DEF Reports, Commands
  <2>6. Timely'
    BY <1>4, <2>1, <2>4, LinkFacts DEF Timely
  <2>7. LinkTypeOK'
    BY <1>2, <1>4, <1>7, <2>1, <2>3, LinkFacts DEF LinkTypeOK
  <2>8. PeersAgree'
    BY <1>4, <2>1, LinkFacts DEF PeersAgree
  <2>9. UNCHANGED Channel!chvars
    BY <1>4, <2>1, <2>2, SamePayloads DEF Channel!chvars
  <2> QED
    BY <1>3, <2>5, <2>6, <2>7, <2>8, <2>9 DEF LinkInv
<1> QED
  BY <1>1, <1>8, <1>9, <1>10
\* What the controlling station sends of its own leaves the session, its window
\* and the other stream alone.
LEMMA PeerAckLink ==
  ASSUME LinkInv, PeerAck
  PROVE  LinkInv' /\ UNCHANGED Channel!chvars
<1> DEFINE x == SFrame(p_recv)
           more == <<x>>
<1>1. /\ to_station' = Append(to_station, x) /\ p_acked' = p_recv
      /\ UNCHANGED <<svars, to_peer, p_started, p_send, p_recv, p_unacked, p_fault,
                     delivered, sent>>
  BY DEF PeerAck, PeerSends
<1>2. UNCHANGED <<now, closed, recv_seq, last_acked_to_peer, oldest_unacked_seq,
                  unacked, unacked_rx_since, queue>>
  BY <1>1 DEF svars, session
<1>3. OneWay(oldest_unacked_seq, Len(unacked), p_recv, p_acked, Data(to_peer),
             Acks(to_station))
  BY LinkFacts DEF Reports
<1>4. x \in Apdus /\ x \in AckFrames /\ x.type = "S" /\ x.nr = p_recv
  <2>1. p_recv \in SeqNumbers
    BY <1>3 DEF OneWay, OneWayTypeOK
  <2> QED
    BY <2>1 DEF SFrame, Apdus, AckFrames
<1> HIDE DEF x
<1>5. more \in Seq(AckFrames) /\ more # <<>> /\ \A i \in 1 .. Len(more) : more[i].nr = p_recv
  BY <1>4
<1>6. /\ to_station' \in Seq(Apdus)
      /\ Data(to_station') = Data(to_station) /\ Acks(to_station') = Acks(to_station) \o more
  BY <1>1, <1>4, LinkFacts, LinkTypes, StreamAppend
<1> HIDE DEF more
<1>7. Reports'
  <2>1. OneWay(oldest_unacked_seq, Len(unacked), p_recv, p_recv, Data(to_peer),
               Acks(to_station) \o more)
    BY <1>3, <1>5, OneWayTell
  <2> QED
    BY <1>1, <1>2, <1>6, <2>1 DEF Reports
<1>8. PeerBase' = PeerBase
  BY <1>1 DEF PeerBase
<1>9. Commands' /\ Timely'
  BY <1>1, <1>2, <1>6, <1>8, LinkFacts DEF Commands, Timely
<1>10. LinkTypeOK'
  BY <1>1, <1>6, LinkFacts DEF LinkTypeOK
<1>11. PeersAgree' /\ Prompt'
  BY <1>1, <1>2, LinkFacts, PeerPrompt DEF PeersAgree
<1>12. UNCHANGED Channel!chvars
  BY <1>1, <1>2, SamePayloads DEF Channel!chvars
<1> QED
  BY <1>7, <1>9, <1>10, <1>11, <1>12 DEF LinkInv

LEMMA PeerCommandLink ==
  ASSUME LinkInv, PeerCommand
  PROVE  LinkInv' /\ UNCHANGED Channel!chvars
<1> DEFINE x == IFrame(p_send, p_recv, Command)
           more == <<x>>
           n == Len(p_unacked)
<1>1. /\ n < K
      /\ to_station' = Append(to_station, x) /\ p_acked' = p_recv
      /\ p_send' = Advance(p_send, 1)
      /\ p_unacked' = Append(p_unacked, now)
      /\ UNCHANGED <<svars, to_peer, p_started, p_recv, p_fault, delivered, sent>>
  BY DEF PeerCommand, PeerSends
<1>2. UNCHANGED <<now, closed, recv_seq, last_acked_to_peer, oldest_unacked_seq,
                  unacked, unacked_rx_since, queue>>
  BY <1>1 DEF svars, session
<1>3. OneWay(oldest_unacked_seq, Len(unacked), p_recv, p_acked, Data(to_peer),
             Acks(to_station))
  BY LinkFacts DEF Reports
<1>4. OneWay(PeerBase, n, recv_seq, last_acked_to_peer, Data(to_station), Acks(to_peer))
  BY LinkFacts DEF Commands
<1>5. /\ p_send \in SeqNumbers /\ p_recv \in SeqNumbers /\ PeerBase \in SeqNumbers
      /\ p_unacked \in Seq(Nat) /\ n \in Nat /\ n + 1 <= K /\ n + 1 < Modulo
      /\ SeqDistance(PeerBase, p_send) = n /\ now \in Nat
      /\ recv_seq \in SeqNumbers /\ SeqDistance(PeerBase, recv_seq) \in Nat
  <2>1. p_recv \in SeqNumbers
    BY <1>3 DEF OneWay, OneWayTypeOK
  <2>2. p_send \in SeqNumbers /\ PeerBase \in SeqNumbers /\ p_unacked \in Seq(Nat)
        /\ n \in Nat /\ n < Modulo /\ now \in Nat /\ recv_seq \in SeqNumbers
    BY LinkFacts, LinkTypes
  <2>3. SeqDistance(PeerBase, p_send) = n
    BY <2>2, Before DEF PeerBase
  <2>4. n + 1 <= K /\ n + 1 < Modulo
    BY <1>1, <2>2
  <2> QED
    BY <2>1, <2>2, <2>3, <2>4, DistanceNat
<1>6. x \in IFrames /\ x \in Apdus /\ x.type = "I" /\ x.nr = p_recv /\ x.ns = p_send
  <2>1. Command \in Asdus
    BY DEF Command
  <2> QED
    BY <1>5, <2>1 DEF IFrame, IFrames, Apdus
<1> HIDE DEF x
<1>7. /\ more \in Seq(IFrames) /\ more \in Seq(AckFrames) /\ more # <<>> /\ Len(more) = 1
      /\ \A i \in 1 .. Len(more) : i = 1 /\ more[i].nr = p_recv /\ more[i].ns = p_send
  <2>1. x \in AckFrames
    BY <1>6, FrameKinds
  <2> QED
    BY <1>6, <2>1
<1>8. /\ to_station' \in Seq(Apdus)
      /\ Data(to_station') = Data(to_station) \o more
      /\ Acks(to_station') = Acks(to_station) \o more
  BY <1>1, <1>6, LinkFacts, LinkTypes, StreamAppend
<1> HIDE DEF more
<1>9. Reports'
  <2>1. OneWay(oldest_unacked_seq, Len(unacked), p_recv, p_recv, Data(to_peer),
               Acks(to_station) \o more)
    BY <1>3, <1>7, OneWayTell
  <2> QED
    BY <1>1, <1>2, <1>8, <2>1 DEF Reports
<1>10. /\ p_unacked' \in Seq(Nat) /\ Len(p_unacked') = n + 1
       /\ \A i \in 1 .. n : p_unacked'[i] = p_unacked[i]
       /\ p_unacked'[n + 1] = now
  BY <1>1, <1>5, AppendProperties
<1>11. p_send' \in SeqNumbers /\ SeqDistance(PeerBase, p_send') = n + 1
  <2>1. 1 < Modulo /\ SeqDistance(PeerBase, p_send) + 1 < Modulo
    BY <1>5
  <2>2. Advance(p_send, 1) \in SeqNumbers
    BY <1>5, <2>1, AdvanceExplicit
  <2>3. SeqDistance(PeerBase, Advance(p_send, 1)) = SeqDistance(PeerBase, p_send) + 1
    BY <1>5, <2>1, DistanceAdvance
  <2> QED
    BY <1>1, <1>5, <2>2, <2>3
<1>12. PeerBase' = PeerBase
  <2>1. PeerBase = Advance(p_send', Modulo - (n + 1))
    BY <1>5, <1>11, Before
  <2> QED
    BY <1>10, <2>1 DEF PeerBase
<1>13. Commands'
  <2>1. \A i \in 1 .. Len(more) : more[i].ns = Advance(p_send, i - 1)
    <3> SUFFICES ASSUME NEW i \in 1 .. Len(more) PROVE more[i].ns = Advance(p_send, i - 1)
      OBVIOUS
    <3>1. i = 1 /\ more[i].ns = p_send
      BY <1>7
    <3>2. i - 1 = 0
      BY <3>1
    <3> QED
      BY <1>5, <3>1, <3>2, AdvanceZero
  <2>2. n + Len(more) <= K
    BY <1>5, <1>7
  <2>3. OneWay(PeerBase, n + Len(more), recv_seq, last_acked_to_peer,
               Data(to_station) \o more, Acks(to_peer))
    BY <1>4, <1>5, <1>7, <2>1, <2>2, OneWaySend
  <2>4. n + Len(more) = Len(p_unacked')
    BY <1>7, <1>10
  <2> QED
    BY <1>1, <1>2, <1>8, <1>12, <2>3, <2>4 DEF Commands
<1>14. Timely'
  <2> HIDE DEF n
  <2>1. \A i \in 1 .. n + 1 : i \in 1 .. n \/ i = n + 1
    BY <1>5
  <2>2. Timely
    BY LinkFacts
  <2>3. \A i \in 1 .. n + 1 : p_unacked'[i] <= now
    BY <1>5, <1>10, <2>1, <2>2 DEF Timely, n
  <2>4. ASSUME closed = "open"
        PROVE  \A i \in 1 .. n + 1 :
                 /\ now - p_unacked'[i] <= T2
                 /\ i > SeqDistance(PeerBase, recv_seq) => p_unacked'[i] = now
    <3> SUFFICES ASSUME NEW i \in 1 .. n + 1
                 PROVE  /\ now - p_unacked'[i] <= T2
                        /\ i > SeqDistance(PeerBase, recv_seq) => p_unacked'[i] = now
      OBVIOUS
    <3>1. CASE i = n + 1
      <4>1. p_unacked'[i] = now
        BY <1>10, <3>1
      <4> QED
        BY <1>5, <4>1, TimerAssumption
    <3>2. CASE i \in 1 .. n
      <4>1. p_unacked'[i] = p_unacked[i]
        BY <1>10, <3>2
      <4> QED
        BY <2>2, <2>4, <3>2, <4>1 DEF Timely, n
    <3> QED
      BY <2>1, <3>1, <3>2
  <2>5. ASSUME closed = "open", unacked_rx_since # None
        PROVE  /\ unacked_rx_since <= now
               /\ \A i \in 1 .. n + 1 :
                    i > SeqDistance(PeerBase, last_acked_to_peer) =>
                      p_unacked'[i] >= unacked_rx_since
    <3>1. unacked_rx_since <= now /\ unacked_rx_since \in Nat
      BY <2>2, <2>5, LinkFacts DEF Timely
    <3>2. now >= unacked_rx_since
      BY <1>5, <3>1
    <3> QED
      BY <1>10, <2>1, <2>2, <2>5, <3>1, <3>2 DEF Timely, n
  <2> QED
    BY <1>2, <1>10, <1>12, <2>3, <2>4, <2>5 DEF Timely
<1>15. LinkTypeOK'
  BY <1>1, <1>5, <1>8, <1>10, <1>11, LinkFacts DEF LinkTypeOK
<1>16. PeersAgree' /\ Prompt'
  BY <1>1, <1>2, LinkFacts, PeerPrompt DEF PeersAgree
<1>17. UNCHANGED Channel!chvars
  BY <1>1, <1>2, SamePayloads DEF Channel!chvars
<1> QED
  BY <1>9, <1>13, <1>14, <1>15, <1>16, <1>17 DEF LinkInv

LEMMA PeerControlLink ==
  ASSUME LinkInv, PeerControl
  PROVE  LinkInv' /\ UNCHANGED Channel!chvars
<1>1. PICK f \in {"StartDtAct", "StopDtAct", "TestFrAct"} :
        /\ to_station' = Append(to_station, UFrame(f))
        /\ p_started' = IF f = "StopDtAct" THEN FALSE ELSE p_started
  BY DEF PeerControl, PeerSends
<1>2. UNCHANGED <<svars, to_peer, p_send, p_recv, p_acked, p_unacked, p_fault,
                  delivered, sent>>
  BY DEF PeerControl
<1>3. UNCHANGED <<now, closed, recv_seq, last_acked_to_peer, oldest_unacked_seq,
                  unacked, unacked_rx_since, queue>>
  BY <1>2 DEF svars, session
<1> DEFINE x == UFrame(f)
<1>4. x \in Apdus /\ x.type # "I" /\ x.type \notin {"I", "S"}
  BY DEF UFrame, Apdus, UFunctions
<1> HIDE DEF x
<1>5. /\ to_station' \in Seq(Apdus)
      /\ Data(to_station') = Data(to_station) /\ Acks(to_station') = Acks(to_station)
  BY <1>1, <1>4, LinkFacts, LinkTypes, StreamAppend DEF x
<1>6. PeerBase' = PeerBase
  BY <1>2 DEF PeerBase
<1>7. Reports' /\ Commands' /\ Timely'
  BY <1>2, <1>3, <1>5, <1>6, LinkFacts DEF Reports, Commands, Timely
<1>8. LinkTypeOK'
  BY <1>1, <1>2, <1>5, LinkFacts DEF LinkTypeOK
<1>9. PeersAgree' /\ Prompt'
  BY <1>2, <1>3, LinkFacts, PeerPrompt DEF PeersAgree
<1>10. UNCHANGED Channel!chvars
  BY <1>2, <1>3, SamePayloads DEF Channel!chvars
<1> QED
  BY <1>7, <1>8, <1>9, <1>10 DEF LinkInv

LEMMA RestLink ==
  ASSUME LinkInv, UNCHANGED lvars
  PROVE  LinkInv' /\ UNCHANGED Channel!chvars
<1>1. UNCHANGED <<svars, to_peer, to_station, p_started, p_send, p_recv, p_acked,
                  p_unacked, p_fault, delivered, sent>>
  BY DEF lvars, peer
<1>2. UNCHANGED <<now, closed, recv_seq, last_acked_to_peer, oldest_unacked_seq,
                  unacked, unacked_rx_since, queue>>
  BY <1>1 DEF svars, session
<1>3. PeerBase' = PeerBase
  BY <1>1 DEF PeerBase
<1>4. Reports' /\ Commands' /\ Timely' /\ LinkTypeOK'
  BY <1>1, <1>2, <1>3, LinkFacts DEF Reports, Commands, Timely, LinkTypeOK
<1>5. PeersAgree' /\ Prompt'
  BY <1>1, <1>2, LinkFacts, PeerPrompt DEF PeersAgree
<1>6. UNCHANGED Channel!chvars
  BY <1>1, <1>2, SamePayloads DEF Channel!chvars
<1> QED
  BY <1>4, <1>5, <1>6 DEF LinkInv
-----------------------------------------------------------------------------
\* The theorems.

LEMMA InitLink == LinkInit => LinkInv /\ Channel!ChInit
<1> SUFFICES ASSUME LinkInit PROVE LinkInv /\ Channel!ChInit
  OBVIOUS
<1>1. /\ SessionInit /\ to_peer = <<>> /\ to_station = <<>> /\ p_started = FALSE
      /\ p_send = 0 /\ p_recv = 0 /\ p_acked = 0 /\ p_unacked = <<>>
      /\ p_fault = FALSE /\ sent = 0 /\ delivered = <<>>
  BY DEF LinkInit
<1>2. /\ now = 0 /\ closed = "open" /\ recv_seq = 0 /\ last_acked_to_peer = 0
      /\ oldest_unacked_seq = 0 /\ unacked = <<>> /\ queue = <<>>
      /\ unacked_rx_since = None
  BY <1>1 DEF SessionInit, NewSession
<1>3. Data(to_peer) = <<>> /\ Acks(to_peer) = <<>> /\ Data(to_station) = <<>>
      /\ Acks(to_station) = <<>>
  BY <1>1, OfTypeEmpty DEF Data, Acks
<1> DEFINE none == <<>>
<1>4. /\ none \in Seq(Apdus) /\ none \in Seq(Nat) /\ none \in Seq(IFrames)
      /\ none \in Seq(AckFrames) /\ Len(none) = 0
  BY EmptySeq
<1>5. 0 \in SeqNumbers /\ SeqDistance(0, 0) = 0
  <2>1. 0 \in SeqNumbers
    BY DEF SeqNumbers
  <2> QED
    BY <2>1, DistanceZero
<1> HIDE DEF none
<1>6. OneWay(0, 0, 0, 0, none, none)
  <2>1. OneWayTypeOK(0, 0, 0, 0, none, none)
    BY <1>4, <1>5 DEF OneWayTypeOK
  <2> QED
    BY <1>4, <1>5, <2>1 DEF OneWay, none
<1>7. PeerBase = 0
  <2>1. 0 = Advance(0, Modulo - 0)
    BY <1>5, Before
  <2> QED
    BY <1>1, <1>4, <2>1 DEF PeerBase, none
<1>8. Reports /\ Commands
  BY <1>1, <1>2, <1>3, <1>4, <1>6, <1>7 DEF Reports, Commands, none
<1>9. LinkTypeOK
  <2>1. to_peer = none /\ to_station = none /\ p_unacked = none
    BY <1>1 DEF none
  <2>2. 0 \in 0 .. MaxSends /\ 0 <= K
    OBVIOUS
  <2> QED
    BY <1>1, <1>4, <1>5, <2>1, <2>2 DEF LinkTypeOK
<1>10. Timely
  BY <1>1, <1>2, <1>4 DEF Timely, none
<1>11. Prompt /\ PeersAgree
  BY <1>1, <1>2, InitPrompt DEF PeersAgree
<1>12. Channel!ChInit
  <2>1. Payloads(to_peer) = <<>>
    <3>1. Payloads(to_peer) = [i \in 1 .. 0 |-> Data(to_peer)[i].asdu]
      BY <1>3, <1>4 DEF Payloads, Data, none
    <3> QED
      BY <3>1
  <2> QED
    BY <1>1, <1>2, <2>1 DEF Channel!ChInit
<1> QED
  BY <1>8, <1>9, <1>10, <1>11, <1>12 DEF LinkInv

\* Every step keeps the invariant and is a step of the channel, or none.
LEMMA NextLink ==
  LinkInv /\ [LinkNext]_lvars => LinkInv' /\ [Channel!ChNext]_(Channel!chvars)
<1> SUFFICES ASSUME LinkInv, [LinkNext]_lvars
             PROVE  LinkInv' /\ [Channel!ChNext]_(Channel!chvars)
  OBVIOUS
<1>1. CASE StationSend
  BY <1>1, StationSendLink DEF Channel!ChNext
<1>2. CASE StationReceive
  BY <1>2, StationReceiveLink DEF Channel!ChNext
<1>3. CASE StationTick
  BY <1>3, StationTickLink DEF Channel!ChNext
<1>4. CASE PeerReceive
  BY <1>4, PeerReceiveLink DEF Channel!ChNext
<1>5. CASE PeerAck
  BY <1>5, PeerAckLink
<1>6. CASE PeerCommand
  BY <1>6, PeerCommandLink
<1>7. CASE PeerControl
  BY <1>7, PeerControlLink
<1>8. CASE UNCHANGED lvars
  BY <1>8, RestLink
<1> QED
  BY <1>1, <1>2, <1>3, <1>4, <1>5, <1>6, <1>7, <1>8 DEF LinkNext, Rest

LEMMA LinkInvariant == LinkSpec => []LinkInv
<1>1. LinkInv /\ [LinkNext]_lvars => LinkInv'
  BY NextLink
<1> QED
  BY <1>1, InitLink, PTL DEF LinkSpec

\* Two stations that keep to the standard never have a reason of the
\* protocol's to give the connection up, whatever the windows, the modulus and
\* the order in which both streams are read: neither refuses a number or an
\* acknowledgement, and every command is acknowledged within t2.
THEOREM NoReasonToCloseHolds == LinkSpec => []NoReasonToClose
<1>1. LinkInv => NoReasonToClose
  <2> SUFFICES ASSUME LinkInv PROVE NoReasonToClose
    OBVIOUS
  <2>1. Timely /\ PeersAgree
    BY DEF LinkInv
  <2> QED
    BY <2>1 DEF Timely, NoReasonToClose, AcknowledgedWithinT2
<1> QED
  BY <1>1, LinkInvariant, PTL

\* The link implements the channel: whatever is reported over it leaves and
\* arrives in order, each once, at most K under way, and nothing is given up
\* but the oldest of a full queue.
THEOREM LinkImplementsChannel == LinkSpec => ImplementsChannel
<1>1. LinkInv /\ [LinkNext]_lvars => [Channel!ChNext]_(Channel!chvars)
  BY NextLink
<1>2. LinkInit => Channel!ChInit
  BY InitLink
<1>3. LinkSpec => Channel!ChInit /\ [][Channel!ChNext]_(Channel!chvars)
  BY <1>1, <1>2, LinkInvariant, PTL DEF LinkSpec
<1> QED
  BY <1>3 DEF ImplementsChannel, Channel!ChSpec
=============================================================================
