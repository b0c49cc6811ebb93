----------------------------- MODULE SessionLink -----------------------------
(***************************************************************************)
(* One IEC 104 connection: the Session of the gateway, the TCP stream in   *)
(* both directions, and a controlling station that keeps to the standard.  *)
(* The stream loses and reorders nothing; it may hold frames for as long   *)
(* as it likes, except that a tick (100 ms) passes only when it is empty.  *)
(* The controlling station is not part of the repository: it is modelled   *)
(* from what Session expects of it.                                        *)
(***************************************************************************)
EXTENDS Session

CONSTANTS
  MaxSends,     \* bound: ASDUs the gateway queues on this connection
  MaxCommands,  \* bound: I-frames the controlling station sends
  MaxControls   \* bound: STARTDT, STOPDT and TESTFR it sends

ASSUME LinkAssumption ==
  /\ MaxSends \in Nat /\ MaxCommands \in Nat /\ MaxControls \in Nat
  /\ 0 .. MaxSends \subseteq Asdus

VARIABLES
  to_peer,      \* frames in the stream to the controlling station
  to_station,   \* frames in the stream to the gateway
  p_started,    \* it has the confirmation of its STARTDT
  p_send,       \* its next N(S)
  p_recv,       \* the N(S) it expects
  p_acked,      \* the N(R) it has last sent
  p_unacked,    \* send times of its I-frames not yet acknowledged
  p_controls,   \* U-frames it has sent
  p_commands,   \* I-frames it has sent
  p_fault,      \* it received a frame the standard forbids
  sent,         \* ASDUs the gateway has queued: 1, 2, ... sent
  delivered     \* those that arrived, in order

peer == <<p_started, p_send, p_recv, p_acked, p_unacked, p_controls,
          p_commands, p_fault, delivered>>
lvars == <<svars, to_peer, to_station, peer, sent>>

\* The elements of s of the given types, in order (SelectSeq, which the proofs
\* cannot open).
OfType(s, types) ==
  LET kept[i \in 0 .. Len(s)] ==
        IF i = 0 THEN <<>>
        ELSE IF s[i].type \in types THEN Append(kept[i - 1], s[i]) ELSE kept[i - 1]
  IN  kept[Len(s)]

\* The driver writes the frames of a call to the stream in order.
WriteFrames(outputs) == to_peer' = to_peer \o OfType(outputs, {"I", "S", "U"})

\* The payload of a command; the gateway's own ASDUs are numbered from 1.
Command == 0

-----------------------------------------------------------------------------
\* The gateway's side of the connection (connection.rs, run).

\* The application hands over the next ASDU.
StationSend ==
  /\ sent < MaxSends
  /\ sent' = sent + 1
  /\ SendRaw(sent + 1)
  /\ WriteFrames(out')
  /\ UNCHANGED <<to_station, peer>>

\* The next frame of the stream is parsed and handled.
StationReceive ==
  /\ to_station # <<>>
  /\ OnApdu(Head(to_station))
  /\ to_station' = Tail(to_station)
  /\ WriteFrames(out')
  /\ UNCHANGED <<peer, sent>>

\* A tick of the driver's interval.
StationTick ==
  /\ to_peer = <<>> /\ to_station = <<>>
  /\ Tick
  /\ WriteFrames(out')
  /\ UNCHANGED <<to_station, peer, sent>>

-----------------------------------------------------------------------------
\* The controlling station.

PeerSends(apdu) == to_station' = Append(to_station, apdu)

\* What it keeps of its own window after an N(R), if that N(R) is sound.
PeerDistance(nr) == SeqDistance(Advance(p_send, Modulo - Len(p_unacked)), nr)
PeerAcks(nr) ==
  p_unacked' = SubSeq(p_unacked, PeerDistance(nr) + 1, Len(p_unacked))

PeerReceiveI(apdu) ==
  /\ apdu.type = "I"
  /\ p_fault' = (apdu.ns # p_recv \/ PeerDistance(apdu.nr) > Len(p_unacked))
  /\ PeerAcks(apdu.nr)
  /\ p_recv' = Advance(p_recv, 1)
  /\ delivered' = Append(delivered, apdu.asdu)
  /\ UNCHANGED <<to_station, p_started, p_acked>>

PeerReceiveS(apdu) ==
  /\ apdu.type = "S"
  /\ p_fault' = (PeerDistance(apdu.nr) > Len(p_unacked))
  /\ PeerAcks(apdu.nr)
  /\ UNCHANGED <<to_station, p_started, p_recv, p_acked, delivered>>

PeerReceiveU(apdu) ==
  /\ apdu.type = "U"
  /\ IF apdu.f = "TestFrAct" THEN PeerSends(UFrame("TestFrCon"))
     ELSE UNCHANGED to_station
  /\ p_started' = IF apdu.f = "StartDtCon" THEN TRUE ELSE p_started
  /\ UNCHANGED <<p_recv, p_acked, p_unacked, p_fault, delivered>>

PeerReceive ==
  /\ to_peer # <<>>
  /\ to_peer' = Tail(to_peer)
  /\ LET apdu == Head(to_peer)
     IN  PeerReceiveI(apdu) \/ PeerReceiveS(apdu) \/ PeerReceiveU(apdu)
  /\ UNCHANGED <<svars, p_send, p_controls, p_commands, sent>>

\* It acknowledges by an S-frame.
PeerAck ==
  /\ p_recv # p_acked
  /\ PeerSends(SFrame(p_recv))
  /\ p_acked' = p_recv
  /\ UNCHANGED <<svars, to_peer, p_started, p_send, p_recv, p_unacked,
                 p_controls, p_commands, p_fault, delivered, sent>>

\* It sends a command, which also acknowledges.
PeerCommand ==
  /\ p_started
  /\ p_commands < MaxCommands
  /\ Len(p_unacked) < K
  /\ PeerSends(IFrame(p_send, p_recv, Command))
  /\ p_send' = Advance(p_send, 1)
  /\ p_acked' = p_recv
  /\ p_unacked' = Append(p_unacked, now)
  /\ p_commands' = p_commands + 1
  /\ UNCHANGED <<svars, to_peer, p_started, p_recv, p_controls, p_fault,
                 delivered, sent>>

\* It starts or stops data transfer, or tests the link.
PeerControl ==
  /\ p_controls < MaxControls
  /\ p_controls' = p_controls + 1
  /\ \E f \in {"StartDtAct", "StopDtAct", "TestFrAct"} :
       /\ PeerSends(UFrame(f))
       /\ p_started' = IF f = "StopDtAct" THEN FALSE ELSE p_started
  /\ UNCHANGED <<svars, to_peer, p_send, p_recv, p_acked, p_unacked,
                 p_commands, p_fault, delivered, sent>>

-----------------------------------------------------------------------------

LinkInit ==
  /\ SessionInit
  /\ to_peer = <<>> /\ to_station = <<>>
  /\ p_started = FALSE
  /\ p_send = 0 /\ p_recv = 0 /\ p_acked = 0
  /\ p_unacked = <<>>
  /\ p_controls = 0 /\ p_commands = 0
  /\ p_fault = FALSE
  /\ sent = 0 /\ delivered = <<>>

\* The session has closed, or nothing is in the stream and the link rests.
Rest ==
  /\ closed # "open" \/ (to_peer = <<>> /\ to_station = <<>>)
  /\ UNCHANGED lvars

LinkNext ==
  \/ StationSend
  \/ StationReceive
  \/ StationTick
  \/ PeerReceive
  \/ PeerAck
  \/ PeerCommand
  \/ PeerControl
  \/ Rest

LinkSpec == LinkInit /\ [][LinkNext]_lvars

\* The stream delivers, the driver reads, and the controlling station
\* acknowledges what it has received (its own w and t2 oblige it to).
LinkFairSpec ==
  /\ LinkSpec
  /\ WF_lvars(StationReceive)
  /\ WF_lvars(PeerReceive)
  /\ WF_lvars(PeerAck)

-----------------------------------------------------------------------------
\* Properties.

Payloads(frames) ==
  LET data == OfType(frames, {"I"}) IN [i \in 1 .. Len(data) |-> data[i].asdu]

\* The connection implements the channel: a queue, a window and a stream
\* between two stations, for every interleaving of reports, commands, wraps,
\* restarts of data transfer and time-outs.
Channel == INSTANCE ReportChannel WITH
  Window <- K, Space <- MaxQueue,
  up <- closed = "open", submitted <- sent, waiting <- queue,
  underway <- Payloads(to_peer), arrived <- delivered

ImplementsChannel == Channel!ChSpec

\* Two stations that keep to the standard understand each other: neither ever
\* sees a sequence number or an acknowledgement it must refuse.
PeersAgree ==
  /\ ~p_fault
  /\ closed \notin {"SequenceError", "BadAcknowledge"}

\* The gateway acknowledges a command within t2, or at once with the next
\* report: the controlling station, whose t1 is longer, never gives up.
AcknowledgedWithinT2 ==
  closed = "open" => \A i \in 1 .. Len(p_unacked) : now - p_unacked[i] <= T2

\* Once data transfer stays started, everything queued is sent in the end,
\* however small the window; and whatever has been sent arrives in the end.
QueueDrains ==
  /\ Channel!ChArrives
  /\ <>[](started /\ closed = "open") => []<>(queue = <<>>)

\* Neither station ever has a reason of the protocol's to give the connection
\* up: no number to refuse, no acknowledgement it has waited for too long.
NoReasonToClose == PeersAgree /\ AcknowledgedWithinT2
=============================================================================
