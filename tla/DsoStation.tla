----------------------------- MODULE DsoStation -----------------------------
(***************************************************************************)
(* One control-centre connection: the task that runs Station::serve, the   *)
(* driver task of connection.rs it spawns, and the two bounded channels    *)
(* between them.  The driver waits for room in `events` (nothing is read   *)
(* or written meanwhile), the station waits for room in `out` (no event is *)
(* taken meanwhile).                                                       *)
(*                                                                         *)
(* The session in the driver is reduced to its STARTDT state and its       *)
(* queue, whose window the centre's acknowledgements keep open             *)
(* (Session.tla has the details); points are one measurement, `kw`, and    *)
(* one single point, `dim`; time is in halves of a second.                 *)
(***************************************************************************)
EXTENDS Integers, Sequences, SequencesExt, FiniteSets

CONSTANTS
  Mixes,        \* what a centre and a site may do, one chosen in Init:
                \* [kinds |-> requests it sends, snapshots |-> what it shows,
                \*  most |-> bound: requests on their way to the station]
  Capacity,     \* of the two channels
  MaxQueue,     \* Config::max_queue
  Deadband,     \* of each point, 1 for a single point
  SelectLimit,  \* seconds between select and execute
  None,         \* Option::None
  Unreported    \* a point that is in neither reported_f nor reported_b

Kinds == {"start", "stop", "select", "on", "off", "deactivate",
          "interrogate", "unknown"}

ASSUME StationAssumption ==
  /\ Capacity \in Nat \ {0} /\ MaxQueue \in Nat \ {0}
  /\ SelectLimit \in Nat
  /\ \A m \in Mixes : m.kinds \subseteq Kinds /\ m.most \in Nat \ {0}
  /\ IsFiniteSet(DOMAIN Deadband)

VARIABLES
  mix,        \* the one of Mixes this behaviour is about
  tcp,        \* the TCP stream: "open", or "shut" by the peer
  serving,    \* the task runs and is counted in `connections`
  inbox,      \* sent by the centre, not yet read
  session_on, \* Session::started
  queue,      \* Session::queue
  drv,        \* drained outputs the driver has yet to hand over
  driving,    \* the driver task runs
  events, out,  \* the channels
  todo,       \* replies the station has yet to put into `out`
  started,    \* the station's own flag
  reported,   \* reported_f and reported_b
  selected,   \* age of the selection of IOA 5001
  changed,    \* the watch channel has a snapshot the station has not seen
  snapshot,   \* the last one published
  commands,   \* the dim command
  \* history, at the centre:
  view,       \* the last value it received of each point
  confirmed   \* its last execute that was confirmed

centre == <<view, confirmed>>
driver == <<session_on, queue, drv, driving>>
station == <<todo, started, reported, selected, commands>>
stvars == <<mix, tcp, serving, inbox, driver, events, out, station, changed,
            snapshot, centre>>

\* The points, single points as 0 and 1.
Points == DOMAIN Deadband
Nothing == [p \in Points |-> Unreported]

\* No further apart than what is not worth a message.
Near(p, a, b) ==
  IF None \in {a, b} THEN a = b
  ELSE a - b \in (1 - Deadband[p]) .. (Deadband[p] - 1)

\* Confirmations the centre only counts, and those of an execute.
Reply == [kind |-> "answer"]
Con(request, ok) == IF request \in {"on", "off"} /\ ok
                    THEN [kind |-> "con", on |-> request = "on"] ELSE Reply
Report(p, v) == [kind |-> "point", point |-> p, value |-> v]
Reports(ps, s) == [i \in 1 .. Cardinality(ps) |->
                     Report(SetToSeq(ps)[i], s[SetToSeq(ps)[i]])]

\* Mutant: a channel takes one more than it holds.
RoomOneMore(channel) == Len(channel) <= Capacity

Room(channel) == Len(channel) < Capacity

-----------------------------------------------------------------------------
\* The driver.

\* Mutant: the newest is forgotten instead of the oldest.
QueuedNewestLost(q, asdu) == IF Len(q) >= 2 THEN q ELSE Append(q, asdu)

\* Session::send_raw: a full queue forgets its oldest.
Queued(q, asdu) ==
  Append(IF Len(q) >= MaxQueue THEN Tail(q) ELSE q, asdu)

\* Session::on_apdu: every ASDU as it came, STARTDT and STOPDT if they change
\* the state.
OutputOf(acc, r) ==
  IF r \in {"start", "stop"}
  THEN [on |-> r = "start",
        out |-> IF acc.on = (r = "start") THEN acc.out ELSE Append(acc.out, r)]
  ELSE [acc EXCEPT !.out = Append(@, r)]

\* What the session makes of the chunk that was read, one frame after the other.
OutputsOf(chunk, on) == FoldLeft(OutputOf, [on |-> on, out |-> <<>>], chunk)

\* The reports of a point among ASDUs, and the confirmed executes.
ReportsOf(p, asdus) ==
  {i \in DOMAIN asdus : asdus[i].kind = "point" /\ asdus[i].point = p}
Executes(asdus) == {i \in DOMAIN asdus : asdus[i].kind = "con"}

\* What is known of a point, and of the executes, once the ASDUs are read.
Told(p, asdus, was) ==
  IF ReportsOf(p, asdus) = {} THEN was ELSE asdus[Max(ReportsOf(p, asdus))].value
Confirms(asdus, was) ==
  IF Executes(asdus) = {} THEN was ELSE asdus[Max(Executes(asdus))].on

\* The centre receives frames: it keeps what it is told.
Receives(asdus) ==
  /\ view' = [p \in Points |-> Told(p, asdus, view[p])]
  /\ confirmed' = Confirms(asdus, confirmed)

\* Session::flush: what is queued goes out once data transfer is started; a
\* peer that has gone does not receive it.
Flush(q, on) ==
  /\ queue' = IF on THEN <<>> ELSE q
  /\ IF on /\ tcp = "open" THEN Receives(q) ELSE UNCHANGED centre

DriverRead ==
  /\ driving /\ drv = <<>> /\ inbox # <<>>
  /\ \E n \in 1 .. Len(inbox) :
       LET read == OutputsOf(SubSeq(inbox, 1, n), session_on)
       IN  /\ session_on' = read.on
           /\ drv' = read.out
           /\ Flush(queue, \/ read.on
                           \/ \E i \in 1 .. n : inbox[i] = "start")
           /\ inbox' = SubSeq(inbox, n + 1, Len(inbox))
  /\ UNCHANGED <<mix, tcp, serving, driving, events, out, station,
                 changed, snapshot>>

DriverTake ==
  /\ driving /\ drv = <<>> /\ out # <<>>
  /\ Flush(Queued(queue, Head(out)), session_on)
  /\ out' = Tail(out)
  /\ UNCHANGED <<mix, tcp, serving, inbox, session_on, drv, driving, events,
                 station, changed, snapshot>>

\* send_event: one output goes to the station, or waits.
DriverEvent ==
  /\ driving /\ drv # <<>> /\ Room(events)
  /\ events' = Append(events, Head(drv))
  /\ drv' = Tail(drv)
  /\ UNCHANGED <<mix, tcp, serving, inbox, session_on, queue, driving, out,
                 station, changed, snapshot, centre>>

\* run returns: what is queued on this side is gone.
Ends ==
  /\ driving /\ driving' = FALSE
  /\ tcp' = "shut"
  /\ queue' = <<>> /\ inbox' = <<>> /\ out' = <<>> /\ session_on' = FALSE
  /\ drv' = <<>>
  /\ UNCHANGED <<mix, serving, events, station, changed, snapshot, centre>>

\* The peer has gone: read returns 0 or an error.
DriverEnd == tcp = "shut" /\ drv = <<>> /\ Ends

\* A frame between two events of the same drain cannot be written; the
\* requests behind it are lost.
DriverWriteFails ==
  /\ tcp = "shut" /\ drv # <<>>
  /\ queue # <<>> \/ Head(drv) \in {"start", "stop"}
  /\ Ends

\* The session closes: a timer or a protocol error.
SessionCloses == tcp = "open" /\ drv = <<>> /\ Ends

-----------------------------------------------------------------------------
\* The station.

\* t.elapsed().as_secs() > 10
SelectionRanOut(age) == age # None /\ age \div 2 > SelectLimit

\* Station::command for the dim command; `on` and `off` are executes.
\* Mutant: the command is applied before the selection is looked at.
CommandAppliedFirst(request) ==
  LET late == request \in {"on", "off"} /\ SelectionRanOut(selected)
  IN  /\ selected' = IF request = "select" THEN 0 ELSE None
      /\ commands' = IF request \in {"on", "off"} THEN request = "on"
                     ELSE commands
      /\ todo' = IF request \in {"on", "off"} /\ ~late
                 THEN <<Con(request, TRUE), Reply>>
                 ELSE <<Con(request, ~late)>>
      /\ UNCHANGED reported

Command(request) ==
  LET execute == request \in {"on", "off"}
      late == execute /\ SelectionRanOut(selected)
  IN  /\ selected' = IF request = "select" THEN 0 ELSE None
      /\ commands' = IF execute /\ ~late THEN request = "on" ELSE commands
      /\ todo' = IF execute /\ ~late THEN <<Con(request, TRUE), Reply>>
                 ELSE <<Con(request, ~late)>>
      /\ UNCHANGED reported

\* A general interrogation is answered from the snapshot of the moment, and
\* everything in the answer counts as reported.
Interrogation ==
  /\ todo' = <<Reply>> \o Reports(Points, snapshot) \o <<Reply>>
  /\ reported' = snapshot
  /\ UNCHANGED <<selected, commands>>

\* Station::handle, and the mirrored answer to what is not known.
Handle(request) ==
  \/ request \in {"select", "on", "off", "deactivate"} /\ Command(request)
  \/ request = "interrogate" /\ Interrogation
  \/ /\ request = "unknown"
     /\ todo' = <<Reply>>
     /\ UNCHANGED <<selected, commands, reported>>

StationEvent ==
  /\ serving /\ todo = <<>> /\ events # <<>>
  /\ events' = Tail(events)
  /\ \/ /\ Head(events) = "start"
        /\ started' = TRUE
        /\ todo' = <<Reply>>
        /\ UNCHANGED <<selected, commands, reported>>
     \/ /\ Head(events) = "stop"
        /\ started' = FALSE
        /\ UNCHANGED <<todo, selected, commands, reported>>
     \/ /\ Handle(Head(events))
        /\ UNCHANGED started
  /\ UNCHANGED <<mix, tcp, serving, inbox, driver, out, changed, snapshot, centre>>

Moved(p, s) == \/ reported[p] = Unreported
               \/ ~Near(p, reported[p], s[p])

\* Mutant: the deadband is counted from the last snapshot, not from the last
\* report, so a slow drift is never told.
SpontaneousFromTheLast(s) ==
  /\ todo' = Reports({p \in Points : Moved(p, s)}, s)
  /\ reported' = s

\* spontaneous: every point that left its deadband since it was reported, or
\* never was.
Spontaneous(s) ==
  /\ todo' = Reports({p \in Points : Moved(p, s)}, s)
  /\ reported' = [p \in Points |-> IF Moved(p, s) THEN s[p] ELSE reported[p]]

\* A new snapshot: seen, and told if data transfer is started.
StationChanged ==
  /\ serving /\ todo = <<>> /\ changed
  /\ changed' = FALSE
  /\ IF started THEN Spontaneous(snapshot) ELSE UNCHANGED <<todo, reported>>
  /\ UNCHANGED <<mix, tcp, serving, inbox, driver, events, out, started, selected,
                 commands, snapshot, centre>>

\* Mutant: it waits for room though the driver, which makes it, is gone.
StationSendWaits ==
  /\ serving /\ todo # <<>> /\ Room(out)
  /\ out' = Append(out, Head(todo)) /\ todo' = Tail(todo)
  /\ UNCHANGED <<mix, tcp, serving, inbox, driver, events, started, reported,
                 selected, commands, changed, snapshot, centre>>

\* out_tx.send: it waits for room, and is ignored once the driver is gone.
StationSend ==
  /\ serving /\ todo # <<>>
  /\ IF driving THEN Room(out) /\ out' = Append(out, Head(todo))
     ELSE UNCHANGED out
  /\ todo' = Tail(todo)
  /\ UNCHANGED <<mix, tcp, serving, inbox, driver, events, started, reported,
                 selected, commands, changed, snapshot, centre>>

\* recv returns None: serve ends and the connection is no longer counted.
StationEnd ==
  /\ serving /\ ~driving /\ todo = <<>> /\ events = <<>>
  /\ serving' = FALSE
  /\ UNCHANGED <<mix, tcp, inbox, driver, events, out, station, changed,
                 snapshot, centre>>

-----------------------------------------------------------------------------
\* Around them.

\* A centre connects; serve starts from nothing.  What the last connection
\* left applied stays.
Connect ==
  /\ ~serving
  /\ tcp' = "open" /\ serving' = TRUE /\ driving' = TRUE
  /\ started' = FALSE /\ selected' = None /\ reported' = Nothing
  /\ changed' = FALSE
  /\ view' = Nothing /\ confirmed' = None
  /\ UNCHANGED <<mix, inbox, session_on, queue, drv, events, out, todo, snapshot,
                 commands>>

\* Requests that have not reached the station's handler.
OnTheWay == Len(inbox) + Len(drv) + Len(events)

\* Data transfer is on once what is on its way is handled.
Starts ==
  LET controls == SelectSeq(inbox, LAMBDA r : r \in {"start", "stop"})
  IN  IF controls = <<>> THEN session_on ELSE Last(controls) = "start"

\* The centre sends; ASDUs only where it has started data transfer.
CentreSend(r) ==
  /\ tcp = "open" /\ serving
  /\ IF r \in {"start", "stop"} THEN (r = "start") = ~Starts
     ELSE Starts
  /\ OnTheWay < mix.most
  /\ inbox' = Append(inbox, r)
  /\ UNCHANGED <<mix, tcp, serving, driver, events, out, station, changed,
                 snapshot, centre>>

PeerClose ==
  /\ tcp = "open" /\ serving
  /\ tcp' = "shut"
  /\ UNCHANGED <<mix, serving, inbox, driver, events, out, station, changed,
                 snapshot, centre>>

\* The control loop publishes its snapshot, whether or not it changed.
Cycle ==
  /\ snapshot' \in mix.snapshots
  /\ changed' = serving
  /\ UNCHANGED <<mix, tcp, serving, inbox, driver, events, out, station, centre>>

\* Half a second: the selection ages.
Tick ==
  /\ selected # None /\ ~SelectionRanOut(selected)
  /\ selected' = selected + 1
  /\ UNCHANGED <<mix, tcp, serving, inbox, driver, events, out, todo, started,
                 reported, commands, changed, snapshot, centre>>

SInit ==
  /\ mix \in Mixes
  /\ tcp = "shut" /\ serving = FALSE /\ driving = FALSE
  /\ inbox = <<>> /\ session_on = FALSE /\ queue = <<>> /\ drv = <<>>
  /\ events = <<>> /\ out = <<>> /\ todo = <<>>
  /\ started = FALSE /\ selected = None /\ reported = Nothing
  /\ changed = FALSE
  /\ snapshot \in mix.snapshots
  /\ commands = FALSE
  /\ view = Nothing /\ confirmed = None

DriverNext == DriverRead \/ DriverTake \/ DriverEvent
              \/ DriverEnd \/ DriverWriteFails \/ SessionCloses
StationNext == StationEvent \/ StationChanged \/ StationSend \/ StationEnd

SNext ==
  \/ DriverNext \/ StationNext
  \/ Connect \/ PeerClose \/ Cycle \/ Tick
  \/ \E r \in mix.kinds : CentreSend(r)

StSpec == SInit /\ [][SNext]_stvars

\* The tasks are scheduled, the loop publishes, and select! takes a branch
\* that is ready again and again.
StFairSpec ==
  /\ StSpec
  /\ WF_stvars(DriverRead) /\ SF_stvars(DriverTake) /\ WF_stvars(DriverEvent)
  /\ WF_stvars(DriverEnd)
  /\ SF_stvars(StationEvent) /\ SF_stvars(StationChanged)
  /\ WF_stvars(StationSend) /\ SF_stvars(StationEnd)
  /\ WF_stvars(Cycle)

-----------------------------------------------------------------------------
\* Properties.

\* Types, and the channels within their capacity.
StType ==
  /\ tcp \in {"open", "shut"} /\ serving \in BOOLEAN
  /\ inbox \in Seq(Kinds) /\ drv \in Seq(Kinds) /\ events \in Seq(Kinds)
  /\ session_on \in BOOLEAN /\ driving \in BOOLEAN /\ started \in BOOLEAN
  /\ changed \in BOOLEAN /\ commands \in BOOLEAN
  /\ Len(events) <= Capacity /\ Len(out) <= Capacity /\ Len(queue) <= MaxQueue
  /\ snapshot \in mix.snapshots
  /\ selected \in Int \cup {None}
  /\ confirmed \in BOOLEAN \cup {None}
  /\ driving => serving

\* What counts as reported is what the centre has or what is on its way to
\* it, whatever was stopped, queued and started again in between.
ReportedArrives ==
  (driving /\ tcp = "open") =>
    \A p \in Points : Told(p, queue \o out \o todo, view[p]) = reported[p]

\* With every answer received, the centre's last confirmed execute is what
\* the control loop reads: a refused one changed nothing, a confirmed one did.
ConfirmedIsApplied ==
  (/\ driving /\ tcp = "open" /\ OnTheWay = 0
   /\ todo = <<>> /\ out = <<>> /\ queue = <<>> /\ confirmed # None)
    => commands = confirmed

\* send_event waits for the station to take an event, the station's out_tx.send
\* for the driver to take a reply: neither goes on, nor looks at the stream.
MutualWait ==
  /\ driving /\ drv # <<>> /\ ~Room(events)
  /\ todo # <<>> /\ ~Room(out)

\* Once the peer is gone, serve ends and the connection is no longer counted:
\* without this the control loop never notices the loss of the link.  The one
\* thing that keeps it is that driver and station wait on each other, and that
\* takes a centre with more requests under way than `events` holds.
ServeEnds ==
  (serving /\ tcp = "shut") ~> (~serving \/ (Capacity < mix.most /\ MutualWait))

\* A centre that stays connected and started, and has not brought both to wait
\* on each other, ends up with the values of the site, to within the deadband,
\* once these have settled.
CentreCatchesUp ==
  \A s \in UNION {m.snapshots : m \in Mixes} :
    <>[](tcp = "open" /\ session_on /\ snapshot = s /\ ~MutualWait)
      => <>[](\A p \in Points : /\ view[p] # Unreported
                                 /\ Near(p, view[p], s[p]))

\* What the centre was told is so: its values, and what it commanded.
CentreIsToldTheTruth == StType /\ ReportedArrives /\ ConfirmedIsApplied
=============================================================================
