---------------------------- MODULE EebusBridge ----------------------------
(***************************************************************************)
(* EEBUS LPC from the energy guard to the control loop: the state machine  *)
(* of eebus-bridge (state.go), its loop (main.go), the socket it keeps     *)
(* (link.go), and the task of the gateway that reads it (inputs.rs).       *)
(*                                                                         *)
(* The loop runs once a tick.  EEBUS itself (eebus-go) is external: a      *)
(* heartbeat that is within its window or not, limits that arrive or not.  *)
(***************************************************************************)
EXTENDS Integers, Sequences

CONSTANTS
  Silence,      \* timeout_s
  KeepAlive,    \* keepAlive
  InitTimeout,  \* InitTimeout
  FailsafeMin,  \* failsafeMin
  Durations,    \* of a limit; 0 has no end
  Limits,       \* W of a limit
  FailsafeW,    \* failsafeW
  EebusAgeMax,  \* bound: the histories count up to it
  NoLimit       \* a nil limit_w, Option::None

ASSUME EebusAssumption ==
  /\ KeepAlive \in Nat \ {0} /\ Silence \in Nat /\ Silence > KeepAlive
  /\ InitTimeout \in Nat \ {0} /\ FailsafeMin \in Nat /\ Durations \subseteq Nat
  /\ EebusAgeMax \in Nat /\ NoLimit \notin Nat

\* What can be told, seen and under way.
Watts == Limits \cup {FailsafeW, NoLimit}
Line == [active : BOOLEAN, limit : Watts, failsafe : BOOLEAN]
EebusView == [connected : BOOLEAN, active : BOOLEAN, limit : Watts,
              failsafe : BOOLEAN, failsafe_limit : Watts]
Stream == [lines : {<<>>} \cup {<<line>> : line \in Line}, ended : BOOLEAN]

ASSUME NoLimitAssumption == NoLimit \notin Stream

VARIABLES
  heartbeat,  \* IsHeartbeatWithinDuration
  running,    \* the bridge: "up", "hung" (its socket stays open) or "down"
  state,      \* State
  dialed,     \* Link.conn: "none", "pending", "served", "dead" when the
              \* gateway has closed it, "reset" when it has also said so
  last, sent, \* Link.last, and the age of Link.sent
  served,     \* what serve_bridge has yet to read, with its end; or None
  pending,    \* a connection that is not accepted yet
  quiet,      \* how long accept or next_line has been waiting
  eebus_view, \* EebusView
  \* history, ages up to EebusAgeMax:
  told,       \* what the bridge last had to tell
  told_age,   \* since that changed, or since the bridge or the gateway broke
  alone_age,  \* how long the heartbeat has been lost, with the bridge up
  silent_age  \* how long the bridge has not been up

link == <<dialed, last, sent>>
socket == <<served, pending, quiet>>
history == <<told, told_age, alone_age, silent_age>>
evars == <<heartbeat, running, state, link, socket, eebus_view, history>>

Older(age, max) == IF age >= max THEN max ELSE age + 1

-----------------------------------------------------------------------------
\* state.go.  Ages stand for the instants it keeps: `up` since started, `fs`
\* since failsafeSince, `left` until limitUntil (NoLimit: no end); `fresh` is
\* limitAt.After(failsafeSince).

NewState ==
  [up |-> 0, limit_active |-> FALSE, limit_w |-> NoLimit, left |-> NoLimit,
   fresh |-> FALSE, seen |-> FALSE, ok |-> FALSE, in_failsafe |-> FALSE,
   fs |-> 0]

SetLimit(s, active, w, duration) ==
  [s EXCEPT !.limit_active = active, !.limit_w = w, !.fresh = TRUE,
            !.left = IF duration > 0 THEN duration ELSE NoLimit]

\* Mutant: without a first heartbeat nothing is ever lost.
LostOnceSeen(s) == s.seen /\ ~s.ok

HeartbeatLost(s) == \/ s.seen /\ ~s.ok
                    \/ ~s.seen /\ s.up >= InitTimeout

\* State::update
StateUpdate(s) ==
  IF ~s.in_failsafe
  THEN IF HeartbeatLost(s)
       THEN [s EXCEPT !.in_failsafe = TRUE, !.fs = 0, !.fresh = FALSE] ELSE s
  ELSE IF s.ok /\ (s.fresh \/ s.fs >= FailsafeMin)
  THEN [s EXCEPT !.in_failsafe = FALSE, !.fs = 0] ELSE s

\* State::Heartbeat
Beat(s, ok) == StateUpdate([s EXCEPT !.seen = @ \/ ok, !.ok = ok])

\* State::Output
Output(s) ==
  IF s.in_failsafe
  THEN [active |-> TRUE, limit |-> FailsafeW, failsafe |-> TRUE]
  ELSE IF s.limit_active /\ s.left # 0
  THEN [active |-> TRUE, limit |-> s.limit_w, failsafe |-> FALSE]
  ELSE [active |-> FALSE, limit |-> NoLimit, failsafe |-> FALSE]

StateOlder(s) ==
  [s EXCEPT !.up = Older(@, InitTimeout),
            !.fs = IF s.in_failsafe THEN Older(@, FailsafeMin) ELSE 0,
            !.left = IF @ \in Nat \ {0} THEN @ - 1 ELSE @]

-----------------------------------------------------------------------------
\* link.go: one line, when it changed and at least every keepAlive.

Closed == [lines |-> <<>>, ended |-> TRUE]
Lines(line) == [lines |-> <<line>>, ended |-> FALSE]
End(stream) == IF stream = NoLimit THEN NoLimit
               ELSE [stream EXCEPT !.ended = TRUE]

\* Mutant: an unchanged line is never sent again.
QuietUnlessChanged(line, age) == dialed # "none" /\ line = last

NothingToSend(line, age) ==
  dialed # "none" /\ line = last /\ age < KeepAlive

Sent(line) == last' = line /\ sent' = 0

\* Link::Send.  A connection the gateway has closed takes one more line, or
\* fails and is dialled again with the next one.
Send(line, age) ==
  \/ /\ NothingToSend(line, age)
     /\ sent' = age /\ UNCHANGED <<dialed, last, served, pending>>
  \/ /\ ~NothingToSend(line, age)
     /\ \/ /\ dialed = "none" /\ dialed' = "pending"
           /\ pending' = Lines(line)
           /\ Sent(line) /\ UNCHANGED served
        \/ /\ dialed = "served"
           /\ served' = [served EXCEPT !.lines = Append(@, line)]
           /\ Sent(line) /\ UNCHANGED <<dialed, pending>>
        \/ /\ dialed = "dead" /\ dialed' = "reset"
           /\ Sent(line) /\ UNCHANGED <<served, pending>>
        \/ /\ dialed \in {"dead", "reset"} /\ dialed' = "none"
           /\ UNCHANGED <<last, sent, served, pending>>

-----------------------------------------------------------------------------
\* The gateway's task.

\* Mutant: a lost bridge leaves the last limit as it was.
OnLostKeepsLast(view) ==
  [view EXCEPT !.connected = FALSE, !.failsafe = TRUE]

\* on_lost: the failsafe limit last announced, Pmin without one.
OnLost(view) ==
  [view EXCEPT !.connected = FALSE, !.active = TRUE, !.failsafe = TRUE,
               !.limit = view.failsafe_limit]

\* on_message: every line carries the failsafe limit.
OnMessage(line) ==
  [connected |-> TRUE, active |-> line.active, limit |-> line.limit,
   failsafe |-> line.failsafe, failsafe_limit |-> FailsafeW]

NoMessage == [connected |-> FALSE, active |-> FALSE, limit |-> NoLimit,
              failsafe |-> FALSE, failsafe_limit |-> NoLimit]

GatewayUnchanged == UNCHANGED <<heartbeat, running, state, last, sent, history>>

Accept ==
  /\ served = NoLimit /\ pending # NoLimit
  /\ served' = pending /\ pending' = NoLimit /\ quiet' = 0
  /\ dialed' = IF dialed = "pending" THEN "served" ELSE dialed
  /\ UNCHANGED eebus_view /\ GatewayUnchanged

ReadLine ==
  /\ served # NoLimit /\ served.lines # <<>>
  /\ eebus_view' = OnMessage(Head(served.lines))
  /\ served' = [served EXCEPT !.lines = Tail(@)]
  /\ quiet' = 0
  /\ UNCHANGED <<dialed, pending>> /\ GatewayUnchanged

\* serve_bridge returns: the stream is dropped and the bridge is lost.
Leave ==
  /\ eebus_view' = OnLost(eebus_view)
  /\ served' = NoLimit /\ quiet' = 0
  /\ dialed' = IF dialed = "served" THEN "dead" ELSE dialed
  /\ UNCHANGED pending /\ GatewayUnchanged

ReadEnd == served # NoLimit /\ served.lines = <<>> /\ served.ended /\ Leave

\* Nothing was read, or nobody connected, for timeout_s.
Idle == /\ served = NoLimit => pending = NoLimit
        /\ served # NoLimit => served.lines = <<>> /\ ~served.ended

SilenceOver == Idle /\ quiet >= Silence /\ Leave

-----------------------------------------------------------------------------
\* The rest of the world, and time.

HeartbeatChanges ==
  /\ heartbeat' = ~heartbeat /\ alone_age' = 0
  /\ UNCHANGED <<running, state, link, socket, eebus_view, told, told_age,
                 silent_age>>

GuardWrites ==
  /\ running = "up"
  /\ \E active \in BOOLEAN, w \in Limits, d \in Durations :
       state' = SetLimit(state, active, w, d)
  /\ UNCHANGED <<heartbeat, running, link, socket, eebus_view, history>>

BridgeHangs ==
  /\ running = "up" /\ running' = "hung"
  /\ alone_age' = 0
  /\ UNCHANGED <<heartbeat, state, link, socket, eebus_view, told, told_age,
                 silent_age>>

BridgeStops ==
  /\ running # "down" /\ running' = "down"
  /\ dialed' = "none" /\ served' = End(served) /\ pending' = End(pending)
  /\ alone_age' = 0
  /\ UNCHANGED <<heartbeat, state, last, sent, quiet, eebus_view, told,
                 told_age, silent_age>>

\* A new process has nothing of the old one's state.
BridgeStarts ==
  /\ running = "down" /\ running' = "up"
  /\ state' = NewState /\ last' = NoLimit /\ sent' = 0
  /\ told' = Output(NewState) /\ told_age' = 0 /\ silent_age' = 0
  /\ UNCHANGED <<heartbeat, dialed, socket, eebus_view, alone_age>>

\* What the inputs said is not saved.
GatewayRestarts ==
  /\ eebus_view' = NoMessage
  /\ served' = NoLimit /\ pending' = NoLimit /\ quiet' = 0
  /\ dialed' = IF dialed \in {"pending", "served"} THEN "dead" ELSE dialed
  /\ told_age' = 0 /\ alone_age' = 0 /\ silent_age' = 0
  /\ UNCHANGED <<heartbeat, running, state, last, sent, told>>

\* One iteration of the bridge's loop.
Loop ==
  LET next == Beat(StateOlder(state), heartbeat)
  IN  /\ state' = next
      /\ Send(Output(next), Older(sent, KeepAlive))
      /\ told' = Output(next)
      /\ told_age' = IF told' = told THEN Older(told_age, EebusAgeMax) ELSE 0

EebusTick ==
  /\ Idle /\ quiet < Silence
  /\ quiet' = quiet + 1
  /\ IF running = "up" THEN Loop
     ELSE UNCHANGED <<state, link, served, pending, told, told_age>>
  /\ alone_age' = IF running = "up" /\ ~heartbeat
                  THEN Older(alone_age, EebusAgeMax) ELSE 0
  /\ silent_age' = IF running # "up" THEN Older(silent_age, EebusAgeMax) ELSE 0
  /\ UNCHANGED <<heartbeat, running, eebus_view>>

EebusInit ==
  /\ heartbeat \in BOOLEAN /\ running = "down" /\ state = NewState
  /\ dialed = "none" /\ last = NoLimit /\ sent = 0
  /\ served = NoLimit /\ pending = NoLimit /\ quiet = 0
  /\ eebus_view = NoMessage
  /\ told = Output(NewState) /\ told_age = 0 /\ alone_age = 0
  /\ silent_age = 0

EebusNext ==
  \/ Accept \/ ReadLine \/ ReadEnd \/ SilenceOver
  \/ HeartbeatChanges \/ GuardWrites
  \/ BridgeHangs \/ BridgeStops \/ BridgeStarts \/ GatewayRestarts
  \/ EebusTick

EebusSpec == EebusInit /\ [][EebusNext]_evars

-----------------------------------------------------------------------------
\* Properties.

\* A connection the gateway has closed takes up to two keepAlives to be given
\* up, and one more line to be replaced.
RedialWithin == 2 * KeepAlive + 2

\* What the bridge tells, steadily, is what the control loop sees, also when
\* either of them has restarted.
ToldIsApplied ==
  (running = "up" /\ told_age > RedialWithin) => eebus_view = OnMessage(told)

\* A bridge that hangs, or is not there, ends in the failsafe limit.
SilenceDims ==
  silent_age > Silence =>
    eebus_view.active /\ eebus_view.failsafe
    /\ eebus_view.limit = eebus_view.failsafe_limit

\* A guard that falls silent, or never spoke, ends in the failsafe limit at
\* the site, whatever limit it had set and whatever was restarted before.
GuardLossDims ==
  alone_age > InitTimeout + RedialWithin =>
    eebus_view.active /\ eebus_view.limit = FailsafeW

\* The control loop sees what the guard set, or the failsafe limit.
GuardIsFollowed == ToldIsApplied /\ SilenceDims /\ GuardLossDims
=============================================================================
