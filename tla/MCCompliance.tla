--------------------------- MODULE MCCompliance ---------------------------
(* Values for model checking Compliance, and two courses: one event in     *)
(* which a cycle may show anything, and several events that exceed nothing *)
(* while restarts come at any point and files fail to be written.          *)
EXTENDS Compliance

VARIABLE course

MCOneFloor == {4}
MCFloors == {2, 4}
MCDraws == {5, 6}
MCSteps == {1, 2, 3}
MCOneStep == {1}
MCNoEmergency == {FALSE}
MCEmergency == BOOLEAN

OneEvent ==
  /\ failed' = {}
  /\ open = None /\ open' # None => seq = 0

SeveralEvents ==
  /\ now' <= now + 1
  /\ open' # None => ~open'.emergency /\ ~seen'.any_above

MCInit == CInit /\ course \in {"one event", "several events"}

MCNext ==
  /\ CNext
  /\ course = "one event" => OneEvent
  /\ course = "several events" => SeveralEvents
  /\ UNCHANGED course

MCSpec == MCInit /\ [][MCNext]_<<cvars, course>>

=============================================================================
