---------------------------- MODULE MCDsoStation ----------------------------
(***************************************************************************)
(* Small values for the constants of DsoStation, see MCDsoStation.cfg: a   *)
(* centre that starts, stops and interrogates while the site drifts, one   *)
(* that commands a site at rest, and one that sends more requests than     *)
(* the channels hold, with one reply to each or with several.              *)
(***************************************************************************)
EXTENDS DsoStation

MCDeadband == [p \in {"kw"} |-> 2]

Drifting == [{"kw"} -> {0, 1, 2}]
AtRest == [{"kw"} -> {0}]

MCMixes ==
  {[kinds |-> {"start", "stop", "interrogate"}, snapshots |-> Drifting, most |-> 1],
   [kinds |-> {"start", "select", "on", "off", "deactivate", "unknown"},
    snapshots |-> AtRest, most |-> 1],
   [kinds |-> {"start", "interrogate", "on"}, snapshots |-> AtRest, most |-> 3]}
=============================================================================
