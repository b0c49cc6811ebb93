------------------------------ MODULE MCInputs ------------------------------
(***************************************************************************)
(* A site with a control box: its relay, or EEBUS.  The two share nothing  *)
(* but the InputState they are merged from, so a behaviour is about one.   *)
(***************************************************************************)
EXTENDS ControlBoxRelay, EebusBridge

VARIABLE site

MCInit == site \in {"relay", "eebus"} /\ RelayInit /\ EebusInit

MCNext == \/ site = "relay" /\ RelayNext /\ UNCHANGED <<site, evars>>
          \/ site = "eebus" /\ EebusNext /\ UNCHANGED <<site, rvars>>

MCSpec == MCInit /\ [][MCNext]_<<site, rvars, evars>>
=============================================================================
