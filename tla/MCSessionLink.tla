---------------------------- MODULE MCSessionLink ----------------------------
(* Small values for SessionLink: ASDUs are numbered, 0 is a command.        *)
EXTENDS SessionLink

MCAsdus == 0 .. MaxSends
=============================================================================
