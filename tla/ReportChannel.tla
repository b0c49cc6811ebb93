--------------------------- MODULE ReportChannel ---------------------------
(***************************************************************************)
(* What an IEC 104 connection promises the station that reports over it: a *)
(* queue of bounded room that gives up its oldest report for a new one,    *)
(* and behind it at most Window reports under way, which arrive in order,  *)
(* each once.  Sequence numbers, acknowledgements, STARTDT and the timers  *)
(* are how SessionLink implements it.                                      *)
(***************************************************************************)
EXTENDS Integers, Sequences

CONSTANTS Window, Space

VARIABLES
  up,        \* the connection is open
  submitted, \* reports are numbered as they are handed over
  waiting,   \* those that have not left
  underway,
  arrived

chvars == <<up, submitted, waiting, underway, arrived>>

ChInit ==
  up = TRUE /\ submitted = 0 /\ waiting = <<>> /\ underway = <<>> /\ arrived = <<>>

\* Of the reports in q some leave, in order, as far as the window allows.
Leave(q) ==
  \E n \in 0 .. Len(q) :
    /\ n > 0 => Len(underway) + n <= Window
    /\ waiting' = SubSeq(q, n + 1, Len(q))
    /\ underway' = underway \o SubSeq(q, 1, n)

Submit ==
  /\ up = TRUE
  /\ submitted' = submitted + 1
  /\ Leave(Append(IF Len(waiting) >= Space THEN Tail(waiting) ELSE waiting,
                  submitted'))
  /\ UNCHANGED <<up, arrived>>

Send == up = TRUE /\ Leave(waiting) /\ UNCHANGED <<up, submitted, arrived>>

\* What is under way arrives even if the connection has been given up.
Arrive ==
  /\ underway # <<>>
  /\ underway' = Tail(underway) /\ arrived' = Append(arrived, Head(underway))
  /\ UNCHANGED <<up, submitted, waiting>>

GiveUp == up' = FALSE /\ UNCHANGED <<submitted, waiting, underway, arrived>>

ChNext == Submit \/ Send \/ Arrive \/ GiveUp

ChSpec == ChInit /\ [][ChNext]_chvars

\* What is under way does not stay there.
ChArrives == WF_chvars(Arrive)
=============================================================================
