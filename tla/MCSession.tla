------------------------------ MODULE MCSession ------------------------------
(***************************************************************************)
(* The session with an arbitrary peer, the octets of its frames, and the   *)
(* dates in them, each on its own: which one runs is chosen at the start.  *)
(***************************************************************************)
EXTENDS Session, Wire, Calendar

VARIABLE part

MCAsdus == {"a"}

\* Letters: every type, long ones and sequences, what the station does not
\* know or is cut short, and octets that are no frame.
Tag == [millisecond |-> 12345, minute |-> 45, hour |-> 13, day |-> 24, weekday |-> 4,
        month |-> 9, year |-> 26, invalid |-> TRUE, summer_time |-> FALSE]
Nothing == [error |-> "none"]
Odd == {"overflow", "not_topical"}
F32 == <<0, 0, 112, 66>>

ElementsOf(type) ==
  CASE type = 1 -> {[on |-> TRUE, quality |-> {"invalid"}]}
    [] type = 30 -> {[on |-> FALSE, quality |-> {"blocked"}, time |-> Tag]}
    [] type = 13 -> {[value |-> F32, quality |-> Odd]}
    [] type = 36 -> {[value |-> F32, quality |-> {}, time |-> [Tag EXCEPT !.summer_time = TRUE]]}
    [] type = 45 -> {[on |-> TRUE, select |-> s, qualifier |-> 3] : s \in BOOLEAN}
    [] type = 50 -> {[value |-> F32, select |-> TRUE, qualifier |-> 1]}
    [] type \in {70, 100} -> {[octet |-> 20]}
    [] type = 103 -> {[time |-> Tag]}

Types == {1, 13, 30, 36, 45, 50, 70, 100, 103}

AsduWith(type, elements, ioa, cause) ==
  [type |-> type, cause |-> cause, negative |-> FALSE, test |-> TRUE, originator |-> 7,
   common_address |-> 258,
   objects |-> [i \in DOMAIN elements |-> [ioa |-> ioa + i - 1, element |-> elements[i]]]]

Letter(apdu, asdu) == [octets |-> Encode(apdu), means |-> apdu, asdu |-> asdu]
I(octets, asdu) == Letter([type |-> "I", ns |-> 300, nr |-> 32767, asdu |-> octets], asdu)

Known ==
  UNION {{LET a == AsduWith(type, <<e>>, 5001, 6) IN I(AsduOctets(a), a) : e \in ElementsOf(type)} :
           type \in Types}
Long(type, n, ioa) == AsduWith(type, [i \in 1 .. n |-> CHOOSE e \in ElementsOf(type) : TRUE], ioa, 20)
Packed ==
  {I(AsduOctets(Long(36, 13, 1001)), Long(36, 13, 1001)),
   I(SequenceOctets(Long(30, 3, 65535)), Long(30, 3, 65535))}
Strange ==
  LET a == Long(13, 2, 1001)
      o == AsduOctets(a)
  IN  {I([o EXCEPT ![1] = 58], [error |-> "UnsupportedType"]),
       I([o EXCEPT ![3] = 128 + 13], [error |-> "UnsupportedCause"]),
       I(SubSeq(o, 1, Len(o) - 1), [error |-> "Truncated"]), I(<<1, 1, 3>>, [error |-> "Truncated"])}
Service == {Letter([type |-> "S", nr |-> 32767], Nothing), Letter([type |-> "U", f |-> "TestFrAct"], Nothing)}
Broken ==
  {[octets |-> o, means |-> Malformed, asdu |-> Nothing] :
     o \in {<<105, 4, 1, 0, 0, 0>>, <<104, 3, 1, 0, 0>>, <<104, 254, 1, 0, 0, 0>>,
            <<104, 5, 1, 0, 0, 0, 0>>, <<104, 4, 3, 0, 0, 0>>}}

Short == Service \cup {l \in Known : l.asdu.type \in {45, 50}}
MCTalks == {<<a>> : a \in Known \cup Packed \cup Strange}
           \cup {<<a, b>> : a \in Known \cup Strange, b \in Service \cup Broken}
           \cup {<<a, b, c>> : a \in Short, b \in Broken \cup Service, c \in Service}

\* 2000 was a leap year, and so is the year after 2023; 2100 is none.
MCNewYears ==
  {[day |-> 10957, year |-> 2000, weekday |-> 5], [day |-> 19358, year |-> 2023, weekday |-> 6],
   [day |-> 46752, year |-> 2098, weekday |-> 2]}

MCInit ==
  /\ part \in {"session", "wire", "calendar"} /\ SessionInit
  /\ IF part = "wire" THEN WireInit
     ELSE talk = <<>> /\ arrived = 0 /\ buf = <<>> /\ got = <<>> /\ framing = FALSE
  /\ CalInit /\ (part # "calendar" => wall.year = 2000 /\ until = 2000)

MCNext ==
  \/ part = "session" /\ SessionNext /\ UNCHANGED <<part, wirevars, calvars>>
  \/ part = "wire" /\ WireNext /\ UNCHANGED <<part, svars, calvars>>
  \/ part = "calendar" /\ CalNext /\ UNCHANGED <<part, svars, wirevars>>

MCSpec == MCInit /\ [][MCNext]_<<part, svars, wirevars, calvars>>
=============================================================================
