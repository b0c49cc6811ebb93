-------------------------------- MODULE Wire --------------------------------
(***************************************************************************)
(* The octets of IEC 104: frames (apci.rs) and ASDUs (asdu.rs, time.rs),   *)
(* and the driver's buffer (connection.rs), which finds the frames in a    *)
(* stream that arrives in pieces of any size.                              *)
(*                                                                         *)
(* An octet is 0..255; a float is its four octets, never looked into.      *)
(***************************************************************************)
EXTENDS Integers, Sequences, SequencesExt, FiniteSetsExt, TLC

CONSTANTS
  Talks,    \* sequences of letters [octets, means |-> the APDU or Malformed,
            \* asdu |-> what the APDU carries]
  Malformed

VARIABLES
  talk,     \* what is being sent
  arrived,  \* how many of its octets have arrived
  buf,      \* the driver's buffer
  got,      \* APDUs handed to the session
  framing   \* Ended::Framing

wirevars == <<talk, arrived, buf, got, framing>>

-----------------------------------------------------------------------------
\* Octets.

Low(x, n) == [i \in 1 .. n |-> (x \div (256 ^ (i - 1))) % 256]
At(b, i, n) == SumFunction([k \in 1 .. n |-> b[i + k - 1] * 256 ^ (k - 1)])
Flag(b, weight) == (b \div weight) % 2 = 1
Bit(p, weight) == IF p THEN weight ELSE 0

Weights == [overflow |-> 1, blocked |-> 16, substituted |-> 32,
            not_topical |-> 64, invalid |-> 128]

QualityBits(q) == SumFunction([f \in q |-> Weights[f]])
QualityOf(b, known) == {f \in known : Flag(b, Weights[f])}
NoOverflow == DOMAIN Weights \ {"overflow"}

TimeOctets(t) ==
  Low(t.millisecond, 2) \o
  <<(t.minute % 64) + Bit(t.invalid, 128), (t.hour % 32) + Bit(t.summer_time, 128),
    (t.day % 32) + 32 * (t.weekday % 8), t.month % 16, t.year % 128>>

TimeOf(b) ==
  [millisecond |-> At(b, 1, 2), minute |-> b[3] % 64, invalid |-> Flag(b[3], 128),
   hour |-> b[4] % 32, summer_time |-> Flag(b[4], 128), day |-> b[5] % 32,
   weekday |-> b[5] \div 32, month |-> b[6] % 16, year |-> b[7] % 128]

-----------------------------------------------------------------------------
\* Elements: a type is a sequence of parts.

Parts(type) ==
  CASE type = 1 -> <<"siq">>        [] type = 30 -> <<"siq", "time">>
    [] type = 13 -> <<"f32", "qds">> [] type = 36 -> <<"f32", "qds", "time">>
    [] type = 45 -> <<"sco">>       [] type = 50 -> <<"f32", "qos">>
    [] type \in {70, 100} -> <<"octet">>
    [] type = 103 -> <<"time">>

\* Octets of an element; 0 for a type that is not implemented.
Size(type) ==
  CASE type \in {1, 45, 70, 100} -> 1 [] type \in {13, 50} -> 5
    [] type = 30 -> 8 [] type = 36 -> 12 [] type = 103 -> 7 [] OTHER -> 0

PartOctets(part, e) ==
  CASE part = "siq" -> <<QualityBits(e.quality \ {"overflow"}) + Bit(e.on, 1)>>
    [] part = "qds" -> <<QualityBits(e.quality)>>
    [] part = "sco" -> <<Bit(e.on, 1) + 4 * (e.qualifier % 32) + Bit(e.select, 128)>>
    [] part = "qos" -> <<(e.qualifier % 128) + Bit(e.select, 128)>>
    [] part = "octet" -> <<e.octet>>
    [] part = "f32" -> e.value
    [] part = "time" -> TimeOctets(e.time)

ElementOctets(type, e) ==
  FoldLeft(LAMBDA out, part : out \o PartOctets(part, e), <<>>, Parts(type))

\* What the octets b say, read from their start, and what is left of them.
PartOf(part, b) ==
  CASE part = "siq" -> [on |-> Flag(b[1], 1), quality |-> QualityOf(b[1], NoOverflow)]
    [] part = "qds" -> [quality |-> QualityOf(b[1], DOMAIN Weights)]
    [] part = "sco" -> [on |-> Flag(b[1], 1), select |-> Flag(b[1], 128),
                        qualifier |-> (b[1] \div 4) % 32]
    [] part = "qos" -> [select |-> Flag(b[1], 128), qualifier |-> b[1] % 128]
    [] part = "octet" -> [octet |-> b[1]]
    [] part = "f32" -> [value |-> SubSeq(b, 1, 4)]
    [] part = "time" -> [time |-> TimeOf(b)]

PartSize(part) == CASE part = "f32" -> 4 [] part = "time" -> 7 [] OTHER -> 1

ElementOf(type, b) ==
  FoldLeft(LAMBDA acc, part :
             [e |-> acc.e @@ PartOf(part, acc.b),
              b |-> SubSeq(acc.b, PartSize(part) + 1, Len(acc.b))],
           [e |-> <<>>, b |-> b], Parts(type)).e

-----------------------------------------------------------------------------
\* ASDUs.

Causes == 1 .. 10 \cup {20} \cup 44 .. 47
UnknownType == 44
UnknownCause == 45

Head6(a, count) ==
  <<a.type, count, a.cause + Bit(a.negative, 64) + Bit(a.test, 128), a.originator>>
  \o Low(a.common_address, 2)

\* Asdu::encode: every object with its own address.
AsduOctets(a) ==
  FoldLeft(LAMBDA out, o : out \o Low(o.ioa, 3) \o ElementOctets(a.type, o.element),
           Head6(a, Len(a.objects) % 128), a.objects)

\* What a centre may send as well (external): one address for all.
SequenceOctets(a) ==
  FoldLeft(LAMBDA out, o : out \o ElementOctets(a.type, o.element),
           Head6(a, Len(a.objects) + 128) \o Low(a.objects[1].ioa, 3), a.objects)

\* Mutant: in a sequence every object has the first address.
ObjectsOfSame(type, b, sequence, count) ==
  LET size == Size(type)
      at(k) == IF sequence THEN 10 + (k - 1) * size ELSE 10 + (k - 1) * (3 + size)
  IN  [k \in 1 .. count |->
        [ioa |-> IF sequence THEN At(b, 7, 3) ELSE At(b, at(k) - 3, 3),
         element |-> ElementOf(type, SubSeq(b, at(k), at(k) + size - 1))]]

ObjectsOf(type, b, sequence, count) ==
  LET size == Size(type)
      at(k) == IF sequence THEN 10 + (k - 1) * size ELSE 10 + (k - 1) * (3 + size)
  IN  [k \in 1 .. count |->
        [ioa |-> IF sequence THEN At(b, 7, 3) + k - 1 ELSE At(b, at(k) - 3, 3),
         element |-> ElementOf(type, SubSeq(b, at(k), at(k) + size - 1))]]

Error(kind, raw) == [error |-> kind, raw |-> raw]

\* Asdu::decode; an ASDU has at least one object.
AsduOf(b) ==
  LET type == b[1]
      sequence == b[2] >= 128
      count == b[2] % 128
      cause == b[3] % 64
      size == Size(type)
      expected == 6 + IF sequence THEN 3 + count * size ELSE count * (3 + size)
  IN  IF Len(b) < 6 THEN Error("Truncated", <<>>)
      ELSE IF size = 0 THEN Error("UnsupportedType", b)
      ELSE IF cause \notin Causes THEN Error("UnsupportedCause", b)
      ELSE IF Len(b) < expected THEN Error("Truncated", <<>>)
      ELSE [type |-> type, cause |-> cause, negative |-> Flag(b[3], 64),
            test |-> Flag(b[3], 128), originator |-> b[4],
            common_address |-> At(b, 5, 2),
            objects |-> ObjectsOf(type, b, sequence, count)]

Mirror(a, cause, negative) == [a EXCEPT !.cause = cause, !.negative = negative]

\* Mutant: the test bit is lost.
MirrorRawNoTest(raw, cause) ==
  IF Len(raw) > 2 THEN [raw EXCEPT ![3] = 64 + cause] ELSE raw

MirrorRaw(raw, cause) ==
  IF Len(raw) > 2 THEN [raw EXCEPT ![3] = Bit(@ >= 128, 128) + 64 + cause] ELSE raw

\* Station::serve: what is sent back for an ASDU it does not understand.
Refusal(decoded) ==
  CASE decoded.error = "UnsupportedType" -> <<MirrorRaw(decoded.raw, UnknownType)>>
    [] decoded.error = "UnsupportedCause" -> <<MirrorRaw(decoded.raw, UnknownCause)>>
    [] OTHER -> <<>>

-----------------------------------------------------------------------------
\* Frames.

START == 104
MaxLength == 253

UBits == [StartDtAct |-> 7, StartDtCon |-> 11, StopDtAct |-> 19,
          StopDtCon |-> 35, TestFrAct |-> 67, TestFrCon |-> 131]

Control(f) ==
  CASE f.type = "I" -> Low(2 * f.ns, 2) \o Low(2 * f.nr, 2) \o f.asdu
    [] f.type = "S" -> <<1, 0>> \o Low(2 * f.nr, 2)
    [] f.type = "U" -> <<UBits[f.f], 0, 0, 0>>

\* Apdu::encode
Encode(f) == <<START, Len(Control(f))>> \o Control(f)

Bad == [type |-> "bad"]
More == [type |-> "more"]

\* The frame in the control octets and ASDU c.
FrameOf(c) ==
  CASE c[1] % 2 = 0 ->
         [type |-> "I", ns |-> At(c, 1, 2) \div 2, nr |-> At(c, 3, 2) \div 2,
          asdu |-> SubSeq(c, 5, Len(c))]
    [] c[1] % 2 = 1 /\ Len(c) # 4 -> Bad
    [] c[1] % 4 = 1 /\ Len(c) = 4 -> [type |-> "S", nr |-> At(c, 3, 2) \div 2]
    [] c[1] % 4 = 3 /\ Len(c) = 4 ->
         IF \E f \in DOMAIN UBits : UBits[f] = c[1]
         THEN [type |-> "U", f |-> CHOOSE f \in DOMAIN UBits : UBits[f] = c[1]]
         ELSE Bad

\* Mutant: a frame is taken before its last octet is there.
ParseEarly(b) ==
  CASE Len(b) < 2 -> More
    [] Len(b) >= 2 /\ (b[1] # START \/ b[2] \notin 4 .. MaxLength) -> Bad
    [] OTHER -> IF Len(b) < 1 + b[2] \/ Len(b) < 6 THEN More
                ELSE FrameOf(SubSeq(b, 3, IF Len(b) < 2 + b[2] THEN Len(b) ELSE 2 + b[2]))

\* Apdu::parse: the frame at the front of the buffer, if it is all there.
Parse(b) ==
  CASE Len(b) < 2 -> More
    [] Len(b) >= 2 /\ (b[1] # START \/ b[2] \notin 4 .. MaxLength) -> Bad
    [] OTHER -> IF Len(b) < 2 + b[2] THEN More ELSE FrameOf(SubSeq(b, 3, 2 + b[2]))

\* parse_all: no frame has fewer than six octets.
ParseAll(b) ==
  LET take(acc, i) ==
        LET f == Parse(acc.buf)
        IN  IF acc.bad \/ f = More THEN acc
            ELSE IF f = Bad THEN [acc EXCEPT !.bad = TRUE]
            ELSE [acc EXCEPT !.got = Append(@, f),
                             !.buf = SubSeq(@, 3 + acc.buf[2], Len(@))]
  IN  FoldLeft(take, [buf |-> b, got |-> <<>>, bad |-> FALSE],
               [i \in 1 .. Len(b) \div 6 + 1 |-> i])

-----------------------------------------------------------------------------
\* A stream that arrives in pieces.

Stream == FlattenSeq([i \in DOMAIN talk |-> talk[i].octets])

WireInit ==
  /\ talk \in Talks
  /\ arrived = 0 /\ buf = <<>> /\ got = <<>> /\ framing = FALSE

Read ==
  /\ ~framing
  /\ \E n \in arrived + 1 .. Len(Stream) :
       LET read == ParseAll(buf \o SubSeq(Stream, arrived + 1, n))
       IN  /\ arrived' = n
           /\ buf' = read.buf
           /\ got' = got \o read.got
           /\ framing' = read.bad
  /\ UNCHANGED talk

\* Nothing more comes, or the connection is closed.
Silent == (framing \/ arrived = Len(Stream)) /\ UNCHANGED wirevars

WireNext == Read \/ Silent

-----------------------------------------------------------------------------
\* Properties.

\* Letters that have arrived whole.
Whole ==
  {i \in DOMAIN talk :
     arrived >= Len(FlattenSeq([k \in 1 .. i |-> talk[k].octets]))}

\* However the stream is cut, the session gets each frame once, in order and
\* as soon as its last octet is there; after a malformed one the connection
\* ends and nothing that follows is taken for a frame.
FramesAreRead ==
  LET bad == {i \in DOMAIN talk : talk[i].means = Malformed}
      good == {i \in Whole : \A k \in bad : i < k}
  IN  /\ got = [i \in good |-> talk[i].means]
      /\ framing => bad # {}
      /\ bad \cap Whole # {} => framing

\* What the session hands on is what was meant, object by object; what the
\* station does not know goes back as it came, refused.
AsdusAreRead ==
  \A i \in DOMAIN got :
    got[i].type = "I" =>
      LET a == AsduOf(got[i].asdu)
          raw == got[i].asdu
          back == Refusal(a)[1]
      IN  IF "error" \notin DOMAIN a THEN a = talk[i].asdu
          ELSE /\ talk[i].asdu.error = a.error
               /\ a.error # "Truncated" =>
                    /\ Len(back) = Len(raw)
                    /\ \A k \in DOMAIN raw \ {3} : back[k] = raw[k]
                    /\ Flag(back[3], 128) = Flag(raw[3], 128) /\ Flag(back[3], 64)
                    /\ back[3] % 64 \in {UnknownType, UnknownCause}

\* A letter is what it means, on both sides.
WireIsFaithful == FramesAreRead /\ AsdusAreRead
=============================================================================
