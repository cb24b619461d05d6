-------------------------------- MODULE Wire --------------------------------
(***************************************************************************)
(* What the phone and the terminals write to each other, byte for byte: the *)
(* helpers every format uses, the incoming-call packets (CallPacket.kt,     *)
(* call_packet.c) and the settings' tag-length-value list (SettingsTlv.kt,  *)
(* settings.c).  Offsets count from 0, as in the code.                      *)
(*                                                                          *)
(* A 32-bit value is the pair of its 16-bit halves, the high one first.  A  *)
(* text is a sequence of characters, a few of every width UTF-8 knows.      *)
(***************************************************************************)
EXTENDS Integers, SequencesExt

CONSTANTS
    Nothing,     \* null; no such field
    NotANumber,  \* a sensor's NaN
    Refused      \* the reader's answer to what it will not read

\* The bytes b laid over a buffer of zeros at each offset, in order.
Laid(size, puts) ==
    FoldLeft(LAMBDA buf, p : [i \in 1..size |->
                 IF i - p[1] \in 1..Len(p[2]) THEN p[2][i - p[1]] ELSE buf[i]],
             [i \in 1..size |-> 0], puts)
Bytes(buf, at, n) == SubSeq(buf, at + 1, at + n)

U16(v) == <<v % 256, (v \div 256) % 256>>
U32(w) == U16(w[2]) \o U16(w[1])
ReadU16(buf, at) == buf[at + 1] + 256 * buf[at + 2]
ReadI16(buf, at) == LET u == ReadU16(buf, at) IN IF u < 32768 THEN u ELSE u - 65536
ReadU32(buf, at) == <<ReadU16(buf, at + 2), ReadU16(buf, at)>>

\* Characters of one to four bytes: a, e acute, a no-break space, Cyrillic ya,
\* a Hangul syllable, a motorcycle.
Utf8 == [a |-> <<97>>, e |-> <<195, 169>>, gap |-> <<194, 160>>, ya |-> <<209, 143>>,
         han |-> <<237, 149, 156>>, moto |-> <<240, 159, 143, 141>>]
Encoded(text) == FlattenSeq([i \in 1..Len(text) |-> Utf8[text[i]]])

Continues(b) == b \div 64 = 2
\* At most max of the bytes, never splitting a character.
Utf8Truncated(bytes, max) ==
    IF Len(bytes) <= max THEN bytes
    ELSE SubSeq(bytes, 1, CHOOSE end \in 0..max :
             /\ end = 0 \/ ~Continues(bytes[end + 1])
             /\ \A more \in (end + 1)..max : Continues(bytes[more + 1]))

\* Bytes up to the first zero.
UpToZero(bytes) ==
    LET ends == {i \in 1..Len(bytes) : bytes[i] = 0}
    IN IF ends = {} THEN bytes ELSE SubSeq(bytes, 1, (CHOOSE i \in ends : \A j \in ends : i <= j) - 1)

-----------------------------------------------------------------------------
(* Calls.                                                                   *)

CallTypes == [ring |-> 1, clear |-> 2, active |-> 3]

PackCallEvent(c) ==
    Laid(64, <<<<0, <<1, CallTypes[c.type]>>>>, <<2, U16(c.id)>>,
               <<4, Utf8Truncated(Encoded(c.caller), 40)>>,
               <<44, Utf8Truncated(Encoded(c.number), 20)>>>>)

\* kLatin1Fold, of the accented letters at hand.
Latin1Fold == [b \in {169} |-> 101]
Width(b) == IF b >= 240 THEN 4 ELSE IF b >= 224 THEN 3 ELSE IF b >= 192 THEN 2 ELSE 1
Letter(bytes, i) ==
    CASE bytes[i] = 195                          -> Latin1Fold[bytes[i + 1]]
      [] bytes[i] = 194 /\ bytes[i + 1] = 160    -> 32
      [] OTHER                                   -> 63
\* call_fold_ascii: a letter, a space or a question mark for each character, up
\* to a character the field cuts short.
FoldAscii(field) ==
    LET n == Len(field)
        from[i \in 1..(n + 1)] ==
            IF i > n THEN <<>>
            ELSE IF field[i] = 0 THEN <<>>
            ELSE IF field[i] < 128 THEN <<field[i]>> \o from[i + 1]
            ELSE IF i + Width(field[i]) > n + 1 THEN <<>>
            ELSE <<Letter(field, i)>> \o from[i + Width(field[i])]
    IN from[1]

CallEventDecode(buf) ==
    IF Len(buf) < 64 THEN Refused
    ELSE IF buf[1] # 1 \/ buf[2] \notin {1, 2, 3} THEN Refused
    ELSE [type |-> buf[2], id |-> ReadU16(buf, 2),
          caller |-> FoldAscii(Bytes(buf, 4, 40)), number |-> FoldAscii(Bytes(buf, 44, 20))]

CallActionEncode(id) == <<1, 1>> \o U16(id)
ParseCallAccept(buf) ==
    IF Len(buf) < 4 THEN Refused
    ELSE IF buf[1] # 1 \/ buf[2] # 1 THEN Refused
    ELSE ReadU16(buf, 2)

-----------------------------------------------------------------------------
(* Settings: a function from tags to values.  Tag 1 is the accent, three    *)
(* bytes; 2 the avatar; 3 to 10 are switches.                               *)

Tags == 1..10
TlvRecord(tag, value) == <<tag, Len(value)>> \o value
Records(s) == [t \in Tags |-> TlvRecord(t, IF t = 1 THEN s[t] ELSE <<s[t]>>)]

\* The phone's writes, each of MAX_WRITE_BYTES at most and readable on its own.
EncodeWrites(s) ==
    FoldLeft(LAMBDA ws, r : IF Len(Last(ws)) + Len(r) > 20 THEN Append(ws, <<1>> \o r)
                            ELSE Front(ws) \o <<Last(ws) \o r>>,
             <<<<1>>>>, Records(s))
\* The terminal's whole answer to a read.
SettingsTlvEncode(s) == <<1>> \o FlattenSeq(Records(s))

\* The records of a list after its schema byte; the last of a torn list is Torn.
Torn == [tag |-> 0 - 1, value |-> <<>>]
Parsed(buf) ==
    LET n == Len(buf)
        from[i \in 2..(n + 1)] ==
            IF i > n THEN <<>>
            ELSE IF i = n THEN <<Torn>>
            ELSE IF n - i - 1 < buf[i + 1] THEN <<Torn>>
            ELSE <<[tag |-> buf[i], value |-> SubSeq(buf, i + 2, i + 1 + buf[i + 1])]>>
                     \o from[i + 2 + buf[i + 1]]
    IN from[2]

kByteTagMax == [t \in 2..10 |-> IF t = 2 THEN 255 ELSE 1]
\* Were an avatar anything its byte can hold.
TakesAnyAvatar(r) ==
    CASE r.tag = 1        -> Len(r.value) = 3
      [] r.tag \in 2..10  -> Len(r.value) = 1 /\ r.value[1] <= kByteTagMax[r.tag]
      [] OTHER            -> r # Torn
\* What the terminal takes ...
TerminalTakes(r) ==
    CASE r.tag = 1        -> Len(r.value) = 3
      [] r.tag \in 2..10  -> /\ Len(r.value) = 1 /\ r.value[1] <= kByteTagMax[r.tag]
                             /\ r.tag = 2 => r.value[1] <= 9 \/ r.value[1] = 255
      [] OTHER            -> r # Torn
\* ... and the phone.
PhoneTakes(r) ==
    CASE r.tag = 1        -> Len(r.value) = 3
      [] r.tag \in 2..10  -> /\ Len(r.value) = 1
                             /\ IF r.tag = 2 THEN r.value[1] \in 0..9 \cup {255} ELSE r.value[1] <= 1
      [] OTHER            -> r # Torn

\* All of the list on top of s, or none of it.
Applied(s, r) == IF r.tag \in Tags THEN [s EXCEPT ![r.tag] = IF r.tag = 1 THEN r.value ELSE r.value[1]]
                 ELSE s
TlvDecode(buf, s, Takes(_)) ==
    IF buf = <<>> THEN Refused
    ELSE IF buf[1] # 1 THEN Refused
    ELSE IF \E k \in DOMAIN Parsed(buf) : ~Takes(Parsed(buf)[k]) THEN Refused
    ELSE FoldLeft(Applied, s, Parsed(buf))
SettingsTlvDecode(buf, s) == TlvDecode(buf, s, TerminalTakes)
PhoneDecode(buf, s) == TlvDecode(buf, s, PhoneTakes)

-----------------------------------------------------------------------------
(* The 210-byte packet of navigation and telemetry: packRawNotifPacket on   *)
(* the phone, packet_decode on the terminal.                                *)
(*                                                                          *)
(* A reading is a number of halves of the unit the packet keeps, so that    *)
(* rounding shows: Nothing when there is none, NotANumber when the sensor   *)
(* gives that.                                                              *)

Clamp(v, lo, hi) == IF v < lo THEN lo ELSE IF v > hi THEN hi ELSE v
Or(v, unknown) == IF v = Nothing THEN unknown ELSE v

\* As Math.round has it, a NaN is zero.
ScaledNaN(v) == IF v = Nothing THEN Nothing ELSE IF v = NotANumber THEN 0 ELSE (v + 1) \div 2
\* Rounded to the nearest, a half up; a sensor's NaN is no reading.
ScaledOrNull(v) == IF v \in {Nothing, NotANumber} THEN Nothing ELSE (v + 1) \div 2
InRange(v, lo, hi) == IF ScaledOrNull(v) = Nothing THEN Nothing ELSE Clamp(ScaledOrNull(v), lo, hi)
Turned(v) == IF v = Nothing THEN Nothing ELSE v % 360

U16OrUnknown(v) == U16(Or(v, 65535))
I16OrUnknown(v) == U16(Or(v, 32767))
\* A progress under zero is no progress.
Progress(w) == IF w = Nothing \/ w[1] >= 32768 THEN U32(<<65535, 65535>>) ELSE U32(w)
String(text, max) ==
    LET bytes == Encoded(text)
    IN IF Len(bytes) <= max - 1 THEN bytes ELSE SubSeq(bytes, 1, max - 1)
MotionVector(axes) ==
    FlattenSeq([i \in 1..3 |-> I16OrUnknown(IF axes = Nothing THEN Nothing ELSE InRange(axes[i], -32766, 32766))])

\* Where each of the first eight segments ends, in thousandths of them all.
Segments(segments) ==
    LET valid == SelectSeq(segments, LAMBDA s : s.length > 0)
        sum[i \in 0..Len(valid)] == IF i = 0 THEN 0 ELSE sum[i - 1] + valid[i].length
        kept == 1..(IF Len(valid) > 8 THEN 8 ELSE Len(valid))
    IN <<Len([i \in kept |-> i])>>
         \o FlattenSeq([i \in kept |-> U16((sum[i] * 1000) \div sum[Len(valid)]) \o valid[i].color])

HasFix(m) == m.lat \notin {Nothing, NotANumber} /\ m.lon \notin {Nothing, NotANumber}
Fix(m, degrees) == U32(IF HasFix(m) THEN degrees ELSE <<32767, 65535>>)

\* An iPhone's packet says that it carries no navigation and whose it is.
PackRawNotifPacket(m) ==
    Laid(210, <<
        <<0, <<IF m.ios THEN 6 ELSE 5, (IF m.fix THEN 1 ELSE 0) + (IF m.ios THEN 6 ELSE 0)>>>>,
        <<2, U32(m.sequence)>>,
        <<6, U16OrUnknown(InRange(m.speed, 0, 65534))>>,
        <<8, U16OrUnknown(Turned(m.heading))>>,
        <<10, <<Or(IF m.battery = Nothing THEN Nothing ELSE Clamp(m.battery, 0, 254), 255)>>>>,
        <<11, Progress(m.progress)>>, <<15, Progress(m.progressMax)>>,
        <<19, String(m.distance, 16)>>, <<35, String(m.eta, 32)>>, <<67, String(m.title, 64)>>,
        <<131, MotionVector(m.accel)>>, <<137, MotionVector(m.gyro)>>,
        <<143, I16OrUnknown(Turned(m.icon))>>,
        <<145, U16OrUnknown(InRange(m.bearingAccuracy, 0, 65534))>>,
        <<147, U16OrUnknown(Turned(ScaledOrNull(m.yaw)))>>,
        <<149, I16OrUnknown(InRange(m.yawRate, -32766, 32766))>>,
        <<152, IF m.now = Nothing THEN U32(<<65535, 65535>>)
               ELSE U32(<<(m.now \div 1000) \div 65536, (m.now \div 1000) % 65536>>)>>,
        <<156, I16OrUnknown(IF m.tzOffset = Nothing THEN Nothing ELSE Clamp(m.tzOffset, -32766, 32766))>>,
        <<158, Segments(m.segments)>>,
        <<200, Fix(m, m.lat)>>, <<204, Fix(m, m.lon)>>,
        <<208, U16OrUnknown(InRange(m.accuracy, 0, 65534))>> >>)

\* -1 for an unknown progress.
ReadProgress(buf, at) ==
    IF ReadU32(buf, at) = <<65535, 65535>> THEN Nothing ELSE ReadU32(buf, at)
CopyStr(buf, at, len) == UpToZero(Bytes(buf, at, len - 1))

PacketDecode(buf) ==
    IF Len(buf) < 210 THEN Refused
    ELSE IF buf[1] \notin 5..6 THEN Refused
    ELSE LET v6 == buf[1] = 6
             flag(f) == (buf[2] \div f) % 2 = 1
         IN [fix |-> flag(1), ios |-> v6 /\ flag(4),
             groups |-> {"telemetry"} \cup (IF v6 /\ flag(2) THEN {} ELSE {"nav"}),
             sequence |-> ReadU32(buf, 2), speed |-> ReadU16(buf, 6), heading |-> ReadU16(buf, 8),
             battery |-> buf[11], progress |-> ReadProgress(buf, 11), progressMax |-> ReadProgress(buf, 15),
             distance |-> CopyStr(buf, 19, 16), eta |-> CopyStr(buf, 35, 32), title |-> CopyStr(buf, 67, 64),
             accel |-> [i \in 1..3 |-> ReadI16(buf, 129 + 2 * i)],
             gyro |-> [i \in 1..3 |-> ReadI16(buf, 135 + 2 * i)],
             icon |-> ReadI16(buf, 143), bearingAccuracy |-> ReadU16(buf, 145),
             yaw |-> ReadU16(buf, 147), yawRate |-> ReadI16(buf, 149),
             epoch |-> ReadU32(buf, 152), tzOffset |-> ReadI16(buf, 156),
             segments |-> [i \in 1..(IF buf[159] <= 8 THEN buf[159] ELSE 0) |->
                 [end |-> ReadU16(buf, 154 + 5 * i), color |-> Bytes(buf, 156 + 5 * i, 3)]],
             lat |-> ReadU32(buf, 200), lon |-> ReadU32(buf, 204), accuracy |-> ReadU16(buf, 208)]

-----------------------------------------------------------------------------
(* What the terminal should know of a message once it has read it.          *)

\* The nearest value in range, or the nearest end of it; unknown, and only
\* then the sentinel, when there was no reading.
Near(v, got, lo, hi, unknown) ==
    IF v \in {Nothing, NotANumber} THEN got = unknown
    ELSE /\ got \in lo..hi
         /\ (2 * got - v) \in -1..1 \/ (v > 2 * hi /\ got = hi) \/ (v < 2 * lo /\ got = lo)
NearAngle(v, got, unknown) ==
    IF v \in {Nothing, NotANumber} THEN got = unknown
    ELSE got \in 0..359 /\ (2 * got - v) % 720 \in {0, 1, 719}
NearAxes(axes, got) ==
    \A i \in 1..3 : Near(IF axes = Nothing THEN Nothing ELSE axes[i], got[i], -32766, 32766, 32767)
Doubled(v) == IF v = Nothing THEN Nothing ELSE 2 * v
SameCount(w, got) == got = IF w = Nothing \/ w[1] >= 32768 THEN Nothing ELSE w

\* As much of the text as fits.
Begins(text, got, max) ==
    /\ IsPrefix(got, Encoded(text))
    /\ Len(got) = Len(Encoded(text)) \/ Len(got) = max - 1

\* Segments in order, each ending within a thousandth of its share of the whole.
SameRoute(segments, got) ==
    LET valid == SelectSeq(segments, LAMBDA s : s.length > 0)
        upTo(n) == FoldLeft(LAMBDA total, s : total + s.length, 0, SubSeq(valid, 1, n))
    IN /\ Len(got) = IF Len(valid) > 8 THEN 8 ELSE Len(valid)
       /\ \A i \in DOMAIN got :
             /\ got[i].color = valid[i].color
             /\ (upTo(i) * 1000 - got[i].end * upTo(Len(valid))) \in 0..(upTo(Len(valid)) - 1)

PacketTold(m, r) ==
    /\ r.fix = m.fix /\ r.ios = m.ios /\ r.sequence = m.sequence
    /\ r.groups = IF m.ios THEN {"telemetry"} ELSE {"telemetry", "nav"}
    /\ Near(m.speed, r.speed, 0, 65534, 65535) /\ NearAngle(Doubled(m.heading), r.heading, 65535)
    /\ Near(Doubled(m.battery), r.battery, 0, 254, 255)
    /\ SameCount(m.progress, r.progress) /\ SameCount(m.progressMax, r.progressMax)
    /\ Begins(m.distance, r.distance, 16) /\ Begins(m.eta, r.eta, 32) /\ Begins(m.title, r.title, 64)
    /\ NearAxes(m.accel, r.accel) /\ NearAxes(m.gyro, r.gyro) /\ NearAngle(Doubled(m.icon), r.icon, 32767)
    /\ Near(m.bearingAccuracy, r.bearingAccuracy, 0, 65534, 65535)
    /\ NearAngle(m.yaw, r.yaw, 65535) /\ Near(m.yawRate, r.yawRate, -32766, 32766, 32767)
    /\ IF m.now = Nothing THEN r.epoch = <<65535, 65535>>
       ELSE (m.now - 1000 * (65536 * r.epoch[1] + r.epoch[2])) \in 0..999
    /\ Near(Doubled(m.tzOffset), r.tzOffset, -32766, 32766, 32767)
    /\ SameRoute(m.segments, r.segments)
    /\ <<r.lat, r.lon>> = IF HasFix(m) THEN <<m.lat, m.lon>> ELSE <<<<32767, 65535>>, <<32767, 65535>>>>
    /\ Near(m.accuracy, r.accuracy, 0, 65534, 65535)
=============================================================================
