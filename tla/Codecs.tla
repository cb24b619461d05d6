------------------------------- MODULE Codecs -------------------------------
(***************************************************************************)
(* Everything one end writes, read by the other: whole, as a newer or an    *)
(* older build wrote it, cut short on the way, or changed by another rider's *)
(* terminal.                                                                *)
(***************************************************************************)
EXTENDS MeshFrames

VARIABLES
    sent,    \* what was meant: its kind, and what it says
    wire,    \* the frames still to be read
    spoilt,  \* "no", or whether the frame that is not as it was written is "next" or "was"
    held,    \* what the reader knows by now
    taken    \* its answer to the last frame, and whether that was as written

codecVars == <<sent, wire, spoilt, held, taken>>

-----------------------------------------------------------------------------
(* What is written, and where.                                              *)

Someone == [i \in 1..8 |-> 10 + i]
Another == [i \in 1..8 |-> 50 + i]
Key     == [i \in 1..16 |-> 100 + i]
Header(type) == [type |-> type, sender |-> Someone, seq |-> 515]
Session == <<258, 772>>
Board   == [id |-> 2, tier |-> 1, px |-> 300, ancs |-> TRUE, version |-> <<118, 50>>]

Written(kind, m) ==
    CASE kind = "relay"    -> <<PackRawNotifPacket(m)>>
      [] kind = "call"     -> <<PackCallEvent(m)>>
      [] kind = "accept"   -> <<CallActionEncode(m)>>
      [] kind = "settings" -> EncodeWrites(m)
      [] kind = "newer"    -> [i \in DOMAIN EncodeWrites(m) |-> EncodeWrites(m)[i] \o TlvRecord(11, <<7, 7>>)]
      [] kind = "config"   -> <<SettingsTlvEncode(m)>>
      [] kind = "device"   -> <<DeviceInfo(m)>>
      [] kind = "art"      -> <<FromLevels(m)>>
      [] kind = "identity" -> <<PhoneIdentity(m)>>
      [] kind = "own"      -> <<IdentityEncode(m)>>
      [] kind = "friend"   -> <<PhoneFriend(m)>>
      [] kind = "record"   -> <<FriendEncode(m)>>
      [] kind = "hello"    -> <<EncodeHello(Header(1), m, 0)>>
      [] kind = "request"  -> <<EncodeRequest(Header(2), Another, m)>>
      [] kind = "accepted" -> <<EncodeTarget(Header(3), m)>>
      [] kind = "keys"     -> <<EncodeKeys(Header(5), Another, Someone, m)>>
      [] kind = "pos"      -> <<EncodePos(Header(6), Key, Session, m, 300, 2)>>
      [] kind = "relayed"  -> <<[EncodePos(Header(6), Key, Session, m, 300, 2) EXCEPT ![19] = 1, ![21] = 1]>>
      [] kind = "look"     -> <<EncodeLook(Header(7), Key, Session, m)>>

Opened(buf, body) == IF DecodeHeader(buf) = Refused THEN Refused ELSE body
Reading(kind, buf) ==
    CASE kind = "relay"    -> PacketDecode(buf)
      [] kind = "call"     -> CallEventDecode(buf)
      [] kind = "accept"   -> ParseCallAccept(buf)
      [] kind \in {"settings", "newer"} -> SettingsTlvDecode(buf, held)
      [] kind = "config"   -> PhoneDecode(buf, held)
      [] kind = "device"   -> ParseDeviceInfo(buf)
      [] kind = "art"      -> [i \in 1..(4 * Len(buf)) |-> DrawnLevel(buf, i - 1)]
      [] kind \in {"identity", "own"} -> IdentityDecode(buf)
      [] kind = "friend"   -> FriendDecode(buf)
      [] kind = "record"   -> PhoneReadsFriend(buf)
      [] kind = "hello"    -> Opened(buf, DecodeHello(buf))
      [] kind = "request"  -> Opened(buf, DecodeRequest(buf))
      [] kind = "accepted" -> Opened(buf, DecodeTarget(buf))
      [] kind = "keys"     -> Opened(buf, DecodeKeys(buf))
      [] kind \in {"pos", "relayed"} -> Opened(buf, DecodePos(buf, Key))
      [] kind = "look"     -> Opened(buf, DecodeLook(buf, Key))

-----------------------------------------------------------------------------
(* What is there to say: fields at their limits one at a time, the others   *)
(* all known or all unknown.                                                *)

Letters(n) == [i \in 1..n |-> "a"]
Texts(max) == {Letters(n) \o end : n \in {0, max - 4, max - 3, max - 2, max - 1, max},
                                   end \in {<<>>, <<"e">>, <<"ya", "a">>, <<"han">>, <<"moto">>, <<"gap", "a">>}}
Halves == {Nothing, NotANumber, -1, 0, 1, 399, 400, 401, 131067, 131068, 131069, 131070, 131072}
Signed == Halves \cup {-2, -3, -65531, -65532, -65534, -70000, 65531, 65532, 65534, 65535}
Whole  == {Nothing, -40000, -1, 0, 1, 253, 254, 255, 300, 359, 360, 32766, 32767, 65535}
Words  == {Nothing, <<0, 0>>, <<0, 1>>, <<1, 0>>, <<515, 1029>>, <<32767, 65535>>, <<65535, 65535>>}
Span(n) == [length |-> n, color |-> <<n % 256, 200, 20>>]
RouteValues == {<<>>, <<Span(0)>>, <<Span(5)>>, <<Span(1), Span(2)>>, <<Span(3), Span(0), Span(4)>>,
           [i \in 1..8 |-> Span(i)], [i \in 1..9 |-> Span(100 * i)]}

Unknown == [ios |-> FALSE, fix |-> FALSE, sequence |-> <<0, 7>>, speed |-> Nothing, heading |-> Nothing,
    battery |-> Nothing, progress |-> Nothing, progressMax |-> Nothing, distance |-> <<>>, eta |-> <<>>,
    title |-> <<>>, accel |-> Nothing, gyro |-> Nothing, icon |-> Nothing, bearingAccuracy |-> Nothing,
    yaw |-> Nothing, yawRate |-> Nothing, now |-> Nothing, tzOffset |-> Nothing, segments |-> <<>>,
    lat |-> Nothing, lon |-> Nothing, accuracy |-> Nothing]
Known == [ios |-> FALSE, fix |-> TRUE, sequence |-> <<258, 772>>, speed |-> 1001, heading |-> 271,
    battery |-> 83, progress |-> <<0, 4000>>, progressMax |-> <<1, 9000>>, distance |-> Letters(4),
    eta |-> Letters(6), title |-> Letters(20), accel |-> <<21, -41, 1999>>, gyro |-> <<-3, 5, 7>>,
    icon |-> 113, bearingAccuracy |-> 91, yaw |-> 541, yawRate |-> -33, now |-> 2123456789,
    tzOffset |-> -570, segments |-> <<Span(30), Span(70)>>, lat |-> <<59000, 4>>, lon |-> <<26000, 5>>,
    accuracy |-> 9]
Telemetry == [Known EXCEPT !.ios = TRUE, !.progress = Nothing, !.progressMax = Nothing, !.distance = <<>>,
    !.eta = <<>>, !.title = <<>>, !.icon = Nothing, !.segments = <<>>]

Values == [fix |-> BOOLEAN, sequence |-> Words \ {Nothing}, speed |-> Halves, heading |-> Whole,
    battery |-> Whole, progress |-> Words, progressMax |-> Words, distance |-> Texts(16), eta |-> Texts(32),
    title |-> Texts(64), accel |-> {<<v, 2, Nothing>> : v \in Signed}, gyro |-> {<<2, 2, v>> : v \in Signed},
    icon |-> Whole, bearingAccuracy |-> Halves, yaw |-> Signed, yawRate |-> Signed,
    now |-> {Nothing, 0, 999, 1000, 2147483647}, tzOffset |-> Whole, segments |-> RouteValues,
    lat |-> {Nothing, NotANumber, <<32767, 0>>}, lon |-> {Nothing, NotANumber, <<65535, 65535>>},
    accuracy |-> Halves]
Relays == {Telemetry} \cup
    UNION {{[m EXCEPT ![f] = v] : v \in Values[f]} : m \in {Unknown, Known}, f \in DOMAIN Values}
Calls == {[type |-> "ring", id |-> 65535, caller |-> c, number |-> <<>>] : c \in Texts(40)}
    \cup {[type |-> t, id |-> 258, caller |-> Letters(40), number |-> n] : t \in DOMAIN CallTypes, n \in Texts(20)}

Default == [t \in Tags |-> CASE t = 1 -> <<0, 255, 232>> [] t = 2 -> 0 [] t \in {4, 5, 6, 8} -> 0 [] OTHER -> 1]
Settings == {[Default EXCEPT ![t] = 1 - Default[t]] : t \in 3..10}
    \cup {[Default EXCEPT ![1] = <<1, 2, 3>>, ![2] = avatar] : avatar \in {1, 9, 255}}

Names == {SubSeq(Encoded(Letters(9) \o <<"han", "a">>), 1, n) : n \in {0, 1, 9, 12}}
Looks == [avatar : {0, 255}, accent : {<<1, 2, 3>>}, name : Names]
Places == [lat : {<<59000, 4>>, <<0, 0>>}, lon : {<<26000, 65535>>}, speed : {0, 65535}, heading : {3599},
           acc : {255}]
Identities(names) == [id : {Someone}, key : {Key}, name : names]
Friends(names, art) == [id : {Another}, key : {Key}, name : names, avatar : {0, 255}, accent : {<<1, 2, 3>>}, art : art]

Said ==
    \/ \E m \in Relays : sent = [kind |-> "relay", what |-> m]
    \/ \E m \in Calls : sent = [kind |-> "call", what |-> m]
    \/ \E m \in {0, 255, 256, 65535} : sent = [kind |-> "accept", what |-> m]
    \/ \E m \in Settings, k \in {"settings", "newer", "config"} : sent = [kind |-> k, what |-> m]
    \/ sent = [kind |-> "device", what |-> Board]
    \/ sent = [kind |-> "art", what |-> [i \in 1..320 |-> (i * i + i \div 7) % 4]]
    \/ \E m \in Identities(Texts(12)) : sent = [kind |-> "identity", what |-> m]
    \/ \E m \in Identities(Names) : sent = [kind |-> "own", what |-> m]
    \/ \E m \in Friends(Texts(12), {Nothing, [i \in 1..80 |-> i]}) : sent = [kind |-> "friend", what |-> m]
    \/ \E m \in Friends(Names, {Nothing}) : sent = [kind |-> "record", what |-> m]
    \/ \E m \in Looks \cup {Nothing} : sent = [kind |-> "hello", what |-> m]
    \/ \E m \in Looks, k \in {"request", "look"} : sent = [kind |-> k, what |-> m]
    \/ \E m \in {Someone, Another} : sent = [kind |-> "accepted", what |-> m]
    \/ sent = [kind |-> "keys", what |-> Key]
    \/ \E m \in Places, k \in {"pos", "relayed"} : sent = [kind |-> k, what |-> m]

CodecsInit ==
    /\ Said /\ wire = Written(sent.kind, sent.what) /\ spoilt = "no"
    /\ held = CASE sent.kind \in {"settings", "newer"} -> [Default EXCEPT ![1] = <<9, 9, 9>>, ![2] = 3, ![10] = 0]
                [] sent.kind = "config" -> Default
                [] OTHER -> Nothing
    /\ taken = Nothing

\* Nothing to say.
CodecsRest == sent = [kind |-> "device", what |-> Board] /\ wire = <<>> /\ spoilt = "was"
              /\ held = Nothing /\ taken = Nothing

-----------------------------------------------------------------------------
(* What can have become of a frame that the reader must not take.           *)

\* Offsets and the bytes there that no reader knows what to make of.
Wrong(kind) ==
    CASE kind = "relay"    -> {<<0, 4>>, <<0, 7>>}
      [] kind = "call"     -> {<<0, 2>>, <<1, 0>>, <<1, 4>>}
      [] kind = "accept"   -> {<<0, 2>>, <<1, 2>>}
      [] kind \in {"settings", "config"} -> {<<0, 2>>, <<8, 10>>, <<8, 254>>, <<11, 2>>, <<2, 2>>, <<7, 0>>}
      [] kind = "newer"    -> {<<0, 2>>}
      [] kind = "device"   -> {<<0, 2>>}
      [] kind \in {"identity", "own"} -> {<<0, 2>>, <<25, 13>>}
      [] kind = "record"   -> {<<29, 13>>}
      [] kind = "hello"    -> {<<0, 0>>, <<2, 1>>, <<2, 3>>, <<15, 2>>, <<15, 3>>}
      [] kind = "request"  -> {<<2, 1>>, <<26, 13>>}
      [] kind \in {"pos", "relayed"} -> {<<2, 1>>} \cup {<<i, 200>> : i \in 0..41 \ 18..20}
      [] kind = "look"     -> {<<2, 1>>} \cup {<<i, 200>> : i \in 0..17}
      [] kind = "keys"     -> {<<1, 66>>}
      [] kind \in {"accepted"} -> {<<2, 3>>}
      [] OTHER             -> {}

\* A settings list that ends with a record is whole, if shorter.
Ends(m, buf) ==
    Len(buf) > 1 /\ \E k \in Tags : buf = <<1>> \o FlattenSeq(SubSeq(Records(m), buf[2], k))
Short(kind, m, buf) ==
    LET cuts == CASE kind = "relay" -> {0, 1, 209}
                  [] kind = "call" -> {3, 44, 63}
                  [] kind = "device" -> 0..6
                  [] kind \in {"art", "friend", "newer"} -> {}
                  [] OTHER -> 0..(Len(buf) - 1)
        whole(b) == kind \in {"settings", "config"} /\ (b = <<1>> \/ Ends(m, b))
    IN {b \in {SubSeq(buf, 1, n) : n \in cuts} : ~whole(b)}

Spoil ==
    /\ spoilt = "no" /\ taken = Nothing /\ spoilt' = "next"
    /\ \/ \E e \in Wrong(sent.kind) :
              /\ Head(wire)[e[1] + 1] # e[2]
              /\ wire' = [wire EXCEPT ![1] = [@ EXCEPT ![e[1] + 1] = e[2]]]
       \/ \E b \in Short(sent.kind, sent.what, Head(wire)) : wire' = [wire EXCEPT ![1] = b]
    /\ UNCHANGED <<sent, held, taken>>

Take ==
    /\ wire # <<>>
    /\ LET r == Reading(sent.kind, Head(wire))
       IN /\ taken' = [whole |-> spoilt # "next", read |-> r]
          /\ held' = IF r = Refused THEN held ELSE r
    /\ wire' = Tail(wire) /\ spoilt' = IF spoilt = "next" THEN "was" ELSE spoilt
    /\ UNCHANGED sent

CodecsNext == Spoil \/ Take

-----------------------------------------------------------------------------
(* What the reader should know once it has read everything as written.      *)

Shown(c) == CASE c = "a" -> 97 [] c = "e" -> 101 [] c = "gap" -> 32 [] OTHER -> 63
\* Every character that fits as a whole, and nothing else.
Fits(text, n, max) == /\ Len(Encoded(SubSeq(text, 1, n))) <= max
                      /\ n = Len(text) \/ Len(Encoded(SubSeq(text, 1, n + 1))) > max
Letterwise(text, got, max) ==
    \E n \in 0..Len(text) : Fits(text, n, max) /\ got = [i \in 1..n |-> Shown(text[i])]
NameOf(text, got) == \E n \in 0..Len(text) : Fits(text, n, 12) /\ got = Encoded(SubSeq(text, 1, n))

Told(kind, m, r) ==
    CASE kind = "relay"    -> PacketTold(m, r)
      [] kind = "call"     -> /\ r.type = CallTypes[m.type] /\ r.id = m.id
                              /\ Letterwise(m.caller, r.caller, 40) /\ Letterwise(m.number, r.number, 20)
      [] kind = "device"   -> r = [id |-> m.id, tier |-> m.tier, schema |-> 1, upload |-> TRUE, px |-> m.px,
                                   version |-> m.version]
      [] kind = "identity" -> r.id = m.id /\ r.key = m.key /\ NameOf(m.name, r.name)
      [] kind = "friend"   -> /\ \A f \in {"id", "key", "avatar", "accent"} : r[f] = m[f]
                              /\ NameOf(m.name, r.name)
      [] kind = "hello"    -> r = [look |-> m, caps |-> 0]
      [] kind = "request"  -> r = [target |-> Another, look |-> m]
      [] kind = "accepted" -> r = [target |-> m]
      [] kind = "keys"     -> r = [target |-> Another, id |-> Someone, key |-> m]
      [] kind = "pos"      -> r = m @@ [age |-> 300, ttl |-> 2]
      [] kind = "relayed"  -> r = m @@ [age |-> 257, ttl |-> 1]
      [] OTHER             -> r = m

\* What one end writes the other reads: a value is the nearest the format can
\* hold and is never taken for the unknown, nor the unknown for a value; a name
\* ends with a whole character; several writes leave the settings as they were
\* meant, whatever a newer phone adds; a position is read with the age and the
\* hops another terminal has changed.
ReadAsWritten == wire = <<>> /\ spoilt = "no" => Told(sent.kind, sent.what, held)

\* What is cut short, comes from a build of another format, is out of range or
\* has been changed under its seal is refused as a whole.
RefusedWhole == taken # Nothing /\ ~taken.whole => taken.read = Refused

\* The two together: what is read is what was written, or nothing.
AsWritten == ReadAsWritten /\ RefusedWhole
=============================================================================
