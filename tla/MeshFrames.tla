----------------------------- MODULE MeshFrames -----------------------------
(***************************************************************************)
(* The rider mesh's frames (mesh_proto.c), its identity and friend records  *)
(* as the phone (RiderMesh.kt) and the terminal write them, and the         *)
(* device-info value.  Names are sequences of bytes on a terminal, texts on  *)
(* the phone.                                                               *)
(***************************************************************************)
EXTENDS Wire

ReadName(buf, at, n) ==
    IF n > 12 \/ \E i \in 1..n : buf[at + i] = 0 THEN Refused ELSE Bytes(buf, at, n)

PutHeader(h) == <<79, 65, 2, h.type>> \o h.sender \o U16(h.seq)
DecodeHeader(buf) ==
    IF Len(buf) < 14 THEN Refused
    ELSE IF SubSeq(buf, 1, 3) # <<79, 65, 2>> THEN Refused
    ELSE [type |-> buf[4], sender |-> Bytes(buf, 4, 8), seq |-> ReadU16(buf, 12)]

-----------------------------------------------------------------------------
(* A rider's look: in HELLO and REQUEST as it is, in LOOK encrypted.        *)

PutLook(look) == <<look.avatar>> \o look.accent \o <<Len(look.name)>> \o look.name \o <<0>>
\* All the bytes there are, and custom art skipped.
ReadLook(buf) ==
    IF Len(buf) < 6 THEN Refused
    ELSE LET n == buf[5]
         IN IF Len(buf) < 6 + n THEN Refused
            ELSE IF ReadName(buf, 5, n) = Refused \/ buf[6 + n] > 1 THEN Refused
            ELSE IF Len(buf) # 6 + n + 80 * buf[6 + n] THEN Refused
            ELSE [avatar |-> buf[1], accent |-> SubSeq(buf, 2, 4), name |-> ReadName(buf, 5, n)]

\* caps, whether a look follows, the look.
EncodeHello(h, look, caps) ==
    PutHeader(h) \o <<caps, IF look = Nothing THEN 0 ELSE 1>> \o (IF look = Nothing THEN <<>> ELSE PutLook(look))
DecodeHello(buf) ==
    IF Len(buf) < 16 THEN Refused
    ELSE IF buf[16] > 1 \/ (buf[16] = 0 /\ Len(buf) # 16) THEN Refused
    ELSE LET look == IF buf[16] = 0 THEN Nothing ELSE ReadLook(SubSeq(buf, 17, Len(buf)))
         IN IF look = Refused THEN Refused ELSE [look |-> look, caps |-> buf[15]]

\* ACCEPT, DECLINE, ACK: to one rider.
EncodeTarget(h, target) == PutHeader(h) \o target
DecodeTarget(buf) == IF Len(buf) < 22 THEN Refused ELSE [target |-> Bytes(buf, 14, 8)]

EncodeRequest(h, target, look) == EncodeTarget(h, target) \o PutLook(look)
DecodeRequest(buf) ==
    IF Len(buf) < 22 THEN Refused
    ELSE LET look == ReadLook(SubSeq(buf, 23, Len(buf)))
         IN IF look = Refused THEN Refused ELSE [target |-> Bytes(buf, 14, 8), look |-> look]

EncodeKeys(h, target, id, key) == EncodeTarget(h, target) \o id \o key
DecodeKeys(buf) ==
    IF Len(buf) < 46 THEN Refused
    ELSE [target |-> Bytes(buf, 14, 8), id |-> Bytes(buf, 22, 8), key |-> Bytes(buf, 30, 16)]

-----------------------------------------------------------------------------
(* Sealed frames.  The tag is a sum that any one byte of what it covers     *)
(* changes; the ciphertext stands for itself.                               *)

Mac(bytes, i) ==
    LET sum[j \in 0..Len(bytes)] == IF j = 0 THEN i ELSE (sum[j - 1] + bytes[j] * (2 * (i + j) + 1)) % 256
    IN sum[Len(bytes)]
Seal(key, nonce, aad, plain) ==
    LET covered == key \o nonce \o aad \o plain IN plain \o [i \in 1..8 |-> Mac(covered, i)]
Unseal(key, nonce, aad, sealed) ==
    LET plain == SubSeq(sealed, 1, Len(sealed) - 8)
    IN IF sealed = Seal(key, nonce, aad, plain) THEN plain ELSE Refused

\* The sender's pseudonym, three bytes of the session, the frame's number.
FrameNonce(buf) == Bytes(buf, 4, 8) \o Bytes(buf, 14, 3) \o Bytes(buf, 12, 2)
\* Header and session: what a relay may not edit, and need not read.
Aad(buf) == SubSeq(buf, 1, 18)

PutPos(pos) == U32(pos.lat) \o U32(pos.lon) \o U16(pos.speed) \o U16(pos.heading) \o <<pos.acc>>
EncodePos(h, key, session, pos, age, ttl) ==
    LET open == PutHeader(h) \o U32(session)
    IN open \o U16(age) \o <<ttl>> \o Seal(key, FrameNonce(open), open, PutPos(pos))
DecodePos(buf, key) ==
    IF Len(buf) < 42 THEN Refused
    ELSE LET pt == Unseal(key, FrameNonce(buf), Aad(buf), Bytes(buf, 21, 21))
         IN IF pt = Refused THEN Refused
            ELSE [lat |-> ReadU32(pt, 0), lon |-> ReadU32(pt, 4), speed |-> ReadU16(pt, 8),
                  heading |-> ReadU16(pt, 10), acc |-> pt[13],
                  age |-> ReadU16(buf, 18), ttl |-> buf[21]]

EncodeLook(h, key, session, look) ==
    LET open == PutHeader(h) \o U32(session) IN open \o Seal(key, FrameNonce(open), open, PutLook(look))
DecodeLook(buf, key) ==
    IF Len(buf) < 32 \/ Len(buf) > 26 + 98 THEN Refused
    ELSE LET pt == Unseal(key, FrameNonce(buf), Aad(buf), SubSeq(buf, 19, Len(buf)))
         IN IF pt = Refused THEN Refused ELSE ReadLook(pt)

-----------------------------------------------------------------------------
(* Between a phone and its terminal.                                        *)

NameBytes(text) == Utf8Truncated(Encoded(text), 12)

PhoneIdentity(i) == <<1>> \o i.id \o i.key \o <<Len(NameBytes(i.name))>> \o NameBytes(i.name)
IdentityEncode(i) == <<1>> \o i.id \o i.key \o <<Len(i.name)>> \o i.name
IdentityDecode(buf) ==
    IF Len(buf) < 26 THEN Refused
    ELSE IF buf[1] # 1 \/ Len(buf) # 26 + buf[26] THEN Refused
    ELSE IF ReadName(buf, 26, buf[26]) = Refused THEN Refused
    ELSE [id |-> Bytes(buf, 1, 8), key |-> Bytes(buf, 9, 16), name |-> ReadName(buf, 26, buf[26])]

PhoneFriend(f) ==
    Laid(122, <<<<0, f.id>>, <<8, f.key>>, <<24, <<f.avatar>> \o f.accent>>,
                <<28, <<IF f.art = Nothing THEN 0 ELSE 1>>>>, <<29, <<Len(NameBytes(f.name))>>>>,
                <<30, NameBytes(f.name)>>, <<42, IF f.art = Nothing THEN <<>> ELSE f.art>>>>)
FriendEncode(f) ==
    Laid(122, <<<<0, f.id>>, <<8, f.key>>, <<24, <<f.avatar>> \o f.accent>>, <<28, <<0>>>>,
                <<29, <<Len(f.name)>>>>, <<30, f.name>>>>)
\* The terminal's reading of a whole record; mesh.c has checked its length.
FriendDecode(buf) ==
    IF ReadName(buf, 30, buf[30]) = Refused THEN Refused
    ELSE [id |-> Bytes(buf, 0, 8), key |-> Bytes(buf, 8, 16), avatar |-> buf[25],
          accent |-> Bytes(buf, 25, 3), name |-> ReadName(buf, 30, buf[30])]
\* The phone's.
PhoneReadsFriend(buf) ==
    IF Len(buf) # 122 THEN Refused
    ELSE IF buf[30] > 12 THEN Refused
    ELSE [id |-> Bytes(buf, 0, 8), key |-> Bytes(buf, 8, 16), avatar |-> buf[25],
          accent |-> Bytes(buf, 25, 3), name |-> Bytes(buf, 30, buf[30]),
          art |-> IF buf[29] % 2 = 1 THEN Bytes(buf, 42, 80) ELSE Nothing]

\* board.tier and board.px are the board's; its caps: 1 avatar upload, 2
\* unfragmented packets, 4 Apple notifications.
DeviceInfo(board) ==
    <<1, board.id, board.tier, 1, 3 + (IF board.ancs THEN 4 ELSE 0)>> \o U16(board.px) \o board.version
ParseDeviceInfo(buf) ==
    IF Len(buf) < 7 THEN Refused
    ELSE IF buf[1] # 1 THEN Refused
    ELSE [id |-> buf[2], tier |-> buf[3], schema |-> buf[4], upload |-> buf[5] % 2 = 1,
          px |-> ReadU16(buf, 5), version |-> SubSeq(buf, 8, Len(buf))]

\* Four levels of an avatar's 16x16 picture, then of its 8x8 one, to a byte ...
FromLevels(levels) ==
    [b \in 1..(Len(levels) \div 4) |->
        FoldLeft(LAMBDA byte, i : 4 * byte + levels[4 * (b - 1) + i], 0, <<1, 2, 3, 4>>)]
\* ... and the level the terminal draws the i-th dot with.
DrawnLevel(bytes, i) == (bytes[i \div 4 + 1] \div (4 ^ (3 - (i % 4)))) % 4
=============================================================================
