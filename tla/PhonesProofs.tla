---------------------------- MODULE PhonesProofs ----------------------------
(****************************************************************************)
(* Proofs about FriendSync and the ControlQueue under it, for any riders,   *)
(* caps, ring, number of drops and of posts.                                *)
(*                                                                          *)
(* The queue only ever holds one of a few shapes: the identity and the      *)
(* first cursor, one step of the walk, or what is left of a push (ShapeInv).*)
(* From the shape follow who waits for an answer (AskedInv), and that the   *)
(* terminal's list can only grow while the phone walks it, so that the      *)
(* phone has read the front of it (WalkInv) and, told of the end, all of it *)
(* but the late (ReadInv).  What the phone merges therefore has everybody   *)
(* a CLEAR to come will wipe (ClearInv), as long as there is room.          *)
(****************************************************************************)
EXTENDS FriendSync, FriendCardProofs

\* The operations of a connection, but for those of a push.
IdentityOp  == [batch |-> "identity", do |-> "identity", arg |-> 0, last |-> TRUE]
CursorOp(i) == [batch |-> "cursor", do |-> "cursor", arg |-> i, last |-> TRUE]
ReadOp(i)   == [batch |-> "read", do |-> "read", arg |-> i, last |-> TRUE]
SubscribeOp == [batch |-> "subscribe", do |-> "subscribe", arg |-> 0, last |-> TRUE]

\* What is still to be answered: the operation in flight and those queued.
Coming == ({inFlight} \ {NoOp}) \cup Members(ops)

QueueTypeOK ==
    /\ up \in BOOLEAN /\ missing \in BOOLEAN
    /\ ops \in Seq(Op) /\ inFlight \in Op \cup {NoOp}
    /\ slot \in {"free", "control", "other"}
    /\ reply \in Reply \cup {NoReply}
    /\ posts \in Nat /\ failed \in SUBSET Batch /\ asked \in SUBSET Batch /\ twice \in BOOLEAN

ListTypeOK ==
    /\ phone \in Seq(Friend) /\ Len(phone) <= Cap
    /\ acc \in Seq(Friend)
    /\ term \in Seq(Friend) /\ Len(term) <= Cap
    /\ saved \in Seq(Friend) /\ Len(saved) <= Cap
    /\ cursor \in Nat
    /\ events \in Seq(Friend) /\ notes \in Seq(Friend)
    /\ made \in SUBSET Friend /\ late \in SUBSET Friend /\ raced \in SUBSET Friend

\* Nothing waits without a link, and old firmware is sent nothing.
SlotInv ==
    /\ ~up => ops = <<>> /\ inFlight = NoOp
    /\ reply # NoReply => inFlight # NoOp
    /\ slot # "control" => inFlight = NoOp
    /\ missing => inFlight = NoOp
    /\ posts > 0 => missing

\* What waits, as onConnected, the walk and mergeAndPush queue it.
Opening ==
    /\ acc = <<>>
    /\ \/ ops = <<IdentityOp, CursorOp(0)>> /\ inFlight = NoOp
       \/ ops = <<CursorOp(0)>> /\ inFlight = IdentityOp
WalkOps == {CursorOp(Len(acc)), ReadOp(Len(acc))}
OnTheWalk ==
    \/ inFlight = NoOp /\ \E w \in WalkOps : ops = <<w>>
    \/ ops = <<>> /\ inFlight \in WalkOps
Pushing ==
    /\ \A i \in DOMAIN ops :
          IF i = Len(ops) THEN ops[i] = SubscribeOp
          ELSE /\ ops[i].batch = "push" /\ (ops[i].last <=> i = Len(ops) - 1)
               /\ \/ ops[i].do = "upsert" /\ ops[i].arg \in Friend
                  \/ ops[i].do = "clear" /\ i = 1 /\ inFlight = NoOp
    /\ \/ inFlight = NoOp
       \/ inFlight = SubscribeOp /\ ops = <<>>
       \/ /\ inFlight.batch = "push" /\ ops # <<>> /\ (inFlight.last <=> Len(ops) = 1)
          /\ inFlight.do = "clear" \/ (inFlight.do = "upsert" /\ inFlight.arg \in Friend)
ShapeInv == Opening \/ OnTheWalk \/ Pushing

\* Those who wait are those whose batch is coming and has not failed.
AskedInv == ~twice /\ asked = {op.batch : op \in Coming} \ ({"subscribe"} \cup failed)

\* The cursor is where the walk is, and what has been read is the front of the list.
Walks == \E op \in Coming : op.batch \in {"cursor", "read"}
WalkInv ==
    Walks =>
      /\ Len(acc) <= Len(term)
      /\ \A k \in 1 .. Len(acc) : acc[k] = term[k]
      /\ (ReadOp(Len(acc)) \in Coming => cursor = Len(acc))
      /\ (inFlight = CursorOp(Len(acc)) /\ reply # NoReply) => cursor = Len(acc)
\* An answer to a read is the next friend, or the end of the list: everybody but
\* those made since it was composed has been read.
ReadInv ==
    (reply # NoReply /\ inFlight = ReadOp(Len(acc))) =>
      /\ reply.ok
      /\ IF reply.value = End THEN Members(term) \subseteq Members(acc) \cup late
         ELSE Len(acc) < Len(term) /\ reply.value = term[Len(acc) + 1]
\* A CLEAR to come wipes nobody the phone has not got, but for the late.
Clearing ==
    \/ inFlight # NoOp /\ reply = NoReply /\ inFlight.do = "clear"
    \/ \E i \in DOMAIN ops : ops[i].do = "clear"
ClearInv == (Clearing /\ Len(phone) < Cap) => Members(term) \subseteq Members(phone) \cup late
\* A power cut takes the terminal back to what it saved, and loses nobody either.
SavedInv == Len(phone) < Cap => made \ raced \subseteq Members(phone) \cup Members(saved)

-----------------------------------------------------------------------------
LEMMA TakeProperties ==
    ASSUME NEW S, NEW s \in Seq(S), NEW n \in Nat
    PROVE  /\ Take(s, n) \in Seq(S)
           /\ Len(Take(s, n)) <= n
           /\ Len(Take(s, n)) <= Len(s)
           /\ Len(Take(s, n)) < n => Take(s, n) = s
           /\ Len(s) <= n => Take(s, n) = s
           /\ Len(s) >= n => Len(Take(s, n)) = n
           /\ \A i \in 1 .. Len(Take(s, n)) : Take(s, n)[i] = s[i]
<1> DEFINE m == IF Len(s) < n THEN Len(s) ELSE n
<1>1. Len(s) \in Nat /\ m \in Nat /\ m <= n /\ m <= Len(s)
  BY LenProperties
<1>2. \A i \in 1 .. m : s[i] \in S
  BY <1>1, ElementOfSeq
<1>3. /\ SubSeq(s, 1, m) \in Seq(S)
      /\ Len(SubSeq(s, 1, m)) = m
      /\ \A i \in 1 .. m : SubSeq(s, 1, m)[i] = s[i]
  BY <1>1, <1>2, SubSeqProperties
<1>4. SubSeq(s, 1, Len(s)) = s
  BY SubSeqFull
<1>5. Take(s, n) = SubSeq(s, 1, m)
  BY DEF Take
<1>6. m < n => m = Len(s)
  BY <1>1
<1>7. Len(s) <= n => m = Len(s)
  BY <1>1
<1>8. Len(s) >= n => m = n
  BY <1>1
<1> QED  BY <1>1, <1>3, <1>4, <1>5, <1>6, <1>7, <1>8

\* RiderMesh.merge loses nobody of the phone's, and a merged list with room
\* left has everybody.
LEMMA MergeProperties ==
    ASSUME NEW mine \in Seq(Friend), NEW theirs \in Seq(Friend), Len(mine) <= Cap, Cap \in Nat
    PROVE  /\ Merge(mine, theirs) \in Seq(Friend)
           /\ Len(Merge(mine, theirs)) <= Cap
           /\ Len(mine) <= Len(Merge(mine, theirs))
           /\ Members(mine) \subseteq Members(Merge(mine, theirs))
           /\ Len(Merge(mine, theirs)) < Cap => Members(theirs) \subseteq Members(Merge(mine, theirs))
<1> DEFINE places == {i \in DOMAIN theirs : theirs[i] \notin Members(mine)}
           new == Picked(theirs, places)
           all == mine \o new
           merged == Merge(mine, theirs)
<1>1. new \in Seq(Friend) /\ Members(new) = {theirs[i] : i \in places}
  BY PickedProperties DEF Members, Range
<1>2. /\ Len(mine) \in Nat /\ DOMAIN mine = 1 .. Len(mine)
      /\ Len(new) \in Nat /\ DOMAIN new = 1 .. Len(new)
      /\ DOMAIN theirs = 1 .. Len(theirs) /\ Len(theirs) \in Nat
  BY <1>1, LenProperties
<1>3. /\ all \in Seq(Friend) /\ Len(all) = Len(mine) + Len(new)
      /\ \A i \in 1 .. Len(mine) + Len(new) :
            all[i] = IF i <= Len(mine) THEN mine[i] ELSE new[i - Len(mine)]
  BY <1>1, ConcatProperties
<1>4. merged = Take(all, Cap)
  BY DEF Merge
<1> HIDE DEF places, new, all, merged
<1>5. /\ merged \in Seq(Friend) /\ Len(merged) <= Cap
      /\ Len(merged) < Cap => merged = all
      /\ Len(all) <= Cap => merged = all
      /\ Len(all) >= Cap => Len(merged) = Cap
      /\ \A i \in 1 .. Len(merged) : merged[i] = all[i]
  <2>1. all \in Seq(Friend)
    BY <1>3
  <2>2. /\ Take(all, Cap) \in Seq(Friend) /\ Len(Take(all, Cap)) <= Cap
        /\ Len(Take(all, Cap)) < Cap => Take(all, Cap) = all
        /\ Len(all) <= Cap => Take(all, Cap) = all
        /\ Len(all) >= Cap => Len(Take(all, Cap)) = Cap
        /\ \A i \in 1 .. Len(Take(all, Cap)) : Take(all, Cap)[i] = all[i]
    BY <2>1, TakeProperties
  <2> QED  BY <2>2, <1>4
<1>6. Len(merged) \in Nat /\ DOMAIN merged = 1 .. Len(merged)
  BY <1>5, LenProperties
<1>7. Len(mine) <= Len(merged)
  <2>1. CASE Len(all) <= Cap
    BY <2>1, <1>2, <1>3, <1>5
  <2>2. CASE Len(all) >= Cap
    BY <2>2, <1>5
  <2>3. Len(all) \in Nat
    BY <1>2, <1>3
  <2> QED  BY <2>1, <2>2, <2>3
<1>8. ASSUME NEW i \in 1 .. Len(mine)
      PROVE  i \in 1 .. Len(merged) /\ merged[i] = mine[i]
  <2>1. i \in Nat /\ i <= Len(mine)
    BY <1>2
  <2>2. i \in 1 .. Len(merged)
    BY <2>1, <1>2, <1>6, <1>7
  <2>3. i \in 1 .. Len(mine) + Len(new)
    BY <2>1, <1>2
  <2> QED  BY <2>1, <2>2, <2>3, <1>3, <1>5
<1>9. Members(mine) \subseteq Members(merged)
  BY <1>2, <1>6, <1>8 DEF Members
<1>10. ASSUME Len(merged) < Cap, NEW f \in Members(theirs)
       PROVE  f \in Members(merged)
  <2>1. CASE f \in Members(mine)
    BY <2>1, <1>9
  <2>2. CASE f \notin Members(mine)
    <3>1. f \in Members(new)
      BY <2>2, <1>1, <1>10 DEF Members, places
    <3>2. PICK k \in 1 .. Len(new) : new[k] = f
      BY <3>1, <1>2 DEF Members
    <3>3. merged = all
      BY <1>5, <1>10
    <3>4. Len(mine) + k \in 1 .. Len(all) /\ ~(Len(mine) + k <= Len(mine)) /\ (Len(mine) + k) - Len(mine) = k
      BY <1>2, <1>3
    <3>5. all[Len(mine) + k] = f
      BY <1>3, <3>2, <3>4
    <3> QED  BY <1>6, <3>3, <3>4, <3>5 DEF Members
  <2> QED  BY <2>1, <2>2
<1> QED  BY <1>5, <1>7, <1>9, <1>10 DEF merged

-----------------------------------------------------------------------------
LEMMA MembersOf ==
    /\ Members(<<>>) = {}
    /\ \A a : Members(<<a>>) = {a}
    /\ \A a, b : Members(<<a, b>>) = {a, b}
<1>1. \A a : DOMAIN <<a>> = {1} /\ <<a>>[1] = a
  OBVIOUS
<1>2. \A a, b : DOMAIN <<a, b>> = {1, 2} /\ <<a, b>>[1] = a /\ <<a, b>>[2] = b
  OBVIOUS
<1>3. DOMAIN <<>> = {}
  OBVIOUS
<1> QED  BY <1>1, <1>2, <1>3 DEF Members

LEMMA MembersOfTail ==
    ASSUME NEW S, NEW s \in Seq(S), s # <<>>
    PROVE  /\ Len(s) \in Nat \ {0} /\ Head(s) = s[1] /\ s[1] \in S
           /\ Tail(s) \in Seq(S) /\ Len(Tail(s)) = Len(s) - 1
           /\ DOMAIN s = 1 .. Len(s) /\ DOMAIN Tail(s) = 1 .. Len(s) - 1
           /\ \A i \in 1 .. Len(s) - 1 : Tail(s)[i] = s[i + 1]
           /\ Members(s) = {s[1]} \cup Members(Tail(s))
<1>1. /\ Len(s) \in Nat \ {0} /\ Head(s) = s[1]
      /\ Tail(s) \in Seq(S) /\ Len(Tail(s)) = Len(s) - 1
      /\ \A i \in 1 .. Len(s) - 1 : Tail(s)[i] = s[i + 1]
  BY EmptySeq, HeadTailProperties
<1>2. DOMAIN s = 1 .. Len(s) /\ DOMAIN Tail(s) = 1 .. Len(s) - 1
  BY <1>1, LenProperties
<1>3. s[1] \in S
  BY <1>1, ElementOfSeq
<1>4. ASSUME NEW i \in DOMAIN s
      PROVE  s[i] = s[1] \/ \E j \in DOMAIN Tail(s) : Tail(s)[j] = s[i]
  <2>1. CASE i = 1
    BY <2>1
  <2>2. CASE i # 1
    <3>1. i - 1 \in 1 .. Len(s) - 1 /\ (i - 1) + 1 = i
      BY <2>2, <1>1, <1>2
    <3>2. Tail(s)[i - 1] = s[i]
      BY <3>1, <1>1
    <3> QED  BY <3>1, <3>2, <1>2
  <2> QED  BY <2>1, <2>2
<1>5. ASSUME NEW j \in DOMAIN Tail(s)
      PROVE  \E i \in DOMAIN s : s[i] = Tail(s)[j]
  <2>1. j + 1 \in DOMAIN s /\ Tail(s)[j] = s[j + 1]
    BY <1>1, <1>2
  <2> QED  BY <2>1
<1>6. 1 \in DOMAIN s
  BY <1>1, <1>2
<1>7. Members(s) = {s[1]} \cup Members(Tail(s))
  <2>1. \A x \in Members(s) : x = s[1] \/ x \in Members(Tail(s))
    BY <1>4 DEF Members
  <2>2. \A x \in Members(Tail(s)) : x \in Members(s)
    BY <1>5 DEF Members
  <2>3. s[1] \in Members(s)
    BY <1>6 DEF Members
  <2> QED  BY <2>1, <2>2, <2>3
<1> QED  BY <1>1, <1>2, <1>3, <1>7

LEMMA PairIsConcat ==
    ASSUME NEW S, NEW a \in S, NEW b \in S
    PROVE  <<a>> \o <<b>> = <<a, b>>
<1>1. <<a>> \in Seq(S) /\ <<b>> \in Seq(S) /\ Len(<<a>>) = 1 /\ Len(<<b>>) = 1
  OBVIOUS
<1>2. /\ <<a>> \o <<b>> \in Seq(S) /\ Len(<<a>> \o <<b>>) = 2
      /\ (<<a>> \o <<b>>)[1] = a /\ (<<a>> \o <<b>>)[2] = b
  BY <1>1, ConcatProperties
<1>3. <<a, b>> \in Seq(S) /\ Len(<<a, b>>) = 2 /\ <<a, b>>[1] = a /\ <<a, b>>[2] = b
  OBVIOUS
<1>4. \A i \in 1 .. 2 : (<<a>> \o <<b>>)[i] = <<a, b>>[i]
  BY <1>2, <1>3
<1> QED  BY <1>2, <1>3, <1>4, SeqEqual

LEMMA OpsTyped ==
    /\ IdentityOp \in Op /\ SubscribeOp \in Op
    /\ \A i \in Nat : CursorOp(i) \in Op /\ ReadOp(i) \in Op
    /\ \A op \in Op : op # NoOp
    /\ \A i \in Nat : CursorAt(i) = <<CursorOp(i)>> /\ ReadAt(i) = <<ReadOp(i)>>
    /\ Single("identity", "identity", 0) = <<IdentityOp>>
    /\ Single("subscribe", "subscribe", 0) = <<SubscribeOp>>
  BY SyncAssumption DEF Op, Batch, Do, IdentityOp, SubscribeOp, CursorOp, ReadOp, CursorAt, ReadAt, Single

UpsertOp(f, last) == [batch |-> "push", do |-> "upsert", arg |-> f, last |-> last]

LEMMA UpsertFields ==
    ASSUME NEW f, NEW b \in BOOLEAN
    PROVE  /\ UpsertOp(f, b).batch = "push" /\ UpsertOp(f, b).do = "upsert"
           /\ UpsertOp(f, b).arg = f /\ (UpsertOp(f, b).last <=> b)
  BY DEF UpsertOp

LEMMA PushProperties ==
    ASSUME NEW list \in Seq(Friend)
    PROVE  LET new == Push(list) \o Single("subscribe", "subscribe", 0) IN
           /\ new \in Seq(Op) /\ Len(new) = Len(list) + 2 /\ DOMAIN new = 1 .. Len(list) + 2
           /\ new[1].batch = "push" /\ new[1].do = "clear" /\ (new[1].last <=> Len(list) = 0)
           /\ \A i \in 2 .. Len(list) + 1 : new[i] = UpsertOp(list[i - 1], i = Len(list) + 1)
           /\ \A i \in 2 .. Len(list) + 1 : list[i - 1] \in Friend
           /\ new[Len(list) + 2] = SubscribeOp
           /\ Batches(new) = {"push"}
           /\ {op.batch : op \in Members(new)} = {"push", "subscribe"}
<1> DEFINE clear == <<[do |-> "clear", arg |-> 0]>>
           ups == [i \in DOMAIN list |-> [do |-> "upsert", arg |-> list[i]]]
           F == [do : {"clear", "upsert"}, arg : Nat \cup Friend]
           frames == clear \o ups
           n == Len(list)
           new == Push(list) \o Single("subscribe", "subscribe", 0)
<1>1. n \in Nat /\ DOMAIN list = 1 .. n /\ \A i \in 1 .. n : list[i] \in Friend
  BY LenProperties, ElementOfSeq
<1>2. clear \in Seq(F) /\ Len(clear) = 1 /\ clear[1] = [do |-> "clear", arg |-> 0]
  OBVIOUS
<1>3. ups \in Seq(F) /\ Len(ups) = n
  BY <1>1
<1>4. /\ frames \in Seq(F) /\ Len(frames) = n + 1
      /\ \A i \in 1 .. n + 1 : frames[i] = IF i <= 1 THEN clear[i] ELSE ups[i - 1]
  BY <1>1, <1>2, <1>3, ConcatProperties
<1>5. frames[1] = [do |-> "clear", arg |-> 0]
  BY <1>1, <1>2, <1>4
<1>6. ASSUME NEW i \in 2 .. n + 1
      PROVE  /\ frames[i].do = "upsert" /\ frames[i].arg = list[i - 1]
             /\ list[i - 1] \in Friend
  <2>1. i \in 1 .. n + 1 /\ ~(i <= 1) /\ i - 1 \in DOMAIN list
    BY <1>1
  <2>2. frames[i] = ups[i - 1]
    BY <2>1, <1>4
  <2>3. ups[i - 1].do = "upsert" /\ ups[i - 1].arg = list[i - 1]
    BY <2>1
  <2> QED  BY <2>1, <2>2, <2>3, <1>1
<1>7. DOMAIN frames = 1 .. n + 1
  BY <1>1, <1>4, LenProperties
<1>8. Push(list) = [i \in 1 .. n + 1 |->
          [batch |-> "push", do |-> frames[i].do, arg |-> frames[i].arg, last |-> i = n + 1]]
  BY <1>4, <1>7 DEF Push, Frames
<1> HIDE DEF frames
<1>9. ASSUME NEW i \in 2 .. n + 1
      PROVE  Push(list)[i] = UpsertOp(list[i - 1], i = n + 1)
  <2>1. i \in 1 .. n + 1
    BY <1>1
  <2> QED  BY <2>1, <1>6, <1>8 DEF UpsertOp
<1>10. Push(list)[1] = [batch |-> "push", do |-> "clear", arg |-> 0, last |-> 1 = n + 1]
  BY <1>1, <1>5, <1>8
<1>11. ASSUME NEW i \in 1 .. n + 1
       PROVE  Push(list)[i] \in Op /\ Push(list)[i].batch = "push"
  <2>1. CASE i = 1
    BY <2>1, <1>10 DEF Op, Batch, Do
  <2>2. CASE i # 1
    <3>1. i \in 2 .. n + 1
      BY <2>2, <1>1
    <3>2. UpsertOp(list[i - 1], i = n + 1) \in Op
      BY <3>1, <1>6 DEF Op, Batch, Do, UpsertOp
    <3>3. UpsertOp(list[i - 1], i = n + 1).batch = "push"
      BY DEF UpsertOp
    <3> QED  BY <3>1, <3>2, <3>3, <1>9
  <2> QED  BY <2>1, <2>2
<1>12. Push(list) \in Seq(Op) /\ Len(Push(list)) = n + 1
  BY <1>1, <1>8, <1>11
<1>14. new = Append(Push(list), SubscribeOp)
  <2>1. new = Push(list) \o <<SubscribeOp>>
    BY OpsTyped
  <2> QED  BY <2>1, <1>12, OpsTyped, AppendIsConcat
<1> HIDE DEF clear, ups, F, new
<1>15. /\ new \in Seq(Op) /\ Len(new) = n + 2
       /\ \A i \in 1 .. n + 1 : new[i] = Push(list)[i]
       /\ new[n + 2] = SubscribeOp
  <2>1. (n + 1) + 1 = n + 2
    BY <1>1
  <2>2. /\ new \in Seq(Op) /\ Len(new) = Len(Push(list)) + 1
        /\ \A i \in 1 .. Len(Push(list)) : new[i] = Push(list)[i]
        /\ new[Len(Push(list)) + 1] = SubscribeOp
    BY <1>12, <1>14, OpsTyped, AppendProperties
  <2> QED  BY <2>1, <2>2, <1>12
<1>16. DOMAIN new = 1 .. n + 2
  BY <1>1, <1>15, LenProperties
<1>17. \A i \in 1 .. n + 1 : new[i] = Push(list)[i]
  BY <1>15
<1>18. new[n + 2] = SubscribeOp
  BY <1>15
<1>19. ASSUME NEW i \in 1 .. n + 2
       PROVE  i \in 1 .. n + 1 \/ i = n + 2
  BY <1>1
<1>20. 1 \in 1 .. n + 1 /\ n + 2 \in 1 .. n + 2 /\ 1 \in 1 .. n + 2
  BY <1>1
<1>21. SubscribeOp.batch = "subscribe"
  BY DEF SubscribeOp
<1>22. \A i \in 1 .. n + 1 : new[i].batch = "push"
  BY <1>11, <1>17
<1>23. Batches(new) = {"push"}
  BY <1>16, <1>18, <1>19, <1>20, <1>21, <1>22 DEF Batches
<1>24. {op.batch : op \in Members(new)} = {"push", "subscribe"}
  BY <1>16, <1>18, <1>19, <1>20, <1>21, <1>22 DEF Members
<1>25. new[1].batch = "push" /\ new[1].do = "clear" /\ (new[1].last <=> n = 0)
  <2>1. new[1] = Push(list)[1]
    BY <1>17, <1>20
  <2>2. CASE n = 0
    <3>1. (1 = n + 1) = TRUE
      BY <2>2
    <3>2. Push(list)[1] = [batch |-> "push", do |-> "clear", arg |-> 0, last |-> TRUE]
      BY <3>1, <1>10
    <3> QED  BY <2>1, <2>2, <3>2
  <2>3. CASE n # 0
    <3>1. (1 = n + 1) = FALSE
      BY <2>3, <1>1
    <3>2. Push(list)[1] = [batch |-> "push", do |-> "clear", arg |-> 0, last |-> FALSE]
      BY <3>1, <1>10
    <3> QED  BY <2>1, <2>3, <3>2
  <2> QED  BY <2>2, <2>3
<1>26. \A i \in 2 .. n + 1 : new[i] = UpsertOp(list[i - 1], i = n + 1) /\ list[i - 1] \in Friend
  <2>1. \A i \in 2 .. n + 1 : i \in 1 .. n + 1
    BY <1>1
  <2> QED  BY <2>1, <1>6, <1>9, <1>17
<1> QED  BY <1>15, <1>16, <1>18, <1>23, <1>24, <1>25, <1>26 DEF new

-----------------------------------------------------------------------------
(* The queue.                                                               *)

QueueInv == QueueTypeOK /\ SlotInv /\ ShapeInv /\ AskedInv

LEMMA OpKinds ==
    ASSUME NEW i \in Nat
    PROVE  /\ CursorOp(i).do = "cursor" /\ CursorOp(i).batch = "cursor" /\ CursorOp(i).last /\ CursorOp(i).arg = i
           /\ ReadOp(i).do = "read" /\ ReadOp(i).batch = "read" /\ ReadOp(i).last /\ ReadOp(i).arg = i
           /\ IdentityOp.do = "identity" /\ IdentityOp.batch = "identity" /\ IdentityOp.last
           /\ SubscribeOp.do = "subscribe" /\ SubscribeOp.batch = "subscribe" /\ SubscribeOp.last
  BY DEF CursorOp, ReadOp, IdentityOp, SubscribeOp

PushInFlight ==
    /\ Pushing /\ ops # <<>>
    /\ inFlight.batch = "push" /\ inFlight.do \in {"clear", "upsert"}
    /\ inFlight.do = "upsert" => inFlight.arg \in Friend
    /\ inFlight.last <=> Len(ops) = 1

\* What the shape says of an operation in flight.
LEMMA InFlightShape ==
    ASSUME QueueTypeOK, ListTypeOK, ShapeInv, inFlight # NoOp
    PROVE  /\ \/ inFlight = IdentityOp /\ ops = <<CursorOp(0)>> /\ acc = <<>>
              \/ inFlight = CursorOp(Len(acc)) /\ ops = <<>>
              \/ inFlight = ReadOp(Len(acc)) /\ ops = <<>>
              \/ inFlight = SubscribeOp /\ ops = <<>>
              \/ PushInFlight
           /\ inFlight \in Op
<1>1. inFlight \in Op
  BY DEF QueueTypeOK
<1>2. CASE Opening
  BY <1>1, <1>2 DEF Opening
<1>3. CASE OnTheWalk
  BY <1>1, <1>3 DEF OnTheWalk, WalkOps
<1>4. CASE Pushing
  BY <1>1, <1>4 DEF Pushing, PushInFlight
<1> QED  BY <1>1, <1>2, <1>3, <1>4 DEF ShapeInv

LEMMA ConnectKeepsQueue ==
    ASSUME QueueInv, ListTypeOK, Connect
    PROVE  QueueInv'
<1> DEFINE new == <<IdentityOp, CursorOp(0)>>
<1>1. /\ Single("identity", "identity", 0) \o CursorAt(0) = new
      /\ new \in Seq(Op) /\ Len(new) = 2 /\ DOMAIN new = {1, 2}
      /\ new[1] = IdentityOp /\ new[2] = CursorOp(0)
  <2>1. Single("identity", "identity", 0) = <<IdentityOp>> /\ CursorAt(0) = <<CursorOp(0)>>
    BY OpsTyped
  <2>2. IdentityOp \in Op /\ CursorOp(0) \in Op
    BY OpsTyped
  <2>3. <<IdentityOp>> \o <<CursorOp(0)>> = new
    BY <2>2, PairIsConcat
  <2>4. new \in Seq(Op) /\ Len(new) = 2 /\ DOMAIN new = {1, 2}
        /\ new[1] = IdentityOp /\ new[2] = CursorOp(0)
    BY <2>2
  <2> QED  BY <2>1, <2>3, <2>4
<1>2. /\ ~up /\ posts = 0 /\ up' /\ missing' \in BOOLEAN
      /\ slot' \in {"free", "other"} /\ ops' = ops \o new
      /\ asked' = asked \cup Batches(new) /\ failed' = failed \ Batches(new)
      /\ UNCHANGED <<inFlight, reply, posts, twice>> /\ acc' = <<>>
  BY <1>1 DEF Connect, Opened
<1>3. ops = <<>> /\ inFlight = NoOp /\ reply = NoReply
  BY <1>2 DEF QueueInv, SlotInv
<1>4. ops' = new
  BY <1>1, <1>2, <1>3, ConcatEmptySeq
<1>5. Batches(new) = {"identity", "cursor"}
  BY <1>1, OpKinds DEF Batches
<1> HIDE DEF new
<1>6. QueueTypeOK'
  BY <1>1, <1>2, <1>4, <1>5 DEF QueueInv, QueueTypeOK, Batch
<1>7. SlotInv'
  BY <1>2, <1>3 DEF QueueInv, SlotInv
<1>8. ShapeInv'
  BY <1>2, <1>3, <1>4 DEF ShapeInv, Opening, new
<1>9. AskedInv'
  <2>1. Members(new) = {IdentityOp, CursorOp(0)}
    BY MembersOf DEF new
  <2>2. Coming' = {IdentityOp, CursorOp(0)}
    BY <2>1, <1>2, <1>3, <1>4 DEF Coming
  <2>3. {op.batch : op \in Coming'} = {"identity", "cursor"}
    BY <2>2, OpKinds
  <2>4. Coming = {}
    BY <1>3, MembersOf DEF Coming
  <2>5. asked = {}
    BY <2>4 DEF QueueInv, AskedInv
  <2> QED  BY <2>3, <2>5, <1>2, <1>5 DEF QueueInv, AskedInv
<1> QED  BY <1>6, <1>7, <1>8, <1>9 DEF QueueInv

\* The places of a push whose head has gone.
LEMMA PushingTail ==
    ASSUME QueueTypeOK, Pushing, ops # <<>>, ops' = Tail(ops)
    PROVE  /\ \A i \in DOMAIN ops' :
                 IF i = Len(ops') THEN ops'[i] = SubscribeOp
                 ELSE /\ ops'[i].batch = "push" /\ (ops'[i].last <=> i = Len(ops') - 1)
                      /\ ops'[i].do = "upsert" /\ ops'[i].arg \in Friend
           /\ Len(ops') = Len(ops) - 1 /\ Len(ops) \in Nat \ {0}
<1>1. /\ Len(ops) \in Nat \ {0} /\ Len(ops') = Len(ops) - 1
      /\ DOMAIN ops = 1 .. Len(ops) /\ DOMAIN ops' = 1 .. Len(ops) - 1
      /\ \A i \in 1 .. Len(ops) - 1 : ops'[i] = ops[i + 1]
  BY MembersOfTail DEF QueueTypeOK
<1>2. ASSUME NEW i \in DOMAIN ops'
      PROVE  IF i = Len(ops') THEN ops'[i] = SubscribeOp
             ELSE /\ ops'[i].batch = "push" /\ (ops'[i].last <=> i = Len(ops') - 1)
                  /\ ops'[i].do = "upsert" /\ ops'[i].arg \in Friend
  <2>1. /\ i + 1 \in DOMAIN ops /\ ops'[i] = ops[i + 1] /\ i + 1 # 1
        /\ (i + 1 = Len(ops)) <=> (i = Len(ops'))
        /\ (i + 1 = Len(ops) - 1) <=> (i = Len(ops') - 1)
    BY <1>1
  <2>2. CASE i = Len(ops')
    BY <2>1, <2>2 DEF Pushing
  <2>3. CASE i # Len(ops')
    BY <2>1, <2>3 DEF Pushing
  <2> QED  BY <2>2, <2>3
<1> QED  BY <1>1, <1>2

LEMMA PumpKeepsQueue ==
    ASSUME QueueInv, ListTypeOK, PumpQueue
    PROVE  QueueInv'
<1>1. Pump /\ acc' = acc
  BY DEF PumpQueue
<1>2. CASE missing
  <2>1. posts' = posts + 1
        /\ UNCHANGED <<ops, inFlight, slot, up, missing, reply, failed, asked, twice>>
    BY <1>1, <1>2 DEF Pump
  <2> QED  BY <1>1, <1>2, <2>1 DEF QueueInv, QueueTypeOK, SlotInv, ShapeInv, Opening, OnTheWalk,
                                   WalkOps, Pushing, AskedInv, Coming, Members
<1>3. CASE ~missing
  <2>1. /\ up /\ slot = "free" /\ ops # <<>>
        /\ inFlight' = Head(ops) /\ ops' = Tail(ops) /\ slot' = "control"
        /\ UNCHANGED <<posts, up, missing, reply, failed, asked, twice>>
    BY <1>1, <1>3 DEF Pump
  <2>2. inFlight = NoOp /\ reply = NoReply
    BY <2>1 DEF QueueInv, SlotInv
  <2>3. /\ Len(ops) \in Nat \ {0} /\ inFlight' = ops[1] /\ ops[1] \in Op
        /\ ops' \in Seq(Op) /\ Len(ops') = Len(ops) - 1
        /\ Members(ops) = {ops[1]} \cup Members(ops')
        /\ 1 \in DOMAIN ops
    BY <2>1, MembersOfTail DEF QueueInv, QueueTypeOK
  <2>4. QueueTypeOK'
    BY <2>1, <2>3 DEF QueueInv, QueueTypeOK
  <2>5. SlotInv'
    BY <2>1, <2>2, <2>3, <1>3, OpsTyped DEF QueueInv, SlotInv
  <2>6. ShapeInv'
    <3>1. CASE Opening
      <4>1. ops = <<IdentityOp, CursorOp(0)>>
        BY <2>2, <3>1, OpsTyped DEF Opening
      <4>2. inFlight' = IdentityOp /\ ops' = <<CursorOp(0)>>
        BY <4>1, <2>1
      <4> QED  BY <4>2, <3>1, <1>1 DEF ShapeInv, Opening
    <3>2. CASE OnTheWalk
      <4>1. PICK w \in WalkOps : ops = <<w>>
        BY <2>2, <3>2, <2>1 DEF OnTheWalk
      <4>2. inFlight' = w /\ ops' = <<>>
        BY <4>1, <2>1
      <4> QED  BY <4>1, <4>2, <1>1 DEF ShapeInv, OnTheWalk, WalkOps
    <3>3. CASE Pushing
      <4>1. /\ \A i \in DOMAIN ops' :
                 IF i = Len(ops') THEN ops'[i] = SubscribeOp
                 ELSE /\ ops'[i].batch = "push" /\ (ops'[i].last <=> i = Len(ops') - 1)
                      /\ ops'[i].do = "upsert" /\ ops'[i].arg \in Friend
            /\ Len(ops') = Len(ops) - 1
        BY <2>1, <3>3, PushingTail DEF QueueInv
      <4>2. CASE Len(ops) = 1
        <5>1. inFlight' = SubscribeOp /\ ops' = <<>>
          BY <4>2, <2>3, <3>3, EmptySeq DEF Pushing
        <5> QED  BY <4>1, <5>1 DEF ShapeInv, Pushing
      <4>3. CASE Len(ops) # 1
        <5>1. /\ inFlight'.batch = "push" /\ (inFlight'.last <=> Len(ops') = 1)
              /\ inFlight'.do = "clear" \/ (inFlight'.do = "upsert" /\ inFlight'.arg \in Friend)
          <6>1. /\ ops[1].batch = "push" /\ (ops[1].last <=> 1 = Len(ops) - 1)
                /\ ops[1].do = "clear" \/ (ops[1].do = "upsert" /\ ops[1].arg \in Friend)
            BY <4>3, <2>3, <3>3 DEF Pushing
          <6>2. (1 = Len(ops) - 1) <=> (Len(ops') = 1)
            BY <2>3
          <6> QED  BY <6>1, <6>2, <2>3
        <5>2. ops' # <<>>
          BY <4>3, <2>3
        <5> QED  BY <4>1, <5>1, <5>2 DEF ShapeInv, Pushing
      <4> QED  BY <4>2, <4>3
    <3> QED  BY <3>1, <3>2, <3>3 DEF QueueInv, ShapeInv
  <2>7. AskedInv'
    <3>1. Coming' = Coming
      BY <2>2, <2>3, OpsTyped DEF Coming
    <3> QED  BY <3>1, <2>1 DEF QueueInv, AskedInv
  <2> QED  BY <2>4, <2>5, <2>6, <2>7 DEF QueueInv
<1> QED  BY <1>2, <1>3

LEMMA FailHeadKeepsQueue ==
    ASSUME QueueInv, ListTypeOK, FailHead, acc' = acc
    PROVE  QueueInv'
<1>1. /\ posts > 0 /\ posts' = posts - 1
      /\ UNCHANGED <<up, missing, inFlight, slot, reply>>
  BY DEF FailHead
<1>2. missing /\ inFlight = NoOp /\ reply = NoReply
  BY <1>1 DEF QueueInv, SlotInv
<1>3. posts' \in Nat
  BY <1>1 DEF QueueInv, QueueTypeOK
<1>4. CASE ops = <<>>
  <2>1. UNCHANGED <<ops, failed, asked, twice>>
    BY <1>4 DEF FailHead
  <2> QED  BY <1>1, <1>2, <1>3, <2>1 DEF QueueInv, QueueTypeOK, SlotInv, ShapeInv, Opening, OnTheWalk,
                                   WalkOps, Pushing, AskedInv, Coming, Members
<1>5. CASE ops # <<>>
  <2> DEFINE op == ops[1]
  <2>1. /\ Len(ops) \in Nat \ {0} /\ Head(ops) = op /\ op \in Op
        /\ Tail(ops) \in Seq(Op) /\ Len(Tail(ops)) = Len(ops) - 1
        /\ Members(ops) = {op} \cup Members(Tail(ops))
        /\ 1 \in DOMAIN ops
    BY <1>5, MembersOfTail DEF QueueInv, QueueTypeOK
  <2>2. /\ ops' = Tail(ops) /\ failed' = failed \cup {op.batch}
        /\ asked' = IF Says(op, FALSE) = "no" THEN asked \ {op.batch} ELSE asked
        /\ twice' = (twice \/ (Says(op, FALSE) = "no" /\ op.batch \notin asked))
    BY <1>5, <2>1 DEF FailHead
  <2>3. up
    BY <1>5 DEF QueueInv, SlotInv
  <2>4. op.do = "subscribe" <=> op.batch = "subscribe"
    <3>1. CASE Opening
      BY <3>1, <1>2, <2>1, OpKinds, OpsTyped DEF Opening
    <3>2. CASE OnTheWalk
      <4>1. PICK w \in WalkOps : ops = <<w>>
        BY <1>5, <3>2 DEF OnTheWalk
      <4>2. Len(acc) \in Nat
        BY LenProperties DEF ListTypeOK
      <4> QED  BY <4>1, <4>2, OpKinds DEF WalkOps
    <3>3. CASE Pushing
      BY <3>3, <2>1, OpKinds DEF Pushing
    <3> QED  BY <3>1, <3>2, <3>3 DEF QueueInv, ShapeInv
  <2>5. QueueTypeOK'
    <3>1. op.batch \in Batch
      BY <2>1 DEF Op
    <3> QED  BY <1>1, <1>3, <2>1, <2>2, <3>1 DEF QueueInv, QueueTypeOK
  <2>6. SlotInv'
    BY <1>1, <1>2, <2>3 DEF QueueInv, SlotInv
  <2>7. ShapeInv'
    <3>1. CASE Opening
      <4>1. ops = <<IdentityOp, CursorOp(0)>> /\ acc = <<>>
        BY <1>2, <3>1, OpsTyped DEF Opening
      <4>2. ops' = <<CursorOp(0)>> /\ Len(acc) = 0
        BY <4>1, <2>2
      <4> QED  BY <4>2, <1>1, <1>2 DEF ShapeInv, OnTheWalk, WalkOps
    <3>2. CASE OnTheWalk
      <4>1. PICK w \in WalkOps : ops = <<w>>
        BY <1>5, <3>2 DEF OnTheWalk
      <4>2. ops' = <<>>
        BY <4>1, <2>2
      <4> QED  BY <4>2, <1>1, <1>2 DEF ShapeInv, Pushing
    <3>3. CASE Pushing
      <4>1. /\ \A i \in DOMAIN ops' :
                 IF i = Len(ops') THEN ops'[i] = SubscribeOp
                 ELSE /\ ops'[i].batch = "push" /\ (ops'[i].last <=> i = Len(ops') - 1)
                      /\ ops'[i].do = "upsert" /\ ops'[i].arg \in Friend
        BY <1>5, <2>2, <3>3, PushingTail DEF QueueInv
      <4> QED  BY <4>1, <1>1, <1>2 DEF ShapeInv, Pushing
    <3> QED  BY <3>1, <3>2, <3>3 DEF QueueInv, ShapeInv
  <2>8. AskedInv'
    <3>1. Coming = {op} \cup Members(ops') /\ Coming' = Members(ops')
      BY <1>1, <1>2, <2>1, <2>2 DEF Coming
    <3>2. Says(op, FALSE) = "no" => op.batch \in asked
      BY <2>4, <3>1 DEF Says, QueueInv, AskedInv
    <3>3. asked' = asked \ {op.batch}
      BY <2>2, <2>4, <3>1 DEF Says, QueueInv, AskedInv
    <3>4. ~twice'
      BY <2>2, <3>2 DEF QueueInv, AskedInv
    <3>5. {o.batch : o \in Coming} = {op.batch} \cup {o.batch : o \in Coming'}
      BY <3>1
    <3> QED  BY <2>2, <3>3, <3>4, <3>5 DEF QueueInv, AskedInv
  <2> QED  BY <2>5, <2>6, <2>7, <2>8 DEF QueueInv
<1> QED  BY <1>4, <1>5

\* An answer for the last of its batch, with nothing queued behind it: the
\* callback's frames are all there is.
LEMMA WalkAnswered ==
    ASSUME QueueInv, ListTypeOK, NEW new \in Seq(Op), Completed(new),
           ops = <<>>, inFlight # NoOp, inFlight.last, inFlight.do = "subscribe" <=> inFlight.batch = "subscribe"
    PROVE  /\ QueueTypeOK' /\ SlotInv'
           /\ ops' = new /\ inFlight' = NoOp
           /\ {op.batch : op \in Members(new)} \ {"subscribe"} = Batches(new) => AskedInv'
<1> DEFINE op == inFlight
           says == Says(op, reply.ok)
           answered == IF says = "nothing" THEN {} ELSE {op.batch}
<1>1. /\ up /\ reply # NoReply
      /\ inFlight' = NoOp /\ reply' = NoReply /\ slot' = "free"
      /\ failed' = (IF reply.ok THEN failed ELSE failed \cup {op.batch}) \ Batches(new)
      /\ asked' = (asked \ answered) \cup Batches(new)
      /\ twice' = (twice \/ ~(answered \subseteq asked))
      /\ ops' = ops \o new
      /\ UNCHANGED <<up, missing, posts>>
  BY DEF Completed
<1>2. ops' = new
  BY <1>1, ConcatEmptySeq
<1>3. inFlight \in Op /\ inFlight.batch \in Batch
  BY DEF QueueInv, QueueTypeOK, Op
<1>4. Batches(new) \in SUBSET Batch
  <2>1. \A i \in DOMAIN new : new[i] \in Op
    BY LenProperties, ElementOfSeq
  <2> QED  BY <2>1 DEF Batches, Op
<1>5. Coming = {op}
  BY MembersOf DEF Coming
<1>6. asked = {op.batch} \ ({"subscribe"} \cup failed) /\ ~twice
  <2>1. {o.batch : o \in Coming} = {op.batch}
    BY <1>5
  <2> QED  BY <2>1 DEF QueueInv, AskedInv
<1>7. answered = asked
  BY <1>6 DEF Says
<1> HIDE DEF answered
<1>8. QueueTypeOK'
  BY <1>1, <1>2, <1>3, <1>4 DEF QueueInv, QueueTypeOK
<1>9. SlotInv'
  BY <1>1 DEF QueueInv, SlotInv
<1>10. ASSUME {o.batch : o \in Members(new)} \ {"subscribe"} = Batches(new)
       PROVE  AskedInv'
  <2>1. Coming' = Members(new)
    BY <1>1, <1>2 DEF Coming
  <2>2. asked' = Batches(new) /\ ~twice'
    BY <1>1, <1>6, <1>7
  <2>3. Batches(new) \cap failed' = {}
    BY <1>1
  <2> QED  BY <1>10, <2>1, <2>2, <2>3 DEF AskedInv
<1> QED  BY <1>1, <1>2, <1>8, <1>9, <1>10

\* The walk's answers.
LEMMA AnswerKeepsQueue ==
    ASSUME QueueInv, ListTypeOK, Answer
    PROVE  QueueInv'
<1>1. reply # NoReply /\ inFlight # NoOp /\ inFlight \in Op
  BY DEF Answer, QueueInv, SlotInv, QueueTypeOK
<1>2. Len(acc) \in Nat
  BY LenProperties DEF ListTypeOK
<1>3. CASE WalksOn(inFlight) /\ Completed(ReadAt(inFlight.arg)) /\ UNCHANGED <<phone, acc>>
  <2>1. inFlight = CursorOp(Len(acc)) /\ ops = <<>>
    <3>1. inFlight.do = "cursor"
      BY <1>3 DEF WalksOn
    <3> QED  BY <3>1, <1>1, <1>2, InFlightShape, OpKinds DEF QueueInv, PushInFlight
  <2>2. ReadAt(inFlight.arg) = <<ReadOp(Len(acc))>> /\ ReadOp(Len(acc)) \in Op
    BY <2>1, <1>2, OpsTyped, OpKinds
  <2> DEFINE new == <<ReadOp(Len(acc))>>
  <2>3. /\ new \in Seq(Op) /\ Completed(new)
        /\ inFlight.last /\ (inFlight.do = "subscribe" <=> inFlight.batch = "subscribe")
    BY <2>1, <2>2, <1>2, <1>3, OpKinds
  <2>4. {op.batch : op \in Members(new)} \ {"subscribe"} = Batches(new)
    BY DEF Members, Batches
  <2>5. /\ QueueTypeOK' /\ SlotInv' /\ AskedInv' /\ ops' = new /\ inFlight' = NoOp
    BY <1>1, <2>1, <2>3, <2>4, WalkAnswered
  <2>6. acc' = acc
    BY <1>3
  <2> QED  BY <2>5, <2>6 DEF QueueInv, ShapeInv, OnTheWalk, WalkOps
<1>4. CASE /\ Collects(inFlight) /\ acc' = Append(acc, reply.value)
           /\ Completed(CursorAt(inFlight.arg + 1)) /\ UNCHANGED phone
  <2>1. inFlight = ReadOp(Len(acc)) /\ ops = <<>>
    <3>1. inFlight.do = "read"
      BY <1>4 DEF Collects
    <3> QED  BY <3>1, <1>1, <1>2, InFlightShape, OpKinds DEF QueueInv, PushInFlight
  <2>2. CursorAt(inFlight.arg + 1) = <<CursorOp(Len(acc) + 1)>> /\ CursorOp(Len(acc) + 1) \in Op
    BY <2>1, <1>2, OpsTyped, OpKinds
  <2> DEFINE new == <<CursorOp(Len(acc) + 1)>>
  <2>3. /\ new \in Seq(Op) /\ Completed(new)
        /\ inFlight.last /\ (inFlight.do = "subscribe" <=> inFlight.batch = "subscribe")
    BY <2>1, <2>2, <1>2, <1>4, OpKinds
  <2>4. {op.batch : op \in Members(new)} \ {"subscribe"} = Batches(new)
    BY DEF Members, Batches
  <2>5. /\ QueueTypeOK' /\ SlotInv' /\ AskedInv' /\ ops' = new /\ inFlight' = NoOp
    BY <1>1, <2>1, <2>3, <2>4, WalkAnswered
  <2>6. reply.value \in Friend
    BY <1>1, <1>4 DEF Collects, QueueInv, QueueTypeOK, Reply
  <2>7. Len(acc') = Len(acc) + 1
    BY <2>6, <1>4, AppendProperties DEF ListTypeOK
  <2> QED  BY <2>5, <2>7 DEF QueueInv, ShapeInv, OnTheWalk, WalkOps
<1>5. CASE /\ Merges(inFlight) /\ phone' = Merge(phone, acc)
           /\ Completed(Push(Merge(phone, acc)) \o Single("subscribe", "subscribe", 0)) /\ UNCHANGED acc
  <2>1. inFlight = ReadOp(Len(acc)) /\ ops = <<>>
    <3>1. inFlight.do = "read"
      BY <1>5 DEF Merges
    <3> QED  BY <3>1, <1>1, <1>2, InFlightShape, OpKinds DEF QueueInv, PushInFlight
  <2>2. inFlight.last /\ (inFlight.do = "subscribe" <=> inFlight.batch = "subscribe")
    BY <2>1, <1>2, OpKinds
  <2> DEFINE list == Merge(phone, acc)
             new == Push(list) \o Single("subscribe", "subscribe", 0)
  <2>3. list \in Seq(Friend)
    BY SyncAssumption, MergeProperties DEF ListTypeOK
  <2>4. /\ new \in Seq(Op) /\ Len(new) = Len(list) + 2 /\ DOMAIN new = 1 .. Len(list) + 2
        /\ new[1].batch = "push" /\ new[1].do = "clear" /\ (new[1].last <=> Len(list) = 0)
        /\ \A i \in 2 .. Len(list) + 1 : new[i] = UpsertOp(list[i - 1], i = Len(list) + 1)
        /\ \A i \in 2 .. Len(list) + 1 : list[i - 1] \in Friend
        /\ new[Len(list) + 2] = SubscribeOp
        /\ Batches(new) = {"push"}
        /\ {op.batch : op \in Members(new)} = {"push", "subscribe"}
    BY <2>3, PushProperties
  <2>5. Len(list) \in Nat
    BY <2>3, LenProperties
  <2>6. Completed(new)
    BY <1>5
  <2> HIDE DEF list, new
  <2>7. /\ QueueTypeOK' /\ SlotInv' /\ AskedInv' /\ ops' = new /\ inFlight' = NoOp
    BY <1>1, <2>1, <2>2, <2>4, <2>6, WalkAnswered
  <2>8. ASSUME NEW i \in DOMAIN new
        PROVE  IF i = Len(new) THEN new[i] = SubscribeOp
               ELSE /\ new[i].batch = "push" /\ (new[i].last <=> i = Len(new) - 1)
                    /\ \/ new[i].do = "upsert" /\ new[i].arg \in Friend
                       \/ new[i].do = "clear" /\ i = 1
    <3>1. CASE i = Len(new)
      BY <3>1, <2>4
    <3>2. CASE i = 1
      <4>1. i # Len(new) /\ (i = Len(new) - 1 <=> Len(list) = 0)
        BY <3>2, <2>4, <2>5
      <4> QED  BY <3>2, <4>1, <2>4
    <3>3. CASE i # 1 /\ i # Len(new)
      <4>1. i \in 2 .. Len(list) + 1 /\ (i = Len(list) + 1 <=> i = Len(new) - 1)
        BY <3>3, <2>4, <2>5
      <4>2. new[i] = UpsertOp(list[i - 1], i = Len(list) + 1) /\ list[i - 1] \in Friend
        BY <4>1, <2>4
      <4>3. /\ new[i].batch = "push" /\ (new[i].last <=> i = Len(list) + 1)
            /\ new[i].do = "upsert" /\ new[i].arg = list[i - 1]
        <5> DEFINE b == i = Len(list) + 1
        <5>1. b \in BOOLEAN /\ new[i] = UpsertOp(list[i - 1], b)
          BY <4>2
        <5> HIDE DEF b
        <5>2. /\ new[i].batch = "push" /\ (new[i].last <=> b)
              /\ new[i].do = "upsert" /\ new[i].arg = list[i - 1]
          BY <5>1, UpsertFields
        <5> QED  BY <5>2 DEF b
      <4> QED  BY <3>3, <4>1, <4>2, <4>3
    <3> QED  BY <3>1, <3>2, <3>3
  <2> QED  BY <2>7, <2>8 DEF QueueInv, ShapeInv, Pushing
<1>6. CASE /\ ~(WalksOn(inFlight) \/ Collects(inFlight) \/ Merges(inFlight))
           /\ Completed(<<>>) /\ UNCHANGED <<phone, acc>>
  <2>1. <<>> \in Seq(Op) /\ Batches(<<>>) = {} /\ ops \o <<>> = ops
    BY ConcatEmptySeq DEF Batches, QueueInv, QueueTypeOK
  <2>2. CASE ops = <<>>
    <3>1. inFlight.last /\ (inFlight.do = "subscribe" <=> inFlight.batch = "subscribe")
      BY <2>2, <1>1, <1>2, InFlightShape, OpKinds DEF QueueInv, PushInFlight
    <3>2. {op.batch : op \in Members(<<>>)} \ {"subscribe"} = Batches(<<>>)
      BY <2>1, MembersOf
    <3>3. /\ QueueTypeOK' /\ SlotInv' /\ AskedInv' /\ ops' = <<>> /\ inFlight' = NoOp
      BY <1>1, <1>6, <2>1, <2>2, <3>1, <3>2, WalkAnswered
    <3> QED  BY <3>3 DEF QueueInv, ShapeInv, Pushing
  <2>3. CASE ops # <<>>
    <3> DEFINE op == inFlight
               answered == IF Says(op, reply.ok) = "nothing" THEN {} ELSE {op.batch}
    <3>1. /\ up /\ inFlight' = NoOp /\ reply' = NoReply /\ slot' = "free" /\ ops' = ops
          /\ failed' = IF reply.ok THEN failed ELSE failed \cup {op.batch}
          /\ asked' = asked \ answered
          /\ twice' = (twice \/ ~(answered \subseteq asked))
          /\ UNCHANGED <<up, missing, posts>> /\ acc' = acc
      BY <1>6, <2>1 DEF Completed
    <3>2. \/ op = IdentityOp /\ ops = <<CursorOp(0)>> /\ acc = <<>>
          \/ PushInFlight
      BY <1>1, <2>3, InFlightShape DEF QueueInv
    <3>3. op.batch \in Batch
      BY <1>1 DEF Op
    <3>4. QueueTypeOK'
      BY <3>1, <3>3 DEF QueueInv, QueueTypeOK
    <3>5. SlotInv'
      BY <3>1 DEF QueueInv, SlotInv
    <3>6. ShapeInv'
      <4>1. CASE op = IdentityOp /\ ops = <<CursorOp(0)>> /\ acc = <<>>
        <5>1. Len(acc) = 0
          BY <4>1
        <5> QED  BY <3>1, <4>1, <5>1 DEF ShapeInv, OnTheWalk, WalkOps
      <4>2. CASE PushInFlight
        BY <3>1, <4>2, <1>1 DEF PushInFlight, Pushing, ShapeInv
      <4> QED  BY <3>2, <4>1, <4>2
    <3>7. AskedInv'
      <4>1. Coming = {op} \cup Members(ops) /\ Coming' = Members(ops)
        BY <3>1, <1>1 DEF Coming
      <4>2. {o.batch : o \in Coming} = {op.batch} \cup {o.batch : o \in Members(ops)}
        BY <4>1
      <4>3. op.do # "subscribe" /\ op.batch # "subscribe"
        BY <3>2, OpKinds DEF PushInFlight
      <4>4. answered \subseteq asked
        BY <4>2, <4>3 DEF Says, QueueInv, AskedInv
      <4>5. CASE op.last
        <5>1. op.batch \notin {o.batch : o \in Members(ops)}
          <6>1. CASE op = IdentityOp /\ ops = <<CursorOp(0)>>
            <7>1. Members(ops) = {CursorOp(0)}
              BY <6>1, MembersOf
            <7> QED  BY <6>1, <7>1, OpKinds
          <6>2. CASE PushInFlight
            <7>1. Len(ops) = 1
              BY <4>5, <6>2 DEF PushInFlight
            <7>2. DOMAIN ops = {1} /\ ops[1] = SubscribeOp
              <8>1. DOMAIN ops = 1 .. Len(ops)
                BY LenProperties DEF QueueInv, QueueTypeOK
              <8> QED  BY <7>1, <8>1, <6>2 DEF PushInFlight, Pushing
            <7>3. Members(ops) = {SubscribeOp}
              BY <7>2 DEF Members
            <7> QED  BY <7>3, <4>3, OpKinds
          <6> QED  BY <3>2, <6>1, <6>2
        <5>2. asked' = asked \ {op.batch}
          BY <3>1, <4>2, <4>3, <4>5 DEF Says, QueueInv, AskedInv
        <5>3. asked' = {o.batch : o \in Members(ops)} \ ({"subscribe"} \cup failed')
          <6>1. CASE reply.ok
            BY <6>1, <3>1, <4>2, <5>1, <5>2 DEF QueueInv, AskedInv
          <6>2. CASE ~reply.ok
            BY <6>2, <3>1, <4>2, <5>1, <5>2 DEF QueueInv, AskedInv
          <6> QED  BY <6>1, <6>2
        <5> QED  BY <3>1, <4>1, <4>4, <5>3 DEF QueueInv, AskedInv
      <4>6. CASE ~op.last
        <5>1. PushInFlight /\ Len(ops) # 1
          BY <3>2, <4>6, OpKinds DEF PushInFlight
        <5>2. Len(ops) \in Nat \ {0} /\ DOMAIN ops = 1 .. Len(ops)
          BY <2>3, MembersOfTail DEF QueueInv, QueueTypeOK
        <5>3. 1 \in DOMAIN ops /\ ops[1].batch = "push" /\ op.batch = "push"
          BY <5>1, <5>2 DEF PushInFlight, Pushing
        <5>4. op.batch \in {o.batch : o \in Members(ops)}
          BY <5>3 DEF Members
        <5>5. asked' = {o.batch : o \in Members(ops)} \ ({"subscribe"} \cup failed')
          <6>1. CASE reply.ok
            BY <6>1, <3>1, <4>2, <4>6, <5>4 DEF Says, QueueInv, AskedInv
          <6>2. CASE ~reply.ok
            BY <6>2, <3>1, <4>2, <4>3, <5>4 DEF Says, QueueInv, AskedInv
          <6> QED  BY <6>1, <6>2
        <5> QED  BY <3>1, <4>1, <4>4, <5>5 DEF QueueInv, AskedInv
      <4> QED  BY <4>5, <4>6
    <3> QED  BY <3>4, <3>5, <3>6, <3>7 DEF QueueInv
  <2> QED  BY <2>2, <2>3
<1> QED  BY <1>3, <1>4, <1>5, <1>6 DEF Answer

\* A lost link answers everything that was still to be answered.
LEMMA LostKeepsQueue ==
    ASSUME QueueInv, Lost
    PROVE  QueueInv' /\ Coming' = {} /\ inFlight' = NoOp /\ ops' = <<>> /\ reply' = NoReply
<1>1. /\ ~up' /\ ops' = <<>> /\ inFlight' = NoOp /\ slot' = "free" /\ reply' = NoReply /\ failed' = {}
      /\ UNCHANGED <<missing, posts, twice>> /\ up' \in BOOLEAN
      /\ asked' = asked \ {op.batch : op \in {o \in {inFlight} \cup {ops[i] : i \in DOMAIN ops} :
                                                 o # NoOp /\ o.batch \notin failed}}
  BY DEF Lost, FailAll
<1>2. ASSUME NEW b \in asked'
      PROVE  FALSE
  <2>1. PICK op \in Coming : op.batch = b
    BY <1>1 DEF QueueInv, AskedInv
  <2>2. op # NoOp
    <3>1. \A i \in DOMAIN ops : ops[i] \in Op
      BY LenProperties, ElementOfSeq DEF QueueInv, QueueTypeOK
    <3> QED  BY <2>1, <3>1, OpsTyped DEF Coming, Members
  <2>3. op.batch \notin failed
    BY <2>1, <1>1 DEF QueueInv, AskedInv
  <2>4. op \in {o \in {inFlight} \cup {ops[i] : i \in DOMAIN ops} : o # NoOp /\ o.batch \notin failed}
    BY <2>1, <2>2, <2>3 DEF Coming, Members
  <2> QED  BY <2>1, <2>4, <1>1
<1>3. Coming' = {}
  BY <1>1, MembersOf DEF Coming
<1>4. asked' = {}
  BY <1>2
<1> HIDE <1>1
<1>5. QueueTypeOK'
  BY <1>1, <1>4 DEF QueueInv, QueueTypeOK
<1>6. SlotInv'
  BY <1>1 DEF QueueInv, SlotInv
<1>7. ShapeInv'
  BY <1>1 DEF ShapeInv, Pushing
<1>8. AskedInv'
  BY <1>1, <1>3, <1>4 DEF QueueInv, AskedInv
<1> QED  BY <1>1, <1>3, <1>5, <1>6, <1>7, <1>8 DEF QueueInv

\* An answer on its way changes nothing that waits.
LEMMA ServeKeepsQueue ==
    ASSUME QueueInv, NEW ok \in BOOLEAN, NEW value \in Friend \cup {End}, Replied(ok, value), acc' = acc
    PROVE  QueueInv' /\ Coming' = Coming
<1>1. /\ inFlight # NoOp /\ reply = NoReply /\ reply' = [ok |-> ok, value |-> value]
      /\ UNCHANGED <<up, missing, ops, inFlight, slot, posts, failed, asked, twice>>
  BY DEF Replied
<1>2. reply' \in Reply
  BY <1>1 DEF Reply
<1> QED  BY <1>1, <1>2 DEF QueueInv, QueueTypeOK, SlotInv, ShapeInv, Opening, OnTheWalk,
                            WalkOps, Pushing, AskedInv, Coming, Members

\* What leaves the queue alone, but for the slot of other operations.
LEMMA OtherKeepsQueue ==
    ASSUME QueueInv, UNCHANGED <<up, missing, ops, inFlight, reply, posts, failed, asked, twice, acc>>,
           slot' = slot \/ (slot' \in {"free", "other"} /\ slot # "control")
    PROVE  QueueInv' /\ Coming' = Coming
  BY DEF QueueInv, QueueTypeOK, SlotInv, ShapeInv, Opening, OnTheWalk, WalkOps, Pushing, AskedInv, Coming, Members

-----------------------------------------------------------------------------
(* The lists.                                                               *)

CoverInv == NothingLost /\ SavedInv
SyncInv == QueueInv /\ ListTypeOK /\ WalkInv /\ ReadInv /\ ClearInv /\ CoverInv

LEMMA AppendMembers ==
    ASSUME NEW s \in Seq(Friend), NEW f \in Friend
    PROVE  /\ Append(s, f) \in Seq(Friend) /\ Len(Append(s, f)) = Len(s) + 1 /\ Len(s) \in Nat
           /\ \A i \in 1 .. Len(s) : Append(s, f)[i] = s[i]
           /\ Append(s, f)[Len(s) + 1] = f
           /\ Members(Append(s, f)) = Members(s) \cup {f}
<1>1. /\ Append(s, f) \in Seq(Friend) /\ Len(Append(s, f)) = Len(s) + 1 /\ Len(s) \in Nat
      /\ \A i \in 1 .. Len(s) : Append(s, f)[i] = s[i]
      /\ Append(s, f)[Len(s) + 1] = f
  BY AppendProperties, LenProperties
<1>2. DOMAIN s = 1 .. Len(s) /\ DOMAIN Append(s, f) = 1 .. Len(s) + 1
  BY <1>1, LenProperties
<1>3. \A i \in 1 .. Len(s) + 1 : i \in 1 .. Len(s) \/ i = Len(s) + 1
  BY <1>1
<1>4. Len(s) + 1 \in 1 .. Len(s) + 1 /\ \A i \in 1 .. Len(s) : i \in 1 .. Len(s) + 1
  BY <1>1
<1> QED  BY <1>1, <1>2, <1>3, <1>4 DEF Members

LEMMA MembersTyped ==
    ASSUME NEW s \in Seq(Friend)
    PROVE  /\ Members(s) \in SUBSET Friend /\ DOMAIN s = 1 .. Len(s) /\ Len(s) \in Nat
           /\ \A i \in 1 .. Len(s) : s[i] \in Friend /\ s[i] \in Members(s)
  BY LenProperties, ElementOfSeq DEF Members

LEMMA TailTyped ==
    ASSUME NEW s \in Seq(Friend), s # <<>>
    PROVE  Head(s) \in Friend /\ Tail(s) \in Seq(Friend)
  BY HeadTailProperties

\* What neither touches the walk nor wipes a friend keeps what is said of them.
LEMMA NothingNew ==
    ASSUME SyncInv, QueueInv', ListTypeOK',
           UNCHANGED <<phone, acc, term, saved, cursor, made, late, raced>>,
           Coming' \subseteq Coming, Clearing' => Clearing,
           inFlight' = NoOp \/ (inFlight' = inFlight /\ reply' = reply)
             \/ (reply' = NoReply)
    PROVE  SyncInv'
<1>1. WalkInv'
  <2> SUFFICES ASSUME Walks'
               PROVE  /\ Len(acc) <= Len(term)
                      /\ \A k \in 1 .. Len(acc) : acc[k] = term[k]
                      /\ (ReadOp(Len(acc)) \in Coming' => cursor = Len(acc))
                      /\ (inFlight' = CursorOp(Len(acc)) /\ reply' # NoReply) => cursor = Len(acc)
    BY DEF WalkInv
  <2>1. Walks
    BY DEF Walks
  <2>2. CursorOp(Len(acc)) # NoOp
    BY OpsTyped, LenProperties DEF SyncInv, ListTypeOK
  <2> QED  BY <2>1, <2>2 DEF SyncInv, WalkInv
<1>2. ReadInv'
  <2>1. ReadOp(Len(acc)) # NoOp
    BY OpsTyped, LenProperties DEF SyncInv, ListTypeOK
  <2> QED  BY <2>1 DEF SyncInv, ReadInv
<1>3. ClearInv'
  BY DEF SyncInv, ClearInv
<1>4. CoverInv'
  BY DEF SyncInv, CoverInv, NothingLost, SavedInv
<1> QED  BY <1>1, <1>2, <1>3, <1>4 DEF SyncInv

LEMMA InitSync ==
    ASSUME Init
    PROVE  SyncInv
<1>1. /\ up = FALSE /\ missing = FALSE
      /\ ops = <<>> /\ inFlight = NoOp /\ slot = "free" /\ reply = NoReply
      /\ posts = 0 /\ failed = {} /\ asked = {} /\ twice = FALSE
  BY DEF Init, QueueInit
<1>2. Coming = {}
  BY <1>1, MembersOf DEF Coming
<1>3. QueueInv
  <2>1. QueueTypeOK
    BY <1>1, EmptySeq DEF QueueTypeOK
  <2>2. SlotInv
    BY <1>1 DEF SlotInv
  <2>3. ShapeInv
    BY <1>1 DEF ShapeInv, Pushing
  <2>4. AskedInv
    BY <1>1, <1>2 DEF AskedInv
  <2> QED  BY <2>1, <2>2, <2>3, <2>4 DEF QueueInv
<1>4. phone \in Seq(Friend) /\ Len(phone) <= Cap /\ term \in Seq(Friend) /\ Len(term) <= Cap
  <2>1. ASSUME NEW s \in Lists
        PROVE  s \in Seq(Friend) /\ Len(s) <= Cap
    <3>1. PICK n \in 0 .. Cap : s \in [1 .. n -> Friend]
      BY SyncAssumption DEF Lists
    <3>2. n \in Nat /\ n <= Cap
      BY SyncAssumption
    <3> QED  BY <3>1, <3>2
  <2> QED  BY <2>1 DEF Init
<1>5. /\ saved = term /\ acc = <<>> /\ cursor = 0 /\ events = <<>> /\ notes = <<>>
      /\ made = Members(phone) \cup Members(term) /\ late = {} /\ raced = {}
  BY DEF Init
<1>6. ListTypeOK
  BY <1>4, <1>5, MembersTyped DEF ListTypeOK
<1>7. WalkInv /\ ReadInv /\ ClearInv
  BY <1>1, <1>2 DEF WalkInv, Walks, ReadInv, ClearInv, Clearing
<1>8. CoverInv
  BY <1>5 DEF CoverInv, NothingLost, SavedInv
<1> QED  BY <1>3, <1>6, <1>7, <1>8 DEF SyncInv

LEMMA ConnectKeepsSync ==
    ASSUME SyncInv, Connect
    PROVE  SyncInv'
<1>1. QueueInv'
  BY ConnectKeepsQueue DEF SyncInv
<1>2. /\ acc' = <<>> /\ ~up /\ ops' = ops \o (Single("identity", "identity", 0) \o CursorAt(0))
      /\ UNCHANGED <<inFlight, reply>>
      /\ UNCHANGED <<phone, listening, term, cursor, saved, dirty, task, events, notes, drops, made, late, raced>>
  BY DEF Connect, Opened
<1>3. ops = <<>> /\ inFlight = NoOp /\ reply = NoReply
  BY <1>2 DEF SyncInv, QueueInv, SlotInv
<1>4. ops' = <<IdentityOp, CursorOp(0)>>
  <2>1. Single("identity", "identity", 0) = <<IdentityOp>> /\ CursorAt(0) = <<CursorOp(0)>>
        /\ IdentityOp \in Op /\ CursorOp(0) \in Op
    BY OpsTyped
  <2>2. <<IdentityOp>> \o <<CursorOp(0)>> = <<IdentityOp, CursorOp(0)>>
    BY <2>1, PairIsConcat
  <2>3. <<IdentityOp, CursorOp(0)>> \in Seq(Op)
    BY <2>1
  <2> QED  BY <1>2, <1>3, <2>1, <2>2, <2>3, ConcatEmptySeq
<1>5. ListTypeOK'
  BY <1>2 DEF SyncInv, ListTypeOK
<1>6. Coming' = {IdentityOp, CursorOp(0)} /\ Len(acc') = 0
  BY <1>2, <1>3, <1>4, MembersOf DEF Coming
<1>7. WalkInv'
  <2>1. ReadOp(0) \notin Coming'
    BY <1>6, OpKinds
  <2>2. Len(term) \in Nat
    BY MembersTyped DEF SyncInv, ListTypeOK
  <2> QED  BY <1>2, <1>3, <1>6, <2>1, <2>2 DEF WalkInv
<1>8. ReadInv'
  BY <1>2, <1>3 DEF ReadInv
<1>9. ~Clearing'
  <2>1. \A i \in DOMAIN ops' : ops'[i] \in {IdentityOp, CursorOp(0)}
    BY <1>4
  <2> QED  BY <1>2, <1>3, <2>1, OpKinds DEF Clearing
<1>10. ClearInv' /\ CoverInv'
  BY <1>2, <1>9 DEF SyncInv, ClearInv, CoverInv, NothingLost, SavedInv
<1> QED  BY <1>1, <1>5, <1>7, <1>8, <1>10 DEF SyncInv

LEMMA PumpKeepsSync ==
    ASSUME SyncInv, PumpQueue
    PROVE  SyncInv'
<1>1. QueueInv'
  BY PumpKeepsQueue DEF SyncInv
<1>2. /\ Pump /\ reply' = reply
      /\ UNCHANGED <<phone, acc, term, cursor, saved, dirty, task, events, subscribed, notes, drops, made, late, raced>>
  BY DEF PumpQueue, Pump
<1>3. ListTypeOK'
  BY <1>2 DEF SyncInv, ListTypeOK
<1>4. CASE missing
  <2>1. UNCHANGED <<ops, inFlight>>
    BY <1>2, <1>4 DEF Pump
  <2> QED  BY <1>1, <1>2, <1>3, <2>1, NothingNew DEF Coming, Members, Clearing
<1>5. CASE ~missing
  <2>1. slot = "free" /\ ops # <<>> /\ inFlight' = Head(ops) /\ ops' = Tail(ops)
    BY <1>2, <1>5 DEF Pump
  <2>2. inFlight = NoOp /\ reply = NoReply
    BY <2>1 DEF SyncInv, QueueInv, SlotInv
  <2>3. /\ inFlight' = ops[1] /\ Members(ops) = {ops[1]} \cup Members(ops') /\ 1 \in DOMAIN ops
    BY <2>1, MembersOfTail DEF SyncInv, QueueInv, QueueTypeOK
  <2>4. Coming' \subseteq Coming
    BY <2>2, <2>3 DEF Coming
  <2>5. Clearing' => Clearing
    <3>1. ASSUME NEW i \in DOMAIN ops', ops'[i].do = "clear"
          PROVE  Clearing
      <4>1. ops'[i] \in Members(ops)
        BY <2>3 DEF Members
      <4> QED  BY <3>1, <4>1 DEF Clearing, Members
    <3>2. inFlight'.do = "clear" => Clearing
      BY <2>3 DEF Clearing
    <3> QED  BY <3>1, <3>2 DEF Clearing
  <2> QED  BY <1>1, <1>2, <1>3, <2>2, <2>4, <2>5, NothingNew
<1> QED  BY <1>4, <1>5

LEMMA FailHeadKeepsSync ==
    ASSUME SyncInv, FailHead, UNCHANGED syncVars
    PROVE  SyncInv'
<1>1. UNCHANGED <<phone, acc, term, cursor, saved, events, notes, made, late, raced>>
  BY DEF syncVars
<1>2. QueueInv'
  BY <1>1, FailHeadKeepsQueue DEF SyncInv
<1>3. ListTypeOK'
  BY <1>1 DEF SyncInv, ListTypeOK
<1>4. UNCHANGED <<inFlight, reply>>
  BY DEF FailHead
<1>5. CASE ops = <<>>
  BY <1>1, <1>2, <1>3, <1>4, <1>5, NothingNew DEF FailHead, Coming, Members, Clearing
<1>6. CASE ops # <<>>
  <2>1. ops' = Tail(ops)
    BY <1>6 DEF FailHead
  <2>2. Members(ops) = {ops[1]} \cup Members(ops')
    BY <1>6, <2>1, MembersOfTail DEF SyncInv, QueueInv, QueueTypeOK
  <2>3. Coming' \subseteq Coming
    BY <1>4, <2>2 DEF Coming
  <2>4. Clearing' => Clearing
    <3>1. ASSUME NEW i \in DOMAIN ops', ops'[i].do = "clear"
          PROVE  Clearing
      <4>1. ops'[i] \in Members(ops)
        BY <2>2 DEF Members
      <4> QED  BY <3>1, <4>1 DEF Clearing, Members
    <3> QED  BY <3>1, <1>4 DEF Clearing
  <2> QED  BY <1>1, <1>2, <1>3, <1>4, <2>3, <2>4, NothingNew
<1> QED  BY <1>5, <1>6

\* A list that grows keeps what is said of who is on it.
LEMMA PhoneGrows ==
    ASSUME SyncInv, ListTypeOK', Len(phone) <= Len(phone'), Members(phone) \subseteq Members(phone'),
           UNCHANGED <<term, saved, made, late, raced>>
    PROVE  /\ CoverInv'
           /\ (Clearing' => Clearing) => ClearInv'
<1>1. Len(phone) \in Nat /\ Len(phone') \in Nat /\ Cap \in Nat
  BY LenProperties, SyncAssumption DEF SyncInv, ListTypeOK
<1>2. Len(phone') < Cap => Len(phone) < Cap
  BY <1>1
<1>3. CoverInv'
  BY <1>2 DEF SyncInv, CoverInv, NothingLost, SavedInv
<1>4. (Clearing' => Clearing) => ClearInv'
  BY <1>2 DEF SyncInv, ClearInv
<1> QED  BY <1>3, <1>4

LEMMA AnswerKeepsSync ==
    ASSUME SyncInv, Answer
    PROVE  SyncInv'
<1>1. QueueInv'
  BY AnswerKeepsQueue DEF SyncInv
<1>2. /\ reply # NoReply /\ inFlight # NoOp /\ inFlight \in Op /\ inFlight \in Coming
      /\ UNCHANGED <<term, cursor, saved, events, notes, made, late, raced>>
  BY DEF Answer, SyncInv, QueueInv, SlotInv, QueueTypeOK, Coming
<1>3. /\ phone \in Seq(Friend) /\ Len(phone) <= Cap /\ acc \in Seq(Friend)
      /\ term \in Seq(Friend) /\ Len(term) <= Cap /\ Cap \in Nat
      /\ Len(acc) \in Nat /\ Len(term) \in Nat /\ Len(phone) \in Nat
  BY LenProperties, SyncAssumption DEF SyncInv, ListTypeOK
<1>4. ASSUME NEW new, Completed(new)
      PROVE  inFlight' = NoOp /\ reply' = NoReply /\ ops' = ops \o new
  BY <1>4 DEF Completed
<1>5. ASSUME inFlight.do \in {"cursor", "read"}
      PROVE  /\ ops = <<>> /\ Walks
             /\ inFlight.do = "cursor" => inFlight = CursorOp(Len(acc))
             /\ inFlight.do = "read" => inFlight = ReadOp(Len(acc))
  BY <1>2, <1>3, <1>5, InFlightShape, OpKinds DEF SyncInv, QueueInv, PushInFlight, Walks
<1>6. CASE WalksOn(inFlight) /\ Completed(ReadAt(inFlight.arg)) /\ UNCHANGED <<phone, acc>>
  <2>1. inFlight = CursorOp(Len(acc)) /\ ops = <<>> /\ Walks
    BY <1>5, <1>6 DEF WalksOn
  <2>2. ReadAt(inFlight.arg) = <<ReadOp(Len(acc))>> /\ ReadOp(Len(acc)) \in Op
    BY <2>1, <1>3, OpsTyped, OpKinds
  <2>3. ops' = <<ReadOp(Len(acc))>> /\ inFlight' = NoOp /\ reply' = NoReply
    <3>1. <<ReadOp(Len(acc))>> \in Seq(Op)
      BY <2>2
    <3> QED  BY <1>4, <1>6, <2>1, <2>2, <3>1, ConcatEmptySeq
  <2>4. ListTypeOK'
    BY <1>2, <1>6 DEF SyncInv, ListTypeOK
  <2>5. cursor = Len(acc) /\ Len(acc) <= Len(term) /\ \A k \in 1 .. Len(acc) : acc[k] = term[k]
    BY <1>2, <2>1 DEF SyncInv, WalkInv
  <2>6. WalkInv' /\ ReadInv'
    BY <1>2, <1>6, <2>3, <2>5 DEF WalkInv, ReadInv
  <2>7. ~Clearing'
    <3>1. \A i \in DOMAIN ops' : ops'[i] = ReadOp(Len(acc))
      BY <2>3
    <3> QED  BY <1>3, <2>3, <3>1, OpKinds DEF Clearing
  <2> QED  BY <1>1, <1>2, <1>6, <2>4, <2>6, <2>7 DEF SyncInv, ClearInv, CoverInv, NothingLost, SavedInv
<1>7. CASE /\ Collects(inFlight) /\ acc' = Append(acc, reply.value)
           /\ Completed(CursorAt(inFlight.arg + 1)) /\ UNCHANGED phone
  <2>1. inFlight = ReadOp(Len(acc)) /\ ops = <<>> /\ Walks
    BY <1>5, <1>7 DEF Collects
  <2>2. CursorAt(inFlight.arg + 1) = <<CursorOp(Len(acc) + 1)>> /\ CursorOp(Len(acc) + 1) \in Op
    BY <2>1, <1>3, OpsTyped, OpKinds
  <2>3. ops' = <<CursorOp(Len(acc) + 1)>> /\ inFlight' = NoOp /\ reply' = NoReply
    <3>1. <<CursorOp(Len(acc) + 1)>> \in Seq(Op)
      BY <2>2
    <3> QED  BY <1>4, <1>7, <2>1, <2>2, <3>1, ConcatEmptySeq
  <2>4. reply.value \in Friend /\ reply.value # End
    BY <1>2, <1>7 DEF Collects, SyncInv, QueueInv, QueueTypeOK, Reply
  <2>5. /\ acc' \in Seq(Friend) /\ Len(acc') = Len(acc) + 1
        /\ \A i \in 1 .. Len(acc) : acc'[i] = acc[i]
        /\ acc'[Len(acc) + 1] = reply.value
    BY <1>3, <1>7, <2>4, AppendMembers
  <2>6. ListTypeOK'
    BY <1>2, <1>7, <2>5 DEF SyncInv, ListTypeOK
  <2>7. Len(acc) < Len(term) /\ reply.value = term[Len(acc) + 1] /\ \A k \in 1 .. Len(acc) : acc[k] = term[k]
    BY <1>2, <2>1, <2>4 DEF SyncInv, WalkInv, ReadInv
  <2>8. WalkInv'
    <3>1. Coming' = {CursorOp(Len(acc) + 1)}
      BY <2>3, MembersOf DEF Coming
    <3>2. ReadOp(Len(acc')) \notin Coming'
      BY <1>3, <2>5, <3>1, OpKinds
    <3>3. Len(acc') <= Len(term)
      BY <1>3, <2>5, <2>7
    <3>4. ASSUME NEW k \in 1 .. Len(acc')
          PROVE  acc'[k] = term[k]
      <4>1. k \in 1 .. Len(acc) \/ k = Len(acc) + 1
        BY <1>3, <2>5
      <4> QED  BY <4>1, <2>5, <2>7
    <3> QED  BY <1>2, <2>3, <3>2, <3>3, <3>4 DEF WalkInv
  <2>9. ReadInv'
    BY <2>3 DEF ReadInv
  <2>10. ~Clearing'
    <3>1. \A i \in DOMAIN ops' : ops'[i] = CursorOp(Len(acc) + 1)
      BY <2>3
    <3> QED  BY <1>3, <2>3, <3>1, OpKinds DEF Clearing
  <2> QED  BY <1>1, <1>2, <1>7, <2>6, <2>8, <2>9, <2>10 DEF SyncInv, ClearInv, CoverInv, NothingLost, SavedInv
<1>8. CASE /\ Merges(inFlight) /\ phone' = Merge(phone, acc)
           /\ Completed(Push(Merge(phone, acc)) \o Single("subscribe", "subscribe", 0)) /\ UNCHANGED acc
  <2>1. inFlight = ReadOp(Len(acc)) /\ ops = <<>> /\ Walks
    BY <1>5, <1>8 DEF Merges
  <2>2. /\ phone' \in Seq(Friend) /\ Len(phone') <= Cap /\ Len(phone) <= Len(phone')
        /\ Members(phone) \subseteq Members(phone')
        /\ Len(phone') < Cap => Members(acc) \subseteq Members(phone')
    BY <1>3, <1>8, MergeProperties
  <2>3. ListTypeOK'
    BY <1>2, <1>8, <2>2 DEF SyncInv, ListTypeOK
  <2> DEFINE new == Push(Merge(phone, acc)) \o Single("subscribe", "subscribe", 0)
  <2>4. /\ new \in Seq(Op) /\ {op.batch : op \in Members(new)} = {"push", "subscribe"}
    <3>1. Merge(phone, acc) \in Seq(Friend)
      BY <1>8, <2>2
    <3> QED  BY <3>1, PushProperties
  <2>5. Completed(new)
    BY <1>8
  <2> HIDE DEF new
  <2>6. ops' = new /\ inFlight' = NoOp /\ reply' = NoReply
    BY <1>4, <2>1, <2>4, <2>5, ConcatEmptySeq
  <2>7. ~Walks'
    <3>1. Coming' = Members(new)
      BY <2>6 DEF Coming
    <3>2. \A op \in Members(new) : op.batch \in {"push", "subscribe"}
      BY <2>4
    <3> QED  BY <3>1, <3>2 DEF Walks
  <2>8. WalkInv' /\ ReadInv'
    BY <2>6, <2>7 DEF WalkInv, ReadInv
  <2>9. Members(term) \subseteq Members(acc) \cup late
    <3>1. inFlight.arg = Len(acc) /\ (reply.value = End \/ ~(Len(acc) < Cap))
      BY <1>3, <1>8, <2>1, OpKinds DEF Merges, Collects
    <3>2. CASE reply.value = End
      BY <1>2, <2>1, <3>2 DEF SyncInv, ReadInv
    <3>3. CASE reply.value # End
      <4>1. Len(acc) < Len(term)
        BY <1>2, <2>1, <3>3 DEF SyncInv, ReadInv
      <4> QED  BY <1>3, <3>1, <3>3, <4>1
    <3> QED  BY <3>2, <3>3
  <2>10. ClearInv'
    BY <1>2, <2>2, <2>9 DEF ClearInv
  <2>11. CoverInv'
    BY <1>2, <2>2, <2>3, PhoneGrows
  <2> QED  BY <1>1, <2>3, <2>8, <2>10, <2>11 DEF SyncInv
<1>9. CASE /\ ~(WalksOn(inFlight) \/ Collects(inFlight) \/ Merges(inFlight))
           /\ Completed(<<>>) /\ UNCHANGED <<phone, acc>>
  <2>1. ops' = ops /\ inFlight' = NoOp /\ reply' = NoReply
    BY <1>4, <1>9, ConcatEmptySeq DEF SyncInv, QueueInv, QueueTypeOK
  <2>2. ListTypeOK'
    BY <1>2, <1>9 DEF SyncInv, ListTypeOK
  <2>3. Coming' \subseteq Coming /\ (Clearing' => Clearing)
    BY <2>1 DEF Coming, Members, Clearing
  <2> QED  BY <1>1, <1>2, <1>9, <2>1, <2>2, <2>3, NothingNew
<1> QED  BY <1>6, <1>7, <1>8, <1>9 DEF Answer

LEMMA OnFriendNotifyKeepsSync ==
    ASSUME SyncInv, OnFriendNotify
    PROVE  SyncInv'
<1>1. /\ notes # <<>> /\ notes' = Tail(notes)
      /\ phone' = IF listening THEN Merge(phone, <<Head(notes)>>) ELSE phone
      /\ UNCHANGED <<up, missing, ops, inFlight, slot, reply, posts, failed, asked, twice>>
      /\ UNCHANGED <<acc, term, cursor, saved, events, made, late, raced>>
  BY DEF OnFriendNotify, queueVars
<1>2. QueueInv' /\ Coming' = Coming
  BY <1>1, OtherKeepsQueue DEF SyncInv
<1>3. Head(notes) \in Friend /\ notes' \in Seq(Friend)
  BY <1>1, TailTyped DEF SyncInv, ListTypeOK
<1>4. <<Head(notes)>> \in Seq(Friend) /\ Cap \in Nat
  BY <1>3, SyncAssumption
<1>5. /\ phone' \in Seq(Friend) /\ Len(phone') <= Cap /\ Len(phone) <= Len(phone')
      /\ Members(phone) \subseteq Members(phone')
  <2>1. CASE listening
    BY <2>1, <1>1, <1>4, MergeProperties DEF SyncInv, ListTypeOK
  <2>2. CASE ~listening
    BY <2>2, <1>1, LenProperties DEF SyncInv, ListTypeOK
  <2> QED  BY <2>1, <2>2
<1>6. ListTypeOK'
  BY <1>1, <1>3, <1>5 DEF SyncInv, ListTypeOK
<1>7. WalkInv' /\ ReadInv'
  BY <1>1, <1>2 DEF SyncInv, WalkInv, Walks, ReadInv
<1>8. ClearInv' /\ CoverInv'
  <2>1. Clearing' => Clearing
    BY <1>1 DEF Clearing
  <2> QED  BY <1>1, <1>5, <1>6, <2>1, PhoneGrows
<1> QED  BY <1>2, <1>6, <1>7, <1>8 DEF SyncInv

\* Without a link there is no walk and no push: what is left is what covers
\* the friends made.
LEMMA LostKeepsSync ==
    ASSUME SyncInv, Lost, ListTypeOK', CoverInv'
    PROVE  SyncInv'
<1>1. QueueInv' /\ Coming' = {} /\ inFlight' = NoOp /\ ops' = <<>> /\ reply' = NoReply
  BY LostKeepsQueue DEF SyncInv
<1>2. ~Walks' /\ ~Clearing'
  BY <1>1 DEF Walks, Clearing
<1> QED  BY <1>1, <1>2 DEF SyncInv, WalkInv, ReadInv, ClearInv

LEMMA DropKeepsSync ==
    ASSUME SyncInv, Drop
    PROVE  SyncInv'
<1>1. /\ Lost /\ notes' = <<>> /\ late' = {}
      /\ UNCHANGED <<phone, acc, term, cursor, saved, events, made, raced>>
  BY DEF Drop, Disconnected
<1>2. ListTypeOK'
  BY <1>1, EmptySeq DEF SyncInv, ListTypeOK
<1>3. CoverInv'
  BY <1>1 DEF SyncInv, CoverInv, NothingLost, SavedInv
<1> QED  BY <1>1, <1>2, <1>3, LostKeepsSync

LEMMA PowerCutKeepsSync ==
    ASSUME SyncInv, PowerCut
    PROVE  SyncInv'
<1>1. /\ term' = saved /\ cursor' = 0 /\ events' = <<>> /\ late' = {}
      /\ UNCHANGED <<phone, acc, saved, made, raced>>
  BY DEF PowerCut
<1>2. notes' \in Seq(Friend)
  BY EmptySeq DEF PowerCut, Disconnected, SyncInv, ListTypeOK
<1>3. ListTypeOK'
  <2>1. events' \in Seq(Friend)
    BY <1>1, EmptySeq
  <2> QED  BY <1>1, <1>2, <2>1 DEF SyncInv, ListTypeOK
<1>4. CoverInv'
  BY <1>1 DEF SyncInv, CoverInv, NothingLost, SavedInv
<1>5. CASE up
  BY <1>3, <1>4, <1>5, LostKeepsSync DEF PowerCut, Disconnected
<1>6. CASE ~up
  <2>1. UNCHANGED <<up, missing, ops, inFlight, slot, reply, posts, failed, asked, twice>>
    BY <1>6 DEF PowerCut, queueVars
  <2>2. QueueInv' /\ Coming' = Coming
    BY <1>1, <2>1, OtherKeepsQueue DEF SyncInv
  <2>3. ops = <<>> /\ inFlight = NoOp /\ reply = NoReply
    BY <1>6 DEF SyncInv, QueueInv, SlotInv
  <2>4. ~Walks' /\ ~Clearing'
    BY <2>1, <2>3, MembersOf DEF Walks, Clearing, Coming
  <2> QED  BY <1>3, <1>4, <2>1, <2>2, <2>3, <2>4 DEF SyncInv, WalkInv, ReadInv, ClearInv
<1> QED  BY <1>5, <1>6

\* A write of the push is in flight: nothing of the walk is, and a CLEAR is
\* not queued behind it.
LEMMA PushServed ==
    ASSUME SyncInv, inFlight # NoOp, inFlight.do \in {"clear", "upsert"}
    PROVE  /\ ~Walks /\ inFlight # ReadOp(Len(acc))
           /\ \A i \in DOMAIN ops : ops[i].do # "clear"
           /\ inFlight.do = "upsert" => inFlight.arg \in Friend
<1>1. PushInFlight /\ Len(acc) \in Nat
  BY LenProperties, InFlightShape, OpKinds DEF SyncInv, QueueInv, ListTypeOK
<1>2. \A i \in DOMAIN ops : ops[i].batch \in {"push", "subscribe"} /\ ops[i].do # "clear"
  <2> SUFFICES ASSUME NEW i \in DOMAIN ops
               PROVE  ops[i].batch \in {"push", "subscribe"} /\ ops[i].do # "clear"
    OBVIOUS
  <2>1. CASE i = Len(ops)
    BY <1>1, <2>1, OpKinds DEF PushInFlight, Pushing
  <2>2. CASE i # Len(ops)
    BY <1>1, <2>2 DEF PushInFlight, Pushing
  <2> QED  BY <2>1, <2>2
<1>3. ~Walks
  BY <1>1, <1>2 DEF Walks, Coming, Members, PushInFlight
<1> QED  BY <1>1, <1>2, <1>3, OpKinds DEF PushInFlight

LEMMA ServeKeepsSync ==
    ASSUME SyncInv, Serve
    PROVE  SyncInv'
<1> DEFINE op == inFlight
<1>1. /\ op # NoOp /\ UNCHANGED <<phone, acc, listening, saved, task, events, notes, drops, made>>
  BY DEF Serve
<1>2. /\ phone \in Seq(Friend) /\ acc \in Seq(Friend) /\ Len(acc) \in Nat
      /\ term \in Seq(Friend) /\ Len(term) <= Cap /\ Len(term) \in Nat
      /\ cursor \in Nat /\ Cap \in Nat
  BY LenProperties, SyncAssumption DEF SyncInv, ListTypeOK
<1>3. /\ reply = NoReply /\ UNCHANGED <<ops, inFlight>> /\ \E r \in Reply : reply' = r
  <2>1. \A ok \in BOOLEAN : Replied(ok, End) => [ok |-> ok, value |-> End] \in Reply
    BY DEF Reply
  <2>2. IF cursor < Len(term) THEN term[cursor + 1] \in Friend ELSE TRUE
    BY <1>2, ElementOfSeq
  <2>3. [ok |-> TRUE, value |-> IF cursor < Len(term) THEN term[cursor + 1] ELSE End] \in Reply
    BY <2>2 DEF Reply
  <2> QED  BY <2>1, <2>3 DEF Serve, Replied, Reply
<1>4. ASSUME NEW ok \in BOOLEAN, NEW value \in Friend \cup {End}, Replied(ok, value)
      PROVE  QueueInv' /\ Coming' = Coming /\ reply' = [ok |-> ok, value |-> value] /\ reply' # NoReply
  <2>1. reply' = [ok |-> ok, value |-> value]
    BY <1>4 DEF Replied
  <2>2. reply' # NoReply
    BY <2>1, SyncAssumption DEF Reply
  <2> QED  BY <1>1, <1>4, <2>1, <2>2, ServeKeepsQueue DEF SyncInv
<1>5. CASE /\ op.do \in {"identity", "subscribe"} /\ \E ok \in BOOLEAN : Replied(ok, End)
           /\ UNCHANGED <<term, cursor, late, raced>>
  <2>1. QueueInv' /\ Coming' = Coming
    BY <1>4, <1>5
  <2>2. ListTypeOK'
    BY <1>1, <1>5 DEF SyncInv, ListTypeOK
  <2>3. op # CursorOp(Len(acc)) /\ op # ReadOp(Len(acc))
    BY <1>2, <1>5, OpKinds
  <2>4. Clearing' => Clearing
    BY <1>3, <1>5 DEF Clearing
  <2>5. WalkInv'
    BY <1>1, <1>3, <1>5, <2>1, <2>3 DEF SyncInv, WalkInv, Walks
  <2>6. ReadInv'
    BY <1>1, <1>3, <2>3 DEF ReadInv
  <2>7. ClearInv' /\ CoverInv'
    BY <1>1, <1>5, <2>4 DEF SyncInv, ClearInv, CoverInv, NothingLost, SavedInv
  <2> QED  BY <2>1, <2>2, <2>5, <2>6, <2>7 DEF SyncInv
<1>6. CASE op.do = "cursor" /\ Replied(TRUE, End) /\ cursor' = op.arg /\ UNCHANGED <<term, late, raced>>
  <2>1. QueueInv' /\ Coming' = Coming
    BY <1>4, <1>6
  <2>2. op = CursorOp(Len(acc)) /\ op.arg = Len(acc)
    BY <1>1, <1>2, <1>6, InFlightShape, OpKinds DEF SyncInv, QueueInv, PushInFlight
  <2>3. ListTypeOK'
    BY <1>1, <1>2, <1>6, <2>2 DEF SyncInv, ListTypeOK
  <2>4. WalkInv'
    BY <1>1, <1>3, <1>6, <2>1, <2>2 DEF SyncInv, WalkInv, Walks
  <2>5. ReadInv'
    BY <1>1, <1>2, <1>3, <2>2, OpKinds DEF ReadInv
  <2>6. ClearInv' /\ CoverInv'
    <3>1. Clearing' => Clearing
      BY <1>3, <1>6 DEF Clearing
    <3> QED  BY <1>1, <1>6, <3>1 DEF SyncInv, ClearInv, CoverInv, NothingLost, SavedInv
  <2> QED  BY <2>1, <2>3, <2>4, <2>5, <2>6 DEF SyncInv
<1>7. CASE /\ op.do = "read"
           /\ Replied(TRUE, IF cursor < Len(term) THEN term[cursor + 1] ELSE End)
           /\ UNCHANGED <<term, cursor, late, raced>>
  <2> DEFINE value == IF cursor < Len(term) THEN term[cursor + 1] ELSE End
  <2>1. cursor < Len(term) => term[cursor + 1] \in Friend /\ term[cursor + 1] # End
    BY <1>2, ElementOfSeq, SyncAssumption
  <2>2. value \in Friend \cup {End}
    BY <2>1
  <2>3. QueueInv' /\ Coming' = Coming /\ reply' = [ok |-> TRUE, value |-> value]
    BY <1>4, <1>7, <2>2
  <2>4. op = ReadOp(Len(acc)) /\ op \in Coming
    BY <1>1, <1>2, <1>7, InFlightShape, OpKinds DEF SyncInv, QueueInv, PushInFlight, Coming
  <2>5. ListTypeOK'
    BY <1>1, <1>7 DEF SyncInv, ListTypeOK
  <2>6. Walks /\ cursor = Len(acc) /\ Len(acc) <= Len(term) /\ \A k \in 1 .. Len(acc) : acc[k] = term[k]
    <3>1. Walks
      BY <1>2, <2>4, OpKinds DEF Walks
    <3> QED  BY <2>4, <3>1 DEF SyncInv, WalkInv
  <2>7. WalkInv'
    BY <1>1, <1>7, <2>3, <2>6 DEF WalkInv
  <2>8. reply'.ok /\ reply'.value = value
    BY <2>3
  <2>9. ReadInv'
    <3>1. CASE cursor < Len(term)
      BY <3>1, <1>1, <1>7, <2>1, <2>6, <2>8 DEF ReadInv
    <3>2. CASE ~(cursor < Len(term))
      <4>1. Len(acc) = Len(term)
        BY <3>2, <1>2, <2>6
      <4>2. Members(term) \subseteq Members(acc)
        BY <4>1, <1>2, <2>6, MembersTyped DEF Members
      <4> QED  BY <3>2, <4>2, <1>1, <1>7, <2>8 DEF ReadInv
    <3> QED  BY <3>1, <3>2
  <2>10. ClearInv' /\ CoverInv'
    <3>1. Clearing' => Clearing
      BY <1>3, <1>7 DEF Clearing
    <3> QED  BY <1>1, <1>7, <3>1 DEF SyncInv, ClearInv, CoverInv, NothingLost, SavedInv
  <2> QED  BY <2>3, <2>5, <2>7, <2>9, <2>10 DEF SyncInv
<1>8. CASE /\ op.do = "clear" /\ Replied(TRUE, End)
           /\ term' = <<>> /\ raced' = raced \cup late /\ late' = {} /\ UNCHANGED cursor
  <2>1. QueueInv' /\ Coming' = Coming /\ reply' # NoReply
    BY <1>4, <1>8
  <2>2. ~Walks /\ op # ReadOp(Len(acc)) /\ \A i \in DOMAIN ops : ops[i].do # "clear"
    BY <1>1, <1>8, PushServed
  <2>3. ListTypeOK'
    <3>1. <<>> \in Seq(Friend) /\ Len(<<>>) = 0
      BY EmptySeq
    <3> QED  BY <1>1, <1>2, <1>8, <3>1 DEF SyncInv, ListTypeOK
  <2>4. WalkInv' /\ ReadInv'
    BY <1>1, <1>3, <2>1, <2>2 DEF WalkInv, Walks, ReadInv
  <2>5. ~Clearing'
    BY <1>3, <2>1, <2>2 DEF Clearing
  <2>6. Clearing
    BY <1>1, <1>3, <1>8 DEF Clearing
  <2>7. Len(phone) < Cap => made \ (raced \cup late) \subseteq Members(phone)
    BY <2>6 DEF SyncInv, ClearInv, CoverInv, NothingLost
  <2>8. ClearInv' /\ CoverInv'
    BY <1>1, <1>8, <2>5, <2>7 DEF ClearInv, CoverInv, NothingLost, SavedInv
  <2> QED  BY <2>1, <2>3, <2>4, <2>8 DEF SyncInv
<1>9. CASE /\ op.do = "upsert" /\ \E ok \in BOOLEAN : Replied(ok, End)
           /\ term' = term \/ (UpsertFits(term, op.arg) /\ term' = Upserted(term, op.arg))
           /\ UNCHANGED <<cursor, late, raced>>
  <2>1. QueueInv' /\ Coming' = Coming
    BY <1>4, <1>9
  <2>2. ~Walks /\ op # ReadOp(Len(acc)) /\ op.arg \in Friend /\ \A i \in DOMAIN ops : ops[i].do # "clear"
    BY <1>1, <1>9, PushServed
  <2>3. /\ term' \in Seq(Friend) /\ Len(term') <= Cap
        /\ Members(term) \subseteq Members(term')
    <3>1. CASE term' = term \/ op.arg \in Members(term)
      BY <3>1, <1>2, <1>9 DEF Upserted
    <3>2. CASE term' # term /\ op.arg \notin Members(term)
      <4>1. Len(term) < Cap /\ term' = Append(term, op.arg)
        BY <3>2, <1>9 DEF UpsertFits, Upserted
      <4> QED  BY <4>1, <1>2, <2>2, AppendMembers
    <3> QED  BY <3>1, <3>2
  <2>4. ListTypeOK'
    BY <1>1, <1>9, <2>3 DEF SyncInv, ListTypeOK
  <2>5. WalkInv' /\ ReadInv'
    BY <1>1, <1>3, <2>1, <2>2 DEF WalkInv, Walks, ReadInv
  <2>6. ~Clearing'
    BY <1>3, <1>9, <2>2 DEF Clearing
  <2>7. ClearInv' /\ CoverInv'
    BY <1>1, <1>9, <2>3, <2>6 DEF SyncInv, ClearInv, CoverInv, NothingLost, SavedInv
  <2> QED  BY <2>1, <2>4, <2>5, <2>7 DEF SyncInv
<1> QED  BY <1>5, <1>6, <1>7, <1>8, <1>9 DEF Serve

LEMMA FriendMadeKeepsSync ==
    ASSUME SyncInv, NEW f \in Friend, FriendMade(f)
    PROVE  SyncInv'
<1>1. /\ f \notin Members(term) /\ Len(term) < Cap
      /\ term' = Append(term, f) /\ saved' = term' /\ events' = PushEvent(events, f)
      /\ made' = made \cup {f} /\ late' = IF ClearToCome THEN late \cup {f} ELSE late
      /\ UNCHANGED <<up, missing, ops, inFlight, slot, reply, posts, failed, asked, twice>>
      /\ UNCHANGED <<phone, acc, cursor, notes, raced>>
  BY DEF FriendMade, queueVars
<1>2. QueueInv' /\ Coming' = Coming
  BY <1>1, OtherKeepsQueue DEF SyncInv
<1>3. /\ term \in Seq(Friend) /\ Len(term) \in Nat /\ Cap \in Nat
      /\ acc \in Seq(Friend) /\ Len(acc) \in Nat
  BY LenProperties, SyncAssumption DEF SyncInv, ListTypeOK
<1>4. /\ term' \in Seq(Friend) /\ Len(term') = Len(term) + 1
      /\ \A i \in 1 .. Len(term) : term'[i] = term[i]
      /\ Members(term') = Members(term) \cup {f}
  BY <1>1, <1>3, AppendMembers
<1>5. events' \in Seq(Friend)
  <2>1. events \in Seq(Friend)
    BY DEF SyncInv, ListTypeOK
  <2>2. CASE Len(events) = RingSize
    <3>1. events # <<>>
      BY <2>2, EmptySeq, SyncAssumption
    <3>2. Tail(events) \in Seq(Friend)
      BY <2>1, <3>1, TailTyped
    <3> QED  BY <1>1, <2>2, <3>2, AppendMembers DEF PushEvent
  <2>3. CASE Len(events) # RingSize
    BY <1>1, <2>1, <2>3, AppendMembers DEF PushEvent
  <2> QED  BY <2>2, <2>3
<1>6. ListTypeOK'
  <2>1. Len(term') <= Cap
    BY <1>1, <1>3, <1>4
  <2> QED  BY <1>1, <1>4, <1>5, <2>1 DEF SyncInv, ListTypeOK
<1>7. WalkInv'
  <2> SUFFICES ASSUME Walks
               PROVE  Len(acc) <= Len(term') /\ \A k \in 1 .. Len(acc) : acc[k] = term'[k]
    BY <1>1, <1>2 DEF SyncInv, WalkInv, Walks
  <2>1. Len(acc) <= Len(term) /\ \A k \in 1 .. Len(acc) : acc[k] = term[k]
    BY DEF SyncInv, WalkInv
  <2>2. \A k \in 1 .. Len(acc) : k \in 1 .. Len(term)
    BY <1>3, <2>1
  <2> QED  BY <1>3, <1>4, <2>1, <2>2
<1>8. ReadInv'
  <2> SUFFICES ASSUME reply # NoReply, inFlight = ReadOp(Len(acc))
               PROVE  /\ reply.ok
                      /\ IF reply.value = End THEN Members(term') \subseteq Members(acc) \cup late'
                         ELSE Len(acc) < Len(term') /\ reply.value = term'[Len(acc) + 1]
    BY <1>1 DEF ReadInv
  <2>1. /\ reply.ok
        /\ IF reply.value = End THEN Members(term) \subseteq Members(acc) \cup late
           ELSE Len(acc) < Len(term) /\ reply.value = term[Len(acc) + 1]
    BY DEF SyncInv, ReadInv
  <2>2. CASE reply.value = End
    <3>1. inFlight # NoOp /\ inFlight.do = "read"
      BY <1>3, OpsTyped, OpKinds
    <3>2. ClearToCome
      BY <2>1, <2>2, <3>1 DEF ClearToCome, Merges, Collects
    <3> QED  BY <1>1, <1>4, <2>1, <2>2, <3>2
  <2>3. CASE reply.value # End
    <3>1. Len(acc) + 1 \in 1 .. Len(term) /\ Len(acc) < Len(term')
      BY <1>3, <1>4, <2>1, <2>3
    <3> QED  BY <1>4, <2>1, <2>3, <3>1
  <2> QED  BY <2>2, <2>3
<1>9. ClearInv'
  <2>1. Clearing' => (Clearing /\ ClearToCome)
    BY <1>1 DEF Clearing, ClearToCome
  <2> QED  BY <1>1, <1>4, <2>1 DEF SyncInv, ClearInv
<1>10. CoverInv'
  BY <1>1, <1>4 DEF SyncInv, CoverInv, NothingLost, SavedInv
<1> QED  BY <1>2, <1>6, <1>7, <1>8, <1>9, <1>10 DEF SyncInv

\* A save, a notification sent and the task's start.
LEMMA TaskKeepsSync ==
    ASSUME SyncInv, TaskUp \/ Save \/ Notify
    PROVE  SyncInv'
<1>1. /\ UNCHANGED <<up, missing, ops, inFlight, slot, reply, posts, failed, asked, twice>>
      /\ UNCHANGED <<phone, acc, term, cursor, made, late, raced>>
      /\ saved' \in {saved, term}
      /\ \/ UNCHANGED <<events, notes>>
         \/ events # <<>> /\ events' = Tail(events) /\ notes' \in {notes, Append(notes, Head(events))}
  BY DEF TaskUp, Save, Notify, queueVars
<1>2. QueueInv' /\ Coming' = Coming
  BY <1>1, OtherKeepsQueue DEF SyncInv
<1>3. events' \in Seq(Friend) /\ notes' \in Seq(Friend)
  <2>1. events \in Seq(Friend) /\ notes \in Seq(Friend)
    BY DEF SyncInv, ListTypeOK
  <2>2. CASE UNCHANGED <<events, notes>>
    BY <2>1, <2>2
  <2>3. CASE events # <<>> /\ events' = Tail(events) /\ notes' \in {notes, Append(notes, Head(events))}
    <3>1. Head(events) \in Friend /\ Tail(events) \in Seq(Friend)
      BY <2>1, <2>3, TailTyped
    <3> QED  BY <2>1, <2>3, <3>1, AppendMembers
  <2> QED  BY <1>1, <2>2, <2>3
<1>4. ListTypeOK'
  BY <1>1, <1>3 DEF SyncInv, ListTypeOK
<1>5. WalkInv' /\ ReadInv' /\ ClearInv'
  BY <1>1, <1>2 DEF SyncInv, WalkInv, Walks, ReadInv, ClearInv, Clearing
<1>6. CoverInv'
  BY <1>1 DEF SyncInv, CoverInv, NothingLost, SavedInv
<1> QED  BY <1>2, <1>4, <1>5, <1>6 DEF SyncInv

LEMMA SlotKeepsSync ==
    ASSUME SyncInv, UNCHANGED syncVars,
           UNCHANGED <<up, missing, ops, inFlight, reply, posts, failed, asked, twice>>,
           slot' = slot \/ (slot' \in {"free", "other"} /\ slot # "control")
    PROVE  SyncInv'
<1>1. UNCHANGED <<phone, acc, term, cursor, saved, events, notes, made, late, raced>>
  BY DEF syncVars
<1>2. QueueInv' /\ Coming' = Coming
  BY <1>1, OtherKeepsQueue DEF SyncInv
<1>3. ListTypeOK'
  BY <1>1 DEF SyncInv, ListTypeOK
<1> QED  BY <1>1, <1>2, <1>3, NothingNew DEF Clearing

-----------------------------------------------------------------------------
\* Every step of the phone, the link and the terminal keeps the invariant.
THEOREM NextKeepsSync == SyncInv /\ [Next]_vars => SyncInv'
<1> SUFFICES ASSUME SyncInv, [Next]_vars
             PROVE  SyncInv'
  OBVIOUS
<1>1. CASE Connect
  BY <1>1, ConnectKeepsSync
<1>2. CASE PumpQueue
  BY <1>2, PumpKeepsSync
<1>3. CASE Answer
  BY <1>3, AnswerKeepsSync
<1>4. CASE OnFriendNotify
  BY <1>4, OnFriendNotifyKeepsSync
<1>5. CASE Drop
  BY <1>5, DropKeepsSync
<1>6. CASE Serve
  BY <1>6, ServeKeepsSync
<1>7. CASE TaskUp \/ Save \/ Notify
  BY <1>7, TaskKeepsSync
<1>8. CASE PowerCut
  BY <1>8, PowerCutKeepsSync
<1>9. CASE \E f \in NewFriends : FriendMade(f)
  BY <1>9, FriendMadeKeepsSync, SyncAssumption
<1>10. CASE QueueOnly /\ FailHead
  BY <1>10, FailHeadKeepsSync DEF QueueOnly
<1>11. CASE QueueOnly /\ (OtherStarts \/ OtherDone)
  BY <1>11, SlotKeepsSync DEF QueueOnly, OtherStarts, OtherDone
<1>12. CASE UNCHANGED vars
  BY <1>12, SlotKeepsSync DEF vars, queueVars, syncVars
<1> QED  BY <1>1, <1>2, <1>3, <1>4, <1>5, <1>6, <1>7, <1>8, <1>9, <1>10, <1>11, <1>12 DEF Next, QueueOnly

\* What the queue holds and what the two lists hold agree in every state.
THEOREM SyncInvariant == Spec => []SyncInv
  BY InitSync, NextKeepsSync, PTL DEF Spec

\* RiderMeshSync's walk, merge and push lose nobody while the phone's list has
\* room, whatever the link, the power or NVS does, outside the window of CLEAR.
THEOREM NobodyIsLost == Spec => []NothingLost
<1>1. SyncInv => NothingLost
  BY DEF SyncInv, CoverInv
<1> QED  BY <1>1, SyncInvariant, PTL

\* One whose batch is coming has the last frame of it to come.
LEMMA AskedAreComing ==
    ASSUME SyncInv
    PROVE  AnsweredOnce
<1>1. ~twice
  BY DEF SyncInv, QueueInv, AskedInv
<1>2. ASSUME NEW b \in asked
      PROVE  /\ up /\ b \notin failed
             /\ \E op \in {inFlight} \cup {ops[i] : i \in DOMAIN ops} : op # NoOp /\ op.batch = b /\ op.last
  <2>1. PICK op \in Coming : op.batch = b /\ b # "subscribe" /\ b \notin failed
    BY <1>2 DEF SyncInv, QueueInv, AskedInv
  <2>2. Len(acc) \in Nat /\ Len(ops) \in Nat /\ DOMAIN ops = 1 .. Len(ops) /\ \A i \in DOMAIN ops : ops[i] \in Op
    BY LenProperties, ElementOfSeq DEF SyncInv, ListTypeOK, QueueInv, QueueTypeOK
  <2>3. op # NoOp /\ (op = inFlight \/ \E i \in DOMAIN ops : op = ops[i])
    BY <2>1, <2>2, OpsTyped DEF Coming, Members
  <2>4. up
    <3>1. inFlight # NoOp \/ ops # <<>>
      BY <2>2, <2>3
    <3> QED  BY <3>1 DEF SyncInv, QueueInv, SlotInv
  <2>5. CASE op.last
    BY <2>1, <2>3, <2>4, <2>5
  <2>6. CASE ~op.last
    <3>1. Pushing
      <4>1. CASE Opening
        <5>1. \A i \in DOMAIN ops : ops[i] \in {IdentityOp, CursorOp(0)}
          BY <4>1 DEF Opening
        <5> QED  BY <2>3, <2>6, <4>1, <5>1, OpKinds DEF Opening
      <4>2. CASE OnTheWalk
        <5>1. \A i \in DOMAIN ops : ops[i] \in WalkOps
          BY <4>2 DEF OnTheWalk
        <5> QED  BY <2>2, <2>3, <2>6, <4>2, <5>1, OpKinds DEF OnTheWalk, WalkOps
      <4> QED  BY <4>1, <4>2 DEF SyncInv, QueueInv, ShapeInv
    <3>2. op.batch = "push"
      BY <2>3, <2>6, <3>1, OpKinds DEF Pushing
    <3>3. Len(ops) > 1
      <4>1. CASE op = inFlight
        <5>1. ops # <<>> /\ Len(ops) # 1
          BY <2>3, <2>6, <3>1, <4>1, OpKinds DEF Pushing
        <5> QED  BY <5>1, <2>2, EmptySeq DEF SyncInv, QueueInv, QueueTypeOK
      <4>2. CASE \E i \in DOMAIN ops : op = ops[i]
        <5>1. PICK i \in DOMAIN ops : op = ops[i]
          BY <4>2
        <5>2. i # Len(ops)
          BY SMTT(30), <2>6, <3>1, <5>1, OpKinds DEF Pushing
        <5> QED  BY <2>2, <5>1, <5>2
      <4> QED  BY <2>3, <4>1, <4>2
    <3>4. Len(ops) - 1 \in DOMAIN ops /\ Len(ops) - 1 # Len(ops)
      <4>1. Len(ops) \in Nat /\ Len(ops) > 1
        BY <2>2, <3>3
      <4>2. Len(ops) - 1 \in 1 .. Len(ops) /\ Len(ops) - 1 # Len(ops)
        BY SMTT(30), <4>1
      <4> QED  BY <2>2, <4>2
    <3>5. ops[Len(ops) - 1].batch = "push" /\ ops[Len(ops) - 1].last /\ ops[Len(ops) - 1] # NoOp
      BY <2>2, <3>1, <3>4, OpsTyped DEF Pushing
    <3> QED  BY <2>1, <2>4, <3>2, <3>4, <3>5
  <2> QED  BY <2>5, <2>6
<1> QED  BY <1>1, <1>2 DEF AnsweredOnce

\* ControlQueue answers every call exactly once, including when the link is lost:
\* nobody hears twice, and whoever waits has his last frame to come.
THEOREM CallersHearOnce == Spec => []AnsweredOnce
<1>1. SyncInv => AnsweredOnce
  BY AskedAreComing
<1> QED  BY <1>1, SyncInvariant, PTL
=============================================================================
