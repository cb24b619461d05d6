----------------------------- MODULE MeshProofs ------------------------------
(***************************************************************************)
(* Proofs about the rider mesh.  MeshCore, for any number of riders, any     *)
(* table and list size, any retry limits, and a radio that may delay, reorder *)
(* and lose frames: first of Spec, with every disturbance at once, then of   *)
(* MCSpec, with one kind a behaviour, about the page of the handshake.       *)
(* MeshRadio, for any number of frames, resets and failed calls, and any     *)
(* outbox, advert window, queue and ring.                                    *)
(***************************************************************************)
EXTENDS MCMeshUpset, MeshRadio, FiniteSetTheorems, TLAPS

\* What a peer record may claim: a state that follows the rider's own act has
\* the rider's "yes" on record, and one that vouches for the friend has the
\* friend stored (or taken off since, by the phone).
Sound(r, yes, held) ==
    /\ r.hs \in {"req_sent"} \cup Moving \/ r.consented => yes
    /\ r.ack \/ r.hs = "keys_sent" => held

\* What a frame on the air may claim.
FrameSound(f) ==
    /\ f.type \in {"request", "accept", "keys"} => <<Owner(f.from), Owner(f.to)>> \in said
    /\ f.type \in {"ack", "keys"} => Holds(Owner(f.from), Owner(f.to))

PeersSound ==
    \A t \in Rider, p \in Pseud : Sound(peers[t][p], <<t, Owner(p)>> \in said, Holds(t, Owner(p)))
AirSound == \A f \in air : FrameSound(f)

\* The inductive invariant: consent, carried by the states and the frames of a
\* handshake from the riders' holds to the friend lists.
ConsentInv == TypeOK /\ FriendsAgreed /\ PeersSound /\ AirSound

-----------------------------------------------------------------------------
(* What the helpers of a handshake step return.                             *)

LEMMA PseudOwner == \A p \in Pseud : Owner(p) \in Rider
BY DEF Pseud, Owner

LEMMA MePseud == ASSUME TypeOK, NEW t \in Rider PROVE Me(t) \in Pseud /\ Owner(Me(t)) = t
BY DEF TypeOK, Me, Pseud, Owner

LEMMA NoPeerType == NoPeer \in PeerRec /\ NewPeer \in PeerRec
<1>1. 0 \in 0 .. (AcceptTries + KeysTries)
  BY CoreAssumption
<1>2. NoPeer \in PeerRec
  BY <1>1 DEF NoPeer, PeerRec, Hs
<1>3. NewPeer \in PeerRec
  BY <1>2 DEF NewPeer, PeerRec
<1>4. QED BY <1>2, <1>3

LEMMA StepTypes ==
    ASSUME NEW r \in PeerRec, NEW hs \in Hs
    PROVE  /\ Started(r, hs) \in PeerRec
           /\ Deferred(r, hs) \in PeerRec
           /\ Ended(r) \in PeerRec
<1>1. 0 \in 0 .. (AcceptTries + KeysTries) /\ 1 \in 0 .. (AcceptTries + KeysTries)
  BY CoreAssumption
<1>2. "none" \in Hs
  BY DEF Hs
<1>3. QED BY <1>1, <1>2 DEF Started, Deferred, Ended, PeerRec

LEMMA FlagTypes ==
    ASSUME NEW r \in PeerRec, NEW b \in BOOLEAN
    PROVE  /\ [r EXCEPT !.fresh = b] \in PeerRec
           /\ [r EXCEPT !.consented = b] \in PeerRec
           /\ [r EXCEPT !.ack = b] \in PeerRec
BY DEF PeerRec

LEMMA ClosedType ==
    ASSUME NEW ps \in [Pseud -> PeerRec], NEW id
    PROVE  Closed(ps, id) \in [Pseud -> PeerRec]
<1>1. ASSUME NEW p \in Pseud PROVE [Ended(ps[p]) EXCEPT !.consented = FALSE] \in PeerRec
  <2>1. Ended(ps[p]) \in PeerRec  BY StepTypes DEF Hs
  <2>2. QED BY <2>1, FlagTypes
<1>2. QED BY <1>1 DEF Closed

LEMMA RetriedType ==
    ASSUME NEW r \in PeerRec, NEW p, NEW pr, NEW due \in BOOLEAN
    PROVE  Retried(r, p, pr, due) \in PeerRec
<1>1. Ended(r) \in PeerRec  BY StepTypes DEF Hs
<1>2. ASSUME Resends(r, due) PROVE [r EXCEPT !.tries = @ + 1] \in PeerRec
  <2>1. r.tries + 1 \in 0 .. (AcceptTries + KeysTries)
    BY <1>2, CoreAssumption DEF Resends, Limit, PeerRec
  <2>2. QED BY <2>1 DEF PeerRec
<1>3. QED BY <1>1, <1>2 DEF Retried

LEMMA PromptTypes ==
    ASSUME NEW pr \in Prompt, NEW p
    PROVE  PromptLapsed(pr, p) \in Prompt /\ PromptDone(pr, p) \in Prompt /\ NoPrompt \in Prompt
BY DEF PromptLapsed, PromptDone, NoPrompt, Prompt

LEMMA MsgType ==
    ASSUME NEW a \in Pseud, NEW b \in Pseud, NEW type \in {"request", "accept", "keys", "ack"}
    PROVE  Msg(type, a, b) \in Frame
BY DEF Msg, Frame

-----------------------------------------------------------------------------
(* Type correctness.                                                        *)

LEMMA TypeInit == Init => TypeOK
BY CoreAssumption, NoPeerType
   DEF Init, TypeOK, Boot, Pseud, Prompt, NoPrompt, NoPeer, PeerRec

LEMMA PeerType == ASSUME TypeOK, NEW t \in Rider, NEW p \in Pseud PROVE peers[t][p] \in PeerRec
BY DEF TypeOK

LEMMA PeerUpdate ==
    ASSUME NEW f \in [Rider -> [Pseud -> PeerRec]], NEW t \in Rider, NEW p \in Pseud, NEW r \in PeerRec
    PROVE  [f EXCEPT ![t][p] = r] \in [Rider -> [Pseud -> PeerRec]]
OBVIOUS

LEMMA RowUpdate ==
    ASSUME NEW f \in [Rider -> [Pseud -> PeerRec]], NEW t \in Rider, NEW row \in [Pseud -> PeerRec]
    PROVE  [f EXCEPT ![t] = row] \in [Rider -> [Pseud -> PeerRec]]
OBVIOUS

LEMMA PromptUpdate ==
    ASSUME NEW f \in [Rider -> Prompt], NEW t \in Rider, NEW pr \in Prompt
    PROVE  [f EXCEPT ![t] = pr] \in [Rider -> Prompt]
OBVIOUS

LEMMA SetPeerType ==
    ASSUME TypeOK, NEW t \in Rider, NEW p \in Pseud, NEW r \in PeerRec, SetPeer(t, p, r)
    PROVE  peers' \in [Rider -> [Pseud -> PeerRec]]
BY PeerUpdate DEF TypeOK, SetPeer

LEMMA HearType ==
    ASSUME TypeOK, NEW t \in Rider, NEW u \in Rider, Hear(t, u)
    PROVE  TypeOK'
<1> DEFINE p == Me(u)
<1>1. p \in Pseud
  BY MePseud
<1>2. [peers[t][p] EXCEPT !.fresh = TRUE] \in PeerRec
  BY <1>1, PeerType, FlagTypes
<1>3. peers' \in [Rider -> [Pseud -> PeerRec]]
  <2>1. CASE SetPeer(t, p, [peers[t][p] EXCEPT !.fresh = TRUE])
    BY <2>1, <1>1, <1>2, SetPeerType
  <2>2. CASE SetPeer(t, p, NewPeer)
    BY <2>2, <1>1, NoPeerType, SetPeerType
  <2>3. CASE \E v \in Victims(t) : peers' = [peers EXCEPT ![t][v] = NoPeer, ![t][p] = NewPeer]
    <3>1. PICK v \in Victims(t) : peers' = [peers EXCEPT ![t][v] = NoPeer, ![t][p] = NewPeer]
      BY <2>3
    <3>2. v \in Pseud
      BY DEF Victims, Used
    <3>3. [peers EXCEPT ![t][v] = NoPeer] \in [Rider -> [Pseud -> PeerRec]]
      BY <3>2, NoPeerType, PeerUpdate DEF TypeOK
    <3>4. QED BY <3>1, <3>3, <1>1, NoPeerType, PeerUpdate
  <2>4. QED BY <2>1, <2>2, <2>3 DEF Hear
<1>4. UNCHANGED <<boot, enabled, menu, friends, prompt, air, lost, said, dropped>>
  BY DEF Hear
<1>5. QED BY <1>3, <1>4 DEF TypeOK

LEMMA GoSilentType ==
    ASSUME TypeOK, NEW t \in Rider, NEW p \in Pseud, GoSilent(t, p)
    PROVE  TypeOK'
<1>1. [peers[t][p] EXCEPT !.fresh = FALSE] \in PeerRec
  BY PeerType, FlagTypes
<1>2. peers' \in [Rider -> [Pseud -> PeerRec]]
  BY <1>1, SetPeerType DEF GoSilent
<1>3. UNCHANGED <<boot, enabled, menu, friends, prompt, air, lost, said, dropped>>
  BY DEF GoSilent
<1>4. QED BY <1>2, <1>3 DEF TypeOK

\* A received frame: the peer it comes from, and what it leaves alone.
LEMMA ArrivesType ==
    ASSUME TypeOK, NEW t \in Rider, NEW f \in air, NEW type, Arrives(t, f, type)
    PROVE  /\ f.from \in Pseud /\ f.to \in Pseud /\ f.to = Me(t) /\ f.type = type
           /\ [peers[t][f.from] EXCEPT !.fresh = TRUE] \in PeerRec
           /\ boot' = boot /\ enabled' = enabled /\ menu' = menu /\ lost' = lost
           /\ said' = said /\ dropped' = dropped /\ air' \in SUBSET Frame
<1>1. f.from \in Pseud /\ f.to \in Pseud
  BY DEF TypeOK, Frame
<1>2. [peers[t][f.from] EXCEPT !.fresh = TRUE] \in PeerRec
  BY <1>1, PeerType, FlagTypes
<1>3. air' \in SUBSET Frame
  BY DEF Arrives, TypeOK
<1>4. QED BY <1>1, <1>2, <1>3 DEF Arrives

LEMMA ReceiveType ==
    ASSUME TypeOK, NEW t \in Rider, NEW f \in air, NEW type, Arrives(t, f, type),
           friends' \in [Rider -> SUBSET Rider],
           peers' \in [Rider -> [Pseud -> PeerRec]],
           prompt' \in [Rider -> Prompt]
    PROVE  TypeOK'
BY ArrivesType DEF TypeOK

LEMMA RxRequestType ==
    ASSUME TypeOK, NEW t \in Rider, NEW f \in air, RxRequest(t, f)
    PROVE  TypeOK'
<1> DEFINE p == f.from
           r == [peers[t][p] EXCEPT !.fresh = TRUE]
<1>1. Arrives(t, f, "request") /\ friends' = friends
  BY DEF RxRequest
<1>2. p \in Pseud /\ r \in PeerRec
  BY <1>1, ArrivesType
<1>3. Deferred(r, "accept_sent") \in PeerRec
  BY <1>2, StepTypes DEF Hs, Moving
<1>4. [Deferred(r, "accept_sent") EXCEPT !.consented = TRUE] \in PeerRec
  BY <1>3, FlagTypes
<1>5. [r EXCEPT !.hs = "req_recv"] \in PeerRec
  <2>1. \A q \in PeerRec : [q EXCEPT !.hs = "req_recv"] \in PeerRec
    BY DEF PeerRec, Hs, Asking
  <2>2. QED BY <1>2, <2>1
<1>6. peers' = peers
      \/ SetPeer(t, p, r)
      \/ SetPeer(t, p, Deferred(r, "accept_sent"))
      \/ SetPeer(t, p, [Deferred(r, "accept_sent") EXCEPT !.consented = TRUE])
      \/ SetPeer(t, p, [r EXCEPT !.hs = "req_recv"])
  BY DEF RxRequest
<1>7. peers' \in [Rider -> [Pseud -> PeerRec]]
  <2> HIDE DEF r
  <2>1. QED BY <1>2, <1>3, <1>4, <1>5, <1>6, SetPeerType DEF TypeOK
<1>8. prompt' \in [Rider -> Prompt]
  <2>1. [st |-> "offer", id |-> p] \in Prompt
    BY <1>2 DEF Prompt
  <2>2. prompt' = prompt \/ prompt' = [prompt EXCEPT ![t] = [st |-> "offer", id |-> p]]
    BY DEF RxRequest
  <2>3. QED BY <2>1, <2>2, PromptUpdate DEF TypeOK
<1>9. QED BY <1>1, <1>7, <1>8, ReceiveType DEF TypeOK

LEMMA AddFriendType ==
    ASSUME TypeOK, NEW t \in Rider, NEW p \in Pseud, AddFriend(t, p)
    PROVE  friends' \in [Rider -> SUBSET Rider]
BY PseudOwner DEF AddFriend, TypeOK

LEMMA RxAcceptType ==
    ASSUME TypeOK, NEW t \in Rider, NEW f \in air, RxAccept(t, f)
    PROVE  TypeOK'
<1> DEFINE p == f.from
           r == [peers[t][p] EXCEPT !.fresh = TRUE]
<1>1. Arrives(t, f, "accept")
  BY DEF RxAccept
<1>2. p \in Pseud /\ r \in PeerRec
  BY <1>1, ArrivesType
<1>3. Deferred(r, "keys_sent") \in PeerRec /\ Ended(r) \in PeerRec
  BY <1>2, StepTypes DEF Hs, Moving
<1>4. friends' \in [Rider -> SUBSET Rider]
  <2>1. friends' = friends \/ AddFriend(t, p)
    BY DEF RxAccept
  <2>2. QED BY <1>2, <2>1, AddFriendType DEF TypeOK
<1>5. peers' \in [Rider -> [Pseud -> PeerRec]]
  <2>1. peers' = peers \/ SetPeer(t, p, Deferred(r, "keys_sent")) \/ SetPeer(t, p, Ended(r))
    BY DEF RxAccept
  <2>2. QED BY <1>2, <1>3, <2>1, SetPeerType DEF TypeOK
<1>6. prompt' \in [Rider -> Prompt]
  <2>1. \/ prompt' = prompt
        \/ prompt' = [prompt EXCEPT ![t] = PromptDone(prompt[t], p)]
        \/ prompt' = [prompt EXCEPT ![t] = PromptLapsed(prompt[t], p)]
    BY DEF RxAccept
  <2>2. prompt \in [Rider -> Prompt] /\ prompt[t] \in Prompt
    BY DEF TypeOK
  <2>3. PromptDone(prompt[t], p) \in Prompt /\ PromptLapsed(prompt[t], p) \in Prompt
    BY <2>2, PromptTypes
  <2>4. QED BY <2>1, <2>2, <2>3, PromptUpdate
<1>7. QED BY <1>1, <1>4, <1>5, <1>6, ReceiveType

LEMMA RxKeysType ==
    ASSUME TypeOK, NEW t \in Rider, NEW f \in air, RxKeys(t, f)
    PROVE  TypeOK'
<1> DEFINE p == f.from
           r == [peers[t][p] EXCEPT !.fresh = TRUE]
           acked == [r EXCEPT !.ack = TRUE]
           shown == [st |-> "done", id |-> p]
<1>1. Arrives(t, f, "keys")
  BY DEF RxKeys
<1>2. p \in Pseud /\ r \in PeerRec
  BY <1>1, ArrivesType
<1>3. acked \in PeerRec /\ Ended(acked) \in PeerRec /\ Ended(r) \in PeerRec
  <2>1. acked \in PeerRec
    BY <1>2, FlagTypes
  <2>2. QED BY <1>2, <2>1, StepTypes DEF Hs
<1>4. friends' \in [Rider -> SUBSET Rider]
  <2>1. friends' = friends \/ AddFriend(t, p)
    BY DEF RxKeys
  <2>2. QED BY <1>2, <2>1, AddFriendType DEF TypeOK
<1>5. peers' \in [Rider -> [Pseud -> PeerRec]]
  <2>1. \/ peers' = peers \/ SetPeer(t, p, acked)
        \/ SetPeer(t, p, Ended(acked)) \/ SetPeer(t, p, Ended(r))
    BY DEF RxKeys
  <2>2. QED BY <1>2, <1>3, <2>1, SetPeerType DEF TypeOK
<1>6. prompt' \in [Rider -> Prompt]
  <2>1. \/ prompt' = prompt
        \/ prompt' = [prompt EXCEPT ![t] = shown]
        \/ prompt' = [prompt EXCEPT ![t] = PromptDone(prompt[t], p)]
        \/ prompt' = [prompt EXCEPT ![t] = PromptLapsed(prompt[t], p)]
    BY DEF RxKeys
  <2>2. prompt \in [Rider -> Prompt] /\ prompt[t] \in Prompt
    BY DEF TypeOK
  <2>3. PromptDone(prompt[t], p) \in Prompt /\ PromptLapsed(prompt[t], p) \in Prompt
    BY <2>2, PromptTypes
  <2>4. shown \in Prompt
    BY <1>2 DEF Prompt
  <2>5. QED BY <2>1, <2>2, <2>3, <2>4, PromptUpdate
<1>7. QED BY <1>1, <1>4, <1>5, <1>6, ReceiveType

LEMMA RxAckType ==
    ASSUME TypeOK, NEW t \in Rider, NEW f \in air, RxAck(t, f)
    PROVE  TypeOK'
<1> DEFINE r == peers[t][f.from]
<1>1. Arrives(t, f, "ack") /\ UNCHANGED <<friends, prompt>>
  BY DEF RxAck
<1>2. f.from \in Pseud
  BY <1>1, ArrivesType
<1>3. r \in PeerRec /\ Ended(r) \in PeerRec
  BY <1>2, PeerType, StepTypes DEF Hs
<1>4. SetPeer(t, f.from, r) \/ SetPeer(t, f.from, Ended(r))
  BY DEF RxAck
<1>5. peers' \in [Rider -> [Pseud -> PeerRec]]
  BY <1>2, <1>3, <1>4, SetPeerType
<1>6. QED BY <1>1, <1>5, ReceiveType DEF TypeOK

LEMMA LoseType ==
    ASSUME TypeOK, NEW f \in air, Lose(f)
    PROVE  TypeOK'
<1>1. air' \in SUBSET Frame
  BY DEF Lose, TypeOK
<1>2. lost' \in 0 .. MaxLoss
  BY CoreAssumption DEF Lose, TypeOK
<1>3. QED BY <1>1, <1>2 DEF Lose, TypeOK

LEMMA AcceptType ==
    ASSUME TypeOK, NEW t \in Rider, NEW p \in Pseud, Accept(t, p)
    PROVE  TypeOK'
<1>1. [Started(peers[t][p], "accept_sent") EXCEPT !.consented = TRUE] \in PeerRec
  <2>1. Started(peers[t][p], "accept_sent") \in PeerRec
    BY PeerType, StepTypes DEF Hs, Moving
  <2>2. QED BY <2>1, FlagTypes
<1>2. peers' \in [Rider -> [Pseud -> PeerRec]]
  BY <1>1, SetPeerType DEF Accept
<1>3. prompt' \in [Rider -> Prompt]
  <2>1. prompt[t] \in Prompt
    BY DEF TypeOK
  <2>2. [prompt[t] EXCEPT !.st = "waiting"] \in Prompt
    BY <2>1 DEF Prompt
  <2>3. prompt' = [prompt EXCEPT ![t] = [prompt[t] EXCEPT !.st = "waiting"]]
    BY DEF Accept
  <2>4. QED BY <2>2, <2>3, PromptUpdate DEF TypeOK
<1>4. air' \in SUBSET Frame
  BY MePseud, MsgType DEF Accept, TypeOK
<1>5. said' \in SUBSET (Rider \X Rider)
  BY PseudOwner DEF Accept, TypeOK
<1>6. QED BY <1>2, <1>3, <1>4, <1>5 DEF Accept, TypeOK

LEMMA RequestType ==
    ASSUME TypeOK, NEW t \in Rider, NEW p \in Pseud, Request(t, p)
    PROVE  TypeOK'
<1> DEFINE pr     == prompt[t]
           closed == IF pr.st = "none" THEN peers[t] ELSE Closed(peers[t], pr.id)
           unsaid(q) == [closed[q] EXCEPT !.consented = FALSE]
           row    == [q \in Pseud |-> IF q = p THEN Started(unsaid(q), "req_sent") ELSE unsaid(q)]
<1>1. closed \in [Pseud -> PeerRec]
  <2>1. peers[t] \in [Pseud -> PeerRec]
    BY DEF TypeOK
  <2>2. QED BY <2>1, ClosedType
<1>2. ASSUME NEW q \in Pseud
      PROVE  unsaid(q) \in PeerRec /\ Started(unsaid(q), "req_sent") \in PeerRec
  <2>1. closed[q] \in PeerRec
    BY <1>1
  <2>2. unsaid(q) \in PeerRec
    BY <2>1, FlagTypes
  <2>3. QED BY <2>2, StepTypes DEF Hs, Asking
<1>3. row \in [Pseud -> PeerRec]
  BY <1>2
<1>4. peers' = [peers EXCEPT ![t] = row]
  BY DEF Request
<1>5. peers' \in [Rider -> [Pseud -> PeerRec]]
  BY <1>3, <1>4, RowUpdate DEF TypeOK
<1>6. prompt' \in [Rider -> Prompt]
  <2>1. [st |-> "waiting", id |-> p] \in Prompt
    BY DEF Prompt
  <2>2. QED BY <2>1, PromptUpdate DEF Request, TypeOK
<1>7. air' \in SUBSET Frame
  BY MePseud, MsgType DEF Request, TypeOK
<1>8. said' \in SUBSET (Rider \X Rider)
  BY PseudOwner DEF Request, TypeOK
<1>9. QED BY <1>5, <1>6, <1>7, <1>8 DEF Request, TypeOK

LEMMA ClosedRow ==
    ASSUME TypeOK, NEW t \in Rider, NEW id
    PROVE  [peers EXCEPT ![t] = Closed(peers[t], id)] \in [Rider -> [Pseud -> PeerRec]]
<1>1. peers[t] \in [Pseud -> PeerRec]
  BY DEF TypeOK
<1>2. QED BY <1>1, ClosedType, RowUpdate DEF TypeOK

LEMMA NoPromptType ==
    ASSUME TypeOK, NEW t \in Rider
    PROVE  [prompt EXCEPT ![t] = NoPrompt] \in [Rider -> Prompt]
BY PromptUpdate DEF TypeOK, NoPrompt, Prompt

LEMMA RefusedRequestType ==
    ASSUME TypeOK, NEW t \in Rider, NEW p \in Pseud, RefusedRequest(t, p)
    PROVE  TypeOK'
<1>1. peers' \in [Rider -> [Pseud -> PeerRec]]
  BY ClosedRow DEF RefusedRequest
<1>2. prompt' \in [Rider -> Prompt]
  BY NoPromptType DEF RefusedRequest
<1>3. QED BY <1>1, <1>2 DEF RefusedRequest, TypeOK

LEMMA CloseMenuType ==
    ASSUME TypeOK, NEW t \in Rider, CloseMenu(t)
    PROVE  TypeOK'
<1>1. peers' = peers \/ peers' = [peers EXCEPT ![t] = Closed(peers[t], prompt[t].id)]
  BY DEF CloseMenu
<1>2. prompt' = prompt \/ prompt' = [prompt EXCEPT ![t] = NoPrompt]
  BY DEF CloseMenu
<1>3. peers' \in [Rider -> [Pseud -> PeerRec]]
  BY <1>1, ClosedRow DEF TypeOK
<1>4. prompt' \in [Rider -> Prompt]
  BY <1>2, NoPromptType DEF TypeOK
<1>5. QED BY <1>3, <1>4 DEF CloseMenu, TypeOK

LEMMA SetEnabledType ==
    ASSUME TypeOK, NEW t \in Rider, SetEnabled(t)
    PROVE  TypeOK'
<1>1. prompt' = prompt \/ prompt' = [prompt EXCEPT ![t] = NoPrompt]
  BY DEF SetEnabled
<1>2. prompt' \in [Rider -> Prompt]
  BY <1>1, NoPromptType DEF TypeOK
<1>3. QED BY <1>2 DEF SetEnabled, TypeOK

LEMMA RetryFramesType ==
    ASSUME TypeOK, NEW t \in Rider, NEW r, NEW p \in Pseud, NEW pr, NEW due
    PROVE  RetryFrames(t, r, p, pr, due) \in SUBSET Frame
<1>1. \A type \in {"request", "accept", "keys", "ack"} : Msg(type, Me(t), p) \in Frame
  BY MePseud, MsgType
<1>2. QED BY <1>1 DEF RetryFrames

LEMMA TickType ==
    ASSUME TypeOK, NEW t \in Rider, NEW timeout, NEW due \in SUBSET Pseud,
           NEW acks \in SUBSET Pseud, Tick(t, timeout, due, acks)
    PROVE  TypeOK'
<1> DEFINE kept == Expired(t)
           ends == PageEnds(prompt[t], kept, timeout)
           pr   == IF ends THEN NoPrompt ELSE prompt[t]
           ps   == IF ends /\ prompt[t].st # "done" THEN Closed(kept, prompt[t].id) ELSE kept
           owed == {p \in acks : ps[p].ack}
           tried(p) == Retried(ps[p], p, pr, p \in due)
           row  == [p \in Pseud |-> [tried(p) EXCEPT !.ack = tried(p).ack /\ p \notin owed]]
           page == IF pr.st = "waiting" /\ Lapses(ps[pr.id], pr.id \in due) THEN NoPrompt ELSE pr
<1>1. /\ peers' = [peers EXCEPT ![t] = row]
      /\ prompt' = [prompt EXCEPT ![t] = page]
      /\ air' = air \cup {Msg("ack", Me(t), p) : p \in owed}
                    \cup UNION {RetryFrames(t, ps[p], p, pr, p \in due) : p \in Pseud}
      /\ UNCHANGED <<boot, enabled, menu, friends, lost, said, dropped>>
  BY DEF Tick
<1>2. ps \in [Pseud -> PeerRec]
  <2>1. kept \in [Pseud -> PeerRec]
    BY PeerType, NoPeerType DEF Expired
  <2>2. QED BY <2>1, ClosedType
<1>3. pr \in Prompt /\ page \in Prompt
  BY DEF TypeOK, NoPrompt, Prompt
<1> HIDE DEF ps, pr
<1>4. row \in [Pseud -> PeerRec]
  <2>1. ASSUME NEW p \in Pseud PROVE [tried(p) EXCEPT !.ack = tried(p).ack /\ p \notin owed] \in PeerRec
    <3>1. tried(p) \in PeerRec
      <4>1. ps[p] \in PeerRec /\ (p \in due) \in BOOLEAN
        BY <1>2
      <4>2. \A d \in BOOLEAN : Retried(ps[p], p, pr, d) \in PeerRec
        BY <4>1, RetriedType
      <4>3. QED BY <4>1, <4>2
    <3>2. (tried(p).ack /\ p \notin owed) \in BOOLEAN
      OBVIOUS
    <3>3. \A r \in PeerRec, b \in BOOLEAN : [r EXCEPT !.ack = b] \in PeerRec
      BY FlagTypes
    <3> HIDE DEF tried, owed
    <3>4. QED BY <3>1, <3>2, <3>3
  <2>2. QED BY <2>1
<1>5. peers' \in [Rider -> [Pseud -> PeerRec]]
  <2> HIDE DEF row
  <2>1. QED BY <1>1, <1>4, RowUpdate DEF TypeOK
<1>6. prompt' \in [Rider -> Prompt]
  <2> HIDE DEF page
  <2>1. QED BY <1>1, <1>3, PromptUpdate DEF TypeOK
<1>7. air' \in SUBSET Frame
  <2>1. {Msg("ack", Me(t), p) : p \in owed} \in SUBSET Frame
    BY MePseud, MsgType
  <2>2. UNION {RetryFrames(t, ps[p], p, pr, p \in due) : p \in Pseud} \in SUBSET Frame
    BY RetryFramesType
  <2>3. QED BY <1>1, <2>1, <2>2 DEF TypeOK
<1>8. QED BY <1>1, <1>5, <1>6, <1>7 DEF TypeOK

LEMMA RestartType ==
    ASSUME TypeOK, NEW t \in Rider, Restart(t)
    PROVE  TypeOK'
<1>1. boot' \in [Rider -> Boot]
  BY CoreAssumption DEF Restart, TypeOK, Boot
<1>2. [p \in Pseud |-> NoPeer] \in [Pseud -> PeerRec]
  BY NoPeerType
<1>3. peers' \in [Rider -> [Pseud -> PeerRec]]
  BY <1>2, RowUpdate DEF Restart, TypeOK
<1>4. prompt' \in [Rider -> Prompt]
  BY NoPromptType DEF Restart
<1>5. air' \in SUBSET Frame
  BY DEF Restart, TypeOK
<1>6. QED BY <1>1, <1>3, <1>4, <1>5 DEF Restart, TypeOK

LEMMA PhoneDropType ==
    ASSUME TypeOK, NEW t \in Rider, NEW gone \in SUBSET Rider, PhoneDrop(t, gone)
    PROVE  TypeOK'
BY DEF PhoneDrop, TypeOK

LEMMA TypeStep == ASSUME TypeOK, [Next]_vars PROVE TypeOK'
<1>1. CASE UNCHANGED vars
  BY <1>1 DEF vars, TypeOK
<1>2. ASSUME NEW t \in Rider, NEW f \in air,
             RxRequest(t, f) \/ RxAccept(t, f) \/ RxKeys(t, f) \/ RxAck(t, f)
      PROVE  TypeOK'
  BY <1>2, RxRequestType, RxAcceptType, RxKeysType, RxAckType
<1>3. ASSUME NEW t \in Rider, NEW p \in Pseud, Accept(t, p) \/ Request(t, p) \/ RefusedRequest(t, p)
      PROVE  TypeOK'
  BY <1>3, AcceptType, RequestType, RefusedRequestType
<1>4. ASSUME NEW t \in Rider, Ticks(t) PROVE TypeOK'
  <2>1. PICK timeout \in {FALSE, prompt[t].st # "none"}, due \in SUBSET Clear(t), acks \in SUBSET Owed(t) :
           Tick(t, timeout, due, acks)
    BY <1>4 DEF Ticks
  <2>2. due \in SUBSET Pseud /\ acks \in SUBSET Pseud
    BY DEF Clear, Owed, Used
  <2>3. QED BY <2>1, <2>2, TickType
<1>5. CASE Ride
  BY <1>2, <1>3, <1>4, <1>5, HearType, LoseType DEF Ride, Receive, Hold
<1>6. ASSUME NEW t \in Rider, OpenMenu(t) PROVE TypeOK'
  BY <1>6 DEF OpenMenu, TypeOK
<1>7. ASSUME NEW t \in Rider, NEW u \in Rider, PhoneUpsert(t, u) PROVE TypeOK'
  BY <1>7 DEF PhoneUpsert, TypeOK
<1>8. ASSUME NEW t \in Rider, NEW u \in Rider, PhoneRemove(t, u) PROVE TypeOK'
  BY <1>8, PhoneDropType DEF PhoneRemove
<1>9. ASSUME NEW t \in Rider, PhoneClear(t) PROVE TypeOK'
  <2>1. friends[t] \in SUBSET Rider
    BY DEF TypeOK
  <2>2. QED BY <1>9, <2>1, PhoneDropType DEF PhoneClear
<1>10. CASE Upset
  BY <1>6, <1>7, <1>8, <1>9, <1>10, GoSilentType, CloseMenuType, SetEnabledType, RestartType DEF Upset
<1>11. QED BY <1>1, <1>5, <1>10 DEF Next

\* Every reachable state is one the code's tables and enums can hold.
THEOREM TypeCorrect == Spec => []TypeOK
<1>1. TypeOK /\ [Next]_vars => TypeOK'
  BY TypeStep
<1>2. QED BY TypeInit, <1>1, PTL DEF Spec

-----------------------------------------------------------------------------
(* Consent.                                                                 *)

LEMMA ConsentInit == Init => ConsentInv
<1> SUFFICES ASSUME Init PROVE ConsentInv
  OBVIOUS
<1>1. TypeOK
  BY TypeInit
<1>2. FriendsAgreed
  BY DEF Init, FriendsAgreed
<1>3. PeersSound
  <2>1. ASSUME NEW t \in Rider, NEW p \in Pseud PROVE peers[t][p] = NoPeer
    BY DEF Init
  <2>2. QED BY <2>1 DEF PeersSound, Sound, NoPeer, Moving
<1>4. AirSound
  BY DEF Init, AirSound
<1>5. QED BY <1>1, <1>2, <1>3, <1>4 DEF ConsentInv

\* Nothing a step does takes back what a record or a frame already claims.
Growing == said \subseteq said' /\ \A a, b \in Rider : Holds(a, b) => Holds(a, b)'

LEMMA GrowingSame ==
    ASSUME said \subseteq said', friends' = friends, dropped' = dropped
    PROVE  Growing
BY DEF Growing, Holds

LEMMA GrowingAdd ==
    ASSUME TypeOK, NEW t \in Rider, NEW p \in Pseud, AddFriend(t, p), said' = said, dropped' = dropped
    PROVE  Growing /\ Holds(t, Owner(p))'
BY PseudOwner DEF AddFriend, Growing, Holds, TypeOK

LEMMA KeptSound ==
    ASSUME ConsentInv, Growing
    PROVE  /\ \A t \in Rider, p \in Pseud :
                 Sound(peers[t][p], <<t, Owner(p)>> \in said', Holds(t, Owner(p))')
           /\ \A f \in air : FrameSound(f)'
<1>1. \A f \in air : Owner(f.from) \in Rider /\ Owner(f.to) \in Rider
  BY PseudOwner DEF ConsentInv, TypeOK, Frame
<1>2. ASSUME NEW t \in Rider, NEW p \in Pseud
      PROVE  Sound(peers[t][p], <<t, Owner(p)>> \in said', Holds(t, Owner(p))')
  <2>1. Sound(peers[t][p], <<t, Owner(p)>> \in said, Holds(t, Owner(p)))
    BY DEF ConsentInv, PeersSound
  <2>2. Holds(t, Owner(p)) => Holds(t, Owner(p))'
    BY PseudOwner DEF Growing
  <2>3. <<t, Owner(p)>> \in said => <<t, Owner(p)>> \in said'
    BY DEF Growing
  <2>4. QED BY <2>1, <2>2, <2>3 DEF Sound
<1>3. ASSUME NEW f \in air PROVE FrameSound(f)'
  <2>1. FrameSound(f)
    BY DEF ConsentInv, AirSound
  <2>2. Holds(Owner(f.from), Owner(f.to)) => Holds(Owner(f.from), Owner(f.to))'
    BY <1>1 DEF Growing
  <2>3. QED BY <2>1, <2>2 DEF FrameSound, Growing
<1>4. QED BY <1>2, <1>3

LEMMA SetPeerSound ==
    ASSUME ConsentInv, Growing, NEW t \in Rider, NEW p \in Pseud, NEW r \in PeerRec, SetPeer(t, p, r),
           Sound(r, <<t, Owner(p)>> \in said', Holds(t, Owner(p))')
    PROVE  PeersSound'
<1>1. ASSUME NEW a \in Rider, NEW q \in Pseud
      PROVE  Sound(peers'[a][q], <<a, Owner(q)>> \in said', Holds(a, Owner(q))')
  <2>1. CASE a = t /\ q = p
    <3>1. peers'[a][q] = r
      BY <2>1 DEF SetPeer, ConsentInv, TypeOK
    <3>2. QED BY <2>1, <3>1
  <2>2. CASE ~(a = t /\ q = p)
    <3>1. peers'[a][q] = peers[a][q]
      BY <2>2 DEF SetPeer, ConsentInv, TypeOK
    <3>2. QED BY <3>1, KeptSound
  <2>3. QED BY <2>1, <2>2
<1>2. QED BY <1>1 DEF PeersSound

LEMMA AirShrinks ==
    ASSUME ConsentInv, Growing, air' \subseteq air
    PROVE  AirSound'
BY KeptSound DEF AirSound

LEMMA AirGrows ==
    ASSUME ConsentInv, Growing, NEW new, air' = air \cup new, \A f \in new : FrameSound(f)'
    PROVE  AirSound'
BY KeptSound DEF AirSound

LEMMA FriendsSame ==
    ASSUME ConsentInv, said \subseteq said', friends' = friends
    PROVE  FriendsAgreed'
BY DEF ConsentInv, FriendsAgreed

LEMMA FriendAdded ==
    ASSUME ConsentInv, NEW t \in Rider, NEW p \in Pseud, AddFriend(t, p), said' = said,
           <<t, Owner(p)>> \in said, <<Owner(p), t>> \in said
    PROVE  FriendsAgreed'
<1>1. friends \in [Rider -> SUBSET Rider]
  BY DEF ConsentInv, TypeOK
<1>2. friends' = [friends EXCEPT ![t] = @ \cup {Owner(p)}]
  BY DEF AddFriend
<1>3. ASSUME NEW a \in Rider, NEW u \in friends'[a]
      PROVE  {<<a, u>>, <<u, a>>} \subseteq said
  <2>1. CASE u \in friends[a]
    BY <2>1 DEF ConsentInv, FriendsAgreed
  <2>2. CASE u \notin friends[a]
    <3>1. a = t /\ u = Owner(p)
      BY <1>1, <1>2, <2>2
    <3>2. QED BY <3>1
  <2>3. QED BY <2>1, <2>2
<1>4. QED BY <1>3 DEF FriendsAgreed

\* What the record a frame is about to change may claim.
LEMMA PeerSound ==
    ASSUME ConsentInv, NEW t \in Rider, NEW p \in Pseud
    PROVE  Sound([peers[t][p] EXCEPT !.fresh = TRUE], <<t, Owner(p)>> \in said, Holds(t, Owner(p)))
<1>1. peers[t][p] \in PeerRec
  BY PeerType DEF ConsentInv
<1>2. Sound(peers[t][p], <<t, Owner(p)>> \in said, Holds(t, Owner(p)))
  BY DEF ConsentInv, PeersSound
<1>3. QED BY <1>1, <1>2 DEF Sound, PeerRec

LEMMA HearConsent ==
    ASSUME ConsentInv, NEW t \in Rider, NEW u \in Rider, Hear(t, u)
    PROVE  FriendsAgreed' /\ PeersSound' /\ AirSound'
<1> PICK p \in Pseud : p = Me(u)
  BY MePseud DEF ConsentInv
<1> DEFINE heard == [peers[t][p] EXCEPT !.fresh = TRUE]
<1>1. heard \in PeerRec
  BY PeerType, FlagTypes DEF ConsentInv
<1>2. Growing
  BY GrowingSame DEF Hear
<1>3. ASSUME NEW a \in Rider, NEW q \in Pseud
      PROVE  /\ Sound(NoPeer, <<a, Owner(q)>> \in said', Holds(a, Owner(q))')
             /\ Sound(NewPeer, <<a, Owner(q)>> \in said', Holds(a, Owner(q))')
  BY DEF Sound, NoPeer, NewPeer, Moving
<1>4. PeersSound'
  <2>1. CASE SetPeer(t, p, heard)
    <3>1. Sound(heard, <<t, Owner(p)>> \in said', Holds(t, Owner(p))')
      BY <1>1, PeerSound DEF Hear, Holds
    <3> HIDE DEF heard
    <3>2. QED BY <2>1, <3>1, <1>1, <1>2, SetPeerSound
  <2>2. CASE SetPeer(t, p, NewPeer)
    BY <2>2, <1>1, <1>2, <1>3, NoPeerType, SetPeerSound
  <2>3. CASE \E v \in Victims(t) : peers' = [peers EXCEPT ![t][v] = NoPeer, ![t][p] = NewPeer]
    <3>1. PICK v \in Victims(t) : peers' = [peers EXCEPT ![t][v] = NoPeer, ![t][p] = NewPeer]
      BY <2>3
    <3>2. ASSUME NEW a \in Rider, NEW q \in Pseud
          PROVE  peers'[a][q] \in {peers[a][q], NoPeer, NewPeer}
      BY <3>1, <1>1 DEF ConsentInv, TypeOK, Victims, Used
    <3>3. QED BY <3>2, <1>2, <1>3, KeptSound DEF PeersSound
  <2>4. \/ SetPeer(t, Me(u), [peers[t][Me(u)] EXCEPT !.fresh = TRUE])
        \/ SetPeer(t, Me(u), NewPeer)
        \/ \E v \in Victims(t) : peers' = [peers EXCEPT ![t][v] = NoPeer, ![t][Me(u)] = NewPeer]
    BY DEF Hear
  <2>5. QED BY <2>1, <2>2, <2>3, <2>4
<1>5. friends' = friends /\ air' = air /\ said' = said
  BY DEF Hear
<1>6. QED BY <1>2, <1>4, <1>5, FriendsSame, AirShrinks

LEMMA GoSilentConsent ==
    ASSUME ConsentInv, NEW t \in Rider, NEW p \in Pseud, GoSilent(t, p)
    PROVE  FriendsAgreed' /\ PeersSound' /\ AirSound'
<1> DEFINE r == [peers[t][p] EXCEPT !.fresh = FALSE]
<1>1. r \in PeerRec
  BY PeerType, FlagTypes DEF ConsentInv
<1>2. Growing
  BY GrowingSame DEF GoSilent
<1>3. Sound(r, <<t, Owner(p)>> \in said', Holds(t, Owner(p))')
  BY <1>2, PeerType, KeptSound DEF Sound, PeerRec, ConsentInv
<1> HIDE DEF r
<1>4. PeersSound'
  BY <1>1, <1>2, <1>3, SetPeerSound DEF GoSilent, r
<1>5. QED BY <1>2, <1>4, FriendsSame, AirShrinks DEF GoSilent

\* The rider who sent a frame has said yes to the one who takes it.
LEMMA SenderSaid ==
    ASSUME ConsentInv, NEW t \in Rider, NEW f \in air, NEW type \in {"request", "accept", "keys"},
           Arrives(t, f, type)
    PROVE  f.from \in Pseud /\ <<Owner(f.from), t>> \in said
<1>1. f.from \in Pseud /\ f.to = Me(t) /\ f.type = type
  BY ArrivesType DEF ConsentInv
<1>2. Owner(f.to) = t
  BY <1>1, MePseud DEF ConsentInv
<1>3. FrameSound(f)
  BY DEF ConsentInv, AirSound
<1>4. QED BY <1>1, <1>2, <1>3 DEF FrameSound

LEMMA RxRequestConsent ==
    ASSUME ConsentInv, NEW t \in Rider, NEW f \in air, RxRequest(t, f)
    PROVE  FriendsAgreed' /\ PeersSound' /\ AirSound'
<1> DEFINE p == f.from
           r == [peers[t][p] EXCEPT !.fresh = TRUE]
           answer == Deferred(r, "accept_sent")
           crossed == [answer EXCEPT !.consented = TRUE]
           asked == [r EXCEPT !.hs = "req_recv"]
<1>1. /\ Arrives(t, f, "request")
      /\ said' = said /\ friends' = friends /\ dropped' = dropped /\ air' \subseteq air
  BY DEF RxRequest, Arrives
<1>2. Growing
  BY <1>1, GrowingSame
<1>3. p \in Pseud /\ r \in PeerRec
  BY <1>1, ArrivesType DEF ConsentInv
<1>4. Sound(r, <<t, Owner(p)>> \in said', Holds(t, Owner(p))')
  BY <1>1, <1>3, PeerSound DEF Holds
<1>5. <<t, Owner(p)>> \in said => Sound(answer, <<t, Owner(p)>> \in said', Holds(t, Owner(p))')
  BY <1>1, <1>3, <1>4 DEF Sound, Deferred, PeerRec
<1>6. <<t, Owner(p)>> \in said => Sound(crossed, <<t, Owner(p)>> \in said', Holds(t, Owner(p))')
  BY <1>1, <1>3, <1>4 DEF Sound, Deferred, PeerRec
<1>7. Sound(asked, <<t, Owner(p)>> \in said', Holds(t, Owner(p))')
  BY <1>3, <1>4 DEF Sound, PeerRec, Moving
<1>8. Friendly(t, p) \/ Crossed(r) => <<t, Owner(p)>> \in said
  <2>1. Friendly(t, p) => <<t, Owner(p)>> \in said
    BY DEF Friendly, ConsentInv, FriendsAgreed
  <2>2. Crossed(r) => <<t, Owner(p)>> \in said
    BY <1>1, <1>4 DEF Crossed, Sound
  <2>3. QED BY <2>1, <2>2
<1>9. \/ peers' = peers
      \/ SetPeer(t, p, r)
      \/ (SetPeer(t, p, answer) /\ Friendly(t, p))
      \/ (SetPeer(t, p, crossed) /\ Crossed(r))
      \/ SetPeer(t, p, asked)
  BY DEF RxRequest
<1>10. answer \in PeerRec /\ crossed \in PeerRec /\ asked \in PeerRec
  <2>1. answer \in PeerRec
    BY <1>3, StepTypes DEF Hs, Moving
  <2>2. \A q \in PeerRec : [q EXCEPT !.hs = "req_recv"] \in PeerRec
    BY DEF PeerRec, Hs, Asking
  <2>3. QED BY <2>1, <2>2, <1>3, FlagTypes
<1>11. PeersSound'
  <2>1. CASE peers' = peers
    BY <2>1, <1>2, KeptSound DEF PeersSound
  <2> HIDE DEF r, answer, crossed, asked
  <2>2. QED BY <2>1, <1>2, <1>3, <1>4, <1>5, <1>6, <1>7, <1>8, <1>9, <1>10, SetPeerSound
<1>12. QED BY <1>1, <1>2, <1>11, FriendsSame, AirShrinks

\* RxAccept and RxKeys store the friend in the same way.
LEMMA RxAcceptConsent ==
    ASSUME ConsentInv, NEW t \in Rider, NEW f \in air, RxAccept(t, f)
    PROVE  FriendsAgreed' /\ PeersSound' /\ AirSound'
<1> DEFINE p == f.from
           r == [peers[t][p] EXCEPT !.fresh = TRUE]
<1>1. Arrives(t, f, "accept") /\ said' = said /\ dropped' = dropped /\ air' \subseteq air
  BY DEF RxAccept, Arrives
<1>2. p \in Pseud /\ r \in PeerRec
  BY <1>1, ArrivesType DEF ConsentInv
<1>3. <<Owner(p), t>> \in said
  BY <1>1, SenderSaid
<1>4. Sound(r, <<t, Owner(p)>> \in said, Holds(t, Owner(p)))
  BY <1>2, PeerSound
<1>5. Deferred(r, "keys_sent") \in PeerRec /\ Ended(r) \in PeerRec
  BY <1>2, StepTypes DEF Hs, Moving
<1>6. CASE r.hs \in {"req_sent"} \cup Moving /\ AddFriend(t, p) /\ SetPeer(t, p, Deferred(r, "keys_sent"))
  <2>1. <<t, Owner(p)>> \in said
    BY <1>4, <1>6 DEF Sound
  <2>2. Growing /\ Holds(t, Owner(p))'
    BY <1>1, <1>2, <1>6, GrowingAdd DEF ConsentInv
  <2>3. Sound(Deferred(r, "keys_sent"), <<t, Owner(p)>> \in said', Holds(t, Owner(p))')
    BY <1>1, <2>1, <2>2 DEF Sound
  <2>4. PeersSound'
    BY <1>2, <1>5, <1>6, <2>2, <2>3, SetPeerSound
  <2>5. FriendsAgreed'
    BY <1>1, <1>2, <1>3, <1>6, <2>1, FriendAdded
  <2>6. QED BY <1>1, <2>2, <2>4, <2>5, AirShrinks
<1>7. CASE friends' = friends /\ (peers' = peers \/ SetPeer(t, p, Ended(r)))
  <2>1. Growing
    BY <1>1, <1>7, GrowingSame
  <2>2. Sound(Ended(r), <<t, Owner(p)>> \in said', Holds(t, Owner(p))')
    BY <1>1, <1>2, <1>4, <1>7 DEF Sound, Ended, PeerRec, Moving, Holds
  <2>3. PeersSound'
    <3>1. CASE peers' = peers
      BY <3>1, <2>1, KeptSound DEF PeersSound
    <3>2. CASE SetPeer(t, p, Ended(r))
      BY <3>2, <1>2, <1>5, <2>1, <2>2, SetPeerSound
    <3>3. QED BY <3>1, <3>2, <1>7
  <2>4. QED BY <1>1, <1>7, <2>1, <2>3, FriendsSame, AirShrinks
<1>8. QED BY <1>6, <1>7 DEF RxAccept

LEMMA RxKeysConsent ==
    ASSUME ConsentInv, NEW t \in Rider, NEW f \in air, RxKeys(t, f)
    PROVE  FriendsAgreed' /\ PeersSound' /\ AirSound'
<1> DEFINE p == f.from
           r == [peers[t][p] EXCEPT !.fresh = TRUE]
           acked == [r EXCEPT !.ack = TRUE]
<1>1. Arrives(t, f, "keys") /\ said' = said /\ dropped' = dropped /\ air' \subseteq air
  BY DEF RxKeys, Arrives
<1>2. p \in Pseud /\ r \in PeerRec
  BY <1>1, ArrivesType DEF ConsentInv
<1>3. <<Owner(p), t>> \in said
  BY <1>1, SenderSaid
<1>4. Sound(r, <<t, Owner(p)>> \in said, Holds(t, Owner(p)))
  BY <1>2, PeerSound
<1>5. acked \in PeerRec /\ Ended(acked) \in PeerRec /\ Ended(r) \in PeerRec
  <2>1. acked \in PeerRec
    BY <1>2, FlagTypes
  <2>2. QED BY <1>2, <2>1, StepTypes DEF Hs
<1>6. /\ acked.hs = r.hs /\ acked.consented = r.consented
      /\ Ended(acked).hs = "none" /\ Ended(acked).consented = r.consented
  BY <1>2 DEF Ended, PeerRec
<1>7. CASE AddFriend(t, p) /\ (r.hs \in Moving \/ r.consented)
           /\ (SetPeer(t, p, acked) \/ SetPeer(t, p, Ended(acked)))
  <2>1. <<t, Owner(p)>> \in said
    BY <1>4, <1>7 DEF Sound
  <2>2. Growing /\ Holds(t, Owner(p))'
    BY <1>1, <1>2, <1>7, GrowingAdd DEF ConsentInv
  <2>3. /\ Sound(acked, <<t, Owner(p)>> \in said', Holds(t, Owner(p))')
        /\ Sound(Ended(acked), <<t, Owner(p)>> \in said', Holds(t, Owner(p))')
    BY <1>1, <2>1, <2>2 DEF Sound
  <2>4. PeersSound'
    <3> HIDE DEF acked
    <3>1. QED BY <1>2, <1>5, <1>7, <2>2, <2>3, SetPeerSound
  <2>5. FriendsAgreed'
    BY <1>1, <1>2, <1>3, <1>7, <2>1, FriendAdded
  <2>6. QED BY <1>1, <2>2, <2>4, <2>5, AirShrinks
<1>8. CASE friends' = friends
           /\ (peers' = peers \/ (SetPeer(t, p, acked) /\ Friendly(t, p)) \/ SetPeer(t, p, Ended(r)))
  <2>1. Growing
    BY <1>1, <1>8, GrowingSame
  <2>2. Friendly(t, p) => Sound(acked, <<t, Owner(p)>> \in said', Holds(t, Owner(p))')
    <3>1. Friendly(t, p) => Holds(t, Owner(p))'
      BY <1>8 DEF Friendly, Holds
    <3>2. QED BY <1>1, <1>4, <1>6, <3>1 DEF Sound
  <2>3. Sound(Ended(r), <<t, Owner(p)>> \in said', Holds(t, Owner(p))')
    BY <1>1, <1>2, <1>4, <1>8 DEF Sound, Ended, PeerRec, Moving, Holds
  <2>4. PeersSound'
    <3>1. CASE peers' = peers
      BY <3>1, <2>1, KeptSound DEF PeersSound
    <3>2. CASE SetPeer(t, p, acked) /\ Friendly(t, p)
      <4> HIDE DEF acked
      <4>1. QED BY <3>2, <1>2, <1>5, <2>1, <2>2, SetPeerSound
    <3>3. CASE SetPeer(t, p, Ended(r))
      BY <3>3, <1>2, <1>5, <2>1, <2>3, SetPeerSound
    <3>4. QED BY <3>1, <3>2, <3>3, <1>8
  <2>5. QED BY <1>1, <1>8, <2>1, <2>4, FriendsSame, AirShrinks
<1>9. \/ friends' = friends /\ SetPeer(t, p, acked) /\ Friendly(t, p)
      \/ friends' = friends /\ peers' = peers
      \/ /\ AddFriend(t, p) /\ (r.hs \in Moving \/ r.consented)
         /\ SetPeer(t, p, IF r.hs = "accept_sent" THEN Ended(acked) ELSE acked)
      \/ friends' = friends /\ SetPeer(t, p, Ended(r))
  BY DEF RxKeys
<1>10. SetPeer(t, p, IF r.hs = "accept_sent" THEN Ended(acked) ELSE acked)
           => SetPeer(t, p, acked) \/ SetPeer(t, p, Ended(acked))
  OBVIOUS
<1>11. QED BY <1>7, <1>8, <1>9, <1>10

LEMMA RxAckConsent ==
    ASSUME ConsentInv, NEW t \in Rider, NEW f \in air, RxAck(t, f)
    PROVE  FriendsAgreed' /\ PeersSound' /\ AirSound'
<1> DEFINE p == f.from
           r == peers[t][p]
<1>1. /\ Arrives(t, f, "ack") /\ said' = said /\ dropped' = dropped
      /\ friends' = friends /\ air' \subseteq air
  BY DEF RxAck, Arrives
<1>2. p \in Pseud /\ r \in PeerRec /\ Ended(r) \in PeerRec
  BY <1>1, ArrivesType, PeerType, StepTypes DEF ConsentInv, Hs
<1>3. Growing
  BY <1>1, GrowingSame
<1>4. Sound(r, <<t, Owner(p)>> \in said', Holds(t, Owner(p))')
  BY <1>2, <1>3, KeptSound
<1>5. Sound(Ended(r), <<t, Owner(p)>> \in said', Holds(t, Owner(p))')
  BY <1>2, <1>4 DEF Sound, Ended, PeerRec, Moving
<1>6. SetPeer(t, p, r) \/ SetPeer(t, p, Ended(r))
  BY DEF RxAck
<1>7. PeersSound'
  <2> HIDE DEF r
  <2>1. QED BY <1>2, <1>3, <1>4, <1>5, <1>6, SetPeerSound
<1>8. QED BY <1>1, <1>3, <1>7, FriendsSame, AirShrinks

LEMMA RowSound ==
    ASSUME ConsentInv, Growing, NEW t \in Rider, NEW row \in [Pseud -> PeerRec],
           peers' = [peers EXCEPT ![t] = row],
           \A p \in Pseud : Sound(row[p], <<t, Owner(p)>> \in said', Holds(t, Owner(p))')
    PROVE  PeersSound'
<1>1. ASSUME NEW a \in Rider, NEW q \in Pseud
      PROVE  Sound(peers'[a][q], <<a, Owner(q)>> \in said', Holds(a, Owner(q))')
  <2>1. CASE a = t
    <3>1. peers'[a][q] = row[q]
      BY <2>1 DEF ConsentInv, TypeOK
    <3>2. QED BY <2>1, <3>1
  <2>2. CASE a # t
    <3>1. peers'[a][q] = peers[a][q]
      BY <2>2 DEF ConsentInv, TypeOK
    <3>2. QED BY <3>1, KeptSound
  <2>3. QED BY <2>1, <2>2
<1>2. QED BY <1>1 DEF PeersSound

\* Closing a page takes claims back, never makes one.
LEMMA ClosedSound ==
    ASSUME NEW ps \in [Pseud -> PeerRec], NEW id, NEW p \in Pseud, NEW yes, NEW held, Sound(ps[p], yes, held)
    PROVE  Sound(Closed(ps, id)[p], yes, held)
<1>1. CASE p = id /\ ps[p].hs \in Asking
  <2>1. Closed(ps, id)[p] = [Ended(ps[p]) EXCEPT !.consented = FALSE]
    BY <1>1 DEF Closed
  <2>2. ps[p] \in PeerRec
    OBVIOUS
  <2>3. QED BY <1>1, <2>1, <2>2 DEF Sound, Ended, PeerRec, Moving
<1>2. CASE ~(p = id /\ ps[p].hs \in Asking)
  BY <1>2 DEF Closed
<1>3. QED BY <1>1, <1>2

LEMMA ClosedPageSound ==
    ASSUME ConsentInv, Growing, NEW t \in Rider, NEW id, peers' = [peers EXCEPT ![t] = Closed(peers[t], id)]
    PROVE  PeersSound'
<1>1. peers[t] \in [Pseud -> PeerRec]
  BY DEF ConsentInv, TypeOK
<1>2. Closed(peers[t], id) \in [Pseud -> PeerRec]
  BY <1>1, ClosedType
<1>3. \A p \in Pseud : Sound(Closed(peers[t], id)[p], <<t, Owner(p)>> \in said', Holds(t, Owner(p))')
  BY <1>1, KeptSound, ClosedSound
<1>4. QED BY <1>2, <1>3, RowSound

LEMMA PeersSame ==
    ASSUME ConsentInv, Growing, peers' = peers
    PROVE  PeersSound'
BY KeptSound DEF PeersSound

LEMMA AcceptConsent ==
    ASSUME ConsentInv, NEW t \in Rider, NEW p \in Pseud, Accept(t, p)
    PROVE  FriendsAgreed' /\ PeersSound' /\ AirSound'
<1> DEFINE r == [Started(peers[t][p], "accept_sent") EXCEPT !.consented = TRUE]
<1> PICK me \in Pseud : me = Me(t) /\ Owner(me) = t
  BY MePseud DEF ConsentInv
<1>1. /\ SetPeer(t, p, r) /\ air' = air \cup {Msg("accept", me, p)}
      /\ said' = said \cup {<<t, Owner(p)>>} /\ friends' = friends /\ dropped' = dropped
  BY DEF Accept
<1>2. Growing
  BY <1>1, GrowingSame
<1>3. r \in PeerRec /\ Sound(r, <<t, Owner(p)>> \in said', Holds(t, Owner(p))')
  <2>1. peers[t][p] \in PeerRec /\ Started(peers[t][p], "accept_sent") \in PeerRec
    BY PeerType, StepTypes DEF ConsentInv, Hs, Moving
  <2>2. r \in PeerRec
    BY <2>1, FlagTypes
  <2>3. Sound(peers[t][p], <<t, Owner(p)>> \in said', Holds(t, Owner(p))')
    BY <1>2, KeptSound
  <2>4. r.hs = "accept_sent" /\ r.ack = peers[t][p].ack
    BY <2>1 DEF Started, PeerRec
  <2>5. <<t, Owner(p)>> \in said'
    BY <1>1
  <2>6. QED BY <2>2, <2>3, <2>4, <2>5 DEF Sound
<1>4. PeersSound'
  <2> HIDE DEF r
  <2>1. QED BY <1>1, <1>2, <1>3, SetPeerSound
<1>5. FrameSound(Msg("accept", me, p))'
  BY <1>1 DEF FrameSound, Msg
<1>6. AirSound'
  <2> DEFINE new == {Msg("accept", me, p)}
  <2>1. air' = air \cup new /\ \A f \in new : FrameSound(f)'
    BY <1>1, <1>5
  <2> HIDE DEF new
  <2>2. QED BY <1>2, <2>1, AirGrows
<1>7. QED BY <1>1, <1>4, <1>6, FriendsSame

LEMMA RequestConsent ==
    ASSUME ConsentInv, NEW t \in Rider, NEW p \in Pseud, Request(t, p)
    PROVE  FriendsAgreed' /\ PeersSound' /\ AirSound'
<1> DEFINE pr     == prompt[t]
           closed == IF pr.st = "none" THEN peers[t] ELSE Closed(peers[t], pr.id)
           unsaid(q) == [closed[q] EXCEPT !.consented = FALSE]
           row    == [q \in Pseud |-> IF q = p THEN Started(unsaid(q), "req_sent") ELSE unsaid(q)]
<1> PICK me \in Pseud : me = Me(t) /\ Owner(me) = t
  BY MePseud DEF ConsentInv
<1>1. /\ peers' = [peers EXCEPT ![t] = row] /\ air' = air \cup {Msg("request", me, p)}
      /\ said' = said \cup {<<t, Owner(p)>>} /\ friends' = friends /\ dropped' = dropped
  BY DEF Request
<1>2. Growing
  BY <1>1, GrowingSame
<1>3. peers[t] \in [Pseud -> PeerRec] /\ closed \in [Pseud -> PeerRec]
  BY ClosedType DEF ConsentInv, TypeOK
<1>4. ASSUME NEW q \in Pseud
      PROVE  /\ unsaid(q) \in PeerRec /\ Started(unsaid(q), "req_sent") \in PeerRec
             /\ Sound(unsaid(q), <<t, Owner(q)>> \in said', Holds(t, Owner(q))')
             /\ q = p => Sound(Started(unsaid(q), "req_sent"), <<t, Owner(q)>> \in said', Holds(t, Owner(q))')
  <2>1. Sound(peers[t][q], <<t, Owner(q)>> \in said', Holds(t, Owner(q))')
    BY <1>2, KeptSound
  <2>2. Sound(closed[q], <<t, Owner(q)>> \in said', Holds(t, Owner(q))')
    BY <1>3, <2>1, ClosedSound
  <2> HIDE DEF closed
  <2>3. closed[q] \in PeerRec /\ unsaid(q) \in PeerRec
    BY <1>3, FlagTypes
  <2>4. unsaid(q).hs = closed[q].hs /\ unsaid(q).ack = closed[q].ack /\ ~unsaid(q).consented
    BY <2>3 DEF PeerRec
  <2>5. Sound(unsaid(q), <<t, Owner(q)>> \in said', Holds(t, Owner(q))')
    BY <2>2, <2>4 DEF Sound
  <2> HIDE DEF unsaid
  <2>6. Started(unsaid(q), "req_sent") \in PeerRec
    BY <2>3, StepTypes DEF Hs, Asking
  <2>7. q = p => Sound(Started(unsaid(q), "req_sent"), <<t, Owner(q)>> \in said', Holds(t, Owner(q))')
    BY <1>1, <2>3, <2>5 DEF Sound, Started, PeerRec
  <2>8. QED BY <2>3, <2>5, <2>6, <2>7
<1> HIDE DEF closed, unsaid
<1>5. row \in [Pseud -> PeerRec]
      /\ \A q \in Pseud : Sound(row[q], <<t, Owner(q)>> \in said', Holds(t, Owner(q))')
  BY <1>4
<1> HIDE DEF row
<1>6. PeersSound'
  BY <1>1, <1>2, <1>5, RowSound
<1>7. FrameSound(Msg("request", me, p))'
  BY <1>1 DEF FrameSound, Msg
<1>8. AirSound'
  <2> DEFINE new == {Msg("request", me, p)}
  <2>1. air' = air \cup new /\ \A f \in new : FrameSound(f)'
    BY <1>1, <1>7
  <2> HIDE DEF new
  <2>2. QED BY <1>2, <2>1, AirGrows
<1>9. QED BY <1>1, <1>6, <1>8, FriendsSame

LEMMA RefusedRequestConsent ==
    ASSUME ConsentInv, NEW t \in Rider, NEW p \in Pseud, RefusedRequest(t, p)
    PROVE  FriendsAgreed' /\ PeersSound' /\ AirSound'
<1>1. /\ peers' = [peers EXCEPT ![t] = Closed(peers[t], prompt[t].id)]
      /\ friends' = friends /\ air' = air /\ said' = said /\ dropped' = dropped
  BY DEF RefusedRequest
<1>2. Growing
  BY <1>1, GrowingSame
<1>3. QED BY <1>1, <1>2, ClosedPageSound, FriendsSame, AirShrinks

LEMMA CloseMenuConsent ==
    ASSUME ConsentInv, NEW t \in Rider, CloseMenu(t)
    PROVE  FriendsAgreed' /\ PeersSound' /\ AirSound'
<1>1. /\ peers' = peers \/ peers' = [peers EXCEPT ![t] = Closed(peers[t], prompt[t].id)]
      /\ friends' = friends /\ air' = air /\ said' = said /\ dropped' = dropped
  BY DEF CloseMenu
<1>2. Growing
  BY <1>1, GrowingSame
<1>3. QED BY <1>1, <1>2, PeersSame, ClosedPageSound, FriendsSame, AirShrinks

\* The retry loop sends only what the peer's state entitles it to.
LEMMA RetrySound ==
    ASSUME NEW r \in PeerRec, NEW p, NEW pr, NEW due \in BOOLEAN, NEW ack \in BOOLEAN,
           NEW yes, NEW held, Sound(r, yes, held), ack => r.ack
    PROVE  Sound([Retried(r, p, pr, due) EXCEPT !.ack = ack], yes, held)
<1> DEFINE q == Retried(r, p, pr, due)
<1>1. q \in PeerRec
  BY RetriedType
<1>2. (q.hs = r.hs \/ q.hs = "none") /\ q.consented = r.consented /\ q.ack = r.ack
  BY DEF Retried, Ended, PeerRec
<1> HIDE DEF q
<1>3. [q EXCEPT !.ack = ack].hs = q.hs /\ [q EXCEPT !.ack = ack].consented = q.consented
      /\ [q EXCEPT !.ack = ack].ack = ack
  BY <1>1 DEF PeerRec
<1>4. Sound([q EXCEPT !.ack = ack], yes, held)
  BY <1>2, <1>3 DEF Sound, Moving
<1>5. QED BY <1>4 DEF q

LEMMA TickConsent ==
    ASSUME ConsentInv, NEW t \in Rider, NEW timeout, NEW due \in SUBSET Pseud,
           NEW acks \in SUBSET Pseud, Tick(t, timeout, due, acks)
    PROVE  FriendsAgreed' /\ PeersSound' /\ AirSound'
<1> DEFINE kept == Expired(t)
           ends == PageEnds(prompt[t], kept, timeout)
           pr   == IF ends THEN NoPrompt ELSE prompt[t]
           ps   == IF ends /\ prompt[t].st # "done" THEN Closed(kept, prompt[t].id) ELSE kept
           owed == {p \in acks : ps[p].ack}
           tried(p) == Retried(ps[p], p, pr, p \in due)
           row  == [p \in Pseud |-> [tried(p) EXCEPT !.ack = tried(p).ack /\ p \notin owed]]
           new  == {Msg("ack", Me(t), p) : p \in owed}
                   \cup UNION {RetryFrames(t, ps[p], p, pr, p \in due) : p \in Pseud}
<1>1. /\ peers' = [peers EXCEPT ![t] = row] /\ air' = air \cup new
      /\ friends' = friends /\ said' = said /\ dropped' = dropped
  BY DEF Tick
<1>2. Growing
  BY <1>1, GrowingSame
<1>3. /\ ps \in [Pseud -> PeerRec]
      /\ \A p \in Pseud : Sound(ps[p], <<t, Owner(p)>> \in said', Holds(t, Owner(p))')
  <2>1. kept \in [Pseud -> PeerRec]
    BY PeerType, NoPeerType DEF Expired, ConsentInv
  <2>2. ASSUME NEW p \in Pseud PROVE Sound(kept[p], <<t, Owner(p)>> \in said', Holds(t, Owner(p))')
    <3>1. kept[p] = NoPeer \/ kept[p] = peers[t][p]
      BY DEF Expired
    <3>2. Sound(peers[t][p], <<t, Owner(p)>> \in said', Holds(t, Owner(p))')
      BY <1>2, KeptSound
    <3>3. Sound(NoPeer, <<t, Owner(p)>> \in said', Holds(t, Owner(p))')
      BY DEF Sound, NoPeer, Moving
    <3>4. QED BY <3>1, <3>2, <3>3
  <2> HIDE DEF kept
  <2>3. QED BY <2>1, <2>2, ClosedType, ClosedSound
<1> HIDE DEF ps, pr
<1>4. ASSUME NEW p \in Pseud
      PROVE  /\ row[p] \in PeerRec
             /\ Sound(row[p], <<t, Owner(p)>> \in said', Holds(t, Owner(p))')
  <2>1. ps[p] \in PeerRec /\ (p \in due) \in BOOLEAN
    BY <1>3
  <2>2. tried(p) \in PeerRec
    <3>1. \A d \in BOOLEAN : Retried(ps[p], p, pr, d) \in PeerRec
      BY <2>1, RetriedType
    <3>2. QED BY <2>1, <3>1
  <2>3. tried(p).ack = ps[p].ack
    BY <2>1 DEF Retried, Ended, PeerRec
  <2>4. PICK ack \in BOOLEAN : ack = (tried(p).ack /\ p \notin owed) /\ (ack => ps[p].ack)
    BY <2>3
  <2>5. row[p] = [tried(p) EXCEPT !.ack = ack]
    BY <2>4
  <2>6. Sound([tried(p) EXCEPT !.ack = ack], <<t, Owner(p)>> \in said', Holds(t, Owner(p))')
    BY <1>3, <2>1, <2>4, RetrySound
  <2> HIDE DEF tried, row
  <2>7. [tried(p) EXCEPT !.ack = ack] \in PeerRec
    BY <2>2, FlagTypes
  <2>8. QED BY <2>5, <2>6, <2>7
<1>5. row \in [Pseud -> PeerRec]
  BY <1>4
<1>6. PeersSound'
  <2> HIDE DEF row
  <2>1. QED BY <1>1, <1>2, <1>4, <1>5, RowSound
<1>7. ASSUME NEW f \in new PROVE FrameSound(f)'
  <2>1. Owner(Me(t)) = t
    BY MePseud DEF ConsentInv
  <2>2. ASSUME NEW p \in owed, f = Msg("ack", Me(t), p) PROVE FrameSound(f)'
    <3>1. p \in Pseud /\ ps[p].ack
      OBVIOUS
    <3>2. Holds(t, Owner(p))'
      BY <1>3, <3>1 DEF Sound
    <3>3. f.type = "ack" /\ Owner(f.from) = t /\ Owner(f.to) = Owner(p)
      BY <2>1, <2>2 DEF Msg
    <3>4. QED BY <3>2, <3>3 DEF FrameSound
  <2>3. ASSUME NEW p \in Pseud, f \in RetryFrames(t, ps[p], p, pr, p \in due) PROVE FrameSound(f)'
    <3>1. Sound(ps[p], <<t, Owner(p)>> \in said', Holds(t, Owner(p))')
      BY <1>3
    <3>2. /\ ps[p].hs \in {"req_sent"} \cup Moving
          /\ f.type \in {"request", "accept"} \/ (f.type = "keys" /\ ps[p].hs = "keys_sent")
          /\ f.from = Me(t) /\ f.to = p
      BY <2>3 DEF RetryFrames, Resends, Msg, Moving
    <3>3. QED BY <2>1, <3>1, <3>2 DEF FrameSound, Sound
  <2>4. QED BY <2>2, <2>3
<1>8. AirSound'
  <2> HIDE DEF new
  <2>1. QED BY <1>1, <1>2, <1>7, AirGrows
<1>9. QED BY <1>1, <1>6, <1>8, FriendsSame

LEMMA RestartConsent ==
    ASSUME ConsentInv, NEW t \in Rider, Restart(t)
    PROVE  FriendsAgreed' /\ PeersSound' /\ AirSound'
<1> DEFINE row == [p \in Pseud |-> NoPeer]
<1>1. /\ peers' = [peers EXCEPT ![t] = row] /\ air' \subseteq air
      /\ friends' = friends /\ said' = said /\ dropped' = dropped
  BY DEF Restart
<1>2. Growing
  BY <1>1, GrowingSame
<1>3. row \in [Pseud -> PeerRec]
  BY NoPeerType
<1>4. \A p \in Pseud : Sound(row[p], <<t, Owner(p)>> \in said', Holds(t, Owner(p))')
  BY DEF Sound, NoPeer, Moving
<1> HIDE DEF row
<1>5. PeersSound'
  BY <1>1, <1>2, <1>3, <1>4, RowSound
<1>6. QED BY <1>1, <1>2, <1>5, FriendsSame, AirShrinks

\* The phone writes only what both riders agreed to, and what it takes off a
\* list is on record.
LEMMA PhoneConsent ==
    ASSUME ConsentInv, NEW t \in Rider,
           \/ \E u \in Rider : PhoneUpsert(t, u) \/ PhoneRemove(t, u)
           \/ PhoneClear(t)
    PROVE  FriendsAgreed' /\ PeersSound' /\ AirSound'
<1>1. ASSUME NEW u \in Rider, PhoneUpsert(t, u) PROVE Growing /\ FriendsAgreed'
  BY <1>1 DEF PhoneUpsert, Growing, Holds, FriendsAgreed, ConsentInv, TypeOK
<1>2. ASSUME NEW gone \in SUBSET Rider, PhoneDrop(t, gone) PROVE Growing /\ FriendsAgreed'
  <2>1. Growing
    BY <1>2 DEF PhoneDrop, Growing, Holds, ConsentInv, TypeOK
  <2>2. FriendsAgreed'
    BY <1>2 DEF PhoneDrop, FriendsAgreed, ConsentInv, TypeOK
  <2>3. QED BY <2>1, <2>2
<1>3. friends[t] \in SUBSET Rider
  BY DEF ConsentInv, TypeOK
<1>4. Growing /\ FriendsAgreed'
  BY <1>1, <1>2, <1>3 DEF PhoneRemove, PhoneClear
<1>5. peers' = peers /\ air' = air
  BY DEF PhoneUpsert, PhoneRemove, PhoneClear, PhoneDrop
<1>6. QED BY <1>4, <1>5, PeersSame, AirShrinks

LEMMA ConsentStep == ASSUME ConsentInv, [Next]_vars PROVE ConsentInv'
<1>1. TypeOK'
  BY TypeStep DEF ConsentInv
<1> SUFFICES FriendsAgreed' /\ PeersSound' /\ AirSound'
  BY <1>1 DEF ConsentInv
<1>2. ASSUME friends' = friends, peers' = peers, air' \subseteq air, said' = said, dropped' = dropped
      PROVE  FriendsAgreed' /\ PeersSound' /\ AirSound'
  BY <1>2, GrowingSame, FriendsSame, PeersSame, AirShrinks
<1>3. CASE UNCHANGED vars
  BY <1>2, <1>3 DEF vars
<1>4. ASSUME NEW t \in Rider, Receive(t) PROVE FriendsAgreed' /\ PeersSound' /\ AirSound'
  BY <1>4, RxRequestConsent, RxAcceptConsent, RxKeysConsent, RxAckConsent DEF Receive
<1>5. ASSUME NEW t \in Rider, Hold(t) PROVE FriendsAgreed' /\ PeersSound' /\ AirSound'
  BY <1>5, AcceptConsent, RequestConsent, RefusedRequestConsent DEF Hold
<1>6. ASSUME NEW t \in Rider, Ticks(t) PROVE FriendsAgreed' /\ PeersSound' /\ AirSound'
  <2>1. PICK timeout \in {FALSE, prompt[t].st # "none"}, due \in SUBSET Clear(t), acks \in SUBSET Owed(t) :
           Tick(t, timeout, due, acks)
    BY <1>6 DEF Ticks
  <2>2. due \in SUBSET Pseud /\ acks \in SUBSET Pseud
    BY DEF Clear, Owed, Used
  <2>3. QED BY <2>1, <2>2, TickConsent
<1>7. ASSUME NEW f \in air, Lose(f) PROVE FriendsAgreed' /\ PeersSound' /\ AirSound'
  BY <1>2, <1>7 DEF Lose
<1>8. CASE Ride
  BY <1>4, <1>5, <1>6, <1>7, <1>8, HearConsent DEF Ride
<1>9. ASSUME NEW t \in Rider, OpenMenu(t) \/ SetEnabled(t)
      PROVE  FriendsAgreed' /\ PeersSound' /\ AirSound'
  BY <1>2, <1>9 DEF OpenMenu, SetEnabled
<1>10. CASE Upset
  BY <1>9, <1>10, GoSilentConsent, CloseMenuConsent, RestartConsent, PhoneConsent DEF Upset
<1>11. QED BY <1>3, <1>8, <1>10 DEF Next

LEMMA ConsentInvariant == Spec => []ConsentInv
<1>1. ConsentInv /\ [Next]_vars => ConsentInv'
  BY ConsentStep
<1>2. QED BY ConsentInit, <1>1, PTL DEF Spec

\* No rider is in a friend list whose own rider and themselves have not both
\* held on each other, whatever the radio, the phones and the batteries do.
THEOREM FriendsAlwaysAgreed == Spec => []FriendsAgreed
<1>1. ConsentInv => FriendsAgreed
  BY DEF ConsentInv
<1>2. QED BY ConsentInvariant, <1>1, PTL

\* No rider's key is ever sent in clear to a rider they did not hold on.
THEOREM KeysAlwaysConsented == Spec => []KeysOnlyToConsented
<1>1. ConsentInv => KeysOnlyToConsented
  BY DEF ConsentInv, AirSound, FrameSound, KeysOnlyToConsented
<1>2. QED BY ConsentInvariant, <1>1, PTL

\* An acknowledgement, which stops the other side's retries, always means that
\* its sender stored the friend.
THEOREM AckAlwaysMeansHeld == Spec => []AckMeansHeld
<1>1. ConsentInv => AckMeansHeld
  BY DEF ConsentInv, AirSound, FrameSound, PeersSound, Sound, AckMeansHeld
<1>2. QED BY ConsentInvariant, <1>1, PTL

-----------------------------------------------------------------------------
(* The handshake implements Friending: every step maps to a Consent, a       *)
(* Befriend, a Forget, or to no step at all.                                 *)

Held == {e \in Rider \X Rider : e[2] \in friends[e[1]]}

LEMMA PromiseInit == Init => Promise!Init
<1> SUFFICES ASSUME Init PROVE Promise!Init
  OBVIOUS
<1>1. Held \in SUBSET (Rider \X Rider)
  BY DEF Held
<1>2. said = Held \cup {<<e[2], e[1]>> : e \in Held}
  <2>1. said = {e \in Rider \X Rider : e[2] \in friends[e[1]] \/ e[1] \in friends[e[2]]}
    BY DEF Init
  <2>2. ASSUME NEW e \in said PROVE e \in Held \cup {<<d[2], d[1]>> : d \in Held}
    <3>1. CASE e[2] \in friends[e[1]]
      BY <2>1, <3>1 DEF Held
    <3>2. CASE e[1] \in friends[e[2]]
      <4>1. e = <<e[1], e[2]>> /\ <<e[2], e[1]>> \in Held
        BY <2>1, <3>2 DEF Held
      <4> DEFINE d == <<e[2], e[1]>>
      <4>2. d \in Held /\ e = <<d[2], d[1]>>
        BY <4>1
      <4>3. QED BY <4>2
    <3>3. QED BY <2>1, <3>1, <3>2
  <2>3. ASSUME NEW e \in Held PROVE e \in said /\ <<e[2], e[1]>> \in said
    BY <2>1 DEF Held
  <2>4. QED BY <2>2, <2>3
<1>3. QED BY <1>1, <1>2 DEF Promise!Init, Promise!Pair, Held

LEMMA PromiseSame ==
    ASSUME friends' = friends, said' = said
    PROVE  UNCHANGED Promise!vars
BY DEF Promise!vars

LEMMA PromiseConsent ==
    ASSUME NEW a \in Rider, NEW b \in Rider, friends' = friends, said' = said \cup {<<a, b>>}
    PROVE  Promise!Next
BY DEF Promise!Next, Promise!Consent

LEMMA PromiseBefriend ==
    ASSUME TypeOK, NEW a \in Rider, NEW b \in Rider, {<<a, b>>, <<b, a>>} \subseteq said,
           friends' = [friends EXCEPT ![a] = @ \cup {b}], said' = said
    PROVE  Promise!Next
<1>1. Held' = Held \cup {<<a, b>>}
  BY DEF Held, TypeOK
<1>2. QED BY <1>1 DEF Promise!Next, Promise!Befriend, Held

LEMMA PromiseForget ==
    ASSUME TypeOK, NEW a \in Rider, NEW gone \in SUBSET Rider,
           friends' = [friends EXCEPT ![a] = @ \ gone], said' = said
    PROVE  Promise!Next
<1>1. Held' \in SUBSET Held /\ \A e \in Held \ Held' : e[1] = a
  BY DEF Held, TypeOK
<1>2. QED BY <1>1 DEF Promise!Next, Promise!Forget, Held

\* ACCEPT and KEYS store a rider only when both have said yes.
LEMMA RxPromise ==
    ASSUME ConsentInv, NEW t \in Rider, NEW f \in air, RxAccept(t, f) \/ RxKeys(t, f)
    PROVE  Promise!Next \/ UNCHANGED Promise!vars
<1> DEFINE p == f.from
           r == [peers[t][p] EXCEPT !.fresh = TRUE]
<1>1. /\ Arrives(t, f, "accept") \/ Arrives(t, f, "keys")
      /\ said' = said
  BY DEF RxAccept, RxKeys, Arrives
<1>2. p \in Pseud /\ Owner(p) \in Rider /\ <<Owner(p), t>> \in said
  BY <1>1, SenderSaid, PseudOwner
<1>3. Sound(r, <<t, Owner(p)>> \in said, Holds(t, Owner(p)))
  BY <1>2, PeerSound
<1>4. \/ friends' = friends
      \/ AddFriend(t, p) /\ (r.hs \in {"req_sent"} \cup Moving \/ r.consented)
  BY DEF RxAccept, RxKeys
<1>5. CASE friends' = friends
  BY <1>1, <1>5, PromiseSame
<1>6. CASE AddFriend(t, p) /\ (r.hs \in {"req_sent"} \cup Moving \/ r.consented)
  <2>1. <<t, Owner(p)>> \in said
    BY <1>3, <1>6 DEF Sound
  <2>2. QED BY <1>1, <1>2, <1>6, <2>1, PromiseBefriend DEF AddFriend, ConsentInv
<1>7. QED BY <1>4, <1>5, <1>6

LEMMA PromiseStep ==
    ASSUME ConsentInv, [Next]_vars
    PROVE  Promise!Next \/ UNCHANGED Promise!vars
<1>1. CASE UNCHANGED vars
  BY <1>1, PromiseSame DEF vars
<1>2. ASSUME NEW t \in Rider, Receive(t) PROVE Promise!Next \/ UNCHANGED Promise!vars
  <2>1. ASSUME NEW f \in air, RxRequest(t, f) \/ RxAck(t, f) PROVE UNCHANGED Promise!vars
    BY <2>1, PromiseSame DEF RxRequest, RxAck, Arrives
  <2>2. QED BY <1>2, <2>1, RxPromise DEF Receive
<1>3. ASSUME NEW t \in Rider, Hold(t) PROVE Promise!Next \/ UNCHANGED Promise!vars
  <2>1. ASSUME NEW p \in Pseud, Accept(t, p) \/ Request(t, p) PROVE Promise!Next
    <3>1. friends' = friends /\ said' = said \cup {<<t, Owner(p)>>}
      BY <2>1 DEF Accept, Request
    <3>2. QED BY <3>1, PseudOwner, PromiseConsent
  <2>2. ASSUME NEW p \in Pseud, RefusedRequest(t, p) PROVE UNCHANGED Promise!vars
    BY <2>2, PromiseSame DEF RefusedRequest
  <2>3. QED BY <1>3, <2>1, <2>2 DEF Hold
<1>4. ASSUME NEW t \in Rider, NEW u \in Rider, Hear(t, u) PROVE UNCHANGED Promise!vars
  BY <1>4, PromiseSame DEF Hear
<1>5. ASSUME NEW t \in Rider, Ticks(t) PROVE UNCHANGED Promise!vars
  BY <1>5, PromiseSame DEF Ticks, Tick
<1>6. ASSUME NEW f \in air, Lose(f) PROVE UNCHANGED Promise!vars
  BY <1>6, PromiseSame DEF Lose
<1>7. CASE Ride
  BY <1>2, <1>3, <1>4, <1>5, <1>6, <1>7 DEF Ride
<1>8. ASSUME NEW t \in Rider,
             (\E p \in Pseud : GoSilent(t, p)) \/ OpenMenu(t) \/ CloseMenu(t) \/ SetEnabled(t) \/ Restart(t)
      PROVE  UNCHANGED Promise!vars
  BY <1>8, PromiseSame DEF GoSilent, OpenMenu, CloseMenu, SetEnabled, Restart
<1>9. ASSUME NEW t \in Rider, NEW u \in Rider, PhoneUpsert(t, u) PROVE Promise!Next
  BY <1>9, PromiseBefriend DEF PhoneUpsert, ConsentInv
<1>10. ASSUME NEW t \in Rider, NEW gone \in SUBSET Rider, PhoneDrop(t, gone) PROVE Promise!Next
  BY <1>10, PromiseForget DEF PhoneDrop, ConsentInv
<1>11. CASE Upset
  <2>1. \A t \in Rider : friends[t] \in SUBSET Rider
    BY DEF ConsentInv, TypeOK
  <2>2. QED BY <2>1, <1>8, <1>9, <1>10, <1>11 DEF Upset, PhoneRemove, PhoneClear
<1>12. QED BY <1>1, <1>7, <1>11 DEF Next

\* mesh_core.c implements Friending: whatever the two terminals, their phones
\* and the radio do, the lists change only as the promise allows.
THEOREM PromiseKept == Spec => KeepsPromise
<1>1. ConsentInv /\ [Next]_vars => [Promise!Next]_(Promise!vars)
  BY PromiseStep
<1>2. QED BY PromiseInit, ConsentInvariant, <1>1, PTL DEF Spec, KeepsPromise, Promise!Spec

-----------------------------------------------------------------------------
(* The friend list.                                                         *)

\* A step takes entries off a list, or adds one there is room for.
ListStep(t) ==
    \/ friends'[t] \subseteq friends[t]
    \/ \E u \in Rider : friends'[t] = friends[t] \cup {u} /\ (u \in friends[t] \/ ~ListFull(t))

LEMMA AddFriendList ==
    ASSUME TypeOK, NEW a \in Rider, NEW p \in Pseud, AddFriend(a, p), Fits(a, p), NEW t \in Rider
    PROVE  ListStep(t)
BY PseudOwner DEF AddFriend, Fits, Friendly, ListStep, TypeOK

LEMMA ListsStep ==
    ASSUME TypeOK, [Next]_vars, NEW t \in Rider
    PROVE  ListStep(t)
<1>1. CASE friends' = friends
  BY <1>1 DEF ListStep
<1>2. ASSUME NEW a \in Rider, NEW f \in air, RxAccept(a, f) \/ RxKeys(a, f) PROVE ListStep(t)
  <2>1. f.from \in Pseud
    BY DEF TypeOK, Frame
  <2>2. friends' = friends \/ (AddFriend(a, f.from) /\ Fits(a, f.from))
    BY <1>2 DEF RxAccept, RxKeys
  <2>3. QED BY <1>1, <2>1, <2>2, AddFriendList
<1>3. ASSUME NEW a \in Rider, NEW u \in Rider, PhoneUpsert(a, u) PROVE ListStep(t)
  BY <1>3 DEF PhoneUpsert, ListStep, TypeOK
<1>4. ASSUME NEW a \in Rider, NEW gone, PhoneDrop(a, gone) PROVE ListStep(t)
  BY <1>4 DEF PhoneDrop, ListStep, TypeOK
<1>5. \/ friends' = friends
      \/ \E a \in Rider : \/ \E f \in air : RxAccept(a, f) \/ RxKeys(a, f)
                          \/ \E u \in Rider : PhoneUpsert(a, u)
                          \/ \E gone : PhoneDrop(a, gone)
  <2>1. CASE UNCHANGED vars
    BY <2>1 DEF vars
  <2>2. CASE Ride
    <3>1. ASSUME NEW a \in Rider, NEW f \in air, RxRequest(a, f) \/ RxAck(a, f) PROVE friends' = friends
      BY <3>1 DEF RxRequest, RxAck
    <3>2. ASSUME NEW a \in Rider, NEW p \in Pseud, Accept(a, p) \/ Request(a, p) \/ RefusedRequest(a, p)
          PROVE  friends' = friends
      BY SMTT(30), <3>2 DEF Accept, Request, RefusedRequest
    <3>3. ASSUME NEW a \in Rider, Ticks(a) \/ \E u \in Rider : Hear(a, u) PROVE friends' = friends
      BY <3>3 DEF Hear, Ticks, Tick
    <3>4. ASSUME NEW f \in air, Lose(f) PROVE friends' = friends
      BY <3>4 DEF Lose
    <3>5. QED BY <2>2, <3>1, <3>2, <3>3, <3>4 DEF Ride, Receive, Hold
  <2>3. CASE Upset
    BY <2>3 DEF Upset, GoSilent, OpenMenu, CloseMenu, SetEnabled, Restart, PhoneRemove, PhoneClear
  <2>4. QED BY <2>1, <2>2, <2>3 DEF Next
<1>6. QED BY <1>1, <1>2, <1>3, <1>4, <1>5

LEMMA RoomForOne ==
    ASSUME NEW S, IsFiniteSet(S), NEW T, NEW u, NEW n \in Nat, Cardinality(S) <= n,
           T \subseteq S \/ (T = S \cup {u} /\ (u \in S \/ ~(Cardinality(S) >= n)))
    PROVE  Cardinality(T) <= n
<1>1. Cardinality(S) \in Nat
  BY FS_CardinalityType
<1>2. CASE T \subseteq S
  BY <1>1, <1>2, FS_Subset, FS_CardinalityType
<1>3. CASE T = S \cup {u} /\ u \in S
  <2>1. T = S
    BY <1>3
  <2>2. QED BY <2>1
<1>4. CASE T = S \cup {u} /\ u \notin S /\ ~(Cardinality(S) >= n)
  <2>1. Cardinality(S \cup {u}) = Cardinality(S) + 1
    BY <1>4, FS_AddElement
  <2>2. QED BY <1>1, <1>4, <2>1
<1>5. QED BY <1>2, <1>3, <1>4

\* The friend list never outgrows its array: complete() and the phone's upsert
\* both look for room first, and nothing else adds.
THEOREM ListAlwaysFits == Spec => []ListFits
<1>1. Init => ListFits
  BY DEF Init, ListFits
<1>2. ASSUME TypeOK, ListFits, [Next]_vars PROVE ListFits'
  <2>1. ASSUME NEW t \in Rider PROVE Cardinality(friends'[t]) <= MaxFriends
    <3>1. IsFiniteSet(friends[t])
      BY <1>2, CoreAssumption, FS_Subset DEF TypeOK
    <3>2. Cardinality(friends[t]) <= MaxFriends /\ MaxFriends \in Nat
      BY <1>2, CoreAssumption DEF ListFits
    <3>3. ListStep(t)
      BY <1>2, ListsStep
    <3>4. QED BY <3>1, <3>2, <3>3, RoomForOne DEF ListStep, ListFull
  <2>2. QED BY <2>1 DEF ListFits
<1>3. QED BY <1>1, <1>2, TypeCorrect, PTL DEF Spec

-----------------------------------------------------------------------------
(* The page of the handshake: a page has a handshake behind it and an asker *)
(* has a page.                                                              *)
(*                                                                          *)
(* A full peer table gives up its longest-silent peer, the page's own too:  *)
(* what the page says is true where the table has room for everybody, and   *)
(* that an asker has a page is true whatever its size.                      *)

\* A terminal's table has room for every pseudonym the others go by.
RoomForAll == \A t \in Rider : Cardinality({p \in Pseud : Owner(p) # t}) <= MaxPeers

\* What a page of prompt pr claims of the peer it is about.
Backed(pr, r) ==
    /\ pr.st = "waiting" => r.used /\ r.hs \in {"req_sent", "accept_sent"}
    /\ pr.st = "offer" => r.used /\ r.hs = "req_recv"

\* A terminal hears nobody of its own name, a page is about somebody, and what it
\* claims is so.
PageInv ==
    \A t \in Rider :
        LET pr == prompt[t] IN
        /\ \A p \in Pseud : peers[t][p].used => Owner(p) # t
        /\ pr.st # "none" => pr.id \in Pseud
        /\ pr.st = "done" => Holds(t, Owner(pr.id))
        /\ RoomForAll => Backed(pr, peers[t][pr.id])

PagesInv == ConsentInv /\ PageInv /\ AskersWait

\* What one step of one terminal keeps: PageInv, and an asker's page if there is one.
StepKeeps == PageInv' /\ (AskersHaveAPrompt => AskersHaveAPrompt')

-----------------------------------------------------------------------------
(* Steps that write one terminal's table and page.                          *)

\* A row and a page of one terminal: what they must say to keep the invariant.
LEMMA RowKeeps ==
    ASSUME ConsentInv, PageInv, Growing, NEW t \in Rider,
           NEW row \in [Pseud -> PeerRec], NEW pr \in Prompt,
           peers' = [peers EXCEPT ![t] = row], prompt' = [prompt EXCEPT ![t] = pr],
           \A p \in Pseud : row[p].used => Owner(p) # t,
           pr.st # "none" => pr.id \in Pseud,
           \A p \in Pseud : pr.st = "done" /\ p = pr.id => Holds(t, Owner(p))',
           RoomForAll => Backed(pr, row[pr.id]),
           AskersHaveAPrompt => \A p \in Pseud : row[p].hs = "req_recv" => pr = [st |-> "offer", id |-> p]
    PROVE  StepKeeps
<1>1. /\ peers'[t] = row /\ prompt'[t] = pr
      /\ \A a \in Rider \ {t} : peers'[a] = peers[a] /\ prompt'[a] = prompt[a]
  BY DEF ConsentInv, TypeOK
<1>2. ASSUME NEW a \in Rider
      PROVE  /\ \A p \in Pseud : peers'[a][p].used => Owner(p) # a
             /\ prompt'[a].st # "none" => prompt'[a].id \in Pseud
             /\ prompt'[a].st = "done" => Holds(a, Owner(prompt[a].id))'
             /\ RoomForAll => Backed(prompt'[a], peers'[a][prompt'[a].id])
  <2>1. CASE a = t
    <3>1. prompt'[a].st = "done" => Holds(a, Owner(prompt[a].id))'
      <4>1. SUFFICES ASSUME pr.st = "done" PROVE Holds(a, Owner(prompt[a].id))'
        BY <1>1, <2>1
      <4>2. PICK p \in Pseud : p = pr.id
        BY <4>1
      <4>3. Holds(t, Owner(p))'
        BY <4>1, <4>2
      <4>4. QED BY <1>1, <2>1, <4>2, <4>3 DEF Holds
    <3>2. QED BY <1>1, <2>1, <3>1
  <2>2. CASE a # t
    <3>1. prompt'[a].st = "done" => Holds(a, Owner(prompt[a].id))'
      <4>1. SUFFICES ASSUME prompt[a].st = "done" PROVE Holds(a, Owner(prompt[a].id))'
        BY <1>1, <2>2
      <4>2. PICK u \in Rider : u = Owner(prompt[a].id)
        BY <4>1, PseudOwner DEF PageInv
      <4>3. Holds(a, u)
        BY <4>1, <4>2 DEF PageInv
      <4>4. Holds(a, u)'
        BY <4>3 DEF Growing
      <4>5. QED BY <1>1, <2>2, <4>2, <4>4 DEF Holds
    <3>2. QED BY <1>1, <2>2, <3>1 DEF PageInv
  <2>3. QED BY <2>1, <2>2
<1>3. PageInv'
  BY <1>2 DEF PageInv
<1>4. AskersHaveAPrompt => AskersHaveAPrompt'
  BY <1>1 DEF AskersHaveAPrompt
<1>5. QED BY <1>3, <1>4 DEF StepKeeps

\* The same for a step on one peer, by what it makes of it and of the page.
LEMMA PeerKeeps ==
    ASSUME ConsentInv, PageInv, Growing, NEW t \in Rider, NEW p \in Pseud,
           NEW r \in PeerRec, NEW pr \in Prompt,
           SetPeer(t, p, r), prompt' = [prompt EXCEPT ![t] = pr],
           r.used => Owner(p) # t,
           pr = prompt[t] \/ (pr.st \in {"waiting", "offer", "done"} => pr.id = p),
           pr.st = "done" /\ pr.id = p => Holds(t, Owner(p))',
           RoomForAll /\ pr.id = p => Backed(pr, r),
           AskersHaveAPrompt /\ r.hs = "req_recv" => pr = [st |-> "offer", id |-> p],
           prompt[t].st = "offer" /\ prompt[t].id # p => pr = prompt[t]
    PROVE  StepKeeps
<1> DEFINE row == [peers[t] EXCEPT ![p] = r]
<1>1. peers[t] \in [Pseud -> PeerRec] /\ prompt[t] \in Prompt
  BY DEF ConsentInv, TypeOK
<1>2. row \in [Pseud -> PeerRec] /\ row[p] = r /\ \A q \in Pseud \ {p} : row[q] = peers[t][q]
  BY <1>1
<1>3. peers' = [peers EXCEPT ![t] = row]
  BY DEF SetPeer, ConsentInv, TypeOK
<1> HIDE DEF row
<1>4. \A q \in Pseud : row[q].used => Owner(q) # t
  BY <1>2 DEF PageInv
<1>5. pr.st # "none" => pr.id \in Pseud
  BY DEF PageInv, Prompt
<1>6. ASSUME NEW q \in Pseud, pr.st = "done", q = pr.id PROVE Holds(t, Owner(q))'
  <2>1. CASE q = p
    BY <1>6, <2>1
  <2>2. CASE q # p
    <3>1. pr = prompt[t]
      BY <1>6, <2>2
    <3>2. Holds(t, Owner(q))
      BY <1>6, <3>1 DEF PageInv
    <3>3. QED BY <3>2, PseudOwner DEF Growing
  <2>3. QED BY <2>1, <2>2
<1>7. RoomForAll => Backed(pr, row[pr.id])
  <2>1. CASE pr.id = p
    BY <1>2, <2>1
  <2>2. CASE pr.id # p /\ pr = prompt[t] /\ pr.st # "none"
    <3>1. row[pr.id] = peers[t][pr.id]
      BY <1>2, <1>5, <2>2
    <3>2. QED BY <2>2, <3>1 DEF PageInv
  <2>3. CASE pr.st = "none"
    BY <2>3 DEF Backed
  <2>4. QED BY <2>1, <2>2, <2>3 DEF Prompt
<1>8. ASSUME AskersHaveAPrompt, NEW q \in Pseud, row[q].hs = "req_recv" PROVE pr = [st |-> "offer", id |-> q]
  <2>1. CASE q = p
    BY <1>2, <1>8, <2>1
  <2>2. CASE q # p
    <3>1. prompt[t] = [st |-> "offer", id |-> q]
      BY <1>2, <1>8, <2>2 DEF AskersHaveAPrompt
    <3>2. QED BY <2>2, <3>1
  <2>3. QED BY <2>1, <2>2
<1>9. QED BY <1>2, <1>3, <1>4, <1>5, <1>6, <1>7, <1>8, RowKeeps

\* A peer's flags may change, and its handshake may move on while no page claims
\* otherwise, with the page as it is.
LEMMA QuietKeeps ==
    ASSUME ConsentInv, PageInv, Growing, NEW t \in Rider, NEW p \in Pseud, NEW r \in PeerRec,
           SetPeer(t, p, r), prompt' = prompt,
           r.used => peers[t][p].used \/ Owner(p) # t,
           peers[t][p].used => r.used,
           \/ r.hs = peers[t][p].hs
           \/ /\ r.hs # "req_recv" /\ peers[t][p].hs # "req_recv"
              /\ peers[t][p].hs \in {"req_sent", "accept_sent"} => r.hs \in {"req_sent", "accept_sent"}
    PROVE  StepKeeps
<1>1. prompt[t] \in Prompt /\ prompt' = [prompt EXCEPT ![t] = prompt[t]]
  BY DEF ConsentInv, TypeOK
<1>2. r.used => Owner(p) # t
  BY DEF PageInv
<1>3. ASSUME prompt[t].st = "done", prompt[t].id = p PROVE Holds(t, Owner(p))'
  <2>1. Holds(t, Owner(p))
    BY <1>3 DEF PageInv
  <2>2. QED BY <2>1, PseudOwner DEF Growing
<1>4. RoomForAll /\ prompt[t].id = p => Backed(prompt[t], r)
  <2>1. RoomForAll /\ prompt[t].id = p => Backed(prompt[t], peers[t][p])
    BY DEF PageInv
  <2>2. QED BY <2>1 DEF Backed
<1>5. AskersHaveAPrompt /\ r.hs = "req_recv" => prompt[t] = [st |-> "offer", id |-> p]
  BY DEF AskersHaveAPrompt
<1>6. QED
  <2> DEFINE pr == prompt[t]
  <2>1. /\ pr \in Prompt /\ prompt' = [prompt EXCEPT ![t] = pr]
        /\ pr.st = "done" /\ pr.id = p => Holds(t, Owner(p))'
        /\ RoomForAll /\ pr.id = p => Backed(pr, r)
        /\ AskersHaveAPrompt /\ r.hs = "req_recv" => pr = [st |-> "offer", id |-> p]
        /\ pr = prompt[t]
    BY <1>1, <1>3, <1>4, <1>5
  <2> HIDE DEF pr
  <2>2. QED BY <1>2, <2>1, PeerKeeps

\* Nothing of any terminal's table or page changes.
LEMMA NothingKeeps ==
    ASSUME ConsentInv, PageInv, Growing, peers' = peers, prompt' = prompt
    PROVE  StepKeeps
<1>1. ASSUME NEW a \in Rider, prompt[a].st = "done" PROVE Holds(a, Owner(prompt[a].id))'
  <2>1. PICK u \in Rider : u = Owner(prompt[a].id)
    BY <1>1, PseudOwner DEF PageInv
  <2>2. Holds(a, u)
    BY <1>1, <2>1 DEF PageInv
  <2>3. Holds(a, u)'
    BY <2>2 DEF Growing
  <2>4. QED BY <2>1, <2>3 DEF Holds
<1>2. PageInv'
  BY <1>1 DEF PageInv
<1>3. QED BY <1>2 DEF StepKeeps, AskersHaveAPrompt

-----------------------------------------------------------------------------
(* The radio.                                                               *)

\* The table takes whoever it hears: with room for everybody no one goes for it.
LEMMA RoomMeansNoVictim ==
    ASSUME TypeOK, PageInv, RoomForAll, NEW t \in Rider, NEW p \in Pseud, Owner(p) # t, ~peers[t][p].used
    PROVE  Victims(t) = {}
<1> DEFINE others == {q \in Pseud : Owner(q) # t}
<1>1. IsFiniteSet(Boot)
  BY CoreAssumption, FS_Interval DEF Boot
<1>2. IsFiniteSet(Pseud)
  BY <1>1, CoreAssumption, FS_Product DEF Pseud
<1>3. IsFiniteSet(others) /\ IsFiniteSet(others \ {p})
  BY <1>2, FS_Subset
<1>4. Used(t) \subseteq others \ {p}
  BY DEF Used, PageInv
<1>5. Cardinality(Used(t)) <= Cardinality(others \ {p})
  BY <1>3, <1>4, FS_Subset
<1>6. Cardinality(others \ {p}) = Cardinality(others) - 1
  BY <1>3, FS_RemoveElement
<1>7. Cardinality(others) <= MaxPeers
  BY DEF RoomForAll
<1>8. Cardinality(Used(t)) \in Nat /\ Cardinality(others) \in Nat /\ MaxPeers \in Nat
  BY <1>3, <1>4, FS_Subset, FS_CardinalityType, CoreAssumption
<1> HIDE DEF others
<1>9. QED BY <1>5, <1>6, <1>7, <1>8 DEF Victims

LEMMA HearKeeps ==
    ASSUME ConsentInv, PageInv, NEW t \in Rider, NEW u \in Rider, Hear(t, u)
    PROVE  StepKeeps
<1> PICK p \in Pseud : p = Me(u) /\ Owner(p) = u
  BY MePseud DEF ConsentInv
<1>1. /\ t # u /\ friends' = friends /\ prompt' = prompt /\ said' = said /\ dropped' = dropped
  BY DEF Hear
<1>2. Growing
  BY <1>1, GrowingSame
<1>3. peers[t] \in [Pseud -> PeerRec] /\ peers[t][p] \in PeerRec /\ prompt[t] \in Prompt
  BY DEF ConsentInv, TypeOK
<1>4. CASE peers[t][p].used /\ SetPeer(t, p, [peers[t][p] EXCEPT !.fresh = TRUE])
  <2> DEFINE r == [peers[t][p] EXCEPT !.fresh = TRUE]
  <2>1. r \in PeerRec /\ r.used = peers[t][p].used /\ r.hs = peers[t][p].hs
    BY <1>3 DEF PeerRec
  <2> HIDE DEF r
  <2>2. SetPeer(t, p, r)
    BY <1>4 DEF r
  <2>3. QED BY <1>1, <1>2, <2>1, <2>2, QuietKeeps
<1>5. ASSUME NEW old \in [Pseud -> PeerRec], ~peers[t][p].used,
             \/ old = peers[t] /\ Victims(t) = {}
             \/ \E v \in Victims(t) : old = [peers[t] EXCEPT ![v] = NoPeer],
             peers' = [peers EXCEPT ![t] = [old EXCEPT ![p] = NewPeer]]
      PROVE  StepKeeps
  <2> DEFINE row == [old EXCEPT ![p] = NewPeer]
             pr  == prompt[t]
  <2>1. row \in [Pseud -> PeerRec]
    BY <1>5, NoPeerType
  <2>2. NewPeer.used /\ NewPeer.hs = "none" /\ ~NoPeer.used /\ NoPeer.hs = "none"
    BY DEF NewPeer, NoPeer
  <2>3. \A q \in Pseud : row[q] \in {NewPeer, NoPeer, peers[t][q]} /\ (q # p => row[q] # NewPeer \/ row[q] = peers[t][q])
    BY <1>3, <1>5, <2>2
  <2>4. row[p] = NewPeer
    BY <1>5
  <2>5. \A q \in Pseud : row[q].used => Owner(q) # t
    BY <1>1, <2>2, <2>3 DEF PageInv
  <2>6. RoomForAll => Backed(pr, row[pr.id])
    <3>1. SUFFICES ASSUME RoomForAll, pr.st \in {"waiting", "offer"} PROVE Backed(pr, row[pr.id])
      BY <1>3 DEF Backed, Prompt
    <3>2. Backed(pr, peers[t][pr.id]) /\ pr.id \in Pseud
      BY <3>1 DEF PageInv
    <3>3. Victims(t) = {}
      BY <1>1, <1>5, <3>1, RoomMeansNoVictim DEF ConsentInv
    <3>4. old = peers[t]
      BY <1>5, <3>3
    <3>5. pr.id # p
      BY <1>5, <3>1, <3>2 DEF Backed
    <3>6. row[pr.id] = peers[t][pr.id]
      BY <1>3, <3>2, <3>4, <3>5
    <3>7. QED BY <3>2, <3>6
  <2>7. AskersHaveAPrompt => \A q \in Pseud : row[q].hs = "req_recv" => pr = [st |-> "offer", id |-> q]
    BY <2>2, <2>3 DEF AskersHaveAPrompt
  <2>8. /\ pr \in Prompt /\ prompt' = [prompt EXCEPT ![t] = pr]
        /\ pr.st # "none" => pr.id \in Pseud
        /\ \A q \in Pseud : pr.st = "done" /\ q = pr.id => Holds(t, Owner(q))'
    <3>1. prompt' = [prompt EXCEPT ![t] = pr]
      BY <1>1 DEF ConsentInv, TypeOK
    <3>2. ASSUME NEW q \in Pseud, pr.st = "done", q = pr.id PROVE Holds(t, Owner(q))'
      <4>1. Holds(t, Owner(q))
        BY <3>2 DEF PageInv
      <4>2. QED BY <1>2, <4>1, PseudOwner DEF Growing
    <3>3. QED BY <1>3, <3>1, <3>2 DEF PageInv
  <2>9. peers' = [peers EXCEPT ![t] = row]
    BY <1>5
  <2> HIDE DEF row, pr
  <2>10. QED BY <1>2, <2>1, <2>5, <2>6, <2>7, <2>8, <2>9, RowKeeps
<1>6. CASE ~peers[t][p].used /\ Victims(t) = {} /\ SetPeer(t, p, NewPeer)
  <2>1. peers' = [peers EXCEPT ![t] = [peers[t] EXCEPT ![p] = NewPeer]]
    BY <1>6 DEF SetPeer
  <2>2. QED BY <1>3, <1>5, <1>6, <2>1
<1>7. CASE ~peers[t][p].used /\ \E v \in Victims(t) : peers' = [peers EXCEPT ![t][v] = NoPeer, ![t][p] = NewPeer]
  <2>1. PICK v \in Victims(t) : peers' = [peers EXCEPT ![t][v] = NoPeer, ![t][p] = NewPeer]
    BY <1>7
  <2>2. v \in Pseud
    BY DEF Victims, Used
  <2> DEFINE old == [peers[t] EXCEPT ![v] = NoPeer]
  <2>3. old \in [Pseud -> PeerRec]
    BY <1>3, <2>2, NoPeerType
  <2>4. peers' = [peers EXCEPT ![t] = [old EXCEPT ![p] = NewPeer]]
    BY <2>1, <2>2 DEF ConsentInv, TypeOK
  <2>5. \E w \in Victims(t) : old = [peers[t] EXCEPT ![w] = NoPeer]
    OBVIOUS
  <2> HIDE DEF old
  <2>6. QED BY <1>5, <1>7, <2>3, <2>4, <2>5
<1>8. QED BY <1>4, <1>6, <1>7 DEF Hear

LEMMA GoSilentKeeps ==
    ASSUME ConsentInv, PageInv, NEW t \in Rider, NEW p \in Pseud, GoSilent(t, p)
    PROVE  StepKeeps
<1> DEFINE r == [peers[t][p] EXCEPT !.fresh = FALSE]
<1>1. SetPeer(t, p, r) /\ friends' = friends /\ prompt' = prompt /\ said' = said /\ dropped' = dropped
  BY DEF GoSilent
<1>2. peers[t][p] \in PeerRec
  BY PeerType DEF ConsentInv
<1>3. r \in PeerRec /\ r.used = peers[t][p].used /\ r.hs = peers[t][p].hs
  BY <1>2 DEF PeerRec
<1> HIDE DEF r
<1>4. QED BY <1>1, <1>3, GrowingSame, QuietKeeps

\* What a frame from p finds, and what the helpers make of it.
LEMMA RecordFacts ==
    ASSUME ConsentInv, NEW t \in Rider, NEW p \in Pseud, NEW r, r = [peers[t][p] EXCEPT !.fresh = TRUE]
    PROVE  /\ r \in PeerRec /\ Ended(r) \in PeerRec
           /\ r.used = peers[t][p].used /\ r.hs = peers[t][p].hs
           /\ Ended(r).used = r.used /\ Ended(r).hs = "none"
           /\ \A hs \in Hs : Deferred(r, hs) \in PeerRec /\ Deferred(r, hs).used = r.used /\ Deferred(r, hs).hs = hs
<1>1. peers[t][p] \in PeerRec
  BY PeerType DEF ConsentInv
<1>2. r \in PeerRec /\ r.used = peers[t][p].used /\ r.hs = peers[t][p].hs
  BY <1>1 DEF PeerRec
<1>3. QED
  <2>1. Ended(r) \in PeerRec /\ \A hs \in Hs : Deferred(r, hs) \in PeerRec
    BY <1>2, StepTypes DEF Hs
  <2>2. Ended(r).used = r.used /\ Ended(r).hs = "none"
    BY <1>2 DEF Ended, PeerRec
  <2>3. \A hs \in Hs : Deferred(r, hs).used = r.used /\ Deferred(r, hs).hs = hs
    BY <1>2 DEF Deferred, PeerRec
  <2>4. QED BY <1>2, <2>1, <2>2, <2>3

LEMMA RxRequestKeeps ==
    ASSUME ConsentInv, PageInv, NEW t \in Rider, NEW f \in air, RxRequest(t, f)
    PROVE  StepKeeps
<1>1. Arrives(t, f, "request") /\ friends' = friends /\ said' = said /\ dropped' = dropped
  BY DEF RxRequest, Arrives
<1>2. Growing
  BY <1>1, GrowingSame
<1> PICK p \in Pseud : p = f.from
  BY <1>1, ArrivesType DEF ConsentInv
<1> PICK r \in PeerRec : r = [peers[t][p] EXCEPT !.fresh = TRUE]
  BY RecordFacts
<1>3. prompt[t] \in Prompt /\ Owner(p) # t
  BY <1>1 DEF ConsentInv, TypeOK, Arrives
<1>4. /\ r.used = peers[t][p].used /\ r.hs = peers[t][p].hs
      /\ Deferred(r, "accept_sent") \in PeerRec
      /\ Deferred(r, "accept_sent").used = r.used /\ Deferred(r, "accept_sent").hs = "accept_sent"
  BY RecordFacts DEF Hs, Moving
<1>5. CASE peers' = peers /\ prompt' = prompt
  BY <1>2, <1>5, NothingKeeps
<1>6. CASE SetPeer(t, p, r) /\ prompt' = prompt
  BY <1>2, <1>3, <1>4, <1>6, QuietKeeps
<1>7. CASE r.used /\ r.hs = "none" /\ SetPeer(t, p, Deferred(r, "accept_sent")) /\ prompt' = prompt
  BY <1>2, <1>3, <1>4, <1>7, QuietKeeps
<1>8. CASE r.used /\ Crossed(r) /\ SetPeer(t, p, [Deferred(r, "accept_sent") EXCEPT !.consented = TRUE]) /\ prompt' = prompt
  <2> DEFINE s == [Deferred(r, "accept_sent") EXCEPT !.consented = TRUE]
  <2>1. s \in PeerRec /\ s.used = r.used /\ s.hs = "accept_sent"
    BY <1>4 DEF PeerRec
  <2>2. r.hs = "req_sent" /\ SetPeer(t, p, s)
    BY <1>8 DEF Crossed
  <2> HIDE DEF s
  <2>3. QED BY <1>2, <1>3, <1>4, <1>8, <2>1, <2>2, QuietKeeps
<1>9. CASE /\ r.used /\ r.hs = "none" /\ prompt[t].st = "none"
           /\ SetPeer(t, p, [r EXCEPT !.hs = "req_recv"])
           /\ prompt' = [prompt EXCEPT ![t] = [st |-> "offer", id |-> p]]
  <2> DEFINE s  == [r EXCEPT !.hs = "req_recv"]
             pr == [st |-> "offer", id |-> p]
  <2>1. s \in PeerRec /\ s.used = r.used /\ s.hs = "req_recv"
    BY DEF PeerRec, Hs, Asking
  <2>2. pr \in Prompt /\ pr.st = "offer" /\ pr.id = p /\ Backed(pr, s)
    BY <1>9, <2>1 DEF Prompt, Backed
  <2>3. SetPeer(t, p, s) /\ prompt' = [prompt EXCEPT ![t] = pr] /\ prompt[t].st # "offer" /\ pr = [st |-> "offer", id |-> p]
    BY <1>9
  <2> HIDE DEF s, pr
  <2>4. QED BY <1>2, <1>3, <2>1, <2>2, <2>3, PeerKeeps
<1>10. QED BY <1>5, <1>6, <1>7, <1>8, <1>9 DEF RxRequest

\* A page about p that a step ends, or shows as done, with the handshake behind it.
LEMMA FrameKeeps ==
    ASSUME ConsentInv, PageInv, Growing, NEW t \in Rider, NEW p \in Pseud, Owner(p) # t,
           NEW r \in PeerRec, NEW pr, SetPeer(t, p, r), prompt' = [prompt EXCEPT ![t] = pr],
           r.hs # "req_recv", peers[t][p].hs # "req_recv",
           \/ pr = PromptDone(prompt[t], p) /\ Holds(t, Owner(p))'
           \/ pr = [st |-> "done", id |-> p] /\ prompt[t].st = "none" /\ Holds(t, Owner(p))'
           \/ pr = PromptLapsed(prompt[t], p) /\ (RoomForAll => prompt[t].st # "offer" \/ prompt[t].id # p)
    PROVE  StepKeeps
<1>1. prompt[t] \in Prompt
  BY DEF ConsentInv, TypeOK
<1>2. pr \in Prompt
  BY <1>1, PromptTypes DEF Prompt
<1>3. /\ pr = prompt[t] \/ (pr.st \in {"waiting", "offer", "done"} => pr.id = p)
      /\ pr.st = "done" /\ pr.id = p => Holds(t, Owner(p))' \/ pr = prompt[t]
      /\ prompt[t].st = "offer" /\ prompt[t].id # p => pr = prompt[t]
      /\ RoomForAll /\ pr.id = p => pr.st \notin {"waiting", "offer"}
  BY <1>1 DEF PromptDone, PromptLapsed, NoPrompt, Prompt
<1>4. pr.st = "done" /\ pr.id = p => Holds(t, Owner(p))'
  <2>1. SUFFICES ASSUME pr = prompt[t], pr.st = "done", pr.id = p PROVE Holds(t, Owner(p))'
    BY <1>3
  <2>2. Holds(t, Owner(p))
    BY <2>1 DEF PageInv
  <2>3. QED BY <2>2, PseudOwner DEF Growing
<1>5. RoomForAll /\ pr.id = p => Backed(pr, r)
  BY <1>3 DEF Backed
<1>6. QED BY <1>2, <1>3, <1>4, <1>5, PeerKeeps

LEMMA RxAcceptKeeps ==
    ASSUME ConsentInv, PageInv, NEW t \in Rider, NEW f \in air, RxAccept(t, f)
    PROVE  StepKeeps
<1>1. Arrives(t, f, "accept") /\ said' = said /\ dropped' = dropped
  BY DEF RxAccept, Arrives
<1> PICK p \in Pseud : p = f.from
  BY <1>1, ArrivesType DEF ConsentInv
<1> PICK r \in PeerRec : r = [peers[t][p] EXCEPT !.fresh = TRUE]
  BY RecordFacts
<1>2. Owner(p) # t
  BY <1>1 DEF Arrives
<1>3. /\ r.used = peers[t][p].used /\ r.hs = peers[t][p].hs
      /\ Deferred(r, "keys_sent") \in PeerRec /\ Deferred(r, "keys_sent").hs = "keys_sent"
      /\ Ended(r) \in PeerRec /\ Ended(r).hs = "none"
  BY RecordFacts DEF Hs, Moving
<1>4. CASE friends' = friends /\ peers' = peers /\ prompt' = prompt
  BY <1>1, <1>4, GrowingSame, NothingKeeps
<1>5. CASE /\ r.used /\ r.hs \in {"req_sent"} \cup Moving /\ AddFriend(t, p)
           /\ SetPeer(t, p, Deferred(r, "keys_sent"))
           /\ prompt' = [prompt EXCEPT ![t] = PromptDone(@, p)]
  <2>1. Growing /\ Holds(t, Owner(p))'
    BY <1>1, <1>5, GrowingAdd DEF ConsentInv
  <2>2. prompt' = [prompt EXCEPT ![t] = PromptDone(prompt[t], p)] /\ r.hs # "req_recv"
    BY <1>5 DEF Moving
  <2>3. QED BY <1>2, <1>3, <1>5, <2>1, <2>2, FrameKeeps
<1>6. CASE /\ r.used /\ r.hs \in {"req_sent"} \cup Moving /\ friends' = friends
           /\ SetPeer(t, p, Ended(r))
           /\ prompt' = [prompt EXCEPT ![t] = PromptLapsed(@, p)]
  <2>1. Growing
    BY <1>1, <1>6, GrowingSame
  <2>2. prompt' = [prompt EXCEPT ![t] = PromptLapsed(prompt[t], p)] /\ r.hs # "req_recv"
    BY <1>6 DEF Moving
  <2>3. RoomForAll => prompt[t].st # "offer" \/ prompt[t].id # p
    BY <1>3, <2>2 DEF PageInv, Backed
  <2>4. QED BY <1>2, <1>3, <1>6, <2>1, <2>2, <2>3, FrameKeeps
<1>7. QED BY <1>4, <1>5, <1>6 DEF RxAccept

LEMMA RxKeysKeeps ==
    ASSUME ConsentInv, PageInv, NEW t \in Rider, NEW f \in air, RxKeys(t, f)
    PROVE  StepKeeps
<1>1. Arrives(t, f, "keys") /\ said' = said /\ dropped' = dropped
  BY DEF RxKeys, Arrives
<1> PICK p \in Pseud : p = f.from
  BY <1>1, ArrivesType DEF ConsentInv
<1> PICK r \in PeerRec : r = [peers[t][p] EXCEPT !.fresh = TRUE]
  BY RecordFacts
<1> DEFINE acked == [r EXCEPT !.ack = TRUE]
           late  == r.hs = "none" /\ r.consented
<1>2. Owner(p) # t
  BY <1>1 DEF Arrives
<1>3. /\ r.used = peers[t][p].used /\ r.hs = peers[t][p].hs
      /\ Ended(r) \in PeerRec /\ Ended(r).hs = "none"
      /\ acked \in PeerRec /\ acked.used = r.used /\ acked.hs = r.hs
      /\ Ended(acked) \in PeerRec /\ Ended(acked).hs = "none"
  <2>1. r.used = peers[t][p].used /\ r.hs = peers[t][p].hs /\ Ended(r) \in PeerRec /\ Ended(r).hs = "none"
    BY RecordFacts
  <2>2. acked \in PeerRec /\ acked.used = r.used /\ acked.hs = r.hs
    BY DEF PeerRec
  <2> HIDE DEF acked
  <2>3. Ended(acked) \in PeerRec /\ Ended(acked).hs = "none"
    <3>1. Ended(acked) \in PeerRec
      BY <2>2, StepTypes DEF Hs
    <3>2. QED BY <2>2, <3>1 DEF Ended, PeerRec
  <2>4. QED BY <2>1, <2>2, <2>3
<1>4. CASE friends' = friends /\ peers' = peers /\ prompt' = prompt
  BY <1>1, <1>4, GrowingSame, NothingKeeps
<1>5. CASE friends' = friends /\ prompt' = prompt /\ SetPeer(t, p, acked)
  <2>1. Growing
    BY <1>1, <1>5, GrowingSame
  <2> HIDE DEF acked
  <2>2. QED BY <1>2, <1>3, <1>5, <2>1, QuietKeeps
<1>6. CASE /\ r.used /\ (r.hs \in Moving \/ late) /\ AddFriend(t, p)
           /\ SetPeer(t, p, IF r.hs = "accept_sent" THEN Ended(acked) ELSE acked)
           /\ prompt' = [prompt EXCEPT ![t] =
                 IF late /\ @.st = "none" THEN [st |-> "done", id |-> p] ELSE PromptDone(@, p)]
  <2>1. Growing /\ Holds(t, Owner(p))'
    BY <1>1, <1>6, GrowingAdd DEF ConsentInv
  <2>2. r.hs # "req_recv"
    BY <1>6 DEF Moving
  <2>3. PICK s \in PeerRec : SetPeer(t, p, s) /\ s.hs # "req_recv"
    BY <1>3, <1>6, <2>2
  <2>4. PICK pr : /\ prompt' = [prompt EXCEPT ![t] = pr]
                  /\ pr = PromptDone(prompt[t], p) \/ (pr = [st |-> "done", id |-> p] /\ prompt[t].st = "none")
    <3>1. CASE late /\ prompt[t].st = "none"
      BY <1>6, <3>1
    <3>2. CASE ~(late /\ prompt[t].st = "none")
      BY <1>6, <3>2
    <3>3. QED BY <3>1, <3>2
  <2> HIDE DEF acked, late
  <2>5. QED BY <1>2, <1>3, <2>1, <2>2, <2>3, <2>4, FrameKeeps
<1>7. CASE /\ r.used /\ (r.hs \in Moving \/ late) /\ friends' = friends
           /\ SetPeer(t, p, Ended(r))
           /\ prompt' = [prompt EXCEPT ![t] = PromptLapsed(@, p)]
  <2>1. Growing
    BY <1>1, <1>7, GrowingSame
  <2>2. prompt' = [prompt EXCEPT ![t] = PromptLapsed(prompt[t], p)] /\ r.hs # "req_recv"
    BY <1>7 DEF Moving
  <2>3. RoomForAll => prompt[t].st # "offer" \/ prompt[t].id # p
    BY <1>3, <2>2 DEF PageInv, Backed
  <2>4. QED BY <1>2, <1>3, <1>7, <2>1, <2>2, <2>3, FrameKeeps
<1>8. QED BY <1>4, <1>5, <1>6, <1>7 DEF RxKeys

LEMMA RxAckKeeps ==
    ASSUME ConsentInv, PageInv, NEW t \in Rider, NEW f \in air, RxAck(t, f)
    PROVE  StepKeeps
<1>1. /\ Arrives(t, f, "ack") /\ friends' = friends /\ prompt' = prompt
      /\ said' = said /\ dropped' = dropped
  BY DEF RxAck, Arrives
<1> PICK p \in Pseud : p = f.from
  BY <1>1, ArrivesType DEF ConsentInv
<1> PICK r \in PeerRec : r = peers[t][p]
  BY PeerType DEF ConsentInv
<1>2. Growing /\ Owner(p) # t
  BY <1>1, GrowingSame DEF Arrives
<1>3. Ended(r) \in PeerRec /\ Ended(r).used = r.used /\ Ended(r).hs = "none"
  <2>1. Ended(r) \in PeerRec
    BY StepTypes DEF Hs
  <2>2. QED BY <2>1 DEF Ended, PeerRec
<1>4. CASE SetPeer(t, p, r)
  BY <1>1, <1>2, <1>4, QuietKeeps
<1>5. CASE r.hs = "keys_sent" /\ SetPeer(t, p, Ended(r))
  BY <1>1, <1>2, <1>3, <1>5, QuietKeeps
<1>6. QED BY <1>4, <1>5 DEF RxAck

-----------------------------------------------------------------------------
(* The rider and the tick.                                                  *)

LEMMA AcceptKeeps ==
    ASSUME ConsentInv, PageInv, NEW t \in Rider, NEW p \in Pseud, Accept(t, p)
    PROVE  StepKeeps
<1> DEFINE r  == [Started(peers[t][p], "accept_sent") EXCEPT !.consented = TRUE]
           pr == [prompt[t] EXCEPT !.st = "waiting"]
<1>1. /\ prompt[t] = [st |-> "offer", id |-> p] /\ peers[t][p].used
      /\ SetPeer(t, p, r) /\ prompt' = [prompt EXCEPT ![t].st = "waiting"]
      /\ said \subseteq said' /\ friends' = friends /\ dropped' = dropped
  BY DEF Accept
<1>2. Growing
  BY <1>1, GrowingSame
<1>3. peers[t][p] \in PeerRec /\ Started(peers[t][p], "accept_sent") \in PeerRec
  BY PeerType, StepTypes DEF ConsentInv, Hs, Moving
<1>4. r \in PeerRec /\ r.used = peers[t][p].used /\ r.hs = "accept_sent"
  <2>1. Started(peers[t][p], "accept_sent").used = peers[t][p].used
        /\ Started(peers[t][p], "accept_sent").hs = "accept_sent"
    BY <1>3 DEF Started, PeerRec
  <2>2. QED BY <1>3, <2>1 DEF PeerRec
<1>5. pr = [st |-> "waiting", id |-> p] /\ prompt' = [prompt EXCEPT ![t] = pr] /\ prompt[t].id = p
  BY <1>1 DEF ConsentInv, TypeOK
<1> HIDE DEF r, pr
<1>6. pr \in Prompt /\ pr.st = "waiting" /\ pr.id = p
  BY <1>5 DEF Prompt
<1>7. Backed(pr, r) /\ Owner(p) # t
  BY <1>1, <1>4, <1>6 DEF Backed, PageInv
<1>8. QED BY <1>1, <1>2, <1>4, <1>5, <1>6, <1>7, PeerKeeps

\* Closing a page ends the request behind it, and with it the asker it was for.
LEMMA ClosedFacts ==
    ASSUME NEW ps \in [Pseud -> PeerRec], NEW id
    PROVE  /\ Closed(ps, id) \in [Pseud -> PeerRec]
           /\ \A q \in Pseud : /\ Closed(ps, id)[q].used = ps[q].used
                               /\ Closed(ps, id)[q].hs = IF q = id /\ ps[q].hs \in Asking THEN "none" ELSE ps[q].hs
<1>1. ASSUME NEW q \in Pseud
      PROVE  /\ Closed(ps, id)[q].used = ps[q].used
             /\ Closed(ps, id)[q].hs = IF q = id /\ ps[q].hs \in Asking THEN "none" ELSE ps[q].hs
  <2>1. ps[q] \in PeerRec
    OBVIOUS
  <2>2. [Ended(ps[q]) EXCEPT !.consented = FALSE].used = ps[q].used
        /\ [Ended(ps[q]) EXCEPT !.consented = FALSE].hs = "none"
    BY <2>1 DEF Ended, PeerRec
  <2>3. Closed(ps, id)[q] = IF q = id /\ ps[q].hs \in Asking THEN [Ended(ps[q]) EXCEPT !.consented = FALSE] ELSE ps[q]
    BY DEF Closed
  <2>4. QED BY <2>2, <2>3
<1>2. QED BY <1>1, ClosedType

\* The page of an asker is about them.
LEMMA AskerFacts ==
    ASSUME AskersHaveAPrompt, NEW t \in Rider, NEW q \in Pseud, peers[t][q].hs = "req_recv"
    PROVE  prompt[t].st = "offer" /\ prompt[t].id = q
<1>1. prompt[t] = [st |-> "offer", id |-> q]
  BY DEF AskersHaveAPrompt
<1>2. QED BY <1>1

\* A page closed by the rider, on a refused request or on leaving Add friend.
LEMMA ClosedKeeps ==
    ASSUME ConsentInv, PageInv, Growing, NEW t \in Rider,
           peers' = [peers EXCEPT ![t] = Closed(peers[t], prompt[t].id)],
           prompt' = [prompt EXCEPT ![t] = NoPrompt]
    PROVE  StepKeeps
<1> DEFINE row == Closed(peers[t], prompt[t].id)
<1>1. peers[t] \in [Pseud -> PeerRec] /\ prompt[t] \in Prompt
  BY DEF ConsentInv, TypeOK
<1>2. /\ row \in [Pseud -> PeerRec]
      /\ \A q \in Pseud : /\ row[q].used = peers[t][q].used
                          /\ row[q].hs = IF q = prompt[t].id /\ peers[t][q].hs \in Asking THEN "none" ELSE peers[t][q].hs
  BY <1>1, ClosedFacts
<1>3. peers' = [peers EXCEPT ![t] = row]
  OBVIOUS
<1> HIDE DEF row
<1>4. \A q \in Pseud : row[q].used => Owner(q) # t
  BY <1>2 DEF PageInv
<1>5. AskersHaveAPrompt => \A q \in Pseud : row[q].hs # "req_recv"
  BY <1>2, AskerFacts DEF Asking
<1>6. NoPrompt \in Prompt /\ NoPrompt.st = "none"
  BY DEF NoPrompt, Prompt
<1>7. Backed(NoPrompt, row[NoPrompt.id])
  BY <1>6 DEF Backed
<1>8. QED BY <1>2, <1>3, <1>4, <1>5, <1>6, <1>7, RowKeeps

LEMMA RequestKeeps ==
    ASSUME ConsentInv, PageInv, NEW t \in Rider, NEW p \in Pseud, Request(t, p)
    PROVE  StepKeeps
<1> DEFINE closed == IF prompt[t].st = "none" THEN peers[t] ELSE Closed(peers[t], prompt[t].id)
           unsaid(q) == [closed[q] EXCEPT !.consented = FALSE]
           row == [q \in Pseud |-> IF q = p THEN Started(unsaid(q), "req_sent") ELSE unsaid(q)]
           pr  == [st |-> "waiting", id |-> p]
<1>1. /\ peers' = [peers EXCEPT ![t] = row] /\ prompt' = [prompt EXCEPT ![t] = pr]
      /\ peers[t][p].used
      /\ said \subseteq said' /\ friends' = friends /\ dropped' = dropped
  BY DEF Request
<1>2. Growing
  BY <1>1, GrowingSame
<1>3. peers[t] \in [Pseud -> PeerRec]
  BY DEF ConsentInv, TypeOK
<1>4. /\ closed \in [Pseud -> PeerRec]
      /\ \A q \in Pseud : closed[q].used = peers[t][q].used
      /\ AskersHaveAPrompt => \A q \in Pseud : closed[q].hs # "req_recv"
  <2>1. CASE prompt[t].st = "none"
    BY <1>3, <2>1, AskerFacts
  <2>2. CASE prompt[t].st # "none"
    <3>1. closed = Closed(peers[t], prompt[t].id)
      BY <2>2
    <3> HIDE DEF closed
    <3>2. /\ closed \in [Pseud -> PeerRec]
          /\ \A q \in Pseud : /\ closed[q].used = peers[t][q].used
                              /\ closed[q].hs = IF q = prompt[t].id /\ peers[t][q].hs \in Asking THEN "none"
                                                ELSE peers[t][q].hs
      BY <1>3, <3>1, ClosedFacts
    <3>3. QED BY <3>2, AskerFacts DEF Asking
  <2>3. QED BY <2>1, <2>2
<1> HIDE DEF closed
<1>5. ASSUME NEW q \in Pseud
      PROVE  /\ row[q] \in PeerRec /\ row[q].used = peers[t][q].used
             /\ row[q].hs = IF q = p THEN "req_sent" ELSE closed[q].hs
  <2>1. unsaid(q) \in PeerRec /\ unsaid(q).used = peers[t][q].used /\ unsaid(q).hs = closed[q].hs
    BY <1>4 DEF PeerRec
  <2> HIDE DEF unsaid
  <2>2. Started(unsaid(q), "req_sent") \in PeerRec
    BY <2>1, StepTypes DEF Hs, Asking
  <2>3. Started(unsaid(q), "req_sent").used = unsaid(q).used /\ Started(unsaid(q), "req_sent").hs = "req_sent"
    BY <2>1 DEF Started, PeerRec
  <2>4. QED BY <2>1, <2>2, <2>3
<1>6. row \in [Pseud -> PeerRec]
  BY <1>5
<1>7. pr \in Prompt /\ pr.st = "waiting" /\ pr.id = p
  BY DEF Prompt
<1> HIDE DEF row, pr
<1>8. \A q \in Pseud : row[q].used => Owner(q) # t
  BY <1>5 DEF PageInv
<1>9. Backed(pr, row[pr.id])
  BY <1>1, <1>5, <1>7 DEF Backed
<1>10. AskersHaveAPrompt => \A q \in Pseud : row[q].hs # "req_recv"
  BY <1>4, <1>5
<1>11. QED BY <1>1, <1>2, <1>6, <1>7, <1>8, <1>9, <1>10, RowKeeps

LEMMA MenuKeeps ==
    ASSUME ConsentInv, PageInv, NEW t \in Rider,
           CloseMenu(t) \/ \E p \in Pseud : RefusedRequest(t, p)
    PROVE  StepKeeps
<1>1. friends' = friends /\ said' = said /\ dropped' = dropped
  BY DEF CloseMenu, RefusedRequest
<1>2. Growing
  BY <1>1, GrowingSame
<1>3. \/ peers' = peers /\ prompt' = prompt
      \/ /\ peers' = [peers EXCEPT ![t] = Closed(peers[t], prompt[t].id)]
         /\ prompt' = [prompt EXCEPT ![t] = NoPrompt]
  BY DEF CloseMenu, RefusedRequest
<1>4. QED BY <1>2, <1>3, NothingKeeps, ClosedKeeps

LEMMA RestartKeeps ==
    ASSUME ConsentInv, PageInv, NEW t \in Rider, Restart(t)
    PROVE  StepKeeps
<1> DEFINE row == [p \in Pseud |-> NoPeer]
<1>1. /\ peers' = [peers EXCEPT ![t] = row] /\ prompt' = [prompt EXCEPT ![t] = NoPrompt]
      /\ friends' = friends /\ said' = said /\ dropped' = dropped
  BY DEF Restart
<1>2. Growing
  BY <1>1, GrowingSame
<1>3. row \in [Pseud -> PeerRec] /\ \A p \in Pseud : ~row[p].used /\ row[p].hs = "none"
  BY NoPeerType DEF NoPeer
<1>4. NoPrompt \in Prompt /\ NoPrompt.st = "none"
  BY DEF NoPrompt, Prompt
<1> HIDE DEF row
<1>5. Backed(NoPrompt, row[NoPrompt.id])
  BY <1>4 DEF Backed
<1>6. QED BY <1>1, <1>2, <1>3, <1>4, <1>5, RowKeeps

\* The switch closes the page and leaves the handshakes: an asker may lose its page.
LEMMA SetEnabledKeeps ==
    ASSUME ConsentInv, PageInv, NEW t \in Rider, SetEnabled(t)
    PROVE  PageInv'
<1>1. /\ peers' = peers /\ friends' = friends /\ said' = said /\ dropped' = dropped
      /\ prompt' = prompt \/ prompt' = [prompt EXCEPT ![t] = NoPrompt]
  BY DEF SetEnabled
<1>2. Growing
  BY <1>1, GrowingSame
<1>3. CASE prompt' = prompt
  BY <1>1, <1>2, <1>3, NothingKeeps DEF StepKeeps
<1>4. CASE prompt' = [prompt EXCEPT ![t] = NoPrompt]
  <2>1. NoPrompt.st = "none"
    BY DEF NoPrompt
  <2>2. \A a \in Rider : prompt'[a] = prompt[a] \/ prompt'[a].st = "none"
    BY <1>4, <2>1 DEF ConsentInv, TypeOK
  <2>3. ASSUME NEW a \in Rider, prompt'[a].st = "done" PROVE Holds(a, Owner(prompt[a].id))' /\ prompt'[a].id \in Pseud
    <3>1. prompt'[a] = prompt[a]
      BY <2>2, <2>3
    <3>2. prompt[a].id \in Pseud /\ Holds(a, Owner(prompt[a].id))
      BY <2>3, <3>1 DEF PageInv
    <3>3. QED BY <1>1, <3>1, <3>2 DEF Holds
  <2>4. QED BY <1>1, <2>2, <2>3 DEF PageInv, Backed
<1>5. QED BY <1>1, <1>3, <1>4

\* A retry spends a try or ends the handshake, and starts none.
LEMMA RetriedFacts ==
    ASSUME NEW r \in PeerRec, NEW p, NEW pr, NEW due \in BOOLEAN, NEW ack \in BOOLEAN
    PROVE  LET tried == [Retried(r, p, pr, due) EXCEPT !.ack = ack]
           IN  /\ tried \in PeerRec /\ tried.used = r.used
               /\ tried.hs = IF Lapses(r, due) \/ Unpaged(r, p, pr) THEN "none" ELSE r.hs
<1> DEFINE q == Retried(r, p, pr, due)
<1>1. q \in PeerRec
  BY RetriedType
<1>2. q.used = r.used /\ q.hs = IF Lapses(r, due) \/ Unpaged(r, p, pr) THEN "none" ELSE r.hs
  BY DEF Retried, Ended, PeerRec
<1> HIDE DEF q
<1>3. [q EXCEPT !.ack = ack] \in PeerRec /\ [q EXCEPT !.ack = ack].used = q.used /\ [q EXCEPT !.ack = ack].hs = q.hs
  BY <1>1 DEF PeerRec
<1>4. QED BY <1>2, <1>3 DEF q

LEMMA TickKeeps ==
    ASSUME ConsentInv, PageInv, NEW t \in Rider, NEW timeout, NEW due \in SUBSET Pseud,
           NEW acks \in SUBSET Pseud, Tick(t, timeout, due, acks)
    PROVE  StepKeeps
<1> DEFINE page == prompt[t]
           kept == Expired(t)
           ends == PageEnds(page, kept, timeout)
           pr   == IF ends THEN NoPrompt ELSE page
           ps   == IF ends /\ page.st # "done" THEN Closed(kept, page.id) ELSE kept
           owed == {p \in acks : ps[p].ack}
           tried(p) == Retried(ps[p], p, pr, p \in due)
           row  == [p \in Pseud |-> [tried(p) EXCEPT !.ack = tried(p).ack /\ p \notin owed]]
           next == IF pr.st = "waiting" /\ Lapses(ps[pr.id], pr.id \in due) THEN NoPrompt ELSE pr
<1>1. /\ peers' = [peers EXCEPT ![t] = row] /\ prompt' = [prompt EXCEPT ![t] = next]
      /\ friends' = friends /\ said' = said /\ dropped' = dropped
  BY DEF Tick
<1>2. Growing
  BY <1>1, GrowingSame
<1>3. page \in Prompt /\ NoPrompt \in Prompt /\ NoPrompt.st = "none"
  BY DEF ConsentInv, TypeOK, NoPrompt, Prompt
<1>4. /\ kept \in [Pseud -> PeerRec]
      /\ \A p \in Pseud : \/ kept[p] = peers[t][p]
                          \/ ~kept[p].used /\ kept[p].hs = "none" /\ p # page.id
  <2>1. \A p \in Pseud : peers[t][p] \in PeerRec
    BY PeerType DEF ConsentInv
  <2>2. NoPeer \in PeerRec /\ ~NoPeer.used /\ NoPeer.hs = "none"
    BY NoPeerType DEF NoPeer
  <2>3. QED BY <2>1, <2>2 DEF Expired
<1> HIDE DEF kept
<1>5. /\ ps \in [Pseud -> PeerRec]
      /\ \A p \in Pseud : /\ ps[p].used => peers[t][p].used
                          /\ ps[p].hs \in {"none", peers[t][p].hs}
                          /\ ~ends /\ p = page.id => ps[p] = peers[t][p]
                          /\ ends /\ page.st # "done" /\ p = page.id => ps[p].hs \notin Asking
  <2>1. CASE ends /\ page.st # "done"
    <3>1. ps = Closed(kept, page.id)
      BY <2>1
    <3> HIDE DEF ps, ends
    <3>2. /\ ps \in [Pseud -> PeerRec]
          /\ \A p \in Pseud : /\ ps[p].used = kept[p].used
                              /\ ps[p].hs = IF p = page.id /\ kept[p].hs \in Asking THEN "none" ELSE kept[p].hs
      BY <1>4, <3>1, ClosedFacts
    <3>3. "none" \notin Asking
      BY DEF Asking
    <3>4. QED BY <1>4, <2>1, <3>2, <3>3
  <2>2. CASE ~(ends /\ page.st # "done")
    <3>1. ps = kept
      BY <2>2
    <3> HIDE DEF ps, ends
    <3>2. QED BY <1>4, <2>2, <3>1
  <2>3. QED BY <2>1, <2>2
<1>6. pr \in Prompt /\ (ends => pr.st = "none") /\ (~ends => pr = page)
  BY <1>3
<1> HIDE DEF ps, pr, ends, page
<1>7. ASSUME NEW p \in Pseud
      PROVE  /\ row[p] \in PeerRec /\ row[p].used = ps[p].used
             /\ row[p].hs = IF Lapses(ps[p], p \in due) \/ Unpaged(ps[p], p, pr) THEN "none" ELSE ps[p].hs
  <2>1. ps[p] \in PeerRec
    BY <1>5
  <2> DEFINE d == p \in due
             ack == tried(p).ack /\ p \notin owed
  <2>2. d \in BOOLEAN /\ ack \in BOOLEAN
    OBVIOUS
  <2>3. row[p] = [Retried(ps[p], p, pr, d) EXCEPT !.ack = ack]
    OBVIOUS
  <2> HIDE DEF row, ack
  <2>4. LET r == [Retried(ps[p], p, pr, d) EXCEPT !.ack = ack]
        IN  /\ r \in PeerRec /\ r.used = ps[p].used
            /\ r.hs = IF Lapses(ps[p], d) \/ Unpaged(ps[p], p, pr) THEN "none" ELSE ps[p].hs
    <3> HIDE DEF d
    <3>1. QED BY <2>1, <2>2, RetriedFacts
  <2>5. QED BY <2>3, <2>4
<1>8. row \in [Pseud -> PeerRec]
  BY <1>7
<1> HIDE DEF row, tried, owed
<1>9. \A p \in Pseud : row[p].used => Owner(p) # t
  BY <1>5, <1>7 DEF PageInv
<1>10. /\ next \in Prompt /\ next.st \in {"none", pr.st} /\ (next.st # "none" => next = pr)
       /\ pr.st = "waiting" /\ next.st # "none" => ~Lapses(ps[pr.id], pr.id \in due)
  BY <1>3, <1>6
<1> HIDE DEF next
<1>11. next.st # "none" => next.id \in Pseud
  BY <1>3, <1>6, <1>10 DEF PageInv, page
<1>12. ASSUME NEW q \in Pseud, next.st = "done", q = next.id PROVE Holds(t, Owner(q))'
  <2>1. next = page /\ page = prompt[t]
    BY <1>6, <1>10, <1>12 DEF page
  <2>2. Holds(t, Owner(q))
    BY <1>12, <2>1 DEF PageInv
  <2>3. QED BY <1>2, <2>2, PseudOwner DEF Growing
<1>13. RoomForAll => Backed(next, row[next.id])
  <2>1. SUFFICES ASSUME RoomForAll, next.st \in {"waiting", "offer"} PROVE Backed(next, row[next.id])
    BY DEF Backed
  <2>2. ~ends /\ next = page /\ pr = page /\ page.id \in Pseud
    BY <1>6, <1>10, <1>11, <2>1
  <2>3. Backed(page, peers[t][page.id])
    BY <2>1 DEF PageInv, page
  <2>4. ps[page.id] = peers[t][page.id]
    BY <1>5, <2>2
  <2>5. ~Unpaged(ps[page.id], page.id, pr)
    <3>1. CASE page.st = "waiting"
      BY <1>3, <2>2, <3>1 DEF Unpaged, Prompt
    <3>2. CASE page.st = "offer"
      BY <2>3, <2>4, <3>2 DEF Unpaged, Backed
    <3>3. QED BY <2>1, <2>2, <3>1, <3>2
  <2>6. ~Lapses(ps[page.id], page.id \in due)
    <3>1. CASE page.st = "waiting"
      BY <1>10, <2>1, <2>2, <3>1
    <3>2. CASE page.st = "offer"
      BY <2>3, <2>4, <3>2 DEF Lapses, Backed, Moving
    <3>3. QED BY <2>1, <2>2, <3>1, <3>2
  <2>7. row[page.id].used = ps[page.id].used /\ row[page.id].hs = ps[page.id].hs
    BY <1>7, <2>2, <2>5, <2>6
  <2>8. QED BY <2>2, <2>3, <2>4, <2>7 DEF Backed
<1>14. ASSUME AskersHaveAPrompt, NEW q \in Pseud, row[q].hs = "req_recv"
       PROVE  next = [st |-> "offer", id |-> q]
  <2>1. ps[q].hs = "req_recv" /\ peers[t][q].hs = "req_recv"
    BY <1>5, <1>7, <1>14
  <2>2. page = [st |-> "offer", id |-> q] /\ page.id = q /\ page.st = "offer"
    BY <1>14, <2>1, AskerFacts DEF AskersHaveAPrompt, page
  <2>3. ~ends
    BY <1>5, <2>1, <2>2 DEF Asking
  <2>4. pr = page /\ pr.st = "offer"
    BY <1>6, <2>2, <2>3
  <2>5. next = pr
    BY <2>4 DEF next
  <2>6. QED BY <2>2, <2>4, <2>5
<1>15. QED BY <1>1, <1>2, <1>8, <1>9, <1>10, <1>11, <1>12, <1>13, <1>14, RowKeeps

\* The phone writes lists, and touches no page.
LEMMA PhoneKeeps ==
    ASSUME ConsentInv, PageInv, NEW t \in Rider,
           \/ \E u \in Rider : PhoneUpsert(t, u) \/ PhoneRemove(t, u)
           \/ PhoneClear(t)
    PROVE  StepKeeps
<1>1. ASSUME NEW u \in Rider, PhoneUpsert(t, u) PROVE Growing
  BY <1>1 DEF PhoneUpsert, Growing, Holds, ConsentInv, TypeOK
<1>2. ASSUME NEW gone \in SUBSET Rider, PhoneDrop(t, gone) PROVE Growing
  BY <1>2 DEF PhoneDrop, Growing, Holds, ConsentInv, TypeOK
<1>3. friends[t] \in SUBSET Rider
  BY DEF ConsentInv, TypeOK
<1>4. Growing
  BY <1>1, <1>2, <1>3 DEF PhoneRemove, PhoneClear
<1>5. peers' = peers /\ prompt' = prompt
  BY DEF PhoneUpsert, PhoneRemove, PhoneClear, PhoneDrop
<1>6. QED BY <1>4, <1>5, NothingKeeps

-----------------------------------------------------------------------------
(* The page and the handshake agree.                                        *)

LEMMA PageInit == Init => PageInv /\ AskersHaveAPrompt
<1> SUFFICES ASSUME Init PROVE PageInv /\ AskersHaveAPrompt
  OBVIOUS
<1>1. ~NoPeer.used /\ NoPeer.hs = "none" /\ NoPrompt.st = "none"
  BY DEF NoPeer, NoPrompt
<1>2. \A t \in Rider : prompt[t] = NoPrompt /\ \A p \in Pseud : peers[t][p] = NoPeer
  BY DEF Init
<1>3. QED BY <1>1, <1>2 DEF PageInv, AskersHaveAPrompt, Backed

LEMMA RideKeeps == ASSUME ConsentInv, PageInv, Ride PROVE StepKeeps
<1>1. ASSUME NEW t \in Rider, NEW u \in Rider, Hear(t, u) PROVE StepKeeps
  BY <1>1, HearKeeps
<1>2. ASSUME NEW t \in Rider, Receive(t) PROVE StepKeeps
  BY <1>2, RxRequestKeeps, RxAcceptKeeps, RxKeysKeeps, RxAckKeeps DEF Receive
<1>3. ASSUME NEW t \in Rider, Hold(t) PROVE StepKeeps
  BY <1>3, AcceptKeeps, RequestKeeps, MenuKeeps DEF Hold
<1>4. ASSUME NEW t \in Rider, Ticks(t) PROVE StepKeeps
  <2>1. PICK timeout \in {FALSE, prompt[t].st # "none"}, due \in SUBSET Clear(t), acks \in SUBSET Owed(t) :
           Tick(t, timeout, due, acks)
    BY <1>4 DEF Ticks
  <2>2. due \in SUBSET Pseud /\ acks \in SUBSET Pseud
    BY DEF Clear, Owed, Used
  <2>3. QED BY <2>1, <2>2, TickKeeps
<1>5. ASSUME NEW f \in air, Lose(f) PROVE StepKeeps
  BY <1>5, GrowingSame, NothingKeeps DEF Lose
<1>6. QED BY <1>1, <1>2, <1>3, <1>4, <1>5 DEF Ride

\* But for the switch, nothing that happens to a terminal parts the two.
LEMMA UpsetKeeps ==
    ASSUME ConsentInv, PageInv, Away \/ Menu \/ Phone \/ Power
    PROVE  StepKeeps
<1>1. ASSUME NEW t \in Rider, OpenMenu(t) PROVE StepKeeps
  BY <1>1, GrowingSame, NothingKeeps DEF OpenMenu
<1>2. CASE Away
  BY <1>2, GoSilentKeeps DEF Away
<1>3. CASE Menu
  BY <1>1, <1>3, MenuKeeps DEF Menu
<1>4. CASE Phone
  BY <1>4, PhoneKeeps DEF Phone
<1>5. CASE Power
  BY <1>5, RestartKeeps DEF Power
<1>6. QED BY <1>2, <1>3, <1>4, <1>5

LEMMA SwitchKeeps == ASSUME ConsentInv, PageInv, Switch PROVE PageInv' /\ kind = "switch"
BY SetEnabledKeeps DEF Switch

\* Every kind of disturbance is a step of MeshCore.
LEMMA KindSteps == ASSUME MCNext PROVE Next /\ kind' = kind
BY DEF MCNext, Away, Menu, Phone, Power, Switch, Upset, Next

LEMMA PagesStep == ASSUME PagesInv, [MCNext]_<<vars, kind>> PROVE PagesInv'
<1>1. ConsentInv /\ PageInv /\ (kind # "switch" => AskersHaveAPrompt)
  BY DEF PagesInv, AskersWait
<1>2. CASE UNCHANGED <<vars, kind>>
  <2>1. UNCHANGED vars /\ kind' = kind
    BY <1>2
  <2>2. ConsentInv'
    BY <1>1, <2>1, ConsentStep
  <2>3. StepKeeps
    BY <1>1, <2>1, GrowingSame, NothingKeeps DEF vars
  <2>4. QED BY <1>1, <2>1, <2>2, <2>3 DEF PagesInv, AskersWait, StepKeeps
<1>3. CASE MCNext
  <2>1. ConsentInv' /\ kind' = kind
    BY <1>1, <1>3, ConsentStep, KindSteps
  <2>2. CASE Switch
    <3>1. PageInv' /\ kind = "switch"
      BY <1>1, <2>2, SwitchKeeps
    <3>2. QED BY <2>1, <3>1 DEF PagesInv, AskersWait
  <2>3. CASE ~Switch
    <3>1. StepKeeps
      BY <1>1, <1>3, <2>3, RideKeeps, UpsetKeeps DEF MCNext
    <3>2. QED BY <1>1, <2>1, <3>1 DEF PagesInv, AskersWait, StepKeeps
  <2>4. QED BY <2>2, <2>3
<1>4. QED BY <1>2, <1>3

LEMMA PagesInvariant == MCSpec => []PagesInv
<1>1. MCInit => PagesInv
  BY ConsentInit, PageInit DEF MCInit, PagesInv, AskersWait
<1>2. PagesInv /\ [MCNext]_<<vars, kind>> => PagesInv'
  BY PagesStep
<1>3. QED BY <1>1, <1>2, PTL DEF MCSpec

\* Where the table has room for everybody, a waiting page has a handshake behind it,
\* an offer can be accepted, "now friends" is about a stored friend, and whoever asks
\* is on the page (mesh_core.c's prompt and peer table).
THEOREM PagesAlwaysMatch == ASSUME RoomForAll PROVE MCSpec => []PagesMatch
<1>1. PagesInv => PagesMatch
  BY DEF PagesInv, PageInv, Backed, PagesMatch, PageBacked
<1>2. QED BY <1>1, PagesInvariant, PTL

\* However full the table, nobody who asks is left without a page, but for a page the
\* switch has closed.
THEOREM AskersAlwaysWait == MCSpec => []AskersWait
<1>1. PagesInv => AskersWait
  BY DEF PagesInv
<1>2. QED BY <1>1, PagesInvariant, PTL

-----------------------------------------------------------------------------
(* MeshRadio: the way of a frame to the air and from it.                    *)

Numbers == Nat \ {0}

\* What the variables range over.
RadioTypeOK ==
    /\ numbered \in Nat /\ waited \in Nat /\ unnoticed \in BOOLEAN
    /\ outbox \in Seq(Numbers) /\ aired \in Seq(Numbers)
    /\ rx \in Seq(Numbers) /\ handed \in Seq(Numbers)
    /\ driver \in [configured : BOOLEAN, advertising : BOOLEAN, left : 0 .. AdvertPasses]
    /\ host \in {"synced", "reset", "noticed"}
    /\ advert \in [there : BOOLEAN, frame : Nat]
    /\ sighted \in [ring : [0 .. DedupLen - 1 -> Nat], next : 0 .. DedupLen - 1]

\* What the driver knows of the controller: there is no advert without an instance
\* and none it does not know of, but for a reset no pass has seen.
InstanceInv ==
    /\ ~advert.there => advert.frame = 0
    /\ host # "synced" => ~advert.there
    /\ host = "noticed" => ~driver.configured
    /\ host = "synced" /\ driver.configured /\ ~advert.there => unnoticed
    /\ ~driver.configured => advert.frame = 0
    /\ advert.frame # 0 => driver.advertising /\ driver.left > 0
    /\ refused # {} => unnoticed

\* An outbox waits for as long as the window it waits for runs.
WaitInv ==
    /\ driver.advertising => waited + driver.left <= AdvertPasses
    /\ waited < AdvertPasses

\* Every frame has a place, and the oldest goes first.
OrderInv ==
    /\ 1 .. numbered = ElementsOf(outbox) \cup ElementsOf(aired) \cup forgone \cup refused
    /\ Increasing(aired) /\ Increasing(outbox)
    /\ \A i \in DOMAIN aired, j \in DOMAIN outbox : aired[i] < outbox[j]

\* Where the ring keeps the frame handed m-th last.
Slot(next, m) == IF next >= m THEN next - m ELSE next - m + DedupLen

\* The ring is the last frames handed on.
RingInv ==
    /\ \A m \in 1 .. DedupLen :
          m <= Len(handed) => sighted.ring[Slot(sighted.next, m)] = handed[Len(handed) + 1 - m]
    /\ \A k \in 0 .. DedupLen - 1 : sighted.ring[k] # 0 => sighted.ring[k] \in ElementsOf(handed)

RadioInv ==
    /\ RadioTypeOK /\ InstanceInv /\ WaitInv
    /\ "ble" \in radios => OrderInv
    /\ RingInv /\ HeardOnce

-----------------------------------------------------------------------------
(* Sequences of frames.                                                     *)

LEMMA RadioConstants ==
    /\ OutboxLen \in Numbers /\ AdvertPasses \in Numbers /\ DedupLen \in Numbers /\ RxLen \in Numbers
    /\ MaxSent \in Nat /\ MaxUpsets \in Nat
  BY RadioAssumption DEF Numbers

LEMMA TailElements ==
    ASSUME NEW s \in Seq(Numbers), s # <<>>
    PROVE  /\ Tail(s) \in Seq(Numbers) /\ Head(s) \in Numbers
           /\ ElementsOf(s) = {Head(s)} \cup ElementsOf(Tail(s))
           /\ \A i \in DOMAIN Tail(s) : i + 1 \in DOMAIN s /\ Tail(s)[i] = s[i + 1]
  <1>1. /\ Tail(s) \in Seq(Numbers) /\ Head(s) \in Numbers /\ Head(s) = s[1] /\ 1 \in DOMAIN s
        /\ \A i \in DOMAIN Tail(s) : i + 1 \in DOMAIN s /\ Tail(s)[i] = s[i + 1]
    OBVIOUS
  <1>2. \A i \in DOMAIN s : i # 1 => i - 1 \in DOMAIN Tail(s) /\ Tail(s)[i - 1] = s[i]
    OBVIOUS
  <1>3. ElementsOf(s) \subseteq {Head(s)} \cup ElementsOf(Tail(s))
    <2>1. SUFFICES ASSUME NEW i \in DOMAIN s PROVE s[i] \in {Head(s)} \cup ElementsOf(Tail(s))
      BY DEF ElementsOf
    <2>2. CASE i = 1
      BY <2>2, <1>1
    <2>3. CASE i # 1
      BY <2>3, <1>2 DEF ElementsOf
    <2>4. QED
      BY <2>2, <2>3
  <1>4. Head(s) \in ElementsOf(s)
    BY <1>1 DEF ElementsOf
  <1>5. ElementsOf(Tail(s)) \subseteq ElementsOf(s)
    BY <1>1 DEF ElementsOf
  <1>6. QED
    BY <1>1, <1>3, <1>4, <1>5

LEMMA AppendElements ==
    ASSUME NEW s \in Seq(Numbers), NEW f \in Numbers
    PROVE  /\ Append(s, f) \in Seq(Numbers)
           /\ ElementsOf(Append(s, f)) = ElementsOf(s) \cup {f}
           /\ Len(Append(s, f)) = Len(s) + 1
           /\ DOMAIN Append(s, f) = DOMAIN s \cup {Len(s) + 1} /\ Len(s) + 1 \notin DOMAIN s
           /\ Append(s, f)[Len(s) + 1] = f
           /\ \A i \in DOMAIN s : Append(s, f)[i] = s[i] /\ i < Len(s) + 1 /\ i \in Nat
  <1>1. /\ Append(s, f) \in Seq(Numbers) /\ Len(Append(s, f)) = Len(s) + 1
        /\ DOMAIN Append(s, f) = DOMAIN s \cup {Len(s) + 1} /\ Len(s) + 1 \notin DOMAIN s
        /\ Append(s, f)[Len(s) + 1] = f
        /\ \A i \in DOMAIN s : Append(s, f)[i] = s[i] /\ i < Len(s) + 1 /\ i \in Nat
    OBVIOUS
  <1>2. QED
    BY <1>1 DEF ElementsOf

\* The tail of an increasing sequence is one, above its head.
LEMMA IncreasingTail ==
    ASSUME NEW s \in Seq(Numbers), s # <<>>, Increasing(s)
    PROVE  Increasing(Tail(s)) /\ \A i \in DOMAIN Tail(s) : Head(s) < Tail(s)[i]
  <1>1. \A i \in DOMAIN Tail(s) : i \in Nat /\ i + 1 \in DOMAIN s /\ Tail(s)[i] = s[i + 1] /\ 1 < i + 1
    OBVIOUS
  <1>2. Head(s) = s[1] /\ 1 \in DOMAIN s
    OBVIOUS
  <1>3. \A i, j \in DOMAIN Tail(s) : i < j => i + 1 < j + 1
    BY <1>1
  <1>4. QED
    BY <1>1, <1>2, <1>3 DEF Increasing

\* A sequence stays increasing with what is above all of it.
LEMMA IncreasingAppend ==
    ASSUME NEW s \in Seq(Numbers), NEW f \in Numbers, Increasing(s), \A i \in DOMAIN s : s[i] < f
    PROVE  Increasing(Append(s, f))
  BY AppendElements DEF Increasing

LEMMA IncreasingBoth ==
    ASSUME NEW s \in Seq(Numbers), NEW u \in Seq(Numbers), Increasing(s), Increasing(u),
           \A i \in DOMAIN s, j \in DOMAIN u : s[i] < u[j]
    PROVE  Increasing(s \o u)
  <1>1. SUFFICES ASSUME NEW i \in DOMAIN (s \o u), NEW j \in DOMAIN (s \o u), i < j
                 PROVE  (s \o u)[i] < (s \o u)[j]
    BY DEF Increasing
  <1>2. i \in 1 .. Len(s) + Len(u) /\ j \in 1 .. Len(s) + Len(u)
    OBVIOUS
  <1>3. /\ i <= Len(s) => (s \o u)[i] = s[i] /\ i \in DOMAIN s
        /\ j <= Len(s) => (s \o u)[j] = s[j] /\ j \in DOMAIN s
        /\ i > Len(s) => (s \o u)[i] = u[i - Len(s)] /\ i - Len(s) \in DOMAIN u
        /\ j > Len(s) => (s \o u)[j] = u[j - Len(s)] /\ j - Len(s) \in DOMAIN u
    BY <1>2
  <1>4. CASE j <= Len(s)
    BY <1>1, <1>2, <1>3, <1>4 DEF Increasing
  <1>5. CASE i > Len(s)
    <2>1. i - Len(s) < j - Len(s) /\ j > Len(s)
      BY <1>1, <1>2, <1>5
    <2>2. QED
      BY <1>3, <1>5, <2>1 DEF Increasing
  <1>6. CASE i <= Len(s) /\ j > Len(s)
    BY <1>3, <1>6
  <1>7. QED
    BY <1>2, <1>4, <1>5, <1>6

-----------------------------------------------------------------------------
(* Types.                                                                   *)

LEMMA OnRecvFits ==
    ASSUME RadioTypeOK, NEW f \in Numbers
    PROVE  OnRecv(f) \in Seq(Numbers)
  BY AppendElements DEF OnRecv, RadioTypeOK

LEMMA BleSendFits ==
    ASSUME RadioTypeOK, NEW f \in Numbers
    PROVE  BleSend(f) \in Seq(Numbers)
  <1>1. CASE Len(outbox) = OutboxLen
    <2>1. outbox # <<>>
      BY <1>1, RadioConstants DEF RadioTypeOK, Numbers
    <2>2. QED
      BY <1>1, <2>1, TailElements, AppendElements DEF BleSend, RadioTypeOK
  <1>2. CASE Len(outbox) # OutboxLen
    BY <1>2, AppendElements DEF BleSend, RadioTypeOK
  <1>3. QED
    BY <1>1, <1>2

LEMMA DriverFacts ==
    ASSUME RadioTypeOK
    PROVE  /\ Remaining \in 0 .. AdvertPasses
           /\ Remaining <= driver.left /\ (driver.left > 0 => Remaining = driver.left - 1)
           /\ Instance \in [there : BOOLEAN, frame : Nat]
           /\ driver.configured => Instance = advert
           /\ ~driver.configured => Instance = Silent
           /\ Silent \in [there : BOOLEAN, frame : Nat] /\ Silent.there /\ Silent.frame = 0
           /\ NoInstance \in [there : BOOLEAN, frame : Nat] /\ ~NoInstance.there /\ NoInstance.frame = 0
  BY RadioConstants DEF RadioTypeOK, Remaining, Instance, Silent, Showing, NoInstance, Numbers

\* The steps of the mesh task's pass, as one.
LEMMA PollFacts ==
    ASSUME RadioTypeOK, InstanceInv, WaitInv, PollRadio
    PROVE  /\ UNCHANGED <<radios, numbered, sighted, handed, ignored, rx, unnoticed>>
           /\ driver' \in [configured : BOOLEAN, advertising : BOOLEAN, left : 0 .. AdvertPasses]
           /\ advert' \in [there : BOOLEAN, frame : Nat]
           /\ host' \in {"synced", "reset", "noticed"} /\ waited' \in Nat
           /\ InstanceInv' /\ WaitInv'
  <1> USE DriverFacts, RadioConstants DEF sendVars, hearVars
  <1>0. /\ driver = [configured |-> driver.configured, advertising |-> driver.advertising, left |-> driver.left]
        /\ driver.configured \in BOOLEAN /\ driver.advertising \in BOOLEAN
        /\ driver.left \in 0 .. AdvertPasses /\ waited \in Nat
    BY DEF RadioTypeOK
  <1>1. CASE PollUnsynced
    <2>1. driver' = [configured |-> FALSE, advertising |-> FALSE, left |-> driver.left]
      BY <1>0, <1>1 DEF PollUnsynced, Unsynced
    <2>2. /\ ~driver'.configured /\ ~driver'.advertising /\ waited' = 0
          /\ host # "synced" /\ host' = "noticed"
          /\ UNCHANGED <<advert, refused, unnoticed>>
      BY <1>1, <2>1 DEF PollUnsynced
    <2>3. InstanceInv'
      BY <2>2 DEF InstanceInv
    <2>4. WaitInv'
      BY <2>2 DEF WaitInv, Numbers
    <2>5. QED
      BY <1>0, <1>1, <2>1, <2>2, <2>3, <2>4 DEF PollUnsynced, RadioTypeOK
  <1>2. CASE ConfigureFails
    <2>1. driver' = [configured |-> driver.configured, advertising |-> driver.advertising, left |-> Remaining]
      BY <1>0, <1>2 DEF ConfigureFails
    <2>2. /\ ~driver'.configured /\ ~driver.configured
          /\ driver'.advertising = driver.advertising /\ driver'.left = Remaining
          /\ UNCHANGED <<host, advert, refused, unnoticed, waited>>
      BY <1>2, <2>1 DEF ConfigureFails
    <2>3. InstanceInv'
      BY <2>2 DEF InstanceInv
    <2>4. WaitInv'
      BY <1>0, <2>2 DEF WaitInv, Numbers
    <2>5. QED
      BY <1>0, <1>2, <2>1, <2>2, <2>3, <2>4 DEF ConfigureFails, RadioTypeOK
  <1>3. CASE PollBusy
    <2>1. driver' = [configured |-> TRUE, advertising |-> driver.advertising, left |-> Remaining]
      BY <1>0, <1>3 DEF PollBusy
    <2>2. /\ driver'.configured /\ driver'.advertising /\ driver.advertising
          /\ driver'.left = Remaining /\ Remaining > 0 /\ host = "synced"
          /\ advert' = Instance /\ waited' \in {0, waited + 1}
          /\ UNCHANGED <<host, refused, unnoticed>>
      BY <1>3, <2>1 DEF PollBusy, RadioReady, Busy
    <2>3. InstanceInv'
      BY <2>2 DEF InstanceInv
    <2>4. driver.left > 0 /\ Remaining = driver.left - 1
      BY <1>0, <2>2
    <2>5. WaitInv'
      BY <1>0, <2>2, <2>4 DEF WaitInv, Numbers
    <2>6. UNCHANGED <<radios, numbered, sighted, handed, ignored, rx, unnoticed>>
      BY <1>3 DEF PollBusy
    <2>7. /\ driver' \in [configured : BOOLEAN, advertising : BOOLEAN, left : 0 .. AdvertPasses]
          /\ advert' \in [there : BOOLEAN, frame : Nat] /\ waited' \in Nat
      BY <1>0, <2>1, <2>2
    <2>8. host' \in {"synced", "reset", "noticed"}
      BY <2>2
    <2>9. QED
      BY <2>3, <2>5, <2>6, <2>7, <2>8
  <1>4. CASE PollEmpty
    BY SMTT(30), <1>4 DEF PollEmpty, RadioReady, Busy, RadioTypeOK, InstanceInv, WaitInv, Numbers
  <1>5. CASE Advertise
    <2>1. Head(outbox) \in Nat
      BY <1>5, TailElements DEF Advertise, TakesFrame, RadioTypeOK, Numbers
    <2>2. QED
      BY <1>5, <2>1 DEF Advertise, TakesFrame, Driven, Showing, RadioReady, RadioTypeOK, InstanceInv, WaitInv, Numbers
  <1>6. CASE AdvertiseRefused
    BY SMTT(40), <1>6 DEF AdvertiseRefused, TakesFrame, Driven, RadioReady, RadioTypeOK, InstanceInv, WaitInv, Numbers
  <1>7. CASE AdvertiseFails
    <2>1. PICK on \in {driver.advertising, FALSE} :
             /\ driver' = [configured |-> TRUE, advertising |-> on, left |-> AdvertPasses]
             /\ (on = driver.advertising /\ advert' = Instance) \/ advert' = Silent
      BY <1>7 DEF AdvertiseFails, Driven
    <2>2. /\ driver'.configured /\ driver'.advertising = on /\ driver'.left = AdvertPasses
          /\ waited' = 0 /\ host = "synced" /\ Instance.there
          /\ UNCHANGED <<host, refused, unnoticed>>
      BY <1>7, <2>1 DEF AdvertiseFails, TakesFrame, RadioReady
    <2>3. InstanceInv'
      BY <2>1, <2>2 DEF InstanceInv, Numbers
    <2>4. WaitInv'
      BY <2>2 DEF WaitInv, Numbers
    <2>5. UNCHANGED <<radios, numbered, sighted, handed, ignored, rx, unnoticed>>
      BY <1>7 DEF AdvertiseFails, TakesFrame
    <2>6. /\ driver' \in [configured : BOOLEAN, advertising : BOOLEAN, left : 0 .. AdvertPasses]
          /\ advert' \in [there : BOOLEAN, frame : Nat] /\ waited' \in Nat
      <3>1. on = driver.advertising \/ on = FALSE
        OBVIOUS
      <3>2. driver' \in [configured : BOOLEAN, advertising : BOOLEAN, left : 0 .. AdvertPasses]
        <4>1. AdvertPasses \in 0 .. AdvertPasses
          BY RadioConstants DEF Numbers
        <4>2. on \in BOOLEAN
          BY <1>0, <3>1, Zenon
        <4>3. QED
          BY <2>1, <4>1, <4>2
      <3>3. QED
        BY <2>1, <2>2, <3>2
    <2>7. host' \in {"synced", "reset", "noticed"}
      BY <2>2
    <2>8. QED
      BY <2>3, <2>4, <2>5, <2>6, <2>7
  <1>8. QED
    BY <1>1, <1>2, <1>3, <1>4, <1>5, <1>6, <1>7 DEF PollRadio

-----------------------------------------------------------------------------
(* The order of the frames.                                                 *)

\* A new frame is behind all the others.
LEMMA SendKeepsOrder ==
    ASSUME RadioTypeOK, OrderInv, "ble" \in radios, SendFrame
    PROVE  OrderInv'
  <1> DEFINE f == numbered + 1
             kept == IF Len(outbox) = OutboxLen THEN Tail(outbox) ELSE outbox
  <1>1. /\ outbox \in Seq(Numbers) /\ aired \in Seq(Numbers) /\ numbered \in Nat /\ f \in Numbers
        /\ numbered' = f /\ outbox' = Append(kept, f) /\ aired' = aired /\ refused' = refused
        /\ forgone' = forgone \cup (ElementsOf(outbox) \ ElementsOf(outbox'))
    BY SMTT(40) DEF RadioTypeOK, SendFrame, BleSend, Numbers
  <1>2. /\ kept \in Seq(Numbers) /\ Increasing(kept) /\ ElementsOf(kept) \subseteq ElementsOf(outbox)
        /\ \A i \in DOMAIN aired, j \in DOMAIN kept : aired[i] < kept[j]
    <2>1. CASE Len(outbox) = OutboxLen
      <3>1. outbox # <<>>
        BY <1>1, <2>1, RadioConstants DEF Numbers
      <3>2. kept = Tail(outbox)
        BY <2>1
      <3>3. QED
        BY <1>1, <3>1, <3>2, TailElements, IncreasingTail DEF OrderInv
    <2>2. CASE Len(outbox) # OutboxLen
      BY <1>1, <2>2 DEF OrderInv
    <2>3. QED
      BY <2>1, <2>2
  <1>3. /\ \A g \in ElementsOf(outbox) \cup ElementsOf(aired) : g \in 1 .. numbered
        /\ \A i \in DOMAIN outbox : outbox[i] \in ElementsOf(outbox)
        /\ \A i \in DOMAIN aired : aired[i] \in ElementsOf(aired)
        /\ \A i \in DOMAIN kept : kept[i] \in ElementsOf(kept)
    BY DEF OrderInv, ElementsOf
  <1>4. /\ \A i \in DOMAIN kept : kept[i] < f
        /\ \A i \in DOMAIN aired : aired[i] < f
    BY <1>1, <1>2, <1>3
  <1> HIDE DEF kept
  <1>5. /\ ElementsOf(outbox') = ElementsOf(kept) \cup {f}
        /\ \A j \in DOMAIN outbox' : (j \in DOMAIN kept /\ outbox'[j] = kept[j]) \/ outbox'[j] = f
    BY <1>1, <1>2, AppendElements
  <1>6. 1 .. numbered' = ElementsOf(outbox') \cup ElementsOf(aired') \cup forgone' \cup refused'
    <2>1. 1 .. numbered' = 1 .. numbered \cup {f}
      BY <1>1
    <2>2. QED
      BY <1>1, <1>2, <1>5, <2>1 DEF OrderInv
  <1>7. Increasing(outbox')
    BY <1>1, <1>2, <1>4, IncreasingAppend
  <1>8. \A i \in DOMAIN aired', j \in DOMAIN outbox' : aired'[i] < outbox'[j]
    BY <1>1, <1>2, <1>4, <1>5
  <1>9. QED
    BY <1>1, <1>6, <1>7, <1>8 DEF OrderInv

\* The oldest frame leaves the outbox: for the air, or for good.
LEMMA TakeKeepsOrder ==
    ASSUME RadioTypeOK, OrderInv, Advertise \/ AdvertiseRefused \/ AdvertiseFails
    PROVE  OrderInv' /\ outbox' \in Seq(Numbers) /\ aired' \in Seq(Numbers)
  <1> DEFINE h == Head(outbox)
  <1>1. /\ outbox \in Seq(Numbers) /\ aired \in Seq(Numbers) /\ outbox # <<>>
        /\ outbox' = Tail(outbox) /\ numbered' = numbered
    BY DEF RadioTypeOK, Advertise, AdvertiseRefused, AdvertiseFails, TakesFrame
  <1>2. /\ aired' = aired \/ aired' = Append(aired, h)
        /\ ElementsOf(aired') \cup forgone' \cup refused' = ElementsOf(aired) \cup forgone \cup refused \cup {h}
    <2>1. CASE Advertise
      BY <1>1, <2>1, TailElements, AppendElements DEF Advertise
    <2>2. CASE AdvertiseRefused
      BY <2>2 DEF AdvertiseRefused
    <2>3. CASE AdvertiseFails
      BY <2>3 DEF AdvertiseFails
    <2>4. QED
      BY <2>1, <2>2, <2>3
  <1>3. /\ h \in Numbers /\ outbox' \in Seq(Numbers)
        /\ ElementsOf(outbox) = {h} \cup ElementsOf(outbox')
        /\ \A i \in DOMAIN outbox' : i + 1 \in DOMAIN outbox /\ outbox'[i] = outbox[i + 1]
        /\ 1 \in DOMAIN outbox /\ h = outbox[1]
    BY <1>1, TailElements
  <1>4. Increasing(outbox') /\ \A i \in DOMAIN outbox' : h < outbox'[i]
    BY <1>1, IncreasingTail DEF OrderInv
  <1>5. \A i \in DOMAIN aired : aired[i] < h /\ \A j \in DOMAIN outbox' : aired[i] < outbox'[j]
    BY <1>3 DEF OrderInv
  <1>6. 1 .. numbered' = ElementsOf(outbox') \cup ElementsOf(aired') \cup forgone' \cup refused'
    BY <1>1, <1>2, <1>3 DEF OrderInv
  <1> HIDE DEF h
  <1>7. CASE aired' = aired
    BY <1>1, <1>3, <1>4, <1>5, <1>6, <1>7 DEF OrderInv
  <1>8. CASE aired' = Append(aired, h)
    <2>1. aired' \in Seq(Numbers) /\ Increasing(aired')
      BY <1>1, <1>3, <1>5, <1>8, AppendElements, IncreasingAppend DEF OrderInv
    <2>2. \A i \in DOMAIN aired' : (i \in DOMAIN aired /\ aired'[i] = aired[i]) \/ aired'[i] = h
      BY <1>1, <1>3, <1>8, AppendElements
    <2>3. \A i \in DOMAIN aired', j \in DOMAIN outbox' : aired'[i] < outbox'[j]
      BY <1>4, <1>5, <2>2
    <2>4. QED
      BY <1>3, <1>4, <1>6, <2>1, <2>3 DEF OrderInv
  <1>9. QED
    BY <1>2, <1>7, <1>8

-----------------------------------------------------------------------------
(* The ring.                                                                *)

LEMMA NextSlot ==
    ASSUME NEW n \in 0 .. DedupLen - 1
    PROVE  (n + 1) % DedupLen = IF n + 1 = DedupLen THEN 0 ELSE n + 1
  <1>1. DedupLen \in Nat /\ DedupLen > 0 /\ n \in Nat
    BY RadioConstants DEF Numbers
  <1>2. \A a, b \in Nat : b > 0 /\ a < b => a % b = a
    OBVIOUS
  <1>3. \A b \in Nat : b > 0 => b % b = 0
    OBVIOUS
  <1>4. QED
    BY <1>1, <1>2, <1>3

\* The slots before the next one, as it moves on.
LEMMA SlotFacts ==
    ASSUME NEW n \in 0 .. DedupLen - 1
    PROVE  LET after == (n + 1) % DedupLen IN
           /\ after \in 0 .. DedupLen - 1
           /\ Slot(after, 1) = n
           /\ \A m \in 1 .. DedupLen : Slot(n, m) \in 0 .. DedupLen - 1
           /\ \A m \in 2 .. DedupLen : Slot(after, m) = Slot(n, m - 1) /\ Slot(n, m - 1) # n
  BY NextSlot, RadioConstants DEF Slot, Numbers

\* A frame not in the ring is handed on, and the ring holds it and the ones before.
LEMMA HandOn ==
    ASSUME RadioTypeOK, RingInv, HeardOnce, NEW f \in Numbers, ~SeenBefore(f),
           sighted' = Remembered(f), handed' = Append(handed, f), ignored' = ignored
    PROVE  /\ sighted' \in [ring : [0 .. DedupLen - 1 -> Nat], next : 0 .. DedupLen - 1]
           /\ handed' \in Seq(Numbers) /\ RingInv' /\ HeardOnce'
  <1> DEFINE n == sighted.next
             L == Len(handed)
             after == (n + 1) % DedupLen
  <1>1. /\ n \in 0 .. DedupLen - 1 /\ L \in Nat /\ handed \in Seq(Numbers)
        /\ sighted.ring \in [0 .. DedupLen - 1 -> Nat] /\ DedupLen \in Numbers
        /\ DOMAIN handed = 1 .. L
    BY RadioConstants DEF RadioTypeOK
  <1>2. /\ sighted'.ring = [sighted.ring EXCEPT ![n] = f] /\ sighted'.next = after
        /\ sighted' = [ring |-> [sighted.ring EXCEPT ![n] = f], next |-> after]
    BY DEF Remembered
  <1>3. /\ sighted'.ring \in [0 .. DedupLen - 1 -> Nat] /\ sighted'.ring[n] = f
        /\ \A k \in 0 .. DedupLen - 1 : k # n => sighted'.ring[k] = sighted.ring[k]
    BY <1>1, <1>2 DEF Numbers
  <1>4. /\ after \in 0 .. DedupLen - 1
        /\ Slot(after, 1) = n
        /\ \A m \in 1 .. DedupLen : Slot(n, m) \in 0 .. DedupLen - 1
        /\ \A m \in 2 .. DedupLen : Slot(after, m) = Slot(n, m - 1) /\ Slot(n, m - 1) # n
    BY <1>1, SlotFacts
  <1>5. /\ handed' \in Seq(Numbers) /\ ElementsOf(handed') = ElementsOf(handed) \cup {f}
        /\ Len(handed') = L + 1 /\ DOMAIN handed' = 1 .. L + 1
        /\ handed'[L + 1] = f /\ \A i \in 1 .. L : handed'[i] = handed[i]
    BY <1>1, AppendElements
  <1> HIDE DEF n, L, after
  <1>6. RingInv'
    <2>1. ASSUME NEW m \in 1 .. DedupLen, m <= L + 1
          PROVE  sighted'.ring[Slot(after, m)] = handed'[L + 2 - m]
      <3>1. CASE m = 1
        BY <1>1, <1>3, <1>4, <1>5, <3>1
      <3>2. CASE m # 1
        <4>1. m - 1 \in 1 .. DedupLen /\ m - 1 <= L /\ m \in 2 .. DedupLen
          BY <1>1, <2>1, <3>2 DEF Numbers
        <4>2. sighted.ring[Slot(n, m - 1)] = handed[L + 1 - (m - 1)]
          BY <4>1 DEF RingInv, n, L
        <4>3. sighted'.ring[Slot(after, m)] = sighted.ring[Slot(n, m - 1)]
          BY <1>3, <1>4, <4>1
        <4>4. L + 1 - (m - 1) = L + 2 - m /\ L + 2 - m \in 1 .. L
          BY <1>1, <4>1
        <4>5. QED
          BY <1>5, <4>2, <4>3, <4>4
      <3>3. QED
        BY <3>1, <3>2
    <2>2. \A k \in 0 .. DedupLen - 1 : sighted'.ring[k] # 0 => sighted'.ring[k] \in ElementsOf(handed')
      BY <1>3, <1>5 DEF RingInv
    <2>3. \A m \in 1 .. DedupLen :
             m <= Len(handed') => sighted'.ring[Slot(sighted'.next, m)] = handed'[Len(handed') + 1 - m]
      <3>1. TAKE m \in 1 .. DedupLen
      <3>2. HAVE m <= Len(handed')
      <3>3. m <= L + 1 /\ Len(handed') + 1 - m = L + 2 - m
        BY <1>1, <1>5, <3>2
      <3>4. QED
        BY <1>2, <2>1, <3>3
    <2>4. QED
      BY <2>2, <2>3 DEF RingInv
  <1>7. HeardOnce'
    <2>1. ASSUME NEW i \in 1 .. L + 1, NEW j \in 1 .. L + 1, i < j, handed'[i] = handed'[j]
          PROVE  j - i > DedupLen
      <3>1. CASE j \in 1 .. L
        <4>1. i \in 1 .. L
          BY <1>1, <2>1, <3>1
        <4>2. handed[i] = handed[j] /\ i \in DOMAIN handed /\ j \in DOMAIN handed
          BY <1>1, <1>5, <2>1, <3>1, <4>1
        <4>3. QED
          BY <2>1, <4>2 DEF HeardOnce
      <3>2. CASE j = L + 1
        <4>1. SUFFICES ASSUME j - i <= DedupLen PROVE FALSE
          BY <1>1 DEF Numbers
        <4>2. /\ i \in 1 .. L /\ i \in Nat /\ j \in Nat /\ DedupLen \in Nat
              /\ j - i \in 1 .. DedupLen /\ j - i <= L /\ L + 1 - (j - i) = i
          <5>1. i \in Nat /\ j \in Nat /\ DedupLen \in Nat /\ i >= 1 /\ i <= L
            BY <1>1, <2>1, <3>2 DEF Numbers
          <5>2. QED
            BY <1>1, <2>1, <3>2, <4>1, <5>1
        <4>3. sighted.ring[Slot(n, j - i)] = handed[i]
          BY <4>2 DEF RingInv, n, L
        <4>4. handed[i] = f
          BY <1>5, <2>1, <3>2, <4>2
        <4>5. Slot(n, j - i) \in DOMAIN sighted.ring
          BY <1>1, <1>4, <4>2
        <4>6. QED
          BY <4>3, <4>4, <4>5 DEF SeenBefore
      <3>3. QED
        BY <1>1, <3>1, <3>2
    <2>2. ignored' \subseteq ElementsOf(handed')
      BY <1>5 DEF HeardOnce
    <2>3. QED
      BY <1>5, <2>1, <2>2 DEF HeardOnce
  <1>8. QED
    BY <1>2, <1>3, <1>4, <1>5, <1>6, <1>7

LEMMA DrainKeeps ==
    ASSUME RadioTypeOK, RingInv, HeardOnce, DrainOne
    PROVE  /\ rx' \in Seq(Numbers) /\ handed' \in Seq(Numbers)
           /\ sighted' \in [ring : [0 .. DedupLen - 1 -> Nat], next : 0 .. DedupLen - 1]
           /\ RingInv' /\ HeardOnce'
  <1> DEFINE f == Head(rx)
  <1>1. rx' \in Seq(Numbers) /\ f \in Numbers
    BY TailElements DEF DrainOne, RadioTypeOK
  <1>2. CASE SeenBefore(f)
    <2>1. ignored' = ignored \cup {f} /\ UNCHANGED <<sighted, handed>>
      BY <1>2 DEF DrainOne
    <2>2. f \in ElementsOf(handed)
      <3>1. sighted.ring \in [0 .. DedupLen - 1 -> Nat]
        BY DEF RadioTypeOK
      <3>2. PICK k \in 0 .. DedupLen - 1 : sighted.ring[k] = f
        BY <1>2, <3>1 DEF SeenBefore
      <3>3. QED
        BY <1>1, <3>2 DEF RingInv, Numbers
    <2>3. RingInv'
      BY <2>1 DEF RingInv
    <2>4. HeardOnce'
      BY <2>1, <2>2 DEF HeardOnce
    <2>5. QED
      BY <1>1, <2>1, <2>3, <2>4 DEF RadioTypeOK
  <1>3. CASE ~SeenBefore(f)
    <2>1. sighted' = Remembered(f) /\ handed' = Append(handed, f) /\ ignored' = ignored
      BY <1>3 DEF DrainOne
    <2>2. QED
      BY <1>1, <1>3, <2>1, HandOn
  <1>4. QED
    BY <1>2, <1>3

-----------------------------------------------------------------------------
(* The invariant.                                                           *)

LEMMA RadioStarts == RadioInit => RadioInv
  <1>1. SUFFICES ASSUME RadioInit PROVE RadioInv
    OBVIOUS
  <1>2. /\ numbered = 0 /\ outbox = <<>> /\ aired = <<>> /\ rx = <<>> /\ handed = <<>>
        /\ driver = [configured |-> FALSE, advertising |-> FALSE, left |-> 0]
        /\ host = "noticed" /\ advert = [there |-> FALSE, frame |-> 0]
        /\ unnoticed = FALSE /\ waited = 0 /\ forgone = {} /\ refused = {} /\ ignored = {}
        /\ sighted = [ring |-> [i \in 0 .. DedupLen - 1 |-> 0], next |-> 0]
    BY <1>1 DEF RadioInit, NoInstance
  <1>3. RadioTypeOK
    <2>1. DedupLen \in Numbers /\ AdvertPasses \in Numbers /\ 0 \in 0 .. AdvertPasses /\ 0 \in 0 .. DedupLen - 1
      BY RadioConstants DEF Numbers
    <2>2. sighted \in [ring : [0 .. DedupLen - 1 -> Nat], next : 0 .. DedupLen - 1]
      BY <1>2, <2>1
    <2>3. /\ driver \in [configured : BOOLEAN, advertising : BOOLEAN, left : 0 .. AdvertPasses]
          /\ advert \in [there : BOOLEAN, frame : Nat]
      BY <1>2, <2>1
    <2>4. /\ outbox \in Seq(Numbers) /\ aired \in Seq(Numbers)
          /\ rx \in Seq(Numbers) /\ handed \in Seq(Numbers)
      BY <1>2
    <2>5. /\ numbered \in Nat /\ waited \in Nat /\ unnoticed \in BOOLEAN
          /\ host \in {"synced", "reset", "noticed"}
      BY <1>2
    <2>6. QED
      BY <2>2, <2>3, <2>4, <2>5 DEF RadioTypeOK
  <1>4. InstanceInv /\ WaitInv
    BY <1>2, RadioConstants DEF InstanceInv, WaitInv, Numbers
  <1>5. OrderInv
    BY <1>2 DEF OrderInv, ElementsOf, Increasing
  <1>6. RingInv /\ HeardOnce
    BY <1>2, RadioConstants DEF RingInv, HeardOnce, ElementsOf, Numbers
  <1>7. QED
    BY <1>3, <1>4, <1>5, <1>6 DEF RadioInv

LEMMA RadioKeeps == RadioInv /\ [RadioNext]_radioVars => RadioInv'
  <1>1. SUFFICES ASSUME RadioInv, [RadioNext]_radioVars PROVE RadioInv'
    OBVIOUS
  <1>2. RadioTypeOK /\ InstanceInv /\ WaitInv /\ RingInv /\ HeardOnce /\ ("ble" \in radios => OrderInv)
    BY <1>1 DEF RadioInv
  <1>3. CASE SendFrame
    <2>1. /\ UNCHANGED <<radios, driver, host, advert, aired, refused, unnoticed, waited, sighted, handed, ignored>>
          /\ numbered' = numbered + 1
      BY <1>3 DEF SendFrame, hearVars
    <2>2. outbox' \in Seq(Numbers) /\ rx' \in Seq(Numbers)
      <3>1. numbered + 1 \in Numbers /\ outbox \in Seq(Numbers) /\ rx \in Seq(Numbers)
        BY <1>2 DEF RadioTypeOK, Numbers
      <3>2. BleSend(numbered + 1) \in Seq(Numbers) /\ OnRecv(numbered + 1) \in Seq(Numbers)
        BY <1>2, <3>1, BleSendFits, OnRecvFits
      <3>3. /\ outbox' = BleSend(numbered + 1) \/ outbox' = outbox
            /\ rx' = OnRecv(numbered + 1) \/ rx' = rx
        BY <1>3 DEF SendFrame
      <3>4. QED
        BY <3>1, <3>2, <3>3
    <2>3. RadioTypeOK'
      BY <1>2, <2>1, <2>2 DEF RadioTypeOK
    <2>4. InstanceInv' /\ WaitInv'
      BY <1>2, <2>1 DEF InstanceInv, WaitInv
    <2>5. RingInv' /\ HeardOnce'
      BY <1>2, <2>1 DEF RingInv, HeardOnce
    <2>6. "ble" \in radios' => OrderInv'
      BY <1>2, <1>3, <2>1, SendKeepsOrder
    <2>7. QED
      BY <2>3, <2>4, <2>5, <2>6 DEF RadioInv
  <1>4. CASE PollRadio
    <2>1. /\ UNCHANGED <<radios, numbered, sighted, handed, ignored, rx, unnoticed>>
          /\ driver' \in [configured : BOOLEAN, advertising : BOOLEAN, left : 0 .. AdvertPasses]
          /\ advert' \in [there : BOOLEAN, frame : Nat]
          /\ host' \in {"synced", "reset", "noticed"} /\ waited' \in Nat
          /\ InstanceInv' /\ WaitInv'
      BY <1>2, <1>4, PollFacts
    <2>2. /\ outbox' \in Seq(Numbers) /\ aired' \in Seq(Numbers)
          /\ "ble" \in radios' => OrderInv'
      <3>1. CASE Advertise \/ AdvertiseRefused \/ AdvertiseFails
        <4>1. "ble" \in radios
          BY <3>1 DEF Advertise, AdvertiseRefused, AdvertiseFails, TakesFrame, RadioReady
        <4>2. QED
          BY <1>2, <3>1, <4>1, TakeKeepsOrder
      <3>2. CASE PollUnsynced \/ ConfigureFails \/ PollBusy \/ PollEmpty
        <4>1. UNCHANGED <<outbox, aired, forgone, refused>>
          BY <3>2 DEF PollUnsynced, ConfigureFails, PollBusy, PollEmpty, sendVars
        <4>2. QED
          BY <1>2, <2>1, <4>1 DEF OrderInv, RadioTypeOK
      <3>3. QED
        BY <1>4, <3>1, <3>2 DEF PollRadio
    <2>3. RadioTypeOK'
      BY <1>2, <2>1, <2>2 DEF RadioTypeOK
    <2>4. RingInv' /\ HeardOnce'
      BY <1>2, <2>1 DEF RingInv, HeardOnce
    <2>5. QED
      BY <2>1, <2>2, <2>3, <2>4 DEF RadioInv
  <1>5. CASE HostResets \/ HostSyncs
    <2>1. UNCHANGED <<radios, numbered, outbox, forgone, driver, rx, aired, refused, waited, sighted, handed, ignored>>
      BY <1>5 DEF HostResets, HostSyncs, sendVars, hearVars
    <2>2. /\ advert' \in [there : BOOLEAN, frame : Nat] /\ host' \in {"synced", "reset", "noticed"}
          /\ unnoticed' \in BOOLEAN
      <3>1. unnoticed \in BOOLEAN /\ advert \in [there : BOOLEAN, frame : Nat]
        BY <1>2 DEF RadioTypeOK
      <3>2. /\ advert' = [there |-> FALSE, frame |-> 0] \/ advert' = advert
            /\ host' = "reset" \/ host' = "synced"
        BY <1>5 DEF HostResets, HostSyncs, NoInstance
      <3>3. unnoticed' = unnoticed \/ unnoticed' = (unnoticed \/ host = "reset")
        BY <1>5 DEF HostResets, HostSyncs
      <3>4. unnoticed' \in BOOLEAN
        <4>1. (unnoticed \/ host = "reset") \in BOOLEAN
          OBVIOUS
        <4>2. QED
          BY <3>1, <3>3, <4>1, Zenon
      <3>5. advert' \in [there : BOOLEAN, frame : Nat]
        <4>1. [there |-> FALSE, frame |-> 0] \in [there : BOOLEAN, frame : Nat]
          OBVIOUS
        <4>2. QED
          BY <3>1, <3>2, <4>1, Zenon
      <3>6. QED
        BY <3>2, <3>4, <3>5, Zenon
    <2>3. InstanceInv'
      <3>1. CASE HostResets
        <4>1. /\ host' = "reset" /\ ~advert'.there /\ advert'.frame = 0
              /\ UNCHANGED <<driver, refused, unnoticed>>
          BY <3>1 DEF HostResets, NoInstance
        <4>2. QED
          BY <1>2, <4>1 DEF InstanceInv
      <3>2. CASE HostSyncs
        <4>1. /\ host # "synced" /\ host' = "synced" /\ (unnoticed \/ host = "reset" => unnoticed')
              /\ UNCHANGED <<driver, refused, advert>>
          BY <3>2 DEF HostSyncs
        <4>2. host = "reset" \/ host = "noticed"
          BY <1>2, <4>1 DEF RadioTypeOK
        <4>3. QED
          BY <1>2, <4>1, <4>2 DEF InstanceInv
      <3>3. QED
        BY <1>5, <3>1, <3>2
    <2>4. RadioTypeOK'
      BY <1>2, <2>1, <2>2 DEF RadioTypeOK
    <2>5. WaitInv' /\ RingInv' /\ HeardOnce' /\ ("ble" \in radios' => OrderInv')
      BY <1>2, <2>1 DEF WaitInv, RingInv, HeardOnce, OrderInv
    <2>6. QED
      BY <2>3, <2>4, <2>5 DEF RadioInv
  <1>6. CASE HearAdvert
    <2>1. /\ UNCHANGED <<radios, numbered, outbox, forgone, driver, host, advert, aired, refused, unnoticed, waited>>
          /\ UNCHANGED <<sighted, handed, ignored>>
          /\ advert.frame # 0 /\ rx' = OnRecv(advert.frame)
      BY <1>6 DEF HearAdvert, sendVars, hearVars
    <2>2. rx' \in Seq(Numbers)
      <3>1. advert.frame \in Numbers
        BY <1>2, <2>1 DEF RadioTypeOK, Numbers
      <3>2. QED
        BY <1>2, <2>1, <3>1, OnRecvFits
    <2>3. RadioTypeOK'
      BY <1>2, <2>1, <2>2 DEF RadioTypeOK
    <2>4. InstanceInv' /\ WaitInv' /\ RingInv' /\ HeardOnce' /\ ("ble" \in radios' => OrderInv')
      BY <1>2, <2>1 DEF InstanceInv, WaitInv, RingInv, HeardOnce, OrderInv
    <2>5. QED
      BY <2>3, <2>4 DEF RadioInv
  <1>7. CASE DrainOne
    <2>1. UNCHANGED <<radios, numbered, outbox, forgone, driver, host, advert, aired, refused, unnoticed, waited>>
      BY <1>7 DEF DrainOne, sendVars
    <2>2. /\ rx' \in Seq(Numbers) /\ handed' \in Seq(Numbers)
          /\ sighted' \in [ring : [0 .. DedupLen - 1 -> Nat], next : 0 .. DedupLen - 1]
          /\ RingInv' /\ HeardOnce'
      BY <1>2, <1>7, DrainKeeps
    <2>3. RadioTypeOK'
      BY <1>2, <2>1, <2>2 DEF RadioTypeOK
    <2>4. InstanceInv' /\ WaitInv' /\ ("ble" \in radios' => OrderInv')
      BY <1>2, <2>1 DEF InstanceInv, WaitInv, OrderInv
    <2>5. QED
      BY <2>2, <2>3, <2>4 DEF RadioInv
  <1>8. CASE UNCHANGED radioVars
    <2>1. UNCHANGED <<radios, numbered, outbox, driver, host, advert, rx, sighted, aired, forgone,
                      refused, unnoticed, waited, handed, ignored>>
      BY <1>8 DEF radioVars
    <2>2. RadioTypeOK' /\ InstanceInv' /\ WaitInv' /\ RingInv' /\ HeardOnce' /\ ("ble" \in radios' => OrderInv')
      BY <1>2, <2>1 DEF RadioTypeOK, InstanceInv, WaitInv, RingInv, HeardOnce, OrderInv
    <2>3. QED
      BY <2>2 DEF RadioInv
  <1>9. QED
    BY <1>1, <1>3, <1>4, <1>5, <1>6, <1>7, <1>8 DEF RadioNext

\* The types, the driver's view of its advert, the wait, the order and the ring
\* hold in every state.
THEOREM RadioInvariant == RadioSpec => []RadioInv
  BY RadioStarts, RadioKeeps, PTL DEF RadioSpec

LEMMA FramesHaveTheirPlace == RadioInv => FramesAired
  <1>1. SUFFICES ASSUME RadioInv, "ble" \in radios PROVE FramesAired
    BY DEF FramesAired
  <1>2. RadioTypeOK /\ InstanceInv /\ WaitInv /\ OrderInv
    BY <1>1 DEF RadioInv
  <1>3. Increasing(aired \o outbox)
    BY <1>2, IncreasingBoth DEF OrderInv, RadioTypeOK
  <1>4. QED
    BY <1>2, <1>3 DEF FramesAired, OrderInv, InstanceInv, WaitInv

\* Every frame send_frame has numbered waits in the outbox, went on the air, was
\* pushed out, or failed with a call of the host; they go in their order, none waits
\* longer than one window, and no advert is left on the air that ble_poll does not
\* know of, through any number of resets of the host.
THEOREM FramesAreAired == RadioSpec => []FramesAired
  BY RadioInvariant, FramesHaveTheirPlace, PTL

\* mesh_task hands mesh_core no frame again within a ring's length, and drops none
\* as a repeat that it has not handed on.
THEOREM FramesAreHeardOnce == RadioSpec => []HeardOnce
  <1>1. RadioInv => HeardOnce
    BY DEF RadioInv
  <1>2. QED
    BY <1>1, RadioInvariant, PTL

\* Both: each numbered frame has its place on the way to the air, and each heard is handed
\* on once (mesh_ble.c, mesh.c), whichever radios there are.
THEOREM AlwaysAiredAndHeard == RadioSpec => []AiredAndHeard
  BY FramesAreAired, FramesAreHeardOnce, PTL DEF AiredAndHeard
==============================================================================
