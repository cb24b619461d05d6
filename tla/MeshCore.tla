------------------------------ MODULE MeshCore ------------------------------
(***************************************************************************)
(* The friending handshake of the rider mesh: mesh_core.c on every terminal *)
(* and the radio between them.                                              *)
(*                                                                          *)
(* A terminal is known on the air by a pseudonym drawn at boot, and on disk *)
(* by its rider's permanent id, which it hands over with its key.  Here a   *)
(* pseudonym is <<rider, boot>>; resolving one to a friend is Owner(p).     *)
(*                                                                          *)
(* Time is abstract.  "Ten seconds without a frame" is the step GoSilent;   *)
(* which retries, acknowledgements and screen timeouts a tick finds due is  *)
(* the tick's choice.  Looks, signal strength, positions and the key bytes  *)
(* are not modelled: no guard of the handshake reads them.                  *)
(*                                                                          *)
(* An operator named for a slip (CrossedAnyone, FitsAlways, ...) is a wrong *)
(* version of the one it stands before, to test the properties with.        *)
(***************************************************************************)
EXTENDS Naturals, FiniteSets

CONSTANTS
    Rider,        \* the riders, one terminal each
    Nobody,       \* the prompt's rider when there is no prompt
    MaxBoots,     \* bound: restarts of one terminal
    MaxPeers,     \* MESH_MAX_PEERS
    MaxFriends,   \* MESH_MAX_FRIENDS
    AcceptTries,  \* MESH_ACCEPT_TRIES
    KeysTries,    \* MESH_KEYS_TRIES
    MaxLoss,      \* bound: frames taken off the air by noise
    OnAir         \* bound: frames from one terminal to another on the air when a retry is due

Boot  == 0 .. MaxBoots
Pseud == Rider \X Boot
Owner(p) == p[1]

ASSUME CoreAssumption ==
    /\ IsFiniteSet(Rider) /\ Nobody \notin Pseud
    /\ MaxBoots \in Nat /\ MaxPeers \in Nat /\ MaxFriends \in Nat
    /\ AcceptTries \in Nat \ {0} /\ KeysTries \in Nat \ {0} /\ MaxLoss \in Nat
    /\ OnAir \in Nat \ {0}

VARIABLES
    boot,     \* how often a terminal has restarted: its current pseudonym
    enabled,  \* the mesh is switched on in the settings
    menu,     \* the rider is in Add friend
    friends,  \* the stored friend list, as permanent ids
    peers,    \* the peer table, by pseudonym; NoPeer is a free slot
    prompt,   \* the friend prompt and the pseudonym it is about
    air,      \* handshake frames on the air
    lost,     \* frames lost so far
    said,     \* history: <<a, b>> when a's rider has held on b
    dropped   \* history: <<a, b>> when a's phone has taken b off the list

vars == <<boot, enabled, menu, friends, peers, prompt, air, lost, said, dropped>>

Moving == {"accept_sent", "keys_sent"}      \* keys are moving
Asking == {"req_sent", "req_recv"}          \* a close of the prompt ends these
Hs     == {"none"} \cup Asking \cup Moving

PeerRec == [used : BOOLEAN, fresh : BOOLEAN, hs : Hs, consented : BOOLEAN,
            tries : 0 .. (AcceptTries + KeysTries), ack : BOOLEAN]
NoPeer  == [used |-> FALSE, fresh |-> FALSE, hs |-> "none", consented |-> FALSE,
            tries |-> 0, ack |-> FALSE]
NewPeer == [NoPeer EXCEPT !.used = TRUE, !.fresh = TRUE]

Prompt   == [st : {"none", "offer", "waiting", "done"}, id : Pseud \cup {Nobody}]
NoPrompt == [st |-> "none", id |-> Nobody]

Frame == [type : {"request", "accept", "keys", "ack"}, from : Pseud, to : Pseud]
Msg(type, from, to) == [type |-> type, from |-> from, to |-> to]

Me(t) == <<t, boot[t]>>
Friendly(t, p) == Owner(p) \in friends[t]
ListFull(t) == Cardinality(friends[t]) >= MaxFriends

TypeOK ==
    /\ boot \in [Rider -> Boot]
    /\ enabled \in [Rider -> BOOLEAN]
    /\ menu \in [Rider -> BOOLEAN]
    /\ friends \in [Rider -> SUBSET Rider]
    /\ peers \in [Rider -> [Pseud -> PeerRec]]
    /\ prompt \in [Rider -> Prompt]
    /\ air \in SUBSET Frame
    /\ lost \in 0 .. MaxLoss
    /\ said \in SUBSET (Rider \X Rider)
    /\ dropped \in SUBSET (Rider \X Rider)

\* Lists from earlier rides are loaded before the radio starts; a wiped
\* terminal leaves them one-sided.
Init ==
    /\ boot = [t \in Rider |-> 0]
    /\ enabled = [t \in Rider |-> TRUE]
    /\ menu = [t \in Rider |-> FALSE]
    /\ friends \in [Rider -> SUBSET Rider]
    /\ \A t \in Rider : t \notin friends[t] /\ Cardinality(friends[t]) <= MaxFriends
    /\ peers = [t \in Rider |-> [p \in Pseud |-> NoPeer]]
    /\ prompt = [t \in Rider |-> NoPrompt]
    /\ air = {}
    /\ lost = 0
    /\ said = {e \in Rider \X Rider : e[2] \in friends[e[1]] \/ e[1] \in friends[e[2]]}
    /\ dropped = {}

-----------------------------------------------------------------------------
(* Steps of one peer's handshake.                                           *)

\* The rider acted: the first frame goes out at once, retries follow.
Started(r, hs)  == [r EXCEPT !.hs = hs, !.tries = 1]
\* A frame asked for this: the first frame waits for a tick.
Deferred(r, hs) == [r EXCEPT !.hs = hs, !.tries = 0]
\* `tries` is dead once hs is none; it is kept at 0 there.
Ended(r)        == [r EXCEPT !.hs = "none", !.tries = 0]

ClosedPageOnly(ps, id) == ps
\* close_prompt on a peer table: an unanswered request ends with its page.
Closed(ps, id) ==
    [p \in Pseud |-> IF p = id /\ ps[p].hs \in Asking
                     THEN [Ended(ps[p]) EXCEPT !.consented = FALSE]
                     ELSE ps[p]]

\* Both riders asked: each request is the other's consent.
CrossedAnyone(r) == r.hs \in {"req_sent", "none"}
Crossed(r) == r.hs = "req_sent"

\* lapse: the waiting page goes with the handshake it waits for.
PromptLapsed(pr, p) == IF pr.st = "waiting" /\ pr.id = p THEN NoPrompt ELSE pr

FitsAlways(t, p) == TRUE
\* The friend list takes a rider it holds already, or has room for.
Fits(t, p) == Friendly(t, p) \/ ~ListFull(t)

\* complete: store the rider and show it on a prompt about them.
PromptUndone(pr, p) == pr
PromptDone(pr, p) == IF pr.st # "none" /\ pr.id = p THEN [pr EXCEPT !.st = "done"] ELSE pr
AddFriendUnlessAnswering(t, p) ==
    IF peers[t][p].hs = "accept_sent" THEN UNCHANGED friends
    ELSE friends' = [friends EXCEPT ![t] = @ \cup {Owner(p)}]
AddFriend(t, p) == friends' = [friends EXCEPT ![t] = @ \cup {Owner(p)}]

SetPeer(t, p, r) == peers' = [peers EXCEPT ![t][p] = r]

Used(t) == {p \in Pseud : peers[t][p].used}
\* A full table gives up its longest-silent peer for a new one.
Victims(t) ==
    LET silent == {p \in Used(t) : ~peers[t][p].fresh}
    IN  IF Cardinality(Used(t)) < MaxPeers THEN {}
        ELSE IF silent # {} THEN silent ELSE Used(t)

-----------------------------------------------------------------------------
(* The radio.                                                               *)

HearUncleared(t, u) ==
    LET p == Me(u) IN
    /\ t # u /\ enabled[t] /\ enabled[u]
    /\ IF ~peers[t][p].used /\ Victims(t) # {}
       THEN \E v \in Victims(t) : peers' = [peers EXCEPT ![t][v] = NoPeer, ![t][p] = peers[t][v]]
       ELSE SetPeer(t, p, IF peers[t][p].used THEN [peers[t][p] EXCEPT !.fresh = TRUE] ELSE NewPeer)
    /\ UNCHANGED <<boot, enabled, menu, friends, prompt, air, lost, said, dropped>>

\* Hearing a beacon (HELLO, or POS and LOOK from a friend) makes or refreshes
\* the sender's peer entry.
Hear(t, u) ==
    LET p == Me(u) IN
    /\ t # u /\ enabled[t] /\ enabled[u]
    /\ \/ /\ peers[t][p].used
          /\ SetPeer(t, p, [peers[t][p] EXCEPT !.fresh = TRUE])
       \/ /\ ~peers[t][p].used
          /\ Victims(t) = {}
          /\ SetPeer(t, p, NewPeer)
       \/ /\ ~peers[t][p].used
          /\ \E v \in Victims(t) : peers' = [peers EXCEPT ![t][v] = NoPeer, ![t][p] = NewPeer]
    /\ UNCHANGED <<boot, enabled, menu, friends, prompt, air, lost, said, dropped>>

\* MESH_PEER_TIMEOUT_MS pass without a frame from p.
GoSilent(t, p) ==
    /\ peers[t][p].used /\ peers[t][p].fresh
    /\ SetPeer(t, p, [peers[t][p] EXCEPT !.fresh = FALSE])
    /\ UNCHANGED <<boot, enabled, menu, friends, prompt, air, lost, said, dropped>>

\* A frame for t is taken off the air; the repeats of its advert window are
\* dropped before they get here.
Arrives(t, f, type) ==
    /\ enabled[t]
    /\ f.type = type /\ f.to = Me(t) /\ Owner(f.from) # t
    /\ air' = air \ {f}
    /\ UNCHANGED <<boot, enabled, menu, lost, said, dropped>>

RxRequest(t, f) ==
    LET p == f.from
        r == [peers[t][p] EXCEPT !.fresh = TRUE]
    IN
    /\ Arrives(t, f, "request")
    /\ UNCHANGED friends
    /\ \/ /\ ~r.used                              \* no HELLO yet: stay silent
          /\ UNCHANGED <<peers, prompt>>
       \/ /\ r.used /\ Friendly(t, p)             \* their list was lost
          /\ SetPeer(t, p, IF r.hs = "none" THEN Deferred(r, "accept_sent") ELSE r)
          /\ UNCHANGED prompt
       \/ /\ r.used /\ ~Friendly(t, p)
          /\ Crossed(r)
          /\ SetPeer(t, p, [Deferred(r, "accept_sent") EXCEPT !.consented = TRUE])
          /\ UNCHANGED prompt
       \/ /\ r.used /\ ~Friendly(t, p)
          /\ r.hs = "none" /\ prompt[t].st = "none" /\ ~ListFull(t)
          /\ SetPeer(t, p, [r EXCEPT !.hs = "req_recv"])
          /\ prompt' = [prompt EXCEPT ![t] = [st |-> "offer", id |-> p]]
       \/ /\ r.used /\ ~Friendly(t, p)            \* busy, full or answering
          /\ ~Crossed(r)
          /\ r.hs # "none" \/ prompt[t].st # "none" \/ ListFull(t)
          /\ SetPeer(t, p, r)
          /\ UNCHANGED prompt

RxAccept(t, f) ==
    LET p == f.from
        r == [peers[t][p] EXCEPT !.fresh = TRUE]
        welcome == r.used /\ r.hs \in {"req_sent"} \cup Moving
    IN
    /\ Arrives(t, f, "accept")
    /\ \/ /\ ~welcome
          /\ UNCHANGED <<friends, peers, prompt>>
       \/ /\ welcome /\ Fits(t, p)
          /\ AddFriend(t, p)
          /\ SetPeer(t, p, Deferred(r, "keys_sent"))
          /\ prompt' = [prompt EXCEPT ![t] = PromptDone(@, p)]
       \/ /\ welcome /\ ~Fits(t, p)
          /\ SetPeer(t, p, Ended(r))
          /\ prompt' = [prompt EXCEPT ![t] = PromptLapsed(@, p)]
          /\ UNCHANGED friends

RxKeys(t, f) ==
    LET p == f.from
        r == [peers[t][p] EXCEPT !.fresh = TRUE]
        late == r.hs = "none" /\ r.consented      \* the ACCEPT retries ran out first
        welcome == r.used /\ (r.hs \in Moving \/ late)
        acked == [r EXCEPT !.ack = TRUE]
    IN
    /\ Arrives(t, f, "keys")
    /\ \/ /\ r.used /\ ~welcome /\ r.hs = "none" /\ Friendly(t, p)   \* our ACK was lost
          /\ SetPeer(t, p, acked)
          /\ UNCHANGED <<friends, prompt>>
       \/ /\ ~welcome /\ ~(r.used /\ r.hs = "none" /\ Friendly(t, p))
          /\ UNCHANGED <<friends, peers, prompt>>
       \/ /\ welcome /\ Fits(t, p)
          /\ AddFriend(t, p)
          /\ SetPeer(t, p, IF r.hs = "accept_sent" THEN Ended(acked) ELSE acked)
          /\ prompt' = [prompt EXCEPT ![t] =
                IF late /\ @.st = "none" THEN [st |-> "done", id |-> p] ELSE PromptDone(@, p)]
       \/ /\ welcome /\ ~Fits(t, p)
          /\ SetPeer(t, p, Ended(r))
          /\ prompt' = [prompt EXCEPT ![t] = PromptLapsed(@, p)]
          /\ UNCHANGED friends

RxAck(t, f) ==
    LET r == peers[t][f.from] IN
    /\ Arrives(t, f, "ack")
    /\ SetPeer(t, f.from, IF r.used /\ r.hs = "keys_sent" THEN Ended(r) ELSE r)
    /\ UNCHANGED <<friends, prompt>>

\* Noise: a frame nobody heard.
Lose(f) ==
    /\ lost < MaxLoss
    /\ lost' = lost + 1
    /\ air' = air \ {f}
    /\ UNCHANGED <<boot, enabled, menu, friends, peers, prompt, said, dropped>>

-----------------------------------------------------------------------------
(* The rider.                                                               *)

\* Holding on a rider who asked us.
Accept(t, p) ==
    /\ prompt[t] = [st |-> "offer", id |-> p]
    /\ peers[t][p].used /\ peers[t][p].hs = "req_recv"
    /\ SetPeer(t, p, [Started(peers[t][p], "accept_sent") EXCEPT !.consented = TRUE])
    /\ prompt' = [prompt EXCEPT ![t].st = "waiting"]
    /\ air' = air \cup {Msg("accept", Me(t), p)}
    /\ said' = said \cup {<<t, Owner(p)>>}
    /\ UNCHANGED <<boot, enabled, menu, friends, lost, dropped>>

\* Holding on a rider from the cards: it replaces our own unanswered request,
\* or passes over a rider asking us.
Request(t, p) ==
    LET pr     == prompt[t]
        closed == IF pr.st = "none" THEN peers[t] ELSE Closed(peers[t], pr.id)
    IN
    /\ enabled[t] /\ ~ListFull(t)
    /\ pr.st # "done"
    /\ peers[t][p].used /\ peers[t][p].hs # "req_recv"
    /\ pr.st # "none" => pr.id # p /\ peers[t][pr.id].hs \notin Moving
    /\ closed[p].fresh /\ closed[p].hs = "none" /\ ~Friendly(t, p)
    /\ peers' = [peers EXCEPT ![t] =
          [q \in Pseud |-> LET r == [closed[q] EXCEPT !.consented = FALSE]
                           IN  IF q = p THEN Started(r, "req_sent") ELSE r]]
    /\ prompt' = [prompt EXCEPT ![t] = [st |-> "waiting", id |-> p]]
    /\ air' = air \cup {Msg("request", Me(t), p)}
    /\ said' = said \cup {<<t, Owner(p)>>}
    /\ UNCHANGED <<boot, enabled, menu, friends, lost, dropped>>

\* A hold refused for its own sake may still have closed another's page.
RefusedRequest(t, p) ==
    LET pr     == prompt[t]
        closed == Closed(peers[t], pr.id)
    IN
    /\ enabled[t] /\ ~ListFull(t)
    /\ pr.st \in {"offer", "waiting"} /\ pr.id # p /\ peers[t][pr.id].hs \notin Moving
    /\ peers[t][p].used /\ peers[t][p].hs # "req_recv"
    /\ ~closed[p].fresh \/ closed[p].hs # "none" \/ Friendly(t, p)
    /\ peers' = [peers EXCEPT ![t] = closed]
    /\ prompt' = [prompt EXCEPT ![t] = NoPrompt]
    /\ UNCHANGED <<boot, enabled, menu, friends, air, lost, said, dropped>>

OpenMenu(t) ==
    /\ ~menu[t]
    /\ menu' = [menu EXCEPT ![t] = TRUE]
    /\ UNCHANGED <<boot, enabled, friends, peers, prompt, air, lost, said, dropped>>

\* Leaving Add friend withdraws an unanswered request and passes over a rider
\* asking us; a handshake whose keys are moving goes on.
CloseMenu(t) ==
    LET pr    == prompt[t]
        leave == pr.st \in {"offer", "waiting"}
                 /\ (~peers[t][pr.id].used \/ peers[t][pr.id].hs \in Asking)
    IN
    /\ menu[t]
    /\ menu' = [menu EXCEPT ![t] = FALSE]
    /\ IF leave
       THEN /\ peers' = [peers EXCEPT ![t] = Closed(@, pr.id)]
            /\ prompt' = [prompt EXCEPT ![t] = NoPrompt]
       ELSE UNCHANGED <<peers, prompt>>
    /\ UNCHANGED <<boot, enabled, friends, air, lost, said, dropped>>

\* The mesh switch in the settings.
SetEnabled(t) ==
    /\ enabled' = [enabled EXCEPT ![t] = ~@]
    /\ prompt' = IF enabled[t] THEN [prompt EXCEPT ![t] = NoPrompt] ELSE prompt
    /\ UNCHANGED <<boot, menu, friends, peers, air, lost, said, dropped>>

-----------------------------------------------------------------------------
(* The tick: expiry, the prompt's timeouts, acknowledgements and retries.   *)

LimitAccept(hs) == AcceptTries
LimitMissing(hs) == AcceptTries + KeysTries + 1
Limit(hs) == IF hs = "keys_sent" THEN KeysTries ELSE AcceptTries

\* Silent peers leave the table, the one the prompt is about excepted.
Expired(t) ==
    [p \in Pseud |-> IF ~peers[t][p].fresh /\ p # prompt[t].id THEN NoPeer ELSE peers[t][p]]

\* run_prompt closes a page that has been up long enough, or whose rider rode apart.
PageEnds(pr, ps, timeout) ==
    \/ pr.st = "done" /\ timeout
    \/ pr.st \in {"offer", "waiting"} /\ (timeout \/ ~ps[pr.id].used \/ ~ps[pr.id].fresh)

\* One pass of the retry loop over peer p; `due` says its deadline has come.
Lapses(r, due)  == r.hs \in Moving /\ due /\ r.tries >= Limit(r.hs)
Resends(r, due) == r.hs \in Moving /\ due /\ r.tries < Limit(r.hs)
Unpaged(r, p, pr) == r.hs = "req_sent" /\ pr # [st |-> "waiting", id |-> p]

Retried(r, p, pr, due) ==
    IF Lapses(r, due) \/ Unpaged(r, p, pr) THEN Ended(r)
    ELSE IF Resends(r, due) THEN [r EXCEPT !.tries = @ + 1] ELSE r

RetryFramesFallthrough(t, r, p, pr, due) ==
    IF r.hs = "req_sent" /\ ~Unpaged(r, p, pr) /\ due THEN {Msg("request", Me(t), p)}
    ELSE IF due /\ r.hs \in {"req_recv"} \cup Moving
    THEN {Msg(IF r.hs = "keys_sent" THEN "keys" ELSE "accept", Me(t), p)}
    ELSE {}

\* What the loop sends to p.
RetryFrames(t, r, p, pr, due) ==
    IF r.hs = "req_sent" /\ ~Unpaged(r, p, pr) /\ due THEN {Msg("request", Me(t), p)}
    ELSE IF Resends(r, due) THEN {Msg(IF r.hs = "accept_sent" THEN "accept" ELSE "keys", Me(t), p)}
    ELSE {}

Tick(t, timeout, due, acks) ==
    LET kept == Expired(t)
        ends == PageEnds(prompt[t], kept, timeout)
        pr   == IF ends THEN NoPrompt ELSE prompt[t]
        ps   == IF ends /\ prompt[t].st # "done" THEN Closed(kept, prompt[t].id) ELSE kept
        owed == {p \in acks : ps[p].ack}
    IN
    /\ enabled[t]
    /\ peers' = [peers EXCEPT ![t] =
          [p \in Pseud |-> [Retried(ps[p], p, pr, p \in due) EXCEPT !.ack = @ /\ p \notin owed]]]
    /\ prompt' = [prompt EXCEPT ![t] =
          IF pr.st = "waiting" /\ Lapses(ps[pr.id], pr.id \in due) THEN NoPrompt ELSE pr]
    /\ air' = air \cup {Msg("ack", Me(t), p) : p \in owed}
                  \cup UNION {RetryFrames(t, ps[p], p, pr, p \in due) : p \in Pseud}
    /\ UNCHANGED <<boot, enabled, menu, friends, lost, said, dropped>>

-----------------------------------------------------------------------------
(* Restarts, and the phone's writes to the friend list.                     *)

\* A restart keeps the stored list and the switch; the pseudonym is new.
Restart(t) ==
    /\ boot[t] < MaxBoots
    /\ boot' = [boot EXCEPT ![t] = @ + 1]
    /\ menu' = [menu EXCEPT ![t] = FALSE]
    /\ peers' = [peers EXCEPT ![t] = [p \in Pseud |-> NoPeer]]
    /\ prompt' = [prompt EXCEPT ![t] = NoPrompt]
    /\ air' = {f \in air : f.to # Me(t)}         \* nobody answers to it any more
    /\ UNCHANGED <<enabled, friends, lost, said, dropped>>

\* The phone writes back a friend: one both riders once agreed to.
PhoneUpsert(t, u) ==
    /\ {<<t, u>>, <<u, t>>} \subseteq said
    /\ u \in friends[t] \/ ~ListFull(t)
    /\ friends' = [friends EXCEPT ![t] = @ \cup {u}]
    /\ UNCHANGED <<boot, enabled, menu, peers, prompt, air, lost, said, dropped>>

\* The phone removes one friend, or clears the list to write it anew.
PhoneDrop(t, gone) ==
    /\ gone # {}
    /\ friends' = [friends EXCEPT ![t] = @ \ gone]
    /\ dropped' = dropped \cup ({t} \X gone)
    /\ UNCHANGED <<boot, enabled, menu, peers, prompt, air, lost, said>>

PhoneRemove(t, u) == u \in friends[t] /\ PhoneDrop(t, {u})
PhoneClear(t)     == PhoneDrop(t, friends[t])

-----------------------------------------------------------------------------
Receive(t) == \E f \in air : RxRequest(t, f) \/ RxAccept(t, f) \/ RxKeys(t, f) \/ RxAck(t, f)

Hold(t) == \E p \in Pseud : Accept(t, p) \/ Request(t, p) \/ RefusedRequest(t, p)

\* Retries and deferred replies are spaced past the advert window of the frame
\* before them (MESH_REPLY_DELAY_MS, MESH_ACCEPT_RETRY_MS against the 300 ms of
\* FRAME_WINDOW_MS), but a full outbox delays a frame: OnAir bounds how many of
\* them overlap.
Clear(t) ==
    {p \in Used(t) : /\ peers[t][p].hs # "none"
                     /\ Cardinality({f \in air : f.from = Me(t) /\ f.to = p}) < OnAir}
Owed(t) == {p \in Used(t) : peers[t][p].ack}

\* Only a deadline that is set can come due.
Ticks(t) ==
    \E timeout \in {FALSE, prompt[t].st # "none"},
       due \in SUBSET Clear(t), acks \in SUBSET Owed(t) : Tick(t, timeout, due, acks)

\* Steps of the handshake itself ...
Ride == \/ \E t, u \in Rider : Hear(t, u)
        \/ \E t \in Rider : Receive(t) \/ Hold(t) \/ Ticks(t)
        \/ \E f \in air : Lose(f)

\* ... and what riders, phones and batteries do to it.
Upset == \/ \E t \in Rider, p \in Pseud : GoSilent(t, p)
         \/ \E t \in Rider : OpenMenu(t) \/ CloseMenu(t) \/ SetEnabled(t) \/ Restart(t)
         \/ \E t, u \in Rider : PhoneUpsert(t, u) \/ PhoneRemove(t, u)
         \/ \E t \in Rider : PhoneClear(t)

Next == Ride \/ Upset

Spec == Init /\ [][Next]_vars

-----------------------------------------------------------------------------
(* Properties.                                                              *)

\* "Friending is a mutual physical act": a rider is in a friend list only if
\* each of the two has held on the other.  The handshake carries this through
\* crossed requests, late KEYS and lists lost on one side.
FriendsAgreed ==
    \A t \in Rider : \A u \in friends[t] : {<<t, u>>, <<u, t>>} \subseteq said

\* A rider's key is on the air, addressed to another, only if the rider has
\* held on that other: ACCEPT and KEYS are all that carries it in clear.
KeysOnlyToConsented ==
    \A f \in air : f.type \in {"accept", "keys"} => <<Owner(f.from), Owner(f.to)>> \in said

\* What stops the other side's KEYS retries is true: a terminal acknowledges,
\* and itself resends KEYS, only for a friend in its list, unless the phone has
\* taken that friend off again.
Holds(a, b) == b \in friends[a] \/ <<a, b>> \in dropped

AckMeansHeld ==
    /\ \A f \in air : f.type \in {"ack", "keys"} => Holds(Owner(f.from), Owner(f.to))
    /\ \A t \in Rider, p \in Pseud :
          peers[t][p].ack \/ peers[t][p].hs = "keys_sent" => Holds(t, Owner(p))

\* The page tells the rider the truth: a waiting page has a handshake behind
\* it that will move or lapse, an offer can be accepted, and "now friends" is
\* about a stored friend.  (Evicting the page's peer from a full table breaks
\* the first two until the next tick that finds it gone.)
PageBacked ==
    \A t \in Rider :
        LET pr == prompt[t] IN
        /\ pr.st = "waiting" => peers[t][pr.id].used /\ peers[t][pr.id].hs \in {"req_sent", "accept_sent"}
        /\ pr.st = "offer" => peers[t][pr.id].used /\ peers[t][pr.id].hs = "req_recv"
        /\ pr.st = "done" => Holds(t, Owner(pr.id))

\* mesh_hs_t on REQ_RECV: "they asked; the prompt waits for the rider".  A peer
\* left in that state with no prompt can be neither answered nor asked.
AskersHaveAPrompt ==
    \A t \in Rider, p \in Pseud :
        peers[t][p].hs = "req_recv" => prompt[t] = [st |-> "offer", id |-> p]

\* The mesh task loops for ever: it drains the receive queue and ticks, every
\* deadline comes due, and a page that is up times out.
Fairness ==
    /\ WF_vars(\E t \in Rider : Receive(t))
    /\ \A t \in Rider : WF_vars(Tick(t, TRUE, Clear(t), Owed(t)))

\* MESH_KEYS_TRIES: "so a burst of lost frames cannot leave one side a friend
\* and the other not", for a burst shorter than the KEYS retries.
Reciprocated ==
    \A t, u \in Rider : u \in friends[t] ~> t \in friends[u]

\* Whatever is lost, every handshake comes to an end and frees its page.
HandshakesEnd ==
    \A t \in Rider : (\E p \in Pseud : peers[t][p].hs # "none")
                      ~> (prompt[t].st = "none" /\ \A p \in Pseud : peers[t][p].hs = "none")

\* The friend list never outgrows its array.
ListFits == \A t \in Rider : Cardinality(friends[t]) <= MaxFriends

\* The handshake implements the promise.
Promise == INSTANCE Friending WITH held <- {e \in Rider \X Rider : e[2] \in friends[e[1]]}
KeepsPromise == Promise!Spec
=============================================================================
