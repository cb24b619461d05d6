----------------------------- MODULE Fragments -----------------------------
(***************************************************************************)
(* A packet's way over the BLE link in fragments: the phone's FragmentQueue *)
(* and the one write in flight of RelayBleClient's pump, the air, and the   *)
(* two reassemblers of ble_link.c.  Like ControlQueue it has no Next of its *)
(* own: PhoneLink makes and breaks the link underneath it.                  *)
(*                                                                          *)
(* A packet's bytes are its number, in the order in which packets are       *)
(* offered; a fragment is [kind, id, index, packet].  ble_link.c's single   *)
(* write of a whole packet, which only an iPhone app would use, is left out.*)
(***************************************************************************)
EXTENDS Selection, SequencesExt

CONSTANTS
    NavFrags,    \* NAV_FRAG_COUNT
    CallFrags,   \* CALL_FRAG_COUNT
    IdCount,     \* how many packet ids there are: 256
    MaxAir       \* bound: fragments between the two controllers

ASSUME FragmentsAssumption ==
    {NavFrags, CallFrags, IdCount, MaxAir} \subseteq Nat \ {0}

Kind == {"nav", "call"}
FragCount(k) == IF k = "nav" THEN NavFrags ELSE CallFrags

VARIABLES
    pending,     \* FragmentQueue.pending
    nextId,      \* FragmentQueue.nextPacketId
    slot,        \* writeInFlight, and for whom: "free", "frame" or "other"
    air,         \* fragments written and not arrived yet
    reasm,       \* per kind, the reassembler: [active, id, have]
    offered,     \* history: packets offered
    newest,      \* history: per kind, the packet offered last
    heard,       \* history: per kind, the packet delivered last
    torn,        \* history: something was delivered that is not one packet, or is old
    hurt         \* history: packets a fragment of which was lost

phoneFragVars == <<pending, nextId, slot>>
termFragVars  == <<reasm, heard, torn>>
fragVars == <<phoneFragVars, termFragVars, air, offered, newest, hurt>>

NoPartial == [active |-> FALSE, id |-> 0, have |-> <<>>]

FragInit ==
    /\ pending = <<>> /\ nextId = 0 /\ slot = "free" /\ air = <<>>
    /\ reasm = [k \in Kind |-> NoPartial]
    /\ offered = 0 /\ newest = [k \in Kind |-> 0] /\ heard = [k \in Kind |-> 0]
    /\ torn = FALSE /\ hurt = {}

-----------------------------------------------------------------------------
(* The phone.                                                               *)

\* fragment(): the fragments of a packet, in order.
FragmentsOf(k, id, p) ==
    [i \in 1 .. FragCount(k) |-> [kind |-> k, id |-> id, index |-> i, packet |-> p]]

\* A queue's fragments of one kind, in order.
Frames(queue, k) == Picked(queue, {i \in DOMAIN queue : queue[i].kind = k})

\* offerNav: what is left of an older nav packet goes, calls stay ahead.
WithNav(queue, frames) == Frames(queue, "call") \o frames
\* offerCall: ahead of every nav fragment, in the place of an older call event.
WithCall(queue, frames) == frames \o Frames(queue, "nav")

\* 256 packets are not offered while a reassembler or the air holds a fragment
\* of the first of them: the next nav fragment to arrive ends that.
IdFree(id) ==
    /\ \A k \in Kind : reasm[k].active => reasm[k].id # id
    /\ \A f \in Range(air) \cup Range(pending) : f.id # id

Offer(k) ==
    LET p == offered + 1
        frames == FragmentsOf(k, nextId, p)
    IN
    /\ IdFree(nextId)
    /\ pending' = IF k = "nav" THEN WithNav(pending, frames) ELSE WithCall(pending, frames)
    /\ nextId' = (nextId + 1) % IdCount
    /\ offered' = p
    /\ newest' = [newest EXCEPT ![k] = p]

\* pumpQueue with the characteristics at hand.  A write the stack refuses is
\* tried again 15 ms later: nothing has changed.
WriteHead ==
    /\ slot = "free" /\ pending # <<>> /\ Len(air) < MaxAir
    /\ slot' = "frame"
    /\ pending' = Tail(pending)
    /\ air' = Append(air, Head(pending))
    /\ UNCHANGED <<nextId, termFragVars, offered, newest, hurt>>

\* pumpQueue without: a call fragment is dropped, a nav fragment waits.
DropCallHead ==
    /\ slot = "free" /\ pending # <<>> /\ Head(pending).kind = "call"
    /\ pending' = Tail(pending)
    /\ UNCHANGED <<nextId, slot, air, termFragVars, offered, newest, hurt>>

WriteDoneUnheld ==
    /\ slot = "frame"
    /\ slot' = "free"
    /\ UNCHANGED <<pending, nextId, air, termFragVars, offered, newest, hurt>>
\* onCharacteristicWrite, onDescriptorWrite and onCharacteristicRead.
WriteDone ==
    /\ slot # "free"
    /\ slot' = "free"
    /\ UNCHANGED <<pending, nextId, air, termFragVars, offered, newest, hurt>>

-----------------------------------------------------------------------------
(* The air and the terminal.                                                *)

\* Lost, or cut short and refused by note_decode_failure's callers.
LoseHead ==
    /\ air # <<>>
    /\ hurt' = hurt \cup {Head(air).packet}
    /\ air' = Tail(air)
    /\ UNCHANGED <<phoneFragVars, termFragVars, offered, newest>>

HavingKept(r, f) == [active |-> TRUE, id |-> f.id, have |-> [i \in DOMAIN r.have \cup {f.index} |->
                                                       IF i = f.index THEN f.packet ELSE r.have[i]]]
\* A new packet id, or no reassembly in progress, starts afresh.
Having(r, f) ==
    HavingKept(IF r.active /\ r.id = f.id THEN r ELSE NoPartial, f)

\* chr_access_cb and call_event_access_cb: a whole packet is delivered, and a
\* nav packet takes a half-finished call event with it.
Arrive ==
    LET f == Head(air)
        r == Having(reasm[f.kind], f)
        whole == DOMAIN r.have = 1 .. FragCount(f.kind)
    IN
    /\ air # <<>>
    /\ air' = Tail(air)
    /\ IF ~whole
       THEN reasm' = [reasm EXCEPT ![f.kind] = r] /\ UNCHANGED <<heard, torn>>
       ELSE /\ reasm' = [k \in Kind |-> IF k = f.kind \/ f.kind = "nav" THEN NoPartial ELSE reasm[k]]
            /\ heard' = [heard EXCEPT ![f.kind] = f.packet]
            /\ torn' = (torn \/ Range(r.have) # {f.packet} \/ f.packet <= heard[f.kind])
    /\ UNCHANGED <<phoneFragVars, offered, newest, hurt>>

-----------------------------------------------------------------------------
\* "An interleaved nav packet never corrupts a ring (or the other way round)":
\* every packet delivered is one that was offered, whole, and none comes after a
\* newer one of its kind.
OnePacket == ~torn
=============================================================================
