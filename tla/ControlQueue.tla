---------------------------- MODULE ControlQueue ----------------------------
(***************************************************************************)
(* The phone's control operations to a terminal: ControlQueue, the pump of  *)
(* RelayBleClient around it, and the one GATT operation in flight that they *)
(* share with everything else on the link.  The module has no Next of its   *)
(* own: it is the part of a link that its clients (FriendSync) build on.    *)
(*                                                                          *)
(* An operation is [batch, do, arg, last]: the call that queued it, what it *)
(* does, its argument, and whether it is the last frame of its batch.  The  *)
(* closure a batch's frames share is its entry in `failed`.                 *)
(***************************************************************************)
EXTENDS Naturals, Sequences

CONSTANTS
    NoOp,        \* nothing in flight
    NoReply,     \* the terminal has not answered yet
    MaxPosts     \* bound: failHead calls waiting on the main looper

VARIABLES
    up,          \* services discovered and the link not yet lost
    missing,     \* this connection's GATT table lacks the characteristics
    ops,         \* ControlQueue.ops
    inFlight,    \* ControlQueue.inFlight
    slot,        \* writeInFlight, and for whom
    reply,       \* the terminal's answer to inFlight, on its way back
    posts,       \* failHead calls posted to the main looper
    failed,      \* batches one of whose frames has failed
    asked,       \* history: batches queued and not answered yet
    twice        \* history: a batch was answered that nobody was waiting for

queueVars == <<up, missing, ops, inFlight, slot, reply, posts, failed, asked, twice>>

QueueInit ==
    /\ up = FALSE /\ missing = FALSE
    /\ ops = <<>> /\ inFlight = NoOp /\ slot = "free" /\ reply = NoReply
    /\ posts = 0 /\ failed = {} /\ asked = {} /\ twice = FALSE

\* The frames of one writeAll.
Frames(batch, frames) ==
    [i \in DOMAIN frames |->
        [batch |-> batch, do |-> frames[i].do, arg |-> frames[i].arg, last |-> i = Len(frames)]]
Single(batch, do, arg) == <<[batch |-> batch, do |-> do, arg |-> arg, last |-> TRUE]>>

Batches(new) == {new[i].batch : i \in DOMAIN new} \ {"subscribe"}   \* a Subscribe has no callback

\* What completing op says to its caller: nothing, "yes" or "no".
Says(op, ok) ==
    IF op.do = "subscribe" \/ op.batch \in failed THEN "nothing"
    ELSE IF ~ok THEN "no"
    ELSE IF op.last THEN "yes"
    ELSE "nothing"

\* The link is up again: onConnected's frames are queued behind whatever GATT
\* operation the connection itself has started.
Opened(new) ==
    /\ ~up /\ posts = 0          \* the main looper runs what was posted long before a reconnect
    /\ up' = TRUE
    /\ missing' \in BOOLEAN
    /\ slot' \in {"free", "other"}
    /\ ops' = ops \o new
    /\ asked' = asked \cup Batches(new)
    /\ failed' = failed \ Batches(new)
    /\ UNCHANGED <<inFlight, reply, posts, twice>>

\* pumpQueue and pumpControl: issue the head, or post a failHead for it.
Pump ==
    /\ up /\ slot = "free" /\ ops # <<>>
    /\ IF missing
       THEN /\ posts < MaxPosts
            /\ posts' = posts + 1
            /\ UNCHANGED <<ops, inFlight, slot>>
       ELSE /\ inFlight' = Head(ops)
            /\ ops' = Tail(ops)
            /\ slot' = "control"
            /\ UNCHANGED posts
    /\ UNCHANGED <<up, missing, reply, failed, asked, twice>>

\* failHead on the main looper.
FailHead ==
    /\ posts > 0
    /\ posts' = posts - 1
    /\ IF ops = <<>> THEN UNCHANGED <<ops, failed, asked, twice>>
       ELSE LET op == Head(ops) IN
            /\ ops' = Tail(ops)
            /\ failed' = failed \cup {op.batch}
            /\ asked' = IF Says(op, FALSE) = "no" THEN asked \ {op.batch} ELSE asked
            /\ twice' = (twice \/ (Says(op, FALSE) = "no" /\ op.batch \notin asked))
    /\ UNCHANGED <<up, missing, inFlight, slot, reply>>

\* A nav or call fragment, or the call-action subscription, takes the slot ...
OtherStarts ==
    /\ up /\ slot = "free" /\ ops = <<>>
    /\ slot' = "other"
    /\ UNCHANGED <<up, missing, ops, inFlight, reply, posts, failed, asked, twice>>

\* ... and its completion finds nothing in flight.
OtherDone ==
    /\ slot = "other"
    /\ slot' = "free"
    /\ UNCHANGED <<up, missing, ops, inFlight, reply, posts, failed, asked, twice>>

\* The terminal's answer to the operation in flight.
Replied(ok, value) ==
    /\ inFlight # NoOp /\ reply = NoReply
    /\ reply' = [ok |-> ok, value |-> value]
    /\ UNCHANGED <<up, missing, ops, inFlight, slot, posts, failed, asked, twice>>

\* complete(): the answer reaches the phone, and the callback queues `new`.
Completed(new) ==
    LET op == inFlight
        says == Says(op, reply.ok)
        answered == IF says = "nothing" THEN {} ELSE {op.batch}
    IN
    /\ up /\ reply # NoReply
    /\ inFlight' = NoOp /\ reply' = NoReply /\ slot' = "free"
    /\ failed' = (IF reply.ok THEN failed ELSE failed \cup {op.batch}) \ Batches(new)
    /\ asked' = (asked \ answered) \cup Batches(new)
    /\ twice' = (twice \/ ~(answered \subseteq asked))
    /\ ops' = ops \o new
    /\ UNCHANGED <<up, missing, posts>>

FailQueued == asked' = asked \ {ops[i].batch : i \in {j \in DOMAIN ops : ops[j].batch \notin failed}}
\* failAll when the link is lost: everything queued and in flight is answered no.
FailAll == asked' = asked \ {op.batch : op \in {o \in {inFlight} \cup {ops[i] : i \in DOMAIN ops} :
                                                 o # NoOp /\ o.batch \notin failed}}

Lost ==
    /\ up
    /\ up' = FALSE
    /\ FailAll
    /\ ops' = <<>> /\ inFlight' = NoOp /\ slot' = "free" /\ reply' = NoReply /\ failed' = {}
    /\ UNCHANGED <<missing, posts, twice>>

-----------------------------------------------------------------------------
\* "Every operation is answered exactly once, including on disconnect": no
\* caller hears twice, and one still waiting has its last frame to come.
AnsweredOnce ==
    /\ ~twice
    /\ \A b \in asked :
          /\ up /\ b \notin failed
          /\ \E op \in {inFlight} \cup {ops[i] : i \in DOMAIN ops} : op # NoOp /\ op.batch = b /\ op.last
=============================================================================
