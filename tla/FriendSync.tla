----------------------------- MODULE FriendSync -----------------------------
(***************************************************************************)
(* The friend list on both sides of the BLE link: RiderMeshSync walks the   *)
(* terminal's list behind a cursor, merges it into the phone's and writes   *)
(* the result back, while the mesh task makes friends, saves the list to    *)
(* NVS and notifies the phone.                                              *)
(*                                                                          *)
(* A friend is a model value: names, looks and keys are not modelled, so a  *)
(* merge of two copies of one rider is the rider.  The bytes of the records *)
(* and the characteristics' length checks are left out with them.           *)
(***************************************************************************)
EXTENDS ControlQueue, Selection

CONSTANTS
    Friend,      \* the riders that may be befriended
    Cap,         \* MESH_MAX_FRIENDS = RiderMesh.FRIEND_CAP
    RingSize,    \* MESH_FRIEND_EVENTS
    MaxDrops,    \* bound: losses of the link
    OldFriends,  \* bound: who is on a list at the start
    NewFriends   \* bound: who is befriended on the way

\* What a read of the characteristic returns past the end of the list.
End == "end"

Batch == {"identity", "cursor", "read", "push", "subscribe"}
Do    == {"identity", "cursor", "read", "clear", "upsert", "subscribe"}
Op    == [batch : Batch, do : Do, arg : Nat \cup Friend, last : BOOLEAN]
Reply == [ok : BOOLEAN, value : Friend \cup {End}]

ASSUME SyncAssumption ==
    /\ Cap \in Nat \ {0} /\ RingSize \in Nat \ {0} /\ MaxDrops \in Nat /\ MaxPosts \in Nat
    /\ OldFriends \subseteq Friend /\ NewFriends \subseteq Friend
    /\ End \notin Friend /\ NoOp \notin Op /\ NoReply \notin Reply

VARIABLES
    phone,       \* the phone's stored list
    acc,         \* records read so far (a closure of readTerminalFriends)
    listening,   \* Android delivers the characteristic's notifications
    term,        \* the terminal's list, in RAM
    cursor,      \* s_friend_cursor
    saved,       \* the terminal's list in NVS
    dirty,       \* friends_generation # saved_gen
    task,        \* the mesh task: starting its transports, or running
    events,      \* the ring of friend events
    subscribed,  \* s_friends_subscribed
    notes,       \* notifications on their way to the phone
    drops,       \* losses of the link so far
    made,        \* history: friends made on this terminal, or known at the start
    late,        \* history: friends made since the phone read the end of the list,
                 \* its CLEAR still to come
    raced        \* history: friends such a CLEAR has wiped

syncVars == <<phone, acc, listening, term, cursor, saved, dirty, task, events,
              subscribed, notes, drops, made, late, raced>>
vars == <<queueVars, syncVars>>

Members(s) == {s[i] : i \in DOMAIN s}
Lists == {s \in UNION {[1 .. n -> OldFriends] : n \in 0 .. Cap} : Cardinality(Members(s)) = Len(s)}

Take(s, n) == SubSeq(s, 1, IF Len(s) < n THEN Len(s) ELSE n)

ReplacedBy(mine, theirs) == theirs
\* RiderMesh.merge: the phone's list, then the terminal's friends it lacks.
Merge(mine, theirs) == Take(mine \o Picked(theirs, {i \in DOMAIN theirs : theirs[i] \notin Members(mine)}), Cap)

\* A phone that knows some friends meets a terminal that knows some.
Init ==
    /\ QueueInit
    /\ phone \in Lists /\ term \in Lists
    /\ saved = term
    /\ acc = <<>> /\ listening = FALSE /\ cursor = 0 /\ dirty = FALSE /\ task = "starting"
    /\ events = <<>> /\ subscribed = FALSE /\ notes = <<>> /\ drops = 0
    /\ made = Members(phone) \cup Members(term)
    /\ late = {} /\ raced = {}

-----------------------------------------------------------------------------
(* The phone.                                                               *)

CursorAt(i) == Single("cursor", "cursor", i)
ReadAt(i)   == Single("read", "read", i)
\* pushFriends: CLEAR, then an UPSERT for every friend.
Push(list) ==
    Frames("push", <<[do |-> "clear", arg |-> 0]>> \o [i \in DOMAIN list |-> [do |-> "upsert", arg |-> list[i]]])

\* onServicesDiscovered, onConnected: push the identity and start the walk.
Connect ==
    /\ Opened(Single("identity", "identity", 0) \o CursorAt(0))
    /\ acc' = <<>>
    /\ subscribed' \in BOOLEAN      \* NimBLE restores what a bonded phone had subscribed to
    /\ UNCHANGED <<phone, listening, term, cursor, saved, dirty, task, events, notes, drops, made, late, raced>>

\* The pump issues the head of the queue; Android starts listening as it
\* issues a subscription.
PumpQueue ==
    /\ Pump
    /\ listening' = (listening \/ (~missing /\ Head(ops).do = "subscribe"))
    /\ UNCHANGED <<phone, acc, term, cursor, saved, dirty, task, events, subscribed, notes, drops, made, late, raced>>

CollectsShort(op) == op.do = "read" /\ reply.ok /\ reply.value # End /\ op.arg + 1 < Cap
\* An answer comes back, and the callback of the walk goes on from it.
WalksOn(op)  == op.do = "cursor" /\ reply.ok
Collects(op) == op.do = "read" /\ reply.ok /\ reply.value # End /\ op.arg < Cap
Merges(op)   == op.do = "read" /\ reply.ok /\ ~Collects(op)

Answer ==
    /\ reply # NoReply
    /\ \/ /\ WalksOn(inFlight)
          /\ Completed(ReadAt(inFlight.arg))
          /\ UNCHANGED <<phone, acc>>
       \/ /\ Collects(inFlight)
          /\ acc' = Append(acc, reply.value)
          /\ Completed(CursorAt(inFlight.arg + 1))
          /\ UNCHANGED phone
       \/ /\ Merges(inFlight)
          /\ phone' = Merge(phone, acc)
          /\ Completed(Push(Merge(phone, acc)) \o Single("subscribe", "subscribe", 0))
          /\ UNCHANGED acc
       \/ /\ ~(WalksOn(inFlight) \/ Collects(inFlight) \/ Merges(inFlight))
          /\ Completed(<<>>)
          /\ UNCHANGED <<phone, acc>>
    /\ UNCHANGED <<listening, term, cursor, saved, dirty, task, events, subscribed, notes, drops, made, late, raced>>

\* onFriendNotify: a friendship made on the terminal.
OnFriendNotify ==
    /\ notes # <<>>
    /\ notes' = Tail(notes)
    /\ phone' = IF listening THEN Merge(phone, <<Head(notes)>>) ELSE phone
    /\ UNCHANGED queueVars
    /\ UNCHANGED <<acc, listening, term, cursor, saved, dirty, task, events, subscribed, drops, made, late, raced>>

\* What a lost link takes with it.
Disconnected ==
    /\ Lost
    /\ subscribed' = FALSE /\ listening' = FALSE /\ notes' = <<>>

Drop ==
    /\ drops < MaxDrops
    /\ drops' = drops + 1
    /\ Disconnected
    /\ late' = {}
    /\ UNCHANGED <<phone, acc, term, cursor, saved, dirty, task, events, made, raced>>

-----------------------------------------------------------------------------
(* The terminal.                                                            *)

UpsertFitsShort(list, f) == f \in Members(list) \/ Len(list) + 1 < Cap
Upserted(list, f) == IF f \in Members(list) THEN list ELSE Append(list, f)
UpsertFits(list, f) == f \in Members(list) \/ Len(list) < Cap

\* The NimBLE host task serves the request under the mesh mutex.
Serve ==
    LET op == inFlight IN
    /\ inFlight # NoOp
    /\ \/ /\ op.do = "identity"
          /\ \E written \in BOOLEAN : Replied(written, End)     \* the NVS write may fail
          /\ UNCHANGED <<term, cursor, dirty, subscribed, late, raced>>
       \/ /\ op.do = "cursor"
          /\ Replied(TRUE, End)
          /\ cursor' = op.arg
          /\ UNCHANGED <<term, dirty, subscribed, late, raced>>
       \/ /\ op.do = "read"
          /\ Replied(TRUE, IF cursor < Len(term) THEN term[cursor + 1] ELSE End)
          /\ UNCHANGED <<term, cursor, dirty, subscribed, late, raced>>
       \/ /\ op.do = "clear"
          /\ Replied(TRUE, End)
          /\ term' = <<>> /\ dirty' = TRUE
          /\ raced' = raced \cup late /\ late' = {}
          /\ UNCHANGED <<cursor, subscribed>>
       \/ /\ op.do = "upsert" /\ UpsertFits(term, op.arg)
          /\ Replied(TRUE, End)
          /\ term' = Upserted(term, op.arg) /\ dirty' = TRUE
          /\ UNCHANGED <<cursor, subscribed, late, raced>>
       \/ /\ op.do = "upsert" /\ ~UpsertFits(term, op.arg)
          /\ Replied(FALSE, End)
          /\ UNCHANGED <<term, cursor, dirty, subscribed, late, raced>>
       \/ /\ op.do = "subscribe"
          /\ Replied(TRUE, End)
          /\ subscribed' = TRUE
          /\ UNCHANGED <<term, cursor, dirty, late, raced>>
    /\ UNCHANGED <<phone, acc, listening, saved, task, events, notes, drops, made>>

\* The transports are up: the task takes the list as it stands for saved.  With
\* none up it deletes itself.
TaskUp ==
    /\ task = "starting"
    /\ \/ task' = "running" /\ dirty' = FALSE
       \/ task' = "gone" /\ UNCHANGED dirty
    /\ UNCHANGED queueVars
    /\ UNCHANGED <<phone, acc, listening, term, cursor, saved, events, subscribed, notes, drops, made, late, raced>>

\* A full ring drops its oldest event.
PushEvent(ring, f) == Append(IF Len(ring) = RingSize THEN Tail(ring) ELSE ring, f)

\* The phone has been told that it has read everything, and has not cleared yet.
ClearToCome ==
    \/ inFlight # NoOp /\ reply # NoReply /\ Merges(inFlight)
    \/ inFlight # NoOp /\ reply = NoReply /\ inFlight.do = "clear"
    \/ \E i \in DOMAIN ops : ops[i].do = "clear"

\* A handshake completes in the task's pass, which saves the list before it
\* gives up the mutex.
FriendMade(f) ==
    /\ task = "running"
    /\ f \notin Members(term) /\ Len(term) < Cap
    /\ term' = Append(term, f) /\ saved' = term' /\ dirty' = FALSE
    /\ events' = PushEvent(events, f)
    /\ made' = made \cup {f}
    /\ late' = IF ClearToCome THEN late \cup {f} ELSE late
    /\ UNCHANGED queueVars
    /\ UNCHANGED <<phone, acc, listening, cursor, task, subscribed, notes, drops, raced>>

\* A pass with nothing to hear saves what the phone has written.
Save ==
    /\ task = "running" /\ dirty
    /\ saved' = term /\ dirty' = FALSE
    /\ UNCHANGED queueVars
    /\ UNCHANGED <<phone, acc, listening, term, cursor, task, events, subscribed, notes, drops, made, late, raced>>

\* notify_friend_events, out of the mutex; unsubscribed or refused, the event is gone.
Notify ==
    /\ events # <<>>
    /\ events' = Tail(events)
    /\ notes' = IF up /\ subscribed THEN Append(notes, Head(events)) ELSE notes
    /\ UNCHANGED queueVars
    /\ UNCHANGED <<phone, acc, listening, term, cursor, saved, dirty, task, subscribed, drops, made, late, raced>>

\* The terminal loses power, and the link with it.
PowerCut ==
    /\ drops < MaxDrops
    /\ drops' = drops + 1
    /\ IF up THEN Disconnected ELSE UNCHANGED <<queueVars, subscribed, listening, notes>>
    /\ term' = saved /\ cursor' = 0 /\ dirty' = FALSE /\ task' = "starting" /\ events' = <<>>
    /\ late' = {}
    /\ UNCHANGED <<phone, acc, saved, made, raced>>

QueueOnly == UNCHANGED syncVars /\ (FailHead \/ OtherStarts \/ OtherDone)

Next ==
    \/ Connect \/ PumpQueue \/ Answer \/ OnFriendNotify \/ Drop
    \/ Serve \/ TaskUp \/ Save \/ Notify \/ PowerCut
    \/ \E f \in NewFriends : FriendMade(f)
    \/ QueueOnly

\* The link's callbacks and the mesh task keep running.
Fairness ==
    /\ WF_vars(PumpQueue) /\ WF_vars(Serve) /\ WF_vars(Answer) /\ WF_vars(QueueOnly)
    /\ WF_vars(TaskUp) /\ WF_vars(Save) /\ WF_vars(Notify) /\ WF_vars(OnFriendNotify)

Spec == Init /\ [][Next]_vars /\ Fairness
-----------------------------------------------------------------------------
\* As long as the phone's list has room, a friend who was ever made is on one of
\* the two lists, unless a CLEAR has wiped him in the window after the walk:
\* no loss of the link between CLEAR and the last UPSERT, no power cut and no
\* refused UPSERT loses anybody.
NothingLost == Len(phone) < Cap => made \ raced \subseteq Members(phone) \cup Members(term)

\* What the comments claim of the pair, the window included.
NobodyDropped == Len(phone) < Cap => made \subseteq Members(phone) \cup Members(term)

\* On a link that stays up, the terminal ends with every friend of the phone's,
\* or full.  But for those a CLEAR has wiped: an event still in the ring may bring
\* one of them to the phone after the push.  And a friend made after CLEAR takes a
\* place: with none left the last UPSERT is refused.
ListsMeet ==
    <>[](up /\ ~missing) => <>[](Members(phone) \ raced \subseteq Members(term) \/ Len(term) = Cap)

\* A friend on the terminal's list while the phone walks it reaches the phone,
\* if the link lasts, or finds its list full: merge drops who is over.
Walking ==
    /\ up /\ ~missing
    /\ \/ \E i \in DOMAIN ops : ops[i].do = "cursor"
       \/ inFlight # NoOp /\ inFlight.do = "cursor"
WalkLearns ==
    \A f \in Friend :
        (Walking /\ f \in Members(term)) ~> (~up \/ f \in Members(phone) \/ Len(phone) = Cap)
=============================================================================
