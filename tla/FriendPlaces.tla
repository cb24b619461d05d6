---------------------------- MODULE FriendPlaces ----------------------------
(***************************************************************************)
(* Where a friend is, mesh_core.c: our own fixes as the phone sends them, the *)
(* offset from us then to them then whenever a position of theirs comes in,  *)
(* and whom the compass is to show.  Friending, radio and frames are         *)
(* MeshCore's, MeshRadio's and MeshFrames'; here a frame comes when it will, *)
(* the mesh is on and the friend prompt is closed.                           *)
(*                                                                          *)
(* The road is a straight line and the pack rides along it at one pace, so   *)
(* where a rider truly is from us never changes.  A low-pass goes somewhere  *)
(* between where it was and the new value.  A terminal that starts draws a   *)
(* pseudonym, and goes by it until it starts again; here it is never one that *)
(* was drawn before.                                                         *)
(***************************************************************************)
EXTENDS Integers, Sequences

CONSTANTS
    Pack,          \* the riders about
    Pace,          \* how far the pack rides in a unit of time
    Leads,         \* where a rider may be from us
    OwnFixes,      \* MESH_OWN_FIXES
    PosMaxAge,     \* MESH_OWN_POS_MAX_AGE_MS
    OffsetMaxAge,  \* MESH_OFFSET_MAX_AGE_MS
    ShowFor,       \* MESH_OFFSET_SHOW_MS
    PeerTimeout,   \* MESH_PEER_TIMEOUT_MS
    PhoneMaxAge,   \* the phone's FIX_MAX_AGE_MS
    PeerSlots,     \* MESH_MAX_PEERS
    MaxClock       \* bound: the time

ASSUME FriendPlacesAssumption ==
    /\ Leads \subseteq Int /\ {Pace, PosMaxAge, OffsetMaxAge, ShowFor, PeerTimeout, MaxClock} \subseteq Nat
    /\ {OwnFixes, PhoneMaxAge, PeerSlots} \subseteq Nat \ {0}

VARIABLES
    lead,       \* where each rider is from us, all along
    tick,       \* now_ms
    fixes,      \* fixes, to fix_count
    fixTaken,   \* when the phone's latest fix was taken, -1 before
    table,      \* the peers that are used, by slot, and nobody in the others
    fellows,    \* friends
    booted      \* when each rider's terminal has last started

placeVars == <<lead, tick, fixes, fixTaken, table, fellows, booted>>

EmptySlot == [used |-> FALSE]
Somewhere(a, b) == IF a <= b THEN a .. b ELSE b .. a
Distance(a, b) == IF a <= b THEN b - a ELSE a - b
Fresh(at, age) == tick - at <= age

PlacesInit ==
    /\ lead \in [Pack -> Leads]
    /\ tick = 0 /\ fixes = <<>> /\ fixTaken = -1
    /\ table = [i \in 1 .. PeerSlots |-> EmptySlot]
    /\ fellows \in SUBSET Pack
    /\ booted = [r \in Pack |-> 0]

TimePasses ==
    /\ tick < MaxClock /\ tick' = tick + 1
    /\ UNCHANGED <<lead, fixes, fixTaken, table, fellows, booted>>

\* mesh_core_set_own_pos: the oldest makes room.  A position counts as taken when it arrives.
SetOwnPos(taken) ==
    LET kept == IF Len(fixes) = OwnFixes THEN Tail(fixes) ELSE fixes
    IN  fixes' = Append(kept, [at |-> tick, place |-> Pace * taken])
PhoneFix ==
    /\ SetOwnPos(tick) /\ fixTaken' = tick
    /\ UNCHANGED <<lead, tick, table, fellows, booted>>
\* A packet for the sake of a notification has the latest fix again, while the phone holds it recent.
PhoneRepeats ==
    /\ fixTaken >= 0 /\ tick - fixTaken < PhoneMaxAge
    /\ SetOwnPos(fixTaken)
    /\ UNCHANGED <<lead, tick, fixTaken, table, fellows, booted>>

-----------------------------------------------------------------------------
(* A position comes in.                                                     *)

\* own_at: between the fixes before and after t, or the nearest there is.
OwnAtLatest(t) == fixes[Len(fixes)].place
OwnAt(t) ==
    IF t <= fixes[1].at THEN fixes[1].place
    ELSE IF t > fixes[Len(fixes)].at THEN fixes[Len(fixes)].place
    ELSE LET i == CHOOSE k \in 1 .. Len(fixes) - 1 : fixes[k].at < t /\ t <= fixes[k + 1].at
             f == fixes[i]
             g == fixes[i + 1]
         IN  f.place + ((g.place - f.place) * (t - f.at)) \div (g.at - f.at)

\* mesh_core_init: a pseudonym is drawn once per boot.
Pseudonym(r) == [rider |-> r, boot |-> booted[r]]

\* peer_touch: the pseudonym's entry, a free one, or the longest silent's.
SlotFor(id) ==
    LET theirs == {i \in 1 .. PeerSlots : table[i].used /\ table[i].id = id}
        free == {i \in 1 .. PeerSlots : ~table[i].used}
        silent == {i \in 1 .. PeerSlots : \A j \in 1 .. PeerSlots : table[i].heard <= table[j].heard}
        among == IF theirs # {} THEN theirs ELSE IF free # {} THEN free ELSE silent
    IN  CHOOSE i \in among : \A j \in among : i <= j
FreshPeer(id) == [used |-> TRUE, id |-> id, heard |-> tick, has |-> FALSE, off |-> 0, at |-> 0, level |-> FALSE]
PeerNow(id) ==
    LET p == table[SlotFor(id)]
    IN  IF p.used /\ p.id = id THEN [p EXCEPT !.heard = tick] ELSE FreshPeer(id)

\* history: our fixes were sent when taken, and t is between the first and the last.
TrueFix(f) == f.place = Pace * f.at
Like(t) == /\ \A k \in 1 .. Len(fixes) : TrueFix(fixes[k])
           /\ fixes[1].at <= t /\ t <= fixes[Len(fixes)].at

\* update_offset, on p: their fix is `age` old by the frame, and was `late` before that.
ComparedStale(age) == fixes # <<>> /\ age <= PosMaxAge
Compared(age) == fixes # <<>> /\ Fresh(fixes[Len(fixes)].at, PosMaxAge) /\ age <= PosMaxAge
Restarts(p) == ~p.has \/ ~Fresh(p.at, OffsetMaxAge)
OffsetNow(r, age, late) == Pace * (tick - age - late) + lead[r] - OwnAt(tick - age)
NewOffsets(p, new) == IF Restarts(p) \/ p.at = tick THEN {new} ELSE Somewhere(p.off, new)
AfterPos(p, r, age, late) ==
    IF ~Compared(age) THEN {p}
    ELSE {[p EXCEPT !.has = TRUE, !.off = o, !.at = tick,
                    !.level = late = 0 /\ Like(tick - age) /\ (Restarts(p) \/ p.at = tick \/ p.level)] :
             o \in NewOffsets(p, OffsetNow(r, age, late))}

HearPos(r, age, late) ==
    /\ r \in fellows
    /\ age + late <= tick
    /\ LET id == Pseudonym(r)
       IN  \E p \in AfterPos(PeerNow(id), r, age, late) : table' = [table EXCEPT ![SlotFor(id)] = p]
    /\ UNCHANGED <<lead, tick, fixes, fixTaken, fellows, booted>>

\* HELLO, from anyone, and a friend's LOOK.
HearHello(r) ==
    /\ table' = [table EXCEPT ![SlotFor(Pseudonym(r))] = PeerNow(Pseudonym(r))]
    /\ UNCHANGED <<lead, tick, fixes, fixTaken, fellows, booted>>

\* mesh_core_tick: who has not been heard for long goes.
ForgetSilent ==
    /\ table' = [i \in 1 .. PeerSlots |->
            IF table[i].used /\ ~Fresh(table[i].heard, PeerTimeout) THEN EmptySlot ELSE table[i]]
    /\ UNCHANGED <<lead, tick, fixes, fixTaken, fellows, booted>>

FriendsChange(r) ==
    /\ fellows' = IF r \in fellows THEN fellows \ {r} ELSE fellows \cup {r}
    /\ UNCHANGED <<lead, tick, fixes, fixTaken, table, booted>>

\* A rider's terminal starts again.
Reboots(r) ==
    /\ booted[r] < tick /\ booted' = [booted EXCEPT ![r] = tick]
    /\ UNCHANGED <<lead, tick, fixes, fixTaken, table, fellows>>

PlacesNext ==
    \/ TimePasses \/ PhoneFix \/ PhoneRepeats \/ ForgetSilent
    \/ \E r \in Pack : \/ HearHello(r) \/ FriendsChange(r) \/ Reboots(r)
                       \/ \E age \in 0 .. PosMaxAge + 1, late \in 0 .. PhoneMaxAge - 1 : HearPos(r, age, late)

-----------------------------------------------------------------------------
\* mesh_core_friends_in_range, by slot: resolve tells the rider from the pseudonym.
FriendsNear ==
    {i \in 1 .. PeerSlots : /\ table[i].used /\ table[i].has /\ Fresh(table[i].at, ShowFor)
                            /\ table[i].id.rider \in fellows}

\* A friend the compass shows is shown once by the pseudonym they go by, and by one they had
\* before for no longer than ShowFor after their terminal has started again.  Nowhere are they
\* shown further from where they truly are than the pack rides in the ages the two fixes may have;
\* and they are exactly there, however old the fix that came and whatever was lost, when the fixes
\* were sent as they were taken and ours go back far enough.
PlacesTrue ==
    \A i \in FriendsNear :
        LET r == table[i].id.rider
        IN  /\ \A j \in FriendsNear : table[j].id = table[i].id => j = i
            /\ table[i].id # Pseudonym(r) => Fresh(booted[r], ShowFor)
            /\ Distance(table[i].off, lead[r]) <= Pace * (PosMaxAge + PhoneMaxAge - 1)
            /\ table[i].level => table[i].off = lead[r]
=============================================================================
