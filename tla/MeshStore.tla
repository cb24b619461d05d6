----------------------------- MODULE MeshStore -----------------------------
(***************************************************************************)
(* What mesh.c keeps on flash: the friends, saved by the mesh task when      *)
(* their generation has moved, and the rider's identity, written by whoever  *)
(* sets it: the phone, on the NimBLE host task, or the development console.  *)
(* A write may fail, the power may go at any step, and the phone is served   *)
(* before the mesh task runs and when it has given up.                       *)
(*                                                                          *)
(* A friend is a number and the list a set of them; FriendSync has the walk  *)
(* behind the cursor, the order of the list and the notifications.           *)
(***************************************************************************)
EXTENDS Naturals, FiniteSets

CONSTANTS
    RosterCap,   \* MESH_MAX_FRIENDS
    MaxMishaps,  \* bound: failed writes and reads, power cuts
    MaxRoster    \* bound: friends_generation within a boot

ASSUME MeshStoreAssumption ==
    /\ RosterCap \in Nat \ {0} /\ {MaxMishaps, MaxRoster} \subseteq Nat

VARIABLES
    roster,      \* s_core.friends
    rosterGen,   \* s_core.friends_generation
    savedGen,    \* the mesh task's saved_gen
    meshTask,    \* "starting" its transports, "running", or "gone": none came up
    self,        \* s_core.self; NoOne without has_identity
    nvsMesh,     \* the blobs of the namespace: friends, ident
    hostWrites,  \* the identity the host task has set and not written yet, or NoOne
    console,     \* mesh_debug_make_identity: "idle", "checked", or "set": not written yet
    newest,      \* who set the identity last
    owed,        \* history: why flash may lack friends of the list: a write "failed", one was
                 \* "unread", a change came before saved_gen was taken
    idOwed,      \* history: why flash may hold another identity: a write "failed", "crossed"
                 \* another, one was "unread"
    mishaps      \* failed writes and reads, power cuts so far

rosterVars == <<roster, rosterGen, savedGen, meshTask, owed>>
identVars == <<self, hostWrites, console, newest, idOwed>>
keepVars == <<rosterVars, identVars, nvsMesh, mishaps>>

Mates == 1 .. RosterCap + 1
NoOne == 0
PhoneIds == {1, 2}      \* the phone's rider, under two names
DevId == 3              \* the console's, from the MAC address

\* A terminal that is new, or knows some friends.
NewFlash == [friends |-> {}, ident |-> NoOne]
KeepInit ==
    /\ nvsMesh \in [friends : {m \in SUBSET Mates : Cardinality(m) <= RosterCap}, ident : {NoOne} \cup PhoneIds]
    /\ roster = nvsMesh.friends /\ rosterGen = Cardinality(roster) /\ savedGen = 0
    /\ meshTask = "starting"
    /\ self = nvsMesh.ident /\ hostWrites = NoOne /\ console = "idle" /\ newest = "host"
    /\ owed = {} /\ idOwed = {} /\ mishaps = 0

Mishap == mishaps < MaxMishaps /\ mishaps' = mishaps + 1

-----------------------------------------------------------------------------
(* The friends.                                                             *)

\* Any change of the list moves the generation, a friend written again or a
\* list already empty too.
Changed(list) ==
    /\ rosterGen < MaxRoster
    /\ roster' = list
    /\ rosterGen' = rosterGen + 1
    /\ owed' = IF meshTask = "starting" THEN owed \cup {"early"} ELSE owed
    /\ UNCHANGED <<savedGen, meshTask, identVars, nvsMesh, mishaps>>

\* mesh_friends_ble_access serves the phone whether the mesh task runs or
\* not, once the host task is done with the identity; a full list refuses.
UpsertMate(m) ==
    /\ hostWrites = NoOne
    /\ m \in roster \/ Cardinality(roster) < RosterCap
    /\ Changed(roster \cup {m})
\* The generation would stand still.
RemoveUnmoved(m) ==
    /\ hostWrites = NoOne /\ m \in roster
    /\ roster' = roster \ {m}
    /\ UNCHANGED <<rosterGen, savedGen, meshTask, owed, identVars, nvsMesh, mishaps>>
RemoveMate(m) == hostWrites = NoOne /\ m \in roster /\ Changed(roster \ {m})
ClearMates == hostWrites = NoOne /\ Changed({})

\* A handshake completes; the console forgets everybody.
Befriended(m) ==
    /\ meshTask = "running"
    /\ m \in roster \/ Cardinality(roster) < RosterCap
    /\ Changed(roster \cup {m})
ForgetAll == Changed({})

\* mesh_task: the transports come up or none does, and the generation is
\* taken as saved.
TaskStarts ==
    /\ meshTask = "starting"
    /\ \/ meshTask' = "running" /\ savedGen' = rosterGen
       \/ meshTask' = "gone" /\ UNCHANGED savedGen
    /\ UNCHANGED <<roster, rosterGen, owed, identVars, nvsMesh, mishaps>>

\* save_friends: one blob of the whole list; what fails may have got there.
SaveDue == meshTask = "running" /\ rosterGen # savedGen
SaveMates ==
    /\ SaveDue
    /\ savedGen' = rosterGen
    /\ nvsMesh' = [nvsMesh EXCEPT !.friends = roster]
    /\ owed' = {}
    /\ UNCHANGED <<roster, rosterGen, meshTask, identVars, mishaps>>
SaveFails ==
    /\ SaveDue /\ Mishap
    /\ savedGen' = rosterGen
    /\ nvsMesh' \in {nvsMesh, [nvsMesh EXCEPT !.friends = roster]}
    /\ owed' = owed \cup {"failed"}
    /\ UNCHANGED <<roster, rosterGen, meshTask, identVars>>

-----------------------------------------------------------------------------
(* The identity.                                                            *)

\* mesh_identity_ble_access: the phone writes it on every connect, and only a
\* change costs a flash write, after the unlock.
SameRider(id) == self # NoOne
Same(id) == self # NoOne /\ self = id
PhoneSetsIdentity(id) ==
    /\ hostWrites = NoOne
    /\ self' = id
    /\ IF Same(id) THEN UNCHANGED <<hostWrites, newest, idOwed>>
       ELSE /\ hostWrites' = id
            /\ newest' = "host"
            /\ idOwed' = IF console = "set" THEN idOwed \cup {"crossed"} ELSE idOwed
    /\ UNCHANGED <<rosterVars, console, nvsMesh, mishaps>>

\* A good write of the identity set last, nobody else about to write.
Settles(who, others) == IF newest = who /\ others THEN {} ELSE idOwed
WriteIdentity ==
    /\ hostWrites # NoOne
    /\ nvsMesh' = [nvsMesh EXCEPT !.ident = hostWrites]
    /\ hostWrites' = NoOne
    /\ idOwed' = Settles("host", console # "set")
    /\ UNCHANGED <<rosterVars, self, console, newest, mishaps>>
\* The phone hears of the failure; the identity in RAM stays.
IdentityFails ==
    /\ hostWrites # NoOne /\ Mishap
    /\ nvsMesh' \in {nvsMesh, [nvsMesh EXCEPT !.ident = hostWrites]}
    /\ hostWrites' = NoOne
    /\ idOwed' = idOwed \cup {"failed"}
    /\ UNCHANGED <<rosterVars, self, console, newest>>

\* mesh_debug_make_identity: it looks, sets, and writes, unlocked in between.
ConsoleLooks ==
    /\ console = "idle" /\ self = NoOne
    /\ console' = "checked"
    /\ UNCHANGED <<rosterVars, self, hostWrites, newest, idOwed, nvsMesh, mishaps>>
ConsoleSets ==
    /\ console = "checked"
    /\ console' = "set"
    /\ self' = DevId /\ newest' = "console"
    /\ idOwed' = IF hostWrites # NoOne THEN idOwed \cup {"crossed"} ELSE idOwed
    /\ UNCHANGED <<rosterVars, hostWrites, nvsMesh, mishaps>>
ConsoleWrites ==
    /\ console = "set"
    /\ console' = "idle"
    /\ \/ /\ nvsMesh' = [nvsMesh EXCEPT !.ident = DevId]
          /\ idOwed' = Settles("console", hostWrites = NoOne)
          /\ UNCHANGED mishaps
       \/ Mishap /\ idOwed' = idOwed \cup {"failed"} /\ UNCHANGED nvsMesh
    /\ UNCHANGED <<rosterVars, self, hostWrites, newest>>

-----------------------------------------------------------------------------
\* A restart: mesh_init and load_stored.  A blob that cannot be read is taken
\* for one that is not there.
Loads(unread) ==
    /\ roster' = IF "friends" \in unread THEN {} ELSE nvsMesh.friends
    /\ rosterGen' = Cardinality(roster')
    /\ owed' = IF "friends" \in unread THEN {"unread"} ELSE {}
    /\ self' = IF "ident" \in unread THEN NoOne ELSE nvsMesh.ident
    /\ idOwed' = IF "ident" \in unread THEN {"unread"} ELSE {}
RestartMesh ==
    /\ Mishap
    /\ \E unread \in SUBSET {"friends", "ident"} : Loads(unread)
    /\ savedGen' = 0 /\ meshTask' = "starting"
    /\ hostWrites' = NoOne /\ console' = "idle" /\ newest' = "host"
    /\ UNCHANGED nvsMesh

KeepNext ==
    \/ \E m \in Mates : UpsertMate(m) \/ RemoveMate(m) \/ Befriended(m)
    \/ ClearMates \/ ForgetAll \/ TaskStarts \/ SaveMates \/ SaveFails
    \/ \E id \in PhoneIds : PhoneSetsIdentity(id)
    \/ WriteIdentity \/ IdentityFails \/ ConsoleLooks \/ ConsoleSets \/ ConsoleWrites
    \/ RestartMesh

-----------------------------------------------------------------------------
\* What a running mesh task has nothing left to save is on flash, but for what a failed
\* write, an unread blob or a change before its first pass left out, and only until the
\* next good save, which writes the whole list; and the identity in use is the one on
\* flash once nobody is about to write it, but for a failed, an unread or a crossed one.
StoredAsHeld ==
    /\ meshTask = "running" /\ rosterGen = savedGen /\ owed = {} => nvsMesh.friends = roster
    /\ nvsMesh.ident # self => hostWrites # NoOne \/ console = "set" \/ idOwed # {}

=============================================================================
