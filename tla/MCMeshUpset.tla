---------------------------- MODULE MCMeshUpset ----------------------------
(***************************************************************************)
(* Two riders and one kind of disturbance at a time, chosen at the start    *)
(* and free to strike whenever it likes: the choice keeps the runs of every *)
(* kind exhaustive without multiplying them.                                *)
(***************************************************************************)
EXTENDS MeshCore, TLC

VARIABLE kind

Riders == Permutations(Rider)
Kinds  == {"away", "menu", "phone", "restart", "switch"}

\* Riders come and go, or leave Add friend.
Away == kind = "away" /\ \E t \in Rider, p \in Pseud : GoSilent(t, p)
Menu == kind = "menu" /\ \E t \in Rider : OpenMenu(t) \/ CloseMenu(t)

\* A phone rewrites its terminal's list under a running handshake: one entry
\* goes (a bound) and may come back.
Phone ==
    /\ kind = "phone"
    /\ \/ \E t, u \in Rider : PhoneUpsert(t, u)
       \/ dropped = {} /\ \E t, u \in Rider : PhoneRemove(t, u)
       \/ dropped = {} /\ \E t \in Rider : PhoneClear(t)

\* One terminal restarts and loses every handshake.
Power == kind = "restart" /\ \E t \in Rider : Restart(t) /\ \A u \in Rider : boot[u] = 0

\* The mesh is switched off and on.
Switch == kind = "switch" /\ \E t \in Rider : SetEnabled(t)

MCInit ==
    /\ Init
    /\ kind \in Kinds
    /\ kind # "switch" => friends = [t \in Rider |-> {}]
MCNext == (Ride \/ Away \/ Menu \/ Phone \/ Power \/ Switch) /\ UNCHANGED kind
MCSpec == MCInit /\ [][MCNext]_<<vars, kind>>

\* Switching the mesh off closes the prompt and leaves the asker's state as it
\* was; but for that, an asker always has a prompt.
AskersWait == kind # "switch" => AskersHaveAPrompt

\* The page on the screen and the handshakes agree: a page has a handshake
\* behind it, and an asker has a page.
PagesMatch == PageBacked /\ AskersWait
=============================================================================
