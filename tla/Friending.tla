----------------------------- MODULE Friending -----------------------------
(***************************************************************************)
(* What the rider mesh promises about friendships, with no radio in it: a   *)
(* rider comes to be in another's friend list only after both have said     *)
(* yes, whatever is lost, repeated or late on the air.                      *)
(***************************************************************************)
CONSTANT Rider

VARIABLES
    said,    \* {<<a, b>>}: rider a has, at some time, held the ring on rider b
    held     \* {<<a, b>>}: terminal a has rider b in its friend list

vars == <<said, held>>

Pair == Rider \X Rider

\* Lists left from earlier rides may be one-sided (a terminal was wiped), but
\* every entry came from two riders who agreed then.
Init ==
    /\ held \in SUBSET Pair
    /\ said = held \cup {<<e[2], e[1]>> : e \in held}

\* A rider holds the ring on another rider's card.
Consent(a, b) ==
    /\ said' = said \cup {<<a, b>>}
    /\ UNCHANGED held

\* A terminal stores a friend: the handshake ended, or the phone gave it back.
Befriend(a, b) ==
    /\ {<<a, b>>, <<b, a>>} \subseteq said
    /\ held' = held \cup {<<a, b>>}
    /\ UNCHANGED said

\* The phone, the only place to unfriend from, takes entries off a list.
Forget(a) ==
    /\ held' \in SUBSET held
    /\ \A e \in held \ held' : e[1] = a
    /\ UNCHANGED said

Next == \E a, b \in Rider : Consent(a, b) \/ Befriend(a, b) \/ Forget(a)

Spec == Init /\ [][Next]_vars
=============================================================================
