------------------------------ MODULE MCPhones ------------------------------
(***************************************************************************)
(* The terminal and the phone it is paired with: an Android phone, which    *)
(* keeps the friend list with it, or an iPhone, whose notifications it      *)
(* fetches.  The two share nothing, so a behaviour is about one of them.     *)
(***************************************************************************)
EXTENDS FriendSync, AppleFetch, TLC

\* The riders are interchangeable, where no liveness is checked.
Symmetry == Permutations(Friend)

VARIABLE pairing    \* "android" or "iphone"

phonesVars == <<pairing, vars, fetchVars>>

PhonesInit ==
    /\ pairing \in {"android", "iphone"}
    /\ Init /\ FetchInit
    /\ pairing = "iphone" => phone = <<>> /\ term = <<>>

PhonesNext ==
    /\ UNCHANGED pairing
    /\ \/ pairing = "android" /\ Next /\ UNCHANGED fetchVars
       \/ pairing = "iphone" /\ FetchNext /\ UNCHANGED vars

PhonesSpec == PhonesInit /\ [][PhonesNext]_phonesVars
=============================================================================
