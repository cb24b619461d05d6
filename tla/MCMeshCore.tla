----------------------------- MODULE MCMeshCore -----------------------------
(***************************************************************************)
(* Instances of MeshCore for TLC.  Strangers meet, and nothing disturbs the *)
(* handshake but the radio, the riders themselves and, in a crowd, a phone. *)
(***************************************************************************)
EXTENDS MeshCore, TLC

Strangers == Init /\ friends = [t \in Rider |-> {}]

\* Three riders, two of them in range of the third only: their handshakes meet
\* in that one's table, list and prompt, and a phone may give it a rider back in
\* the middle of them.  Nobody holds twice on the same rider (a bound).
Hub == CHOOSE t \in Rider : TRUE
Suitors == Permutations(Rider \ {Hub})
HoldOnce(t) ==
    \E p \in Pseud :
        /\ Hub \in {t, Owner(p)} /\ <<t, Owner(p)>> \notin said
        /\ Accept(t, p) \/ Request(t, p) \/ RefusedRequest(t, p)
CrowdNext ==
    \/ \E t, u \in Rider : Hub \in {t, u} /\ Hear(t, u)
    \/ \E t \in Rider : Receive(t) \/ HoldOnce(t) \/ Ticks(t)
CrowdSpec == Strangers /\ [][CrowdNext \/ \E t \in Rider : PhoneUpsert(Hub, t)]_vars

\* Two riders in range of each other, left alone, with a bounded burst of loss.
ConvergeNext == CrowdNext \/ \E f \in air : Lose(f)
ConvergeSpec == Strangers /\ [][ConvergeNext]_vars /\ Fairness

\* The same with a radio that keeps up: no deadline of the handshake with p
\* comes due while a frame between the two terminals is still on its way.
InTime(t) == {p \in Used(t) : \A f \in air : {f.from, f.to} # {Me(t), p}}
PromptRadioNext ==
    \/ \E t, u \in Rider : Hear(t, u)
    \/ \E t \in Rider : Receive(t) \/ HoldOnce(t)
    \/ \E t \in Rider :
          \E timeout \in BOOLEAN, due \in SUBSET InTime(t), acks \in SUBSET Owed(t) :
              Tick(t, timeout, due, acks)
    \/ \E f \in air : Lose(f)
PromptRadioSpec ==
    /\ Strangers /\ [][PromptRadioNext]_vars
    /\ WF_vars(\E t \in Rider : Receive(t))
    /\ \A t \in Rider : WF_vars(Tick(t, TRUE, InTime(t), Owed(t)))

=============================================================================
