------------------------------ MODULE MCCalls -------------------------------
(***************************************************************************)
(* What brings calls to the terminal, one part a behaviour: the path of a   *)
(* call, from either phone, or the search for the iPhone's services that    *)
(* calls and routes come by.                                                *)
(***************************************************************************)
EXTENDS CallPath, AppleClient

VARIABLE part

callVars == <<part, vars, clientVars>>

CallsInit ==
    /\ part \in {"call", "apple"}
    /\ Init /\ ClientInit
    /\ part = "call" => database = 0

CallsNext ==
    \/ part = "call" /\ Next /\ UNCHANGED <<part, clientVars>>
    \/ part = "apple" /\ ClientNext /\ UNCHANGED <<part, vars>>

\* Each part's fairness, idle in a behaviour of the other.  NimBLE answers every
\* procedure on an encrypted link, or times it out; an indication sent arrives;
\* countdown_task runs.
PathFairness ==
    /\ WF_vars(part = "call" /\ Resend) /\ WF_vars(part = "call" /\ Receive)
    /\ WF_vars(part = "call" /\ CountdownTask)
    /\ SF_vars(part = "call" /\ Elapse)
AppleFairness ==
    /\ WF_clientVars(part = "apple" /\ conn = "secure" /\ (Row \/ Done \/ Failed))
    /\ WF_clientVars(part = "apple" /\ HearChanged)
    /\ WF_clientVars(part = "apple" /\ ClientTick)

CallsSpec == CallsInit /\ [][CallsNext]_callVars /\ PathFairness /\ AppleFairness
=============================================================================
