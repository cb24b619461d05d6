------------------------------ MODULE Odometer ------------------------------
(***************************************************************************)
(* The distance ridden and the compass's calibration: odometer.c integrates *)
(* the relayed speed, odometer_store.c and heading_store.c keep the total    *)
(* and the learnt heading in NVS, at most so often, for the next ride.       *)
(*                                                                           *)
(* Time is passes of countdown_task, one of them a second.  A metre here is  *)
(* half of what the bike rides in a pass; the heading is a version number:   *)
(* each fix that moves the filter is a new one, and 0 is nothing learnt.     *)
(***************************************************************************)
EXTENDS Naturals

CONSTANTS
    MaxGap,      \* ODOMETER_MAX_GAP_MS, in passes
    MinStep,     \* ODOMETER_STORE_MIN_STEP_M
    SaveEvery,   \* both stores' SAVE_INTERVAL_MS, in passes
    MaxMeters,   \* bound: the total
    MaxHeading,  \* bound: the heading's versions
    MaxFaults    \* bound: failed writes and power cuts

ASSUME OdometerAssumption ==
    /\ {MaxGap, MinStep, SaveEvery} \subseteq Nat \ {0}
    /\ {MaxMeters, MaxHeading, MaxFaults} \subseteq Nat

VARIABLES
    meters,      \* s_meters
    sample,      \* the chain: s_have_prev, whether it moved, its age
    stored,      \* s_saved_meters
    odoAge,      \* passes since s_last_save_ms, up to SaveEvery, which is also "never"
    heading,     \* heading_fusion's state; 0 is ~have_filtered
    headAge,     \* passes since heading_store's s_last_save_ms, likewise
    kept,        \* the NVS entries "meters" and "state"
    faults       \* failed writes and power cuts so far

odoVars == <<meters, sample, stored, odoAge, heading, headAge, kept, faults>>

NoSample == [have |-> FALSE, moved |-> FALSE, age |-> 0]

OdoInit ==
    /\ meters = 0 /\ sample = NoSample /\ stored = 0 /\ odoAge = SaveEvery
    /\ heading = 0 /\ headAge = SaveEvery
    /\ kept = [meters |-> 0, heading |-> 0]
    /\ faults = 0

Older(age) == IF age < SaveEvery THEN age + 1 ELSE age

\* odometer_accept: the trapezoid between two samples no further apart than
\* the gap; half a pass's ride for each end that moved, for every pass between.
Ridden(moves) ==
    IF ~sample.have \/ sample.age > MaxGap THEN 0
    ELSE sample.age * ((IF sample.moved THEN 1 ELSE 0) + (IF moves THEN 1 ELSE 0))

\* A pass brings a sample, one without a fix, which breaks the chain, or none.
Packet == {"none", "nofix", "standing", "moving"}
Fixed(p) == p \in {"standing", "moving"}

MetersAfter(p) == IF Fixed(p) THEN meters + Ridden(p = "moving") ELSE meters

SampleAfter(p) ==
    CASE Fixed(p) -> [have |-> TRUE, moved |-> p = "moving", age |-> 1]
      [] p = "nofix" -> NoSample
      [] OTHER -> [sample EXCEPT !.age = IF sample.have /\ sample.age <= MaxGap THEN @ + 1 ELSE @]

\* What a store does: nothing, a write, or a write that fails.
OdoDueStanding(m) == m >= stored + MinStep /\ odoAge = SaveEvery /\ m = meters
OdoDue(m) == m >= stored + MinStep /\ odoAge = SaveEvery
HeadDue(h) == h # 0 /\ headAge = SaveEvery

\* A failed write waits out the interval as a good one does; stored follows
\* only a good one.  An nvs_open that fails is tried in the next pass.
StoredAfter(fails, m) == IF fails THEN stored ELSE m

\* countdown_task: the packet, then heading_store and odometer_store.
Pass(opens, fails) ==
    \E p \in Packet, h \in heading .. heading + 1 :
        LET m == MetersAfter(p)
            odo == OdoDue(m) /\ opens
            head == HeadDue(h) /\ opens
        IN
        /\ m <= MaxMeters /\ h <= MaxHeading
        /\ h # heading => Fixed(p)
        /\ meters' = m /\ sample' = SampleAfter(p) /\ heading' = h
        /\ stored' = IF odo THEN StoredAfter(fails, m) ELSE stored
        /\ odoAge' = IF odo THEN 1 ELSE Older(odoAge)
        /\ headAge' = IF head THEN 1 ELSE Older(headAge)
        /\ kept' = [meters |-> IF odo /\ ~fails THEN m ELSE kept.meters,
                     heading |-> IF head /\ ~fails THEN h ELSE kept.heading]

GoodPass == Pass(TRUE, FALSE) /\ UNCHANGED faults
BadPass == \E opens \in BOOLEAN :
    faults < MaxFaults /\ faults' = faults + 1 /\ Pass(opens, TRUE)

RestartResetting ==
    /\ faults < MaxFaults
    /\ faults' = faults + 1
    /\ meters' = 0 /\ stored' = kept.meters /\ heading' = kept.heading
    /\ sample' = NoSample /\ odoAge' = SaveEvery /\ headAge' = SaveEvery
    /\ UNCHANGED kept
\* heading_store_load and odometer_store_load, after pipeline_reset.
RestartRide ==
    /\ faults < MaxFaults
    /\ faults' = faults + 1
    /\ meters' = kept.meters /\ stored' = kept.meters /\ heading' = kept.heading
    /\ sample' = NoSample /\ odoAge' = SaveEvery /\ headAge' = SaveEvery
    /\ UNCHANGED kept

OdoNext == GoodPass \/ BadPass \/ RestartRide

OdoSpec == OdoInit /\ [][OdoNext]_odoVars

-----------------------------------------------------------------------------
\* The interval, and again for each fault.
Interval == SaveEvery * (faults + 1)
\* What is not worth a write, as far as it is more than is ridden in an interval.
TooLittle == IF MinStep < 2 * SaveEvery THEN 0 ELSE MinStep + 1 - 2 * SaveEvery

\* Of a ride of two metres a pass and one change of heading, a power cut costs what was ridden in
\* the interval and a sample's gap before it, less the pass that writes and the sample's own, or
\* what is not worth a write, and no more, whatever failed before it; and no total is stored that
\* was not ridden.
RideKept ==
    /\ kept.meters <= meters
    /\ meters - kept.meters <= TooLittle + 2 * (Interval + MaxGap - 2)
    /\ heading - kept.heading < Interval
=============================================================================
