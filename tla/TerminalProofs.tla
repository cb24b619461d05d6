--------------------------- MODULE TerminalProofs ---------------------------
(***************************************************************************)
(* The terminal's smaller parts.  What it keeps on flash: how much of a ride *)
(* a power cut can cost, for any intervals and any number of failed writes   *)
(* and power cuts; a mixture of two settings writes always replaced, for any *)
(* number of writes, failures and power cuts, and any quiet period; what     *)
(* power cuts can cost the drive log, for a ring of any size and any number  *)
(* of cuts; and what the mesh keeps of friends and identity when writes      *)
(* fail.  What its pages do for a finger: the call's page, for any number of *)
(* calls and presses, and Add friend's closing (FriendCardProofs has its     *)
(* card).  What the compass shows, for a circle of any number of headings.   *)
(* And how the terminal comes up, whatever order its tasks run in.           *)
(***************************************************************************)
EXTENDS MCTerminal, FriendCardProofs, WellFoundedInduction

-----------------------------------------------------------------------------
(* The odometer and the heading. *)

OdoType ==
    /\ meters \in Nat /\ stored \in Nat /\ heading \in Nat /\ faults \in Nat
    /\ sample \in [have : BOOLEAN, moved : BOOLEAN, age : Nat] /\ (sample.have => sample.age >= 1)
    /\ odoAge \in 1 .. SaveEvery /\ headAge \in 1 .. SaveEvery
    /\ kept \in [meters : Nat, heading : Nat]

\* What the next sample may still add of the time gone by without one, of a pass at least.
Credit == IF sample.have /\ sample.age <= MaxGap THEN 2 * sample.age ELSE 2

\* What has not been kept, with that, is worth no more than the passes since a write was tried,
\* a sample's gap, an interval for each fault, and what is not worth a write beyond an interval.
Spent == SaveEvery * faults
OdoBehind ==
    /\ kept.meters = stored /\ stored <= meters
    /\ meters - stored + Credit <= TooLittle + 2 * MaxGap + 2 * Spent + 2 * (odoAge - 1)
HeadBehind ==
    /\ kept.heading <= heading
    /\ heading - kept.heading < Spent + headAge

OdoInv == OdoType /\ OdoBehind /\ HeadBehind

-----------------------------------------------------------------------------
LEMMA Constants == MaxGap \in Nat /\ MaxGap >= 1 /\ MinStep \in Nat /\ MinStep >= 1 /\ SaveEvery \in Nat /\ SaveEvery >= 1
BY OdometerAssumption

LEMMA TooLittleIs ==
    /\ TooLittle \in Nat /\ MinStep - 1 <= TooLittle + 2 * (SaveEvery - 1)
BY Constants DEF TooLittle

LEMMA SpentType == ASSUME OdoType PROVE Spent \in Nat
BY Constants DEF OdoType, Spent

LEMMA SpentGrows ==
    ASSUME OdoType, faults' = faults + 1
    PROVE  Spent' = Spent + SaveEvery
BY Constants DEF OdoType, Spent

LEMMA AgeType == ASSUME NEW age \in 1 .. SaveEvery PROVE Older(age) \in 1 .. SaveEvery
BY Constants DEF Older

\* A pass adds to the distance what the credit allowed, and two to the credit.
LEMMA RideGrows ==
    ASSUME OdoType, NEW p \in Packet, sample' = SampleAfter(p)
    PROVE  /\ MetersAfter(p) \in Nat /\ MetersAfter(p) >= meters
           /\ sample' \in [have : BOOLEAN, moved : BOOLEAN, age : Nat] /\ (sample'.have => sample'.age >= 1)
           /\ Credit' \in Nat /\ Credit' <= 2 * MaxGap /\ Credit' >= 2
           /\ MetersAfter(p) + Credit' <= meters + Credit + 2
<1> USE Constants DEF OdoType
<1>1. CASE Fixed(p)
  <2>1. Ridden(p = "moving") \in Nat /\ Ridden(p = "moving") <= Credit
    <3> DEFINE ends == (IF sample.moved THEN 1 ELSE 0) + (IF p = "moving" THEN 1 ELSE 0)
    <3>1. ends \in {0, 1, 2}
      OBVIOUS
    <3>2. CASE ~sample.have \/ sample.age > MaxGap
      BY <3>2 DEF Ridden, Credit
    <3>3. CASE sample.have /\ sample.age <= MaxGap
      <4>1. Ridden(p = "moving") = sample.age * ends /\ Credit = 2 * sample.age
        BY <3>3 DEF Ridden, Credit
      <4>2. sample.age * ends \in Nat /\ sample.age * ends <= 2 * sample.age
        <5> HIDE DEF ends
        <5>1. CASE ends = 0 BY <5>1
        <5>2. CASE ends = 1 BY <5>2
        <5>3. CASE ends = 2 BY <5>3
        <5>4. QED BY <3>1, <5>1, <5>2, <5>3
      <4>3. QED BY <4>1, <4>2
    <3>4. QED BY <3>2, <3>3
  <2>2. sample' = [have |-> TRUE, moved |-> p = "moving", age |-> 1]
    BY <1>1 DEF SampleAfter, Fixed
  <2>3. Credit' = 2
    BY <2>2 DEF Credit
  <2>4. MetersAfter(p) = meters + Ridden(p = "moving")
    BY <1>1 DEF MetersAfter
  <2>5. QED BY <2>1, <2>2, <2>3, <2>4 DEF Credit
<1>2. CASE p = "nofix"
  <2>1. sample' = NoSample /\ MetersAfter(p) = meters
    BY <1>2 DEF SampleAfter, Fixed, MetersAfter
  <2>2. QED BY <2>1 DEF NoSample, Credit
<1>3. CASE p = "none"
  <2>1. /\ sample' = [sample EXCEPT !.age = IF sample.have /\ sample.age <= MaxGap THEN @ + 1 ELSE @]
        /\ MetersAfter(p) = meters
    BY <1>3 DEF SampleAfter, Fixed, MetersAfter
  <2>2. QED BY <2>1 DEF Credit
<1>4. QED BY <1>1, <1>2, <1>3 DEF Packet, Fixed
-----------------------------------------------------------------------------
\* A pass whose store works, or one of the faults: a failed write waits out
\* another interval, and a store that does not open is tried again at once.
LEMMA RidePassKeeps ==
    ASSUME OdoInv, NEW opens \in BOOLEAN, NEW fails \in BOOLEAN, Pass(opens, fails),
           \/ faults' = faults + 1
           \/ opens /\ ~fails /\ faults' = faults
    PROVE  OdoInv'
<1> USE Constants
<1>1. PICK p \in Packet, h \in heading .. heading + 1 :
        LET m == MetersAfter(p)
            odo == OdoDue(m) /\ opens
            head == HeadDue(h) /\ opens
        IN
        /\ m <= MaxMeters /\ h <= MaxHeading
        /\ h # heading => Fixed(p)
        /\ meters' = m /\ sample' = SampleAfter(p) /\ heading' = h
        /\ stored' = IF odo THEN StoredAfter(fails, m) ELSE stored
        /\ odoAge' = IF odo THEN 1 ELSE Older(odoAge)
        /\ headAge' = IF head THEN 1 ELSE Older(headAge)
        /\ kept' = [meters |-> IF odo /\ ~fails THEN m ELSE kept.meters,
                     heading |-> IF head /\ ~fails THEN h ELSE kept.heading]
  BY DEF Pass
<1>2. OdoType /\ Spent \in Nat
  BY SpentType DEF OdoInv
<1>3. /\ meters' \in Nat /\ meters' >= meters
      /\ sample' \in [have : BOOLEAN, moved : BOOLEAN, age : Nat] /\ (sample'.have => sample'.age >= 1)
      /\ Credit' \in Nat /\ Credit' <= 2 * MaxGap
      /\ meters' + Credit' <= meters + Credit + 2
  BY <1>1, <1>2, RideGrows
<1>4. faults' \in Nat /\ (faults' = faults => Spent' = Spent) /\ (faults' # faults => Spent' = Spent + SaveEvery)
  BY <1>2, SpentGrows DEF OdoType, Spent
<1>5. Credit \in Nat
  BY <1>2 DEF OdoType, Credit
<1>6. OdoType'
  BY <1>1, <1>2, <1>3, <1>4, AgeType DEF OdoType, StoredAfter
<1>7. OdoBehind'
  <2>1. kept.meters = stored /\ stored <= meters
        /\ meters - stored + Credit <= TooLittle + 2 * MaxGap + 2 * Spent + 2 * (odoAge - 1)
    BY DEF OdoInv, OdoBehind
  <2>2. CASE OdoDue(meters') /\ opens /\ ~fails
    BY <1>1, <1>2, <1>3, <1>4, <1>6, <2>2, TooLittleIs DEF OdoBehind, OdoType, StoredAfter
  <2>3. CASE OdoDue(meters') /\ opens /\ fails
    BY <1>1, <1>2, <1>3, <1>4, <1>5, <2>1, <2>3, TooLittleIs DEF OdoBehind, OdoType, OdoDue, StoredAfter
  <2>4. CASE OdoDue(meters') /\ ~opens
    BY <1>1, <1>2, <1>3, <1>4, <1>5, <2>1, <2>4, TooLittleIs DEF OdoBehind, OdoType, OdoDue, Older
  <2>5. CASE ~OdoDue(meters')
    BY <1>1, <1>2, <1>3, <1>4, <1>5, <2>1, <2>5, TooLittleIs DEF OdoBehind, OdoType, OdoDue, Older
  <2>6. QED BY <2>2, <2>3, <2>4, <2>5
<1>8. HeadBehind'
  <2>1. kept.heading <= heading /\ heading - kept.heading < Spent + headAge
    BY DEF OdoInv, HeadBehind
  <2>2. CASE HeadDue(heading') /\ opens /\ ~fails
    BY <1>1, <1>2, <1>4, <1>6, <2>2 DEF HeadBehind, OdoType
  <2>3. CASE HeadDue(heading') /\ ~(opens /\ ~fails)
    BY <1>1, <1>2, <1>4, <2>1, <2>3 DEF HeadBehind, OdoType, HeadDue, Older
  <2>4. CASE ~HeadDue(heading')
    BY <1>1, <1>2, <1>4, <2>1, <2>4 DEF HeadBehind, OdoType, HeadDue, Older
  <2>5. QED BY <2>2, <2>3, <2>4
<1>9. QED BY <1>6, <1>7, <1>8 DEF OdoInv

\* The ride goes on from what was kept.
LEMMA RestartRideKeeps ==
    ASSUME OdoInv, RestartRide
    PROVE  OdoInv'
<1>1. /\ meters' = kept.meters /\ stored' = kept.meters /\ heading' = kept.heading /\ UNCHANGED kept
      /\ faults' = faults + 1 /\ sample' = NoSample /\ odoAge' = SaveEvery /\ headAge' = SaveEvery
  BY DEF RestartRide
<1>2. OdoType'
  BY <1>1, Constants DEF OdoInv, OdoType, NoSample
<1>3. Credit' = 2
  BY <1>1 DEF Credit, NoSample
<1>4. Spent' \in Nat
  BY <1>1, SpentType, SpentGrows, Constants DEF OdoInv
<1>5. OdoBehind'
  BY <1>1, <1>2, <1>3, <1>4, Constants, TooLittleIs DEF OdoBehind, OdoType
<1>6. HeadBehind'
  BY <1>1, <1>2, <1>4, Constants DEF HeadBehind, OdoType
<1>7. QED BY <1>2, <1>5, <1>6 DEF OdoInv

LEMMA OdoStarts == OdoInit => OdoInv
<1> SUFFICES ASSUME OdoInit PROVE OdoInv
  OBVIOUS
<1>1. OdoType /\ Credit = 2
  BY Constants DEF OdoInit, OdoType, NoSample, Credit
<1>2. QED
  BY <1>1, SpentType, Constants, TooLittleIs DEF OdoInit, OdoInv, OdoType, OdoBehind, HeadBehind

LEMMA BehindIsBounded == OdoInv => RideKept
<1> SUFFICES ASSUME OdoInv PROVE RideKept
  OBVIOUS
<1>1. OdoType /\ Spent \in Nat /\ Credit \in Nat /\ Credit >= 2
  BY SpentType, Constants DEF OdoInv, OdoType, Credit
<1>2. Interval = Spent + SaveEvery
  BY <1>1, Constants DEF Interval, Spent, OdoType
<1>3. QED
  BY <1>1, <1>2, Constants, TooLittleIs DEF OdoInv, OdoType, OdoBehind, HeadBehind, RideKept

\* A power cut costs the ride no more than is ridden in an interval and a sample's
\* gap, or is not worth a write, and an interval for each fault before it; and no total is stored that was not ridden (odometer_store.c, heading_store.c).
THEOREM RideAlwaysKept == OdoSpec => []RideKept
<1>1. OdoInit => OdoInv
  BY OdoStarts
<1>2. OdoInv /\ [OdoNext]_odoVars => OdoInv'
  <2> SUFFICES ASSUME OdoInv, [OdoNext]_odoVars PROVE OdoInv'
    OBVIOUS
  <2>1. CASE GoodPass
    BY <2>1, RidePassKeeps DEF GoodPass
  <2>2. CASE BadPass
    BY <2>2, RidePassKeeps DEF BadPass
  <2>3. CASE RestartRide
    BY <2>3, RestartRideKeeps
  <2>4. CASE UNCHANGED odoVars
    BY <2>4 DEF odoVars, OdoInv, OdoType, OdoBehind, HeadBehind, Credit, Spent
  <2>5. QED BY <2>1, <2>2, <2>3, <2>4 DEF OdoNext
<1>3. OdoInv => RideKept
  BY BehindIsBounded
<1>4. QED BY <1>1, <1>2, <1>3, PTL DEF OdoSpec

-----------------------------------------------------------------------------
(* The settings. *)

SettingValues == [Field -> Nat]
Tasks == [at : {"apply", "read", "check", "encode", "write"}, gen : Nat, buf : SettingValues]

StoreType ==
    /\ current \in SettingValues /\ nvs \in [tlv : SettingValues, avatar : Nat]
    /\ generation \in Nat /\ saved \in Nat
    /\ task \in Tasks

\* Nothing counts as saved before it was set, and what the encoder holds is
\* what the settings are, as far as it has read, or it is of an old generation.
NothingAhead == saved <= generation /\ (task.at \in {"encode", "write"} => task.gen <= generation)
EncodedSoFar ==
    task.gen = generation =>
        /\ task.at = "encode" => task.buf["accent"] = current["accent"]
        /\ task.at = "write" => task.buf = current

StoreInv == StoreType /\ NothingAhead /\ EncodedSoFar /\ MixtureIsTemporary

-----------------------------------------------------------------------------
LEMMA DefaultsType == Defaults \in SettingValues
BY DEF Defaults, SettingValues

LEMMA StoreStarts == StoreInit => StoreInv
BY DefaultsType DEF StoreInit, StoreInv, StoreType, NothingAhead, EncodedSoFar, MixtureIsTemporary, Tasks

\* The steps that leave the settings, the flash and what the encoder holds alone.
LEMMA ElsewhereAtWork ==
    ASSUME StoreInv,
           UNCHANGED <<current, generation, saved>>, nvs'.tlv = nvs.tlv, nvs' \in [tlv : SettingValues, avatar : Nat],
           task' \in Tasks,
           task' = task \/ task'.at \notin {"encode", "write"}
    PROVE  StoreInv'
BY DEF StoreInv, StoreType, NothingAhead, EncodedSoFar, MixtureIsTemporary

LEMMA WhereType ==
    ASSUME StoreInv, NEW where \in {"apply", "read", "check", "encode", "write"}, Goto(where)
    PROVE  task' \in Tasks /\ task'.at = where
BY DEF StoreInv, StoreType, Tasks, Goto

LEMMA CountdownKeeps ==
    ASSUME StoreInv, CountdownStep
    PROVE  StoreInv'
<1>1. CASE ApplyGeneration
  BY <1>1, ElsewhereAtWork, WhereType DEF ApplyGeneration, avatarVars, StoreInv, StoreType
<1>2. CASE ApplySettings
  BY <1>2, ElsewhereAtWork, WhereType DEF ApplySettings, avatarVars, StoreInv, StoreType
<1>3. CASE CheckSave
  <2>1. UNCHANGED <<current, generation, saved, nvs>>
    BY <1>3 DEF CheckSave
  <2>2. CASE Goto("apply")
    BY <2>1, <2>2, ElsewhereAtWork, WhereType DEF StoreInv, StoreType
  <2>3. CASE task' = [at |-> "encode", gen |-> generation, buf |-> [Defaults EXCEPT !["accent"] = current["accent"]]]
    <3>1. [Defaults EXCEPT !["accent"] = current["accent"]] \in SettingValues
      BY DefaultsType DEF StoreInv, StoreType, SettingValues, Field
    <3>2. [Defaults EXCEPT !["accent"] = current["accent"]]["accent"] = current["accent"]
      BY DEF Defaults, Field
    <3>3. QED
      BY <2>1, <2>3, <3>1, <3>2
      DEF StoreInv, StoreType, NothingAhead, EncodedSoFar, MixtureIsTemporary, Tasks
  <2>4. QED BY <1>3, <2>2, <2>3 DEF CheckSave
<1>4. CASE EncodeRest
  <2> DEFINE rest == [task.buf EXCEPT !["choice"] = current["choice"]]
  <2>1. /\ task.at = "encode"
        /\ task' = [task EXCEPT !.at = "write", !.buf["choice"] = current["choice"]]
        /\ UNCHANGED <<current, generation, saved, nvs>>
    BY <1>4 DEF EncodeRest, At
  <2>2. task' = [at |-> "write", gen |-> task.gen, buf |-> rest]
    BY <2>1 DEF StoreInv, StoreType, Tasks
  <2>3. rest \in SettingValues
    BY DEF StoreInv, StoreType, Tasks, SettingValues, Field
  <2>4. ASSUME task.gen = generation PROVE rest = current
    BY <2>1, <2>4 DEF StoreInv, StoreType, EncodedSoFar, Tasks, SettingValues, Field
  <2>5. QED
    BY <2>1, <2>2, <2>3, <2>4
    DEF StoreInv, StoreType, NothingAhead, EncodedSoFar, MixtureIsTemporary, Tasks
<1>5. QED BY <1>1, <1>2, <1>3, <1>4 DEF CountdownStep

\* What counts as saved is what was newest before the encoder read anything.
LEMMA WriteKeeps ==
    ASSUME StoreInv, WriteSettings \/ WriteFails
    PROVE  StoreInv'
<1>1. CASE WriteSettings
  <2>1. /\ task.at = "write" /\ saved' = task.gen
        /\ nvs' = [nvs EXCEPT !.tlv = task.buf]
        /\ UNCHANGED <<current, generation>>
    BY <1>1 DEF WriteSettings, At, Saved
  <2>2. task' \in Tasks /\ task'.at = "apply"
    BY <1>1, WhereType DEF WriteSettings
  <2>3. nvs' \in [tlv : SettingValues, avatar : Nat] /\ nvs'.tlv = task.buf
    BY <2>1 DEF StoreInv, StoreType, Tasks
  <2>4. saved' \in Nat /\ saved' <= generation
    BY <2>1 DEF StoreInv, StoreType, NothingAhead, Tasks
  <2>5. task.buf # current => generation # task.gen
    BY <2>1 DEF StoreInv, EncodedSoFar
  <2>6. QED
    BY <2>1, <2>2, <2>3, <2>4, <2>5
    DEF StoreInv, StoreType, NothingAhead, EncodedSoFar, MixtureIsTemporary
<1>2. CASE WriteFails
  BY <1>2, ElsewhereAtWork, WhereType DEF WriteFails, avatarVars, StoreInv, StoreType
<1>3. QED BY <1>1, <1>2

\* A new generation is one that nothing saved or held is of.
LEMMA HostKeeps ==
    ASSUME StoreInv, HostStep \/ TellAvatar
    PROVE  StoreInv'
<1>1. ASSUME NEW fields \in SUBSET Field \ {{}}, SetSettings(fields)
      PROVE  StoreInv'
  <2>1. /\ current' = [f \in Field |-> IF f \in fields THEN generation ELSE current[f]]
        /\ generation' = generation + 1
        /\ UNCHANGED <<saved, task, nvs>>
    BY <1>1 DEF SetSettings
  <2>2. current' \in SettingValues
    BY <2>1 DEF StoreInv, StoreType, SettingValues
  <2>3. saved < generation' /\ (task.at \in {"encode", "write"} => task.gen < generation')
    BY <2>1 DEF StoreInv, StoreType, NothingAhead, Tasks
  <2>4. QED
    BY <2>1, <2>2, <2>3
    DEF StoreInv, StoreType, NothingAhead, EncodedSoFar, MixtureIsTemporary, Tasks
<1>2. CASE StoreAvatar
  <2>1. nvs' \in [tlv : SettingValues, avatar : Nat] /\ nvs'.tlv = nvs.tlv
    BY <1>2 DEF StoreAvatar, StoreInv, StoreType
  <2>2. QED
    BY <1>2, <2>1, ElsewhereAtWork DEF StoreAvatar, settingsVars, StoreInv, StoreType
<1>3. CASE TellAvatar
  BY <1>3, ElsewhereAtWork DEF TellAvatar, settingsVars, StoreInv, StoreType
<1>4. QED BY <1>1, <1>2, <1>3 DEF HostStep

LEMMA GuiKeeps ==
    ASSUME StoreInv, TestAvatar \/ ClearThenRead
    PROVE  StoreInv'
BY ElsewhereAtWork DEF TestAvatar, ClearThenRead, settingsVars, StoreInv, StoreType

LEMMA SettingsRestart ==
    ASSUME StoreInv, RestartTerminal
    PROVE  StoreInv'
BY DefaultsType
DEF RestartTerminal, Loaded, StoreInv, StoreType, NothingAhead, EncodedSoFar, MixtureIsTemporary, Tasks

\* What is on flash differs from the settings only while another save is due:
\* settings_store.c takes the generation before it encodes and counts only that
\* one as saved.
THEOREM MixturesReplaced == StoreSpec => []MixtureIsTemporary
<1>1. StoreInit => StoreInv
  BY StoreStarts
<1>2. StoreInv /\ [StoreNext]_storeVars => StoreInv'
  <2> SUFFICES ASSUME StoreInv, [StoreNext]_storeVars PROVE StoreInv'
    OBVIOUS
  <2>1. CASE UNCHANGED storeVars
    BY <2>1, ElsewhereAtWork DEF storeVars, settingsVars, StoreInv, StoreType
  <2>2. CASE StoreNext
    BY <2>2, CountdownKeeps, WriteKeeps, HostKeeps, GuiKeeps, SettingsRestart DEF StoreNext
  <2>3. QED BY <2>1, <2>2
<1>3. StoreInv => MixtureIsTemporary
  BY DEF StoreInv
<1>4. QED BY <1>1, <1>2, <1>3, PTL DEF StoreSpec

-----------------------------------------------------------------------------
(* The drive log: where in the ring an index goes. *)

SlotAt(i) == i % Slots
Aligned(i) == i % PerSector = 0

LEMMA LogConstants ==
    /\ Sectors \in Nat /\ Sectors >= 2 /\ PerSector \in Nat /\ PerSector >= 1
    /\ Slots \in Nat /\ Slots >= 2 * PerSector /\ Slots >= 1
    /\ MaxIndex \in Nat /\ MaxCuts \in Nat /\ QueueLen \in Nat
    /\ None \in Nat
<1>1. /\ Sectors \in Nat /\ Sectors >= 2 /\ PerSector \in Nat /\ PerSector >= 1
      /\ MaxIndex \in Nat /\ MaxCuts \in Nat /\ QueueLen \in Nat
  BY DriveLogAssumption
<1>2. Sectors * PerSector \in Nat /\ Sectors * PerSector >= 2 * PerSector
  BY <1>1
<1>3. QED BY <1>1, <1>2 DEF Slots, None

\* i is q times k and r; and p times k is less than q times k.
Parts(i, k, q, r) == i = k * q + r /\ r \in 0 .. k - 1
Less(k, p, q) == k * p < k * q

LEMMA Divided ==
    ASSUME NEW i \in Nat, NEW k \in Nat, k >= 1
    PROVE  \E q \in Nat : Parts(i, k, q, i % k)
<1>1. i \div k \in Nat /\ i % k \in 0 .. k - 1 /\ i = k * (i \div k) + (i % k)
  OBVIOUS
<1>2. QED BY <1>1 DEF Parts

LEMMA Remains ==
    ASSUME NEW i \in Nat, NEW k \in Nat, k >= 1, NEW q \in Int, NEW r, Parts(i, k, q, r)
    PROVE  i % k = r /\ i \div k = q
<1>1. i = k * q + r /\ r \in 0 .. k - 1
  BY DEF Parts
<1>2. QED BY <1>1

LEMMA AheadOf ==
    ASSUME NEW k \in Nat, k >= 1, NEW p \in Int, NEW q \in Int, Less(k, p, q)
    PROVE  k * p + k <= k * q
<1>1. k * p < k * q
  BY DEF Less
<1>2. QED BY <1>1

LEMMA AtType == ASSUME NEW i \in Nat PROVE SlotAt(i) \in Slot
BY LogConstants, Divided DEF SlotAt, Slot

LEMMA AtOnce ==
    ASSUME NEW i \in Nat, NEW j \in Nat, i <= j, j < i + Slots, SlotAt(i) = SlotAt(j)
    PROVE  i = j
<1> USE LogConstants
<1>1. PICK p \in Nat : i = Slots * p + SlotAt(i) /\ SlotAt(i) \in 0 .. Slots - 1
  BY Divided DEF SlotAt, Parts
<1>2. PICK q \in Nat : j = Slots * q + SlotAt(j)
  BY Divided DEF SlotAt, Parts
<1>3. Slots * p \in Nat /\ Slots * q \in Nat
  OBVIOUS
<1>4. Slots * p <= Slots * q /\ Slots * q < Slots * p + Slots
  BY <1>1, <1>2, <1>3
<1>5. ~(Slots * p < Slots * q)
  BY <1>3, <1>4, AheadOf DEF Less
<1>6. QED BY <1>1, <1>2, <1>3, <1>4, <1>5

LEMMA AtNext == ASSUME NEW i \in Nat PROVE (SlotAt(i) + 1) % Slots = SlotAt(i + 1)
<1> USE LogConstants
<1>1. PICK q \in Nat : i = Slots * q + SlotAt(i) /\ SlotAt(i) \in 0 .. Slots - 1
  BY Divided DEF SlotAt, Parts
<1>2. Slots * q \in Nat /\ Slots * (q + 1) = Slots * q + Slots
  OBVIOUS
<1>3. CASE SlotAt(i) + 1 < Slots
  <2>1. Parts(i + 1, Slots, q, SlotAt(i) + 1) /\ SlotAt(i) + 1 \in Nat
    BY <1>1, <1>2, <1>3 DEF Parts
  <2>2. (i + 1) % Slots = SlotAt(i) + 1
    BY <2>1, Remains
  <2>3. (SlotAt(i) + 1) % Slots = SlotAt(i) + 1
    <3>1. Parts(SlotAt(i) + 1, Slots, 0, SlotAt(i) + 1)
      BY <1>1, <1>3 DEF Parts
    <3>2. QED BY <3>1, <2>1, Remains
  <2>4. QED BY <2>2, <2>3 DEF SlotAt
<1>4. CASE SlotAt(i) + 1 = Slots
  <2>1. Parts(i + 1, Slots, q + 1, 0) /\ Parts(Slots, Slots, 1, 0)
    BY <1>1, <1>2, <1>4 DEF Parts
  <2>2. (i + 1) % Slots = 0
    BY <2>1, Remains
  <2>3. (SlotAt(i) + 1) % Slots = 0
    BY <1>4, <2>1, Remains
  <2>4. QED BY <2>2, <2>3 DEF SlotAt
<1>5. QED BY <1>1, <1>3, <1>4

LEMMA EntersAt == ASSUME NEW i \in Nat PROVE EntersSector(SlotAt(i)) <=> Aligned(i)
<1> USE LogConstants
<1>1. PICK q \in Nat : i = Slots * q + SlotAt(i) /\ SlotAt(i) \in 0 .. Slots - 1
  BY Divided DEF SlotAt, Parts
<1>2. PICK d \in Nat : Parts(SlotAt(i), PerSector, d, SlotAt(i) % PerSector)
  <2>1. SlotAt(i) \in Nat
    BY <1>1
  <2>2. QED BY <2>1, Divided
<1>3. Slots * q + PerSector * d = PerSector * (Sectors * q + d)
  BY DEF Slots
<1>4. Sectors * q + d \in Nat /\ Slots * q \in Nat /\ PerSector * d \in Nat
  OBVIOUS
<1>5. Parts(i, PerSector, Sectors * q + d, SlotAt(i) % PerSector)
  <2>1. SlotAt(i) = PerSector * d + (SlotAt(i) % PerSector) /\ SlotAt(i) % PerSector \in 0 .. PerSector - 1
    BY <1>2 DEF Parts
  <2>2. i = PerSector * (Sectors * q + d) + (SlotAt(i) % PerSector)
    <3>1. PICK m : m = SlotAt(i) % PerSector
      OBVIOUS
    <3>2. m \in Nat /\ SlotAt(i) = PerSector * d + m
      BY <2>1, <3>1
    <3>3. i = (Slots * q + PerSector * d) + m
      BY <1>1, <1>4, <3>2
    <3>4. i = PerSector * (Sectors * q + d) + m
      BY <1>3, <3>3
    <3>5. QED BY <3>1, <3>4
  <2>3. QED BY <2>1, <2>2 DEF Parts
<1>6. i % PerSector = SlotAt(i) % PerSector
  BY <1>2, <1>4, <1>5, Remains
<1>7. QED BY <1>6 DEF EntersSector, Aligned

\* A sector starts every PerSector indices.
LEMMA NextSector ==
    ASSUME NEW b \in Nat, Aligned(b), NEW n \in Nat, b < n, n <= b + PerSector
    PROVE  Aligned(n) <=> n = b + PerSector
<1> USE LogConstants
<1>1. PICK p \in Nat : b = PerSector * p
  <2>1. PICK p \in Nat : Parts(b, PerSector, p, b % PerSector)
    BY Divided
  <2>2. b = PerSector * p + 0
    BY <2>1 DEF Parts, Aligned
  <2>3. QED BY <2>2
<1>2. PICK q \in Nat : n = PerSector * q + (n % PerSector) /\ n % PerSector \in 0 .. PerSector - 1
  BY Divided DEF Parts
<1>3. PerSector * p \in Nat /\ PerSector * q \in Nat /\ PerSector * (p + 1) = PerSector * p + PerSector
  OBVIOUS
<1>4. ASSUME Aligned(n) PROVE n = b + PerSector
  <2>1. n = PerSector * q
    BY <1>2, <1>3, <1>4 DEF Aligned
  <2>2. PerSector * p + PerSector <= PerSector * q
    BY <1>1, <1>3, <2>1, AheadOf DEF Less
  <2>3. QED BY <1>1, <1>3, <2>1, <2>2
<1>5. ASSUME n = b + PerSector PROVE Aligned(n)
  <2>1. Parts(n, PerSector, p + 1, 0)
    BY <1>1, <1>3, <1>5 DEF Parts
  <2>2. QED BY <2>1, Remains DEF Aligned
<1>6. QED BY <1>4, <1>5

\* The sector an index begins is its own slot and those of the indices after it.
LEMMA SectorFrom ==
    ASSUME NEW n \in Nat, Aligned(n)
    PROVE  /\ SlotAt(n) + PerSector <= Slots
           /\ \A s \in Slot : s \in SectorOf(SlotAt(n)) <=> SlotAt(n) <= s /\ s < SlotAt(n) + PerSector
<1> USE LogConstants
<1>1. SlotAt(n) \in Slot /\ SlotAt(n) % PerSector = 0
  BY AtType, EntersAt DEF EntersSector
<1>2. PICK d \in Nat : SlotAt(n) = PerSector * d
  <2> SlotAt(n) \in Nat
    BY <1>1 DEF Slot
  <2>1. PICK d \in Nat : Parts(SlotAt(n), PerSector, d, SlotAt(n) % PerSector)
    BY Divided
  <2>2. SlotAt(n) = PerSector * d + 0
    BY <2>1, <1>1 DEF Parts
  <2>3. QED BY <2>2
<1>3. PerSector * d \in Nat /\ Slots = PerSector * Sectors
  BY DEF Slots
<1>4. PerSector * d + PerSector <= PerSector * Sectors
  BY <1>1, <1>2, <1>3, AheadOf DEF Slot, Less
<1>5. SlotAt(n) \div PerSector = d
  <2>1. Parts(SlotAt(n), PerSector, d, 0)
    BY <1>2, <1>3 DEF Parts
  <2>2. QED BY <2>1, <1>1, Remains DEF Slot
<1>6. ASSUME NEW s \in Slot
      PROVE  s \div PerSector = d <=> PerSector * d <= s /\ s < PerSector * d + PerSector
  <2>1. s \in Nat
    BY DEF Slot
  <2>2. PICK c \in Nat : Parts(s, PerSector, c, s % PerSector)
    BY <2>1, Divided
  <2>3. s \div PerSector = c /\ PerSector * c \in Nat
    BY <2>1, <2>2, Remains
  <2>4. CASE PerSector * c < PerSector * d
    BY <2>2, <2>3, <2>4, <1>3, AheadOf DEF Less, Parts
  <2>5. CASE PerSector * d < PerSector * c
    BY <2>2, <2>3, <2>5, <1>3, AheadOf DEF Less, Parts
  <2>6. CASE PerSector * c = PerSector * d
    <3>1. c = d
      BY <2>6
    <3>2. QED BY <2>2, <2>3, <3>1 DEF Parts
  <2>7. QED BY <2>3, <1>3, <2>4, <2>5, <2>6
<1>7. QED BY <1>2, <1>3, <1>4, <1>5, <1>6 DEF SectorOf

LEMMA SectorAt ==
    ASSUME NEW n \in Nat, Aligned(n), NEW i \in Nat, n <= i, i < n + PerSector
    PROVE  SlotAt(i) \in SectorOf(SlotAt(n))
<1> USE LogConstants
<1>1. PICK q \in Nat : n = Slots * q + SlotAt(n) /\ SlotAt(n) \in 0 .. Slots - 1
  BY Divided DEF SlotAt, Parts
<1>2. SlotAt(n) + PerSector <= Slots
  BY SectorFrom
<1>3. Slots * q \in Nat
  OBVIOUS
<1>4. Parts(i, Slots, q, SlotAt(n) + (i - n)) /\ SlotAt(n) + (i - n) \in 0 .. Slots - 1
  BY <1>1, <1>2, <1>3 DEF Parts
<1>5. SlotAt(i) = SlotAt(n) + (i - n)
  BY <1>4, Remains DEF SlotAt
<1>6. SlotAt(i) \in Slot /\ SlotAt(n) <= SlotAt(i) /\ SlotAt(i) < SlotAt(n) + PerSector
  BY <1>1, <1>4, <1>5 DEF Slot
<1>7. QED BY <1>6, SectorFrom

LEMMA SectorAway ==
    ASSUME NEW n \in Nat, Aligned(n), NEW i \in Nat, i < n, n + PerSector <= i + Slots
    PROVE  SlotAt(i) \notin SectorOf(SlotAt(n))
<1> USE LogConstants
<1>1. SUFFICES ASSUME SlotAt(i) \in SectorOf(SlotAt(n)) PROVE FALSE
  OBVIOUS
<1>2. SlotAt(i) \in Slot /\ SlotAt(n) <= SlotAt(i) /\ SlotAt(i) < SlotAt(n) + PerSector /\ SlotAt(n) \in Slot
  BY <1>1, AtType, SectorFrom
<1>3. PICK q \in Nat : n = Slots * q + SlotAt(n) /\ SlotAt(n) \in 0 .. Slots - 1
  BY Divided DEF SlotAt, Parts
<1> DEFINE j == n + (SlotAt(i) - SlotAt(n))
<1>4. j \in Nat /\ n <= j /\ j < n + PerSector /\ Slots * q \in Nat
  BY <1>2, <1>3 DEF Slot
<1>5. Parts(j, Slots, q, SlotAt(i))
  BY <1>2, <1>3, <1>4 DEF Slot, Parts
<1>6. SlotAt(j) = SlotAt(i)
  <2> HIDE DEF j
  <2>1. QED BY <1>4, <1>5, Remains DEF SlotAt
<1>7. i <= j /\ j < i + Slots
  BY <1>4
<1>8. i = j
  BY <1>4, <1>6, <1>7, AtOnce
<1>9. QED BY <1>4, <1>8

-----------------------------------------------------------------------------
(* What the flash holds, f, of the records finished so far, done.           *)

Index == 0 .. MaxIndex - 1
Cell == [head : Index \cup {None}, whole : Index \cup {None}, free : BOOLEAN]

\* A header is in the slot its index goes to, and a whole record has its header.
Sound(f) ==
    /\ f \in [Slot -> Cell]
    /\ \A s \in Slot :
          /\ f[s].head # None => s = SlotAt(f[s].head)
          /\ f[s].whole # None => f[s].whole = f[s].head
          /\ f[s].free => f[s].head = None

\* The cursor has been over index j.
Tried(f, done, j) == j \in done \/ (j \in Index /\ f[SlotAt(j)].head = j)

\* What became of record i: it is there, or its slot is spoilt.
Bad(f, i) == ~f[SlotAt(i)].free /\ f[SlotAt(i)].whole = None
Stands(f, i) == f[SlotAt(i)].whole = i \/ Bad(f, i)

\* Index b began the sector that is being filled, and its header is there.
Begun(f, b) ==
    /\ b \in Index /\ Aligned(b) /\ f[SlotAt(b)].head = b
    /\ \A s \in Slot : f[s].head # None => f[s].head < b + PerSector
    /\ \A i \in b .. b + PerSector - 1 : f[SlotAt(i)].head \in {None, i}

\* It is filled from its first slot on.
InTurn(f, done, b) ==
    /\ \A i \in done : i < b + PerSector
    /\ \A i \in b .. b + PerSector - 1 :
          Tried(f, done, i) => \A j \in b .. i : Tried(f, done, j)

\* The records are there from index from - Slots on.  Those are all that the ring
\* has; or, once this sector is full and an erasure of the next, which has the
\* oldest, may have begun, all but those.
Full(f, done, b) == \A j \in b .. b + PerSector - 1 : Tried(f, done, j)
Standing(f, done, b, from) ==
    /\ from \in {b + PerSector, b + 2 * PerSector}
    /\ \A i \in done : i + Slots >= from => Stands(f, i)
    /\ from # b + PerSector => Full(f, done, b)

Filled(f, done, b, from) == Begun(f, b) /\ InTurn(f, done, b) /\ Standing(f, done, b, from)

\* The indices that a cut has cost: never finished, or spoilt.
Lost(f, done, b, from) ==
    {i \in 0 .. b + PerSector - 1 :
       IF i \in done THEN i + Slots >= from /\ Bad(f, i) ELSE i < b \/ ~f[SlotAt(i)].free}

\* The cursor n is in that sector or at its end, past every header.
Cursor(f, done, b, n) ==
    /\ b < n /\ n <= b + PerSector
    /\ \A s \in Slot : f[s].head # None => f[s].head < n
    /\ \A j \in b .. n - 1 : Tried(f, done, j)

Blank(f, done) == done = {} /\ \A s \in Slot : f[s].head = None

-----------------------------------------------------------------------------
LEMMA CellType ==
    /\ Free \in Cell /\ Spoilt \in Cell
    /\ \A n \in Index : HeadOnly(n) \in Cell /\ Record(n) \in Cell
    /\ \A n \in Index : n \in Nat /\ n # None /\ n < None /\ n < MaxIndex
BY LogConstants DEF Cell, Index, Free, Spoilt, HeadOnly, Record, None

\* The first record after an erasure, or what a cut has left of it.
LEMMA Advances ==
    ASSUME NEW n \in Index, Aligned(n), Sound(flash), completed \subseteq Index,
           \A s \in Slot : flash[s].head # None => flash[s].head < n,
           \A i \in completed : i < n /\ (i + Slots >= n + PerSector => Stands(flash, i)),
           NEW r \in {Record(n), HeadOnly(n)},
           NEW done, \/ done = completed
                     \/ done = completed \cup {n} /\ r = Record(n),
           NEW f, f = [Erased(SlotAt(n)) EXCEPT ![SlotAt(n)] = r]
    PROVE  /\ Sound(f) /\ Filled(f, done, n, n + PerSector) /\ Cursor(f, done, n, n + 1)
           /\ \A i \in Lost(f, done, n, n + PerSector) :
                 \/ i = n /\ n \notin done
                 \/ i < n /\ i \notin done
                 \/ i < n /\ i \in completed /\ i + Slots >= n + PerSector /\ Bad(flash, i)
<1> USE LogConstants, CellType
<1>1. SlotAt(n) \in Slot /\ SlotAt(n) \in SectorOf(SlotAt(n))
  BY AtType, SectorAt
<1>2. /\ f[SlotAt(n)] = r /\ r.head = n /\ ~r.free /\ r \in Cell /\ (r.whole = n \/ r.whole = None)
      /\ \A s \in Slot : s # SlotAt(n) => f[s] = IF s \in SectorOf(SlotAt(n)) THEN Free ELSE flash[s]
      /\ f \in [Slot -> Cell]
  <2>1. r.head = n /\ ~r.free /\ (r.whole = n \/ r.whole = None)
    <3>1. CASE r = Record(n)
      BY <3>1 DEF Record
    <3>2. CASE r = HeadOnly(n)
      BY <3>2 DEF HeadOnly
    <3>3. QED BY <3>1, <3>2
  <2>2. Erased(SlotAt(n)) \in [Slot -> Cell] /\ r \in Cell
    BY DEF Sound, Erased
  <2>3. /\ f[SlotAt(n)] = r /\ f \in [Slot -> Cell]
        /\ \A s \in Slot : s # SlotAt(n) => f[s] = Erased(SlotAt(n))[s]
    BY <1>1, <2>2
  <2>4. \A s \in Slot : Erased(SlotAt(n))[s] = IF s \in SectorOf(SlotAt(n)) THEN Free ELSE flash[s]
    BY DEF Erased
  <2>5. QED BY <2>1, <2>2, <2>3, <2>4
<1>3. Free.head = None /\ Free.whole = None /\ Free.free
  BY DEF Free
<1>4. \A i \in Nat : SlotAt(i) \in Slot
  BY AtType
<1>5. \A i \in n + 1 .. n + PerSector - 1 : f[SlotAt(i)] = Free
  <2> SUFFICES ASSUME NEW i \in n + 1 .. n + PerSector - 1 PROVE f[SlotAt(i)] = Free
    OBVIOUS
  <2>1. i \in Nat /\ SlotAt(i) \in SectorOf(SlotAt(n))
    BY SectorAt
  <2>2. SlotAt(i) # SlotAt(n)
    BY <2>1, AtOnce
  <2>3. QED BY <1>2, <1>4, <2>1, <2>2
<1>6. \A i \in Nat : i < n /\ i + Slots >= n + PerSector => SlotAt(i) \in Slot /\ f[SlotAt(i)] = flash[SlotAt(i)]
  <2> SUFFICES ASSUME NEW i \in Nat, i < n, i + Slots >= n + PerSector
               PROVE  SlotAt(i) \in Slot /\ f[SlotAt(i)] = flash[SlotAt(i)]
    OBVIOUS
  <2>1. SlotAt(i) \notin SectorOf(SlotAt(n))
    BY SectorAway
  <2>2. QED BY <1>1, <1>2, <1>4, <2>1
<1>7. Sound(f)
  BY <1>1, <1>2, <1>3 DEF Sound, Cell
<1>8. \A s \in Slot : f[s].head # None => f[s].head \in Nat /\ f[s].head <= n
  BY <1>2, <1>3, <1>7 DEF Sound, Cell
<1>9. Begun(f, n)
  <2>1. \A s \in Slot : f[s].head # None => f[s].head < n + PerSector
    BY <1>8
  <2>2. \A i \in n .. n + PerSector - 1 : f[SlotAt(i)].head \in {None, i}
    <3> SUFFICES ASSUME NEW i \in n .. n + PerSector - 1 PROVE f[SlotAt(i)].head \in {None, i}
      OBVIOUS
    <3>1. CASE i = n
      BY <1>2, <3>1
    <3>2. CASE i # n
      BY <1>3, <1>5, <3>2
    <3>3. QED BY <3>1, <3>2
  <2>3. QED BY <1>2, <2>1, <2>2 DEF Begun
<1>10. Tried(f, done, n)
  BY <1>2 DEF Tried
<1>11. \A i \in n + 1 .. n + PerSector - 1 : ~Tried(f, done, i)
  BY <1>3, <1>5 DEF Tried
<1>12. InTurn(f, done, n)
  <2>1. \A i \in done : i \in Index /\ i < n + PerSector
    OBVIOUS
  <2>2. ASSUME NEW i \in n .. n + PerSector - 1, Tried(f, done, i), NEW j \in n .. i
        PROVE  Tried(f, done, j)
    <3>1. i = n
      BY <1>11, <2>2
    <3>2. j = n
      BY <3>1
    <3>3. QED BY <1>10, <3>2
  <2>3. QED BY <2>1, <2>2 DEF InTurn
<1>13. \A i \in done : i + Slots >= n + PerSector => Stands(f, i)
  <2> SUFFICES ASSUME NEW i \in done, i + Slots >= n + PerSector PROVE Stands(f, i)
    OBVIOUS
  <2>1. CASE i \in completed
    <3>1. f[SlotAt(i)] = flash[SlotAt(i)] /\ Stands(flash, i)
      BY <1>6, <2>1
    <3>2. QED BY <3>1 DEF Stands, Bad
  <2>2. CASE i \notin completed
    BY <1>2, <2>2 DEF Record, Stands
  <2>3. QED BY <2>1, <2>2
<1>14. Standing(f, done, n, n + PerSector)
  BY <1>13 DEF Standing
<1>15. Cursor(f, done, n, n + 1)
  <2>1. n .. (n + 1) - 1 = {n}
    OBVIOUS
  <2>2. \A s \in Slot : f[s].head # None => f[s].head < n + 1
    BY <1>8
  <2>3. QED BY <1>10, <2>1, <2>2 DEF Cursor
<1>16. ASSUME NEW i \in Lost(f, done, n, n + PerSector)
       PROVE  \/ i = n /\ n \notin done
              \/ i < n /\ i \notin done
              \/ i < n /\ i \in completed /\ i + Slots >= n + PerSector /\ Bad(flash, i)
  <2>1. /\ i \in 0 .. n + PerSector - 1
        /\ IF i \in done THEN i + Slots >= n + PerSector /\ Bad(f, i) ELSE i < n \/ ~f[SlotAt(i)].free
    BY <1>16 DEF Lost
  <2>2. CASE i < n /\ i \in done
    <3>1. f[SlotAt(i)] = flash[SlotAt(i)] /\ i \in completed
      BY <1>6, <2>1, <2>2
    <3>2. QED BY <2>1, <2>2, <3>1 DEF Bad
  <2>3. CASE i = n
    <3>1. n \notin done
      BY <1>2, <2>1, <2>3 DEF Record, Bad
    <3>2. QED BY <2>3, <3>1
  <2>4. CASE i > n
    BY <1>3, <1>5, <2>1, <2>4
  <2>5. QED BY <2>1, <2>2, <2>3, <2>4
<1>17. QED BY <1>7, <1>9, <1>12, <1>14, <1>15, <1>16 DEF Filled

\* A torn erasure of the sector after a full one.
LEMMA Tears ==
    ASSUME NEW b, NEW from, Filled(flash, completed, b, from), Sound(flash), completed \subseteq Index,
           NEW n, n = b + PerSector, Full(flash, completed, b),
           NEW f \in TornErase(SlotAt(n))
    PROVE  /\ Sound(f) /\ Filled(f, completed, b, b + 2 * PerSector)
           /\ Lost(f, completed, b, b + 2 * PerSector) \subseteq Lost(flash, completed, b, from)
<1> USE LogConstants, CellType
<1>1. b \in Index /\ b \in Nat /\ n \in Nat /\ Aligned(b) /\ Aligned(n)
  BY NextSector DEF Filled, Begun
<1>2. SlotAt(n) \in Slot /\ \A i \in Nat : SlotAt(i) \in Slot
  BY <1>1, AtType
<1>3. /\ f \in [Slot -> Cell]
      /\ \A s \in Slot : f[s] = flash[s] \/ f[s] = Free \/ f[s] = Spoilt
      /\ \A s \in Slot : s \notin SectorOf(SlotAt(n)) => f[s] = flash[s]
  BY DEF TornErase, Sound
<1>4. /\ Free.head = None /\ Free.whole = None /\ Free.free
      /\ Spoilt.head = None /\ Spoilt.whole = None /\ ~Spoilt.free
  BY DEF Free, Spoilt
<1>5. Sound(f)
  BY <1>3, <1>4 DEF Sound
<1>6. \A i \in Nat : i < n /\ i + Slots >= n + PerSector => f[SlotAt(i)] = flash[SlotAt(i)]
  <2> SUFFICES ASSUME NEW i \in Nat, i < n, i + Slots >= n + PerSector PROVE f[SlotAt(i)] = flash[SlotAt(i)]
    OBVIOUS
  <2>1. SlotAt(i) \notin SectorOf(SlotAt(n))
    BY <1>1, SectorAway
  <2>2. QED BY <1>2, <1>3, <2>1
<1>7. \A i \in b .. b + PerSector - 1 : f[SlotAt(i)] = flash[SlotAt(i)]
  BY <1>1, <1>6
<1>8. Full(f, completed, b)
  BY <1>1, <1>7 DEF Tried, Full
<1>9. Begun(f, b)
  <2>1. \A s \in Slot : f[s].head # None => f[s].head < b + PerSector
    BY <1>3, <1>4 DEF Filled, Begun
  <2>2. b \in b .. b + PerSector - 1
    BY <1>1
  <2>3. QED BY <1>7, <2>1, <2>2 DEF Filled, Begun
<1>10. InTurn(f, completed, b)
  BY <1>1, <1>8 DEF Filled, InTurn, Full
<1>11. \A i \in completed : i \in Nat /\ i < n
  BY DEF Filled, InTurn
<1>12. \A i \in completed : i + Slots >= b + 2 * PerSector => f[SlotAt(i)] = flash[SlotAt(i)] /\ i + Slots >= from
  BY <1>1, <1>6, <1>11 DEF Filled, Standing
<1>13. Standing(f, completed, b, b + 2 * PerSector)
  BY <1>8, <1>12 DEF Standing, Filled, Stands, Bad
<1>14. Lost(f, completed, b, b + 2 * PerSector) \subseteq Lost(flash, completed, b, from)
  <2> SUFFICES ASSUME NEW i \in Lost(f, completed, b, b + 2 * PerSector)
               PROVE  i \in Lost(flash, completed, b, from)
    OBVIOUS
  <2>1. /\ i \in 0 .. b + PerSector - 1
        /\ IF i \in completed THEN i + Slots >= b + 2 * PerSector /\ Bad(f, i) ELSE i < b \/ ~f[SlotAt(i)].free
    BY DEF Lost
  <2>2. CASE i \in completed
    BY <1>12, <2>1, <2>2 DEF Lost, Bad
  <2>3. CASE i \notin completed
    BY <1>1, <1>7, <2>1, <2>3 DEF Lost
  <2>4. QED BY <2>2, <2>3
<1>15. QED BY <1>5, <1>9, <1>10, <1>13, <1>14 DEF Filled

Put(n, r) == [flash EXCEPT ![SlotAt(n)] = r]

\* What becomes of slot SlotAt(n), and of the records finished.
MayWrite(n, r, done) ==
    \/ done = completed \cup {n} /\ r \in Programmed(flash[SlotAt(n)], n)
    \/ /\ done = completed /\ flash[SlotAt(n)].free
       /\ r \in {flash[SlotAt(n)], Spoilt, HeadOnly(n), Record(n)}

\* A record further on in its sector, over what a cut may have left in its slot;
\* or what a cut has left of it.
LEMMA Writes ==
    ASSUME NEW b, NEW from, Filled(flash, completed, b, from), Sound(flash), completed \subseteq Index,
           NEW n \in Index, Cursor(flash, completed, b, n), n < b + PerSector,
           NEW r, NEW done,
           MayWrite(n, r, done), NEW f, f = Put(n, r)
    PROVE  /\ Sound(f) /\ Filled(f, done, b, from)
           /\ n \in done => Cursor(f, done, b, n + 1)
           /\ Lost(f, done, b, from) \subseteq
                 Lost(flash, completed, b, from) \cup (IF n \in done THEN {} ELSE {n})
<1> USE LogConstants, CellType DEF MayWrite, Put
<1>1. /\ b \in Index /\ b \in Nat /\ b < n /\ n \in Nat
      /\ from \in {b + PerSector, b + 2 * PerSector}
      /\ \A i \in completed : i \in Nat /\ i < b + PerSector
  BY DEF Filled, Begun, Cursor, Standing, InTurn
<1>2. SlotAt(n) \in Slot /\ \A i \in Nat : SlotAt(i) \in Slot
  BY AtType
<1>3. \A i \in Nat : i # n /\ i < b + PerSector /\ i + Slots >= b + PerSector => SlotAt(i) # SlotAt(n)
  BY <1>1, AtOnce
\* The slot has no record yet.
<1>4. /\ flash[SlotAt(n)] \in Cell
      /\ flash[SlotAt(n)].head = None /\ flash[SlotAt(n)].whole = None
  <2>1. flash[SlotAt(n)].head \in {None, n}
    BY <1>1 DEF Filled, Begun
  <2>2. flash[SlotAt(n)].head # n
    BY <1>2 DEF Cursor
  <2>3. QED BY <1>2, <2>1, <2>2 DEF Sound
<1>5. /\ r \in Cell /\ r.head \in {None, n} /\ (r.whole # None => r.whole = r.head)
      /\ r.free => r.head = None
      /\ n \in done => (r.whole = n \/ (~r.free /\ r.whole = None))
  <2>1. n \in completed => ~flash[SlotAt(n)].free
    <3> SUFFICES ASSUME n \in completed PROVE ~flash[SlotAt(n)].free
      OBVIOUS
    <3>1. Stands(flash, n)
      BY <1>1 DEF Filled, Standing
    <3>2. QED BY <1>4, <3>1 DEF Stands, Bad
  <2>2. CASE r = flash[SlotAt(n)] /\ n \notin done
    BY <1>4, <2>2 DEF Sound
  <2>3. CASE r = Spoilt
    BY <2>3 DEF Spoilt
  <2>4. CASE r = HeadOnly(n)
    BY <2>4 DEF HeadOnly
  <2>5. CASE r = Record(n)
    BY <2>5 DEF Record
  <2>6. \/ r = flash[SlotAt(n)] /\ n \notin done
        \/ r \in {Spoilt, HeadOnly(n), Record(n)}
    BY <2>1 DEF Programmed
  <2>7. QED BY <2>2, <2>3, <2>4, <2>5, <2>6
<1>6. /\ f \in [Slot -> Cell] /\ f[SlotAt(n)] = r
      /\ \A s \in Slot : s # SlotAt(n) => f[s] = flash[s]
  BY <1>2, <1>5 DEF Sound
<1>7. \A i \in Nat : i # n /\ i < b + PerSector /\ i + Slots >= b + PerSector => f[SlotAt(i)] = flash[SlotAt(i)]
  BY <1>2, <1>3, <1>6
<1>8. Sound(f)
  BY <1>2, <1>5, <1>6 DEF Sound
<1>9. Begun(f, b)
  <2>1. \A s \in Slot : f[s].head # None => f[s].head < b + PerSector
    <3> SUFFICES ASSUME NEW s \in Slot, f[s].head # None PROVE f[s].head < b + PerSector
      OBVIOUS
    <3>1. CASE s = SlotAt(n)
      BY <1>5, <1>6, <3>1
    <3>2. CASE s # SlotAt(n)
      BY <1>6, <3>2 DEF Filled, Begun
    <3>3. QED BY <3>1, <3>2
  <2>2. \A i \in b .. b + PerSector - 1 : f[SlotAt(i)].head \in {None, i}
    <3> SUFFICES ASSUME NEW i \in b .. b + PerSector - 1 PROVE f[SlotAt(i)].head \in {None, i}
      OBVIOUS
    <3>1. CASE i = n
      BY <1>5, <1>6, <3>1
    <3>2. CASE i # n
      BY <1>1, <1>7, <3>2 DEF Filled, Begun
    <3>3. QED BY <3>1, <3>2
  <2>3. f[SlotAt(b)].head = b
    BY <1>1, <1>7 DEF Filled, Begun
  <2>4. QED BY <1>1, <2>1, <2>2, <2>3 DEF Begun, Filled
<1>10. \A j \in b .. b + PerSector - 1 : j # n => (Tried(f, done, j) <=> Tried(flash, completed, j))
  BY <1>1, <1>7 DEF Tried
<1>11. Tried(flash, completed, n) => n \in completed
  BY <1>4 DEF Tried
<1>12. \A i \in done : i \in Nat /\ i < b + PerSector
  BY <1>1
<1>13. \A j \in b .. n - 1 : Tried(f, done, j)
  <2> SUFFICES ASSUME NEW j \in b .. n - 1 PROVE Tried(f, done, j)
    OBVIOUS
  <2>1. j \in b .. b + PerSector - 1 /\ j # n
    BY <1>1
  <2>2. QED BY <1>10, <2>1 DEF Cursor
<1>14. InTurn(f, done, b)
  <2> SUFFICES ASSUME NEW i \in b .. b + PerSector - 1, Tried(f, done, i), NEW j \in b .. i
               PROVE  Tried(f, done, j)
    BY <1>12 DEF InTurn
  <2> i \in Nat /\ j \in Nat /\ j \in b .. b + PerSector - 1
    BY <1>1
  <2>1. CASE j < n
    <3>1. j \in b .. n - 1
      BY <1>1, <2>1
    <3>2. QED BY <1>13, <3>1, Zenon
  <2>2. CASE j = n /\ i # n
    <3>1. Tried(flash, completed, i)
      BY <1>10, <2>2
    <3>2. Tried(flash, completed, n)
      BY <3>1, <2>2 DEF Filled, InTurn
    <3>3. QED BY <1>11, <2>2, <3>2 DEF Tried
  <2>3. CASE j > n
    <3> i # n /\ j # n
      BY <1>1, <2>3
    <3>1. Tried(flash, completed, i)
      BY <1>10, Zenon
    <3>2. Tried(flash, completed, j)
      BY <3>1 DEF Filled, InTurn
    <3>3. QED BY <1>10, <3>2, Zenon
  <2>4. CASE j = n /\ i = n
    BY <2>4
  <2>5. QED BY <1>1, <2>1, <2>2, <2>3, <2>4
<1>15. Standing(f, done, b, from)
  <2>1. \A i \in done : i + Slots >= from => Stands(f, i)
    <3> SUFFICES ASSUME NEW i \in done, i + Slots >= from PROVE Stands(f, i)
      OBVIOUS
    <3>1. CASE i = n
      BY <1>5, <1>6, <3>1 DEF Stands, Bad
    <3>2. CASE i # n
      <4>1. i \in completed /\ f[SlotAt(i)] = flash[SlotAt(i)]
        BY <1>1, <1>7, <1>12, <3>2
      <4>2. Stands(flash, i)
        BY <4>1 DEF Filled, Standing
      <4>3. QED BY <4>1, <4>2 DEF Stands, Bad
    <3>3. QED BY <3>1, <3>2
  <2>2. ASSUME from # b + PerSector PROVE Full(f, done, b)
    <3>1. Full(flash, completed, b)
      BY <2>2 DEF Filled, Standing
    <3>2. n \in done
      BY <1>1, <1>11, <3>1 DEF Full
    <3>3. Tried(f, done, n)
      BY <3>2 DEF Tried
    <3>4. QED BY <1>10, <3>1, <3>3 DEF Full
  <2>3. QED BY <1>1, <2>1, <2>2 DEF Standing
<1>16. ASSUME n \in done PROVE Cursor(f, done, b, n + 1)
  <2>1. \A s \in Slot : f[s].head # None => f[s].head < n + 1
    <3> SUFFICES ASSUME NEW s \in Slot, f[s].head # None PROVE f[s].head < n + 1
      OBVIOUS
    <3>1. CASE s = SlotAt(n)
      BY <1>5, <1>6, <3>1
    <3>2. CASE s # SlotAt(n)
      <4>1. f[s].head = flash[s].head /\ flash[s].head < n /\ flash[s].head \in Nat
        BY <1>6, <3>2 DEF Cursor, Sound, Cell
      <4>2. QED BY <4>1
    <3>3. QED BY <3>1, <3>2
  <2>2. Tried(f, done, n)
    BY <1>16 DEF Tried
  <2>3. \A j \in b .. (n + 1) - 1 : Tried(f, done, j)
    <3> SUFFICES ASSUME NEW j \in b .. (n + 1) - 1 PROVE Tried(f, done, j)
      OBVIOUS
    <3>1. j = n \/ j \in b .. n - 1
      BY <1>1
    <3>2. QED BY <1>13, <2>2, <3>1, Zenon
  <2>4. b < n + 1 /\ n + 1 <= b + PerSector
    BY <1>1
  <2>5. QED BY <2>1, <2>3, <2>4, Zenon DEF Cursor
<1>17. Lost(f, done, b, from) \subseteq
          Lost(flash, completed, b, from) \cup (IF n \in done THEN {} ELSE {n})
  <2> SUFFICES ASSUME NEW i \in Lost(f, done, b, from)
               PROVE  i \in Lost(flash, completed, b, from) \cup (IF n \in done THEN {} ELSE {n})
    OBVIOUS
  <2>1. /\ i \in 0 .. b + PerSector - 1
        /\ IF i \in done THEN i + Slots >= from /\ Bad(f, i) ELSE i < b \/ ~f[SlotAt(i)].free
    BY DEF Lost
  <2>2. CASE i = n /\ n \notin done
    BY <2>2
  <2>3. CASE i = n /\ n \in done
    <3>1. r.whole = None
      BY <1>6, <2>1, <2>3 DEF Bad
    <3>2. r # Record(n)
      BY <3>1 DEF Record
    <3>3. ~flash[SlotAt(n)].free
      <4>1. CASE done = completed \cup {n} /\ r \in Programmed(flash[SlotAt(n)], n)
        BY <3>2, <4>1 DEF Programmed
      <4>2. CASE done = completed
        <5>1. Stands(flash, n)
          BY <1>1, <2>3, <4>2 DEF Filled, Standing
        <5>2. QED BY <1>4, <5>1 DEF Stands, Bad
      <4>3. QED BY <4>1, <4>2
    <3>4. QED BY <1>1, <1>4, <2>1, <2>3, <3>3 DEF Lost, Bad
  <2>4. CASE i # n /\ i \in done
    <3>1. i \in completed /\ f[SlotAt(i)] = flash[SlotAt(i)]
      BY <1>1, <1>7, <2>1, <2>4
    <3>2. QED BY <2>1, <2>4, <3>1 DEF Lost, Bad
  <2>5. CASE i # n /\ i \notin done
    <3>1. i \notin completed
      BY <2>5
    <3>2. i >= b => f[SlotAt(i)] = flash[SlotAt(i)]
      BY <1>1, <1>7, <2>1, <2>5
    <3>3. QED BY <1>1, <2>1, <2>5, <3>1, <3>2 DEF Lost
  <2>6. QED BY <2>2, <2>3, <2>4, <2>5
<1>18. QED BY <1>8, <1>9, <1>14, <1>15, <1>16, <1>17 DEF Filled

\* recover_cursor finds the end of what was written.
LEMMA Recovers ==
    ASSUME NEW f, NEW done, NEW b, NEW from, Sound(f), Filled(f, done, b, from)
    PROVE  /\ Recovered(f).index \in Nat /\ Recovered(f).index <= MaxIndex
           /\ Recovered(f).slot = SlotAt(Recovered(f).index)
           /\ Cursor(f, done, b, Recovered(f).index)
<1> USE LogConstants, CellType
<1>1. b \in Index /\ SlotAt(b) \in Slot /\ f[SlotAt(b)].head = b
  BY AtType DEF Filled, Begun
<1>2. SlotAt(b) \in Readable(f)
  BY <1>1 DEF Readable
<1>3. \A s \in Readable(f) : s \in Slot /\ f[s].head \in Index /\ s = SlotAt(f[s].head)
  BY DEF Readable, Sound, Cell
<1>4. \E s \in Readable(f) : \A t \in Readable(f) : f[s].head >= f[t].head
  <2> DEFINE T == {None - f[s].head : s \in Readable(f)}
  <2>1. T \subseteq Nat /\ T # {}
    BY <1>2, <1>3
  <2>2. PICK m \in T : \A k \in T : <<k, m>> \notin OpToRel(<, Nat)
    <3> HIDE DEF T
    <3>1. QED BY <2>1, WFMin, NatLessThanWellFounded, Zenon
  <2>3. \A k \in T : ~(k < m)
    <3> HIDE DEF T
    <3> SUFFICES ASSUME NEW k \in T PROVE ~(k < m)
      OBVIOUS
    <3>1. k \in Nat /\ m \in Nat
      BY <2>1
    <3>2. QED BY <2>2, <3>1, Zenon DEF OpToRel
  <2>4. PICK s \in Readable(f) : m = None - f[s].head
    OBVIOUS
  <2>5. \A t \in Readable(f) : ~(None - f[t].head < m)
    BY <2>3
  <2>6. \A t \in Readable(f) : f[s].head >= f[t].head
    BY <1>3, <2>4, <2>5
  <2>7. QED BY <2>6
<1> DEFINE best == CHOOSE s \in Readable(f) : \A t \in Readable(f) : f[s].head >= f[t].head
<1>5. best \in Readable(f) /\ \A t \in Readable(f) : f[best].head >= f[t].head
  BY <1>4
<1>6. Recovered(f) = [slot |-> (best + 1) % Slots, index |-> f[best].head + 1]
  BY <1>2 DEF Recovered
<1> HIDE DEF best
<1>7. PICK h \in Index : h = f[best].head
  BY <1>3, <1>5
<1>8. best = SlotAt(h) /\ b <= h /\ h < b + PerSector
  BY <1>1, <1>2, <1>3, <1>5, <1>7 DEF Filled, Begun
<1>9. Recovered(f).index = h + 1 /\ Recovered(f).slot = SlotAt(h + 1)
  BY <1>6, <1>7, <1>8, AtNext
<1>10. \A s \in Slot : f[s].head # None => f[s].head < h + 1
  BY <1>3, <1>5, <1>7 DEF Readable
<1>11. \A j \in b .. (h + 1) - 1 : Tried(f, done, j)
  <2>1. Tried(f, done, h)
    BY <1>7, <1>8 DEF Tried
  <2>2. h \in b .. b + PerSector - 1
    BY <1>1, <1>8
  <2>3. \A j \in b .. h : Tried(f, done, j)
    BY <2>1, <2>2 DEF Filled, InTurn
  <2>4. QED BY <2>3
<1>12. QED BY <1>1, <1>8, <1>9, <1>10, <1>11 DEF Cursor

-----------------------------------------------------------------------------
(* The log's invariant, and its steps.                                      *)

RingHeld(f, done, b, from, k) ==
    Filled(f, done, b, from) /\ Cardinality(Lost(f, done, b, from)) <= k

LogInv ==
    /\ nextIndex \in 0 .. MaxIndex /\ cuts \in Nat /\ completed \subseteq Index
    /\ Sound(flash)
    /\ enabled => nextSlot = SlotAt(nextIndex)
    /\ \/ Blank(flash, completed) /\ (enabled => nextIndex = 0)
       \/ \E b, from \in Nat :
             /\ RingHeld(flash, completed, b, from, cuts)
             /\ enabled => Cursor(flash, completed, b, nextIndex)

LEMMA SpentCounts ==
    ASSUME NEW f, NEW done, NEW b \in Nat, NEW from, NEW k \in Nat
    PROVE  /\ IsFiniteSet(Lost(f, done, b, from)) /\ Cardinality(Lost(f, done, b, from)) \in Nat
           /\ \A S : \A n :
                 /\ S \subseteq Lost(f, done, b, from) =>
                       Cardinality(S) <= Cardinality(Lost(f, done, b, from))
                 /\ S \subseteq Lost(f, done, b, from) \cup {n} =>
                       Cardinality(S) <= Cardinality(Lost(f, done, b, from)) + 1
<1> DEFINE T == Lost(f, done, b, from)
<1>1. IsFiniteSet(T)
  <2>1. T \in SUBSET (0 .. b + PerSector - 1)
    BY DEF Lost
  <2>2. IsFiniteSet(0 .. b + PerSector - 1)
    BY FS_Interval, LogConstants
  <2>3. QED BY <2>1, <2>2, FS_Subset
<1>2. Cardinality(T) \in Nat
  BY <1>1, FS_CardinalityType
<1>3. ASSUME NEW S, NEW n, S \subseteq T PROVE Cardinality(S) <= Cardinality(T)
  BY <1>1, <1>3, FS_Subset
<1>4. ASSUME NEW S, NEW n, S \subseteq T \cup {n} PROVE Cardinality(S) <= Cardinality(T) + 1
  <2>1. IsFiniteSet(T \cup {n}) /\ Cardinality(T \cup {n}) <= Cardinality(T) + 1
    <3> HIDE DEF T
    <3>1. QED BY SMTT(30), <1>1, <1>2, FS_AddElement
  <2>2. Cardinality(S) <= Cardinality(T \cup {n}) /\ Cardinality(S) \in Nat /\ Cardinality(T \cup {n}) \in Nat
    <3> HIDE DEF T
    <3>1. S \in SUBSET (T \cup {n})
      BY <1>4
    <3>2. IsFiniteSet(S)
      BY <2>1, <3>1, FS_Subset
    <3>3. QED BY <2>1, <3>1, <3>2, FS_Subset, FS_CardinalityType
  <2>3. QED
    <3> HIDE DEF T
    <3>1. QED BY <1>2, <2>1, <2>2
<1>5. QED BY <1>1, <1>2, <1>3, <1>4

BlockTorn(erased, half) ==
    [s \in Slot |-> IF s \in erased THEN Free ELSE IF s \in half THEN Spoilt ELSE flash[s]]

LEMMA TornEraseHas ==
    ASSUME NEW slot, NEW erased \in SUBSET SectorOf(slot), NEW half \in SUBSET SectorOf(slot)
    PROVE  BlockTorn(erased, half) \in TornErase(slot)
BY DEF TornErase, BlockTorn

\* An erasure with its first slot free, or spoilt since, is one that may be torn.
LEMMA ErasedIsTorn ==
    ASSUME NEW slot \in Slot, slot \in SectorOf(slot), NEW r \in {Free, Spoilt}
    PROVE  [Erased(slot) EXCEPT ![slot] = r] \in TornErase(slot)
<1>1. CASE r = Free
  <2>1. [Erased(slot) EXCEPT ![slot] = r] =
          BlockTorn(SectorOf(slot), {})
    BY <1>1 DEF Erased, BlockTorn
  <2>2. SectorOf(slot) \in SUBSET SectorOf(slot) /\ {} \in SUBSET SectorOf(slot)
    OBVIOUS
  <2>3. BlockTorn(SectorOf(slot), {}) \in TornErase(slot)
    BY <2>2, TornEraseHas
  <2>4. QED BY <2>1, <2>3
<1>2. CASE r = Spoilt
  <2> DEFINE rest == SectorOf(slot) \ {slot}
  <2>1. [Erased(slot) EXCEPT ![slot] = r] =
          BlockTorn(rest, {slot})
    BY <1>2 DEF Erased, BlockTorn
  <2>2. rest \in SUBSET SectorOf(slot) /\ {slot} \in SUBSET SectorOf(slot)
    OBVIOUS
  <2>3. QED BY <2>1, <2>2, TornEraseHas
<1>3. QED BY <1>1, <1>2

LEMMA BlankTears ==
    ASSUME NEW slot, NEW f \in TornErase(slot), Blank(flash, completed), Sound(flash)
    PROVE  Sound(f) /\ Blank(f, completed)
<1>1. /\ f \in [Slot -> Cell]
      /\ \A s \in Slot : f[s] = flash[s] \/ f[s] = Free \/ f[s] = Spoilt
  BY CellType DEF TornErase, Sound
<1>2. /\ Free.head = None /\ Free.whole = None /\ Free.free
      /\ Spoilt.head = None /\ Spoilt.whole = None /\ ~Spoilt.free
  BY DEF Free, Spoilt
<1>3. QED BY <1>1, <1>2 DEF Sound, Blank

\* The first record of all.
LEMMA FirstOfAll ==
    ASSUME Sound(flash), Blank(flash, completed), 0 \in Index,
           NEW r \in {Record(0), HeadOnly(0)},
           NEW done, \/ done = completed
                     \/ done = completed \cup {0} /\ r = Record(0),
           NEW f, f = [Erased(SlotAt(0)) EXCEPT ![SlotAt(0)] = r]
    PROVE  /\ Sound(f) /\ Filled(f, done, 0, PerSector) /\ Cursor(f, done, 0, 1)
           /\ Lost(f, done, 0, PerSector) \subseteq IF 0 \in done THEN {} ELSE {0}
<1> USE LogConstants
<1>1. completed = {} /\ \A s \in Slot : flash[s].head = None
  BY DEF Blank
<1>2. Aligned(0)
  BY DEF Aligned
<1>3. /\ Sound(f) /\ Filled(f, done, 0, 0 + PerSector) /\ Cursor(f, done, 0, 0 + 1)
      /\ \A i \in Lost(f, done, 0, 0 + PerSector) :
            \/ i = 0 /\ 0 \notin done
            \/ i < 0 /\ i \notin done
            \/ i < 0 /\ i \in completed /\ i + Slots >= 0 + PerSector /\ Bad(flash, i)
  <2>1. \A s \in Slot : flash[s].head # None => flash[s].head < 0
    BY <1>1
  <2>2. \A i \in completed : i < 0 /\ (i + Slots >= 0 + PerSector => Stands(flash, i))
    BY <1>1
  <2>3. completed \subseteq Index
    BY <1>1
  <2>4. QED BY <1>2, <2>1, <2>2, <2>3, Advances
<1>4. 0 + PerSector = PerSector /\ 0 + 1 = 1
  OBVIOUS
<1>5. \A i \in Lost(f, done, 0, PerSector) : i = 0 /\ 0 \notin done
  <2>1. \A i \in Lost(f, done, 0, PerSector) : i \in 0 .. 0 + PerSector - 1
    BY DEF Lost
  <2>2. QED BY <1>3, <1>4, <2>1
<1>6. QED BY <1>3, <1>4, <1>5

\* The first record of the sector after a full one.
LEMMA NextFirst ==
    ASSUME NEW b \in Nat, NEW from, Filled(flash, completed, b, from), Sound(flash), completed \subseteq Index,
           NEW n \in Index, n = b + PerSector, Cursor(flash, completed, b, n),
           NEW r \in {Record(n), HeadOnly(n)},
           NEW done, \/ done = completed
                     \/ done = completed \cup {n} /\ r = Record(n),
           NEW f, f = [Erased(SlotAt(n)) EXCEPT ![SlotAt(n)] = r]
    PROVE  /\ Sound(f) /\ Filled(f, done, n, n + PerSector) /\ Cursor(f, done, n, n + 1)
           /\ Lost(f, done, n, n + PerSector) \subseteq
                 Lost(flash, completed, b, from) \cup (IF n \in done THEN {} ELSE {n})
<1> USE LogConstants
<1>1. Aligned(n) /\ from <= n + PerSector /\ from \in Nat /\ n \in Nat
  BY NextSector, CellType DEF Filled, Begun, Standing
<1>2. \A i \in completed : i \in Nat /\ i < n /\ (i + Slots >= n + PerSector => Stands(flash, i))
  <2> SUFFICES ASSUME NEW i \in completed
               PROVE  i \in Nat /\ i < n /\ (i + Slots >= n + PerSector => Stands(flash, i))
    OBVIOUS
  <2>1. i \in Nat /\ i < n
    BY CellType DEF Filled, InTurn
  <2>2. ASSUME i + Slots >= n + PerSector PROVE Stands(flash, i)
    <3>1. i + Slots >= from
      BY <1>1, <2>1, <2>2
    <3>2. QED BY <3>1 DEF Filled, Standing
  <2>3. QED BY <2>1, <2>2
<1>3. \A s \in Slot : flash[s].head # None => flash[s].head < n
  BY DEF Cursor
<1>4. /\ Sound(f) /\ Filled(f, done, n, n + PerSector) /\ Cursor(f, done, n, n + 1)
      /\ \A i \in Lost(f, done, n, n + PerSector) :
            \/ i = n /\ n \notin done
            \/ i < n /\ i \notin done
            \/ i < n /\ i \in completed /\ i + Slots >= n + PerSector /\ Bad(flash, i)
  BY <1>1, <1>2, <1>3, Advances
<1>5. ASSUME NEW i \in Lost(f, done, n, n + PerSector)
      PROVE  i \in Lost(flash, completed, b, from) \cup (IF n \in done THEN {} ELSE {n})
  <2>1. i \in Nat
    BY DEF Lost
  <2>2. CASE i = n /\ n \notin done
    BY <2>2
  <2>3. CASE i < n /\ i \notin done
    <3>1. i \in 0 .. b + PerSector - 1 /\ i \notin completed
      BY <2>1, <2>3
    <3>2. ASSUME i >= b PROVE ~flash[SlotAt(i)].free
      <4>1. i \in b .. n - 1
        BY <1>1, <2>1, <2>3, <3>2
      <4>2. Tried(flash, completed, i)
        BY <4>1, Zenon DEF Cursor
      <4>3. flash[SlotAt(i)].head # None /\ SlotAt(i) \in Slot
        BY <2>1, <3>1, <4>2, CellType, AtType DEF Tried
      <4>4. QED BY <4>3 DEF Sound
    <3>3. QED BY <2>1, <3>1, <3>2 DEF Lost
  <2>4. CASE i < n /\ i \in completed /\ i + Slots >= n + PerSector /\ Bad(flash, i)
    <3>1. i \in 0 .. b + PerSector - 1 /\ i + Slots >= from
      BY <1>1, <2>1, <2>4
    <3>2. QED BY <2>4, <3>1 DEF Lost
  <2>5. QED BY <1>4, <2>2, <2>3, <2>4
<1>6. QED BY <1>4, <1>5

-----------------------------------------------------------------------------
\* Where a write goes while logging is on.
LEMMA WhereItGoes ==
    ASSUME LogInv, enabled, nextIndex # MaxIndex
    PROVE  /\ nextIndex \in Index /\ nextIndex \in Nat /\ nextSlot = SlotAt(nextIndex)
           /\ nextSlot \in Slot
           /\ EntersSector(nextSlot) <=> Aligned(nextIndex)
           /\ Aligned(nextIndex) => nextSlot \in SectorOf(nextSlot)
<1> USE LogConstants
<1>1. nextIndex \in Index /\ nextIndex \in Nat /\ nextSlot = SlotAt(nextIndex)
  BY DEF LogInv, Index
<1>2. QED BY <1>1, AtType, EntersAt, SectorAt

LEMMA RecordKeeps ==
    ASSUME LogInv, WriteRecord
    PROVE  LogInv'
<1> USE LogConstants
<1> DEFINE n == nextIndex
           done == completed \cup {n}
<1>1. /\ n \in Index /\ n \in Nat /\ nextSlot = SlotAt(n) /\ nextSlot \in Slot
      /\ EntersSector(nextSlot) <=> Aligned(n)
      /\ Aligned(n) => nextSlot \in SectorOf(nextSlot)
      /\ enabled /\ n < MaxIndex
  <2>1. enabled /\ n < MaxIndex /\ n # MaxIndex
    BY DEF WriteRecord, LogInv
  <2>2. QED BY <2>1, WhereItGoes
<1>2. PICK r \in Programmed(Ready(SlotAt(n))[SlotAt(n)], n) : flash' = [Ready(SlotAt(n)) EXCEPT ![SlotAt(n)] = r]
  BY <1>1 DEF WriteRecord
<1>3. completed' = done /\ nextIndex' = n + 1 /\ nextSlot' = (SlotAt(n) + 1) % Slots /\ cuts' = cuts /\ enabled' = enabled
  BY <1>1 DEF WriteRecord
<1>4. nextSlot' = SlotAt(n + 1)
  BY <1>1, <1>3, AtNext
<1>5. nextIndex' \in 0 .. MaxIndex /\ cuts' \in Nat /\ completed' \subseteq Index /\ cuts \in Nat
  BY <1>1, <1>3 DEF LogInv
<1>6. SUFFICES /\ Sound(flash')
               /\ \E b, from \in Nat :
                     /\ RingHeld(flash', done, b, from, cuts)
                     /\ Cursor(flash', done, b, n + 1)
  <2>1. enabled' => nextSlot' = SlotAt(nextIndex')
    BY <1>3, <1>4
  <2>2. QED BY <1>3, <1>5, <1>6, <2>1 DEF LogInv, SlotAt
<1>7. Aligned(n) => r = Record(n) /\ flash' = [Erased(SlotAt(n)) EXCEPT ![SlotAt(n)] = r]
  <2> SUFFICES ASSUME Aligned(n) PROVE r = Record(n) /\ flash' = [Erased(SlotAt(n)) EXCEPT ![SlotAt(n)] = r]
    OBVIOUS
  <2>1. Ready(SlotAt(n)) = Erased(SlotAt(n)) /\ Erased(SlotAt(n))[SlotAt(n)] = Free
    BY <1>1 DEF Ready, Erased
  <2>2. Programmed(Free, n) = {Record(n)}
    BY DEF Programmed, Free
  <2>3. QED BY <1>2, <2>1, <2>2
<1>8. CASE Blank(flash, completed) /\ n = 0
  <2>1. Aligned(n)
    BY <1>8 DEF Aligned
  <2>2. /\ Sound(flash') /\ Filled(flash', done, 0, PerSector) /\ Cursor(flash', done, 0, 1)
        /\ Lost(flash', done, 0, PerSector) \subseteq {}
    <3>1. Sound(flash) /\ 0 \in done /\ 0 \in Index
      BY <1>1, <1>8 DEF LogInv
    <3>2. PICK f : f = flash'
      OBVIOUS
    <3>3. f = [Erased(SlotAt(0)) EXCEPT ![SlotAt(0)] = r] /\ r = Record(0) /\ done = completed \cup {0}
      BY <1>7, <1>8, <2>1, <3>2
    <3>4. /\ Sound(f) /\ Filled(f, done, 0, PerSector) /\ Cursor(f, done, 0, 1)
          /\ Lost(f, done, 0, PerSector) \subseteq IF 0 \in done THEN {} ELSE {0}
      <4> HIDE DEF done
      <4>1. QED BY <1>8, <3>1, <3>3, FirstOfAll
    <3>5. QED BY <3>1, <3>2, <3>4
  <2>3. Lost(flash', done, 0, PerSector) = {}
    BY <2>2
  <2>4. Cardinality(Lost(flash', done, 0, PerSector)) <= cuts
    BY <1>5, <2>3, FS_EmptySet
  <2>5. QED
    <3>1. RingHeld(flash', done, 0, PerSector, cuts) /\ Cursor(flash', done, 0, n + 1)
      BY <1>8, <2>2, <2>4 DEF RingHeld
    <3>2. 0 \in Nat /\ PerSector \in Nat
      OBVIOUS
    <3>3. QED BY <2>2, <3>1, <3>2
<1>9. CASE \E b, from \in Nat : RingHeld(flash, completed, b, from, cuts) /\ (enabled => Cursor(flash, completed, b, n))
  <2>1. PICK b \in Nat, from \in Nat : RingHeld(flash, completed, b, from, cuts) /\ Cursor(flash, completed, b, n)
    BY <1>1, <1>9
  <2>2. /\ Filled(flash, completed, b, from) /\ Sound(flash) /\ completed \subseteq Index
        /\ Cardinality(Lost(flash, completed, b, from)) <= cuts
        /\ Cardinality(Lost(flash, completed, b, from)) \in Nat
        /\ Aligned(b) /\ b < n /\ n <= b + PerSector
    BY <2>1, SpentCounts DEF RingHeld, LogInv, Filled, Begun, Cursor
  <2>3. PICK f : f = flash'
    OBVIOUS
  <2>4. n \in done
    OBVIOUS
  <2>5. CASE Aligned(n)
    <3>1. n = b + PerSector
      BY <1>1, <2>2, <2>5, NextSector
    <3>2. f = [Erased(SlotAt(n)) EXCEPT ![SlotAt(n)] = r] /\ r = Record(n) /\ done = completed \cup {n}
      BY <1>7, <2>3, <2>5
    <3>3. /\ Sound(f) /\ Filled(f, done, n, n + PerSector) /\ Cursor(f, done, n, n + 1)
          /\ Lost(f, done, n, n + PerSector) \subseteq Lost(flash, completed, b, from) \cup (IF n \in done THEN {} ELSE {n})
      <4> HIDE DEF n, done
      <4>1. QED BY <1>1, <2>1, <2>2, <3>1, <3>2, NextFirst
    <3>4. Cardinality(Lost(f, done, n, n + PerSector)) <= Cardinality(Lost(flash, completed, b, from))
      BY <1>5, <2>4, <3>3, SpentCounts
    <3>5. Cardinality(Lost(f, done, n, n + PerSector)) \in Nat
      BY <1>1, <1>5, SpentCounts
    <3>6. RingHeld(f, done, n, n + PerSector, cuts)
      BY <1>5, <2>2, <3>3, <3>4, <3>5 DEF RingHeld
    <3>7. n \in Nat /\ n + PerSector \in Nat
      BY <1>1
    <3>8. QED BY <2>3, <3>3, <3>6, <3>7
  <2>6. CASE ~Aligned(n)
    <3>1. n < b + PerSector
      BY <1>1, <2>2, <2>6, NextSector
    <3>2. f = Put(n, r) /\ r \in Programmed(flash[SlotAt(n)], n) /\ done = completed \cup {n}
      BY <1>1, <1>2, <2>3, <2>6 DEF Ready, Put
    <3>3. /\ Sound(f) /\ Filled(f, done, b, from) /\ (n \in done => Cursor(f, done, b, n + 1))
          /\ Lost(f, done, b, from) \subseteq Lost(flash, completed, b, from) \cup (IF n \in done THEN {} ELSE {n})
      <4>1. MayWrite(n, r, done)
        BY <3>2 DEF MayWrite
      <4> HIDE DEF n, done
      <4>2. /\ Filled(flash, completed, b, from) /\ Sound(flash) /\ completed \subseteq Index
            /\ n \in Index /\ Cursor(flash, completed, b, n) /\ n < b + PerSector
            /\ MayWrite(n, r, done) /\ f = Put(n, r)
        BY <1>1, <2>1, <2>2, <3>1, <3>2, <4>1, Zenon
      <4>3. QED BY <4>2, Writes
    <3>4. Cardinality(Lost(f, done, b, from)) <= Cardinality(Lost(flash, completed, b, from))
      BY <1>5, <2>4, <3>3, SpentCounts
    <3>5. Cardinality(Lost(f, done, b, from)) \in Nat
      BY <1>5, SpentCounts
    <3>6. RingHeld(f, done, b, from, cuts)
      BY <1>5, <2>2, <3>3, <3>4, <3>5 DEF RingHeld
    <3>7. QED BY <2>3, <2>4, <3>3, <3>6
  <2>7. QED BY <2>5, <2>6
<1>10. QED
  <2>1. \/ Blank(flash, completed) /\ (enabled => n = 0)
        \/ \E b, from \in Nat : RingHeld(flash, completed, b, from, cuts) /\ (enabled => Cursor(flash, completed, b, n))
    BY DEF LogInv
  <2>2. QED BY <1>1, <1>8, <1>9, <2>1

\* What a cut leaves costs one index more at most.
BlockHeld(f, done, k) ==
    Sound(f) /\ (Blank(f, done) \/ \E b, from \in Nat : RingHeld(f, done, b, from, k))

LEMMA LeftIsHeld ==
    ASSUME LogInv, NEW f \in Left
    PROVE  BlockHeld(f, completed, cuts + 1)
<1> USE LogConstants
<1>1. cuts \in Nat /\ Sound(flash) /\ completed \subseteq Index
  BY DEF LogInv
<1>2. CASE f = flash
  <2>1. CASE Blank(flash, completed)
    BY <1>1, <1>2, <2>1 DEF BlockHeld
  <2>2. CASE \E b, from \in Nat : RingHeld(flash, completed, b, from, cuts)
    <3>1. PICK b \in Nat, from \in Nat : RingHeld(flash, completed, b, from, cuts)
      BY <2>2
    <3>2. RingHeld(flash, completed, b, from, cuts + 1)
      <4>1. Cardinality(Lost(flash, completed, b, from)) \in Nat
        BY <1>1, SpentCounts
      <4>2. QED BY <1>1, <3>1, <4>1 DEF RingHeld
    <3>3. QED BY <1>1, <1>2, <3>2 DEF BlockHeld
  <2>3. QED BY <2>1, <2>2 DEF LogInv
<1>3. CASE f # flash
  <2> DEFINE n == nextIndex
  <2>1. /\ enabled /\ n # MaxIndex
        /\ \/ EntersSector(nextSlot) /\ f \in TornErase(nextSlot)
           \/ f \in TornWrite(nextSlot) /\ Ready(nextSlot)[nextSlot].free
    BY <1>3 DEF Left
  <2>2. /\ n \in Index /\ n \in Nat /\ nextSlot = SlotAt(n) /\ nextSlot \in Slot
        /\ EntersSector(nextSlot) <=> Aligned(n)
        /\ Aligned(n) => nextSlot \in SectorOf(nextSlot)
    BY <2>1, WhereItGoes
  \* Of an erased sector there may also be its first header.
  <2>3. ASSUME Aligned(n)
        PROVE  \/ f \in TornErase(SlotAt(n))
               \/ \E r \in {Record(n), HeadOnly(n)} : f = [Erased(SlotAt(n)) EXCEPT ![SlotAt(n)] = r]
    <3>1. CASE f \in TornErase(SlotAt(n))
      BY <3>1
    <3>2. CASE f \in TornWrite(SlotAt(n))
      <4>1. Ready(SlotAt(n)) = Erased(SlotAt(n)) /\ Erased(SlotAt(n))[SlotAt(n)] = Free
        BY <2>2, <2>3 DEF Ready, Erased
      <4>2. PICK r \in {Free, Spoilt, HeadOnly(n), Record(n)} : f = [Erased(SlotAt(n)) EXCEPT ![SlotAt(n)] = r]
        BY <3>2, <4>1 DEF TornWrite
      <4>3. CASE r \in {Free, Spoilt}
        BY <2>2, <2>3, <4>2, <4>3, ErasedIsTorn
      <4>4. CASE r \in {Record(n), HeadOnly(n)}
        BY <4>2, <4>4
      <4>5. QED BY <4>2, <4>3, <4>4
    <3>3. QED BY <2>1, <2>2, <3>1, <3>2
  <2>4. CASE Blank(flash, completed) /\ n = 0
    <3>1. Aligned(n)
      BY <2>4 DEF Aligned
    <3>2. CASE f \in TornErase(SlotAt(n))
      BY <1>1, <2>4, <3>2, BlankTears DEF BlockHeld
    <3>3. CASE \E r \in {Record(n), HeadOnly(n)} : f = [Erased(SlotAt(n)) EXCEPT ![SlotAt(n)] = r]
      <4>1. PICK r \in {Record(0), HeadOnly(0)} : f = [Erased(SlotAt(0)) EXCEPT ![SlotAt(0)] = r]
        BY <2>4, <3>3
      <4>2. 0 \in Index
        BY <2>2, <2>4
      <4>3. /\ Sound(f) /\ Filled(f, completed, 0, PerSector)
            /\ Lost(f, completed, 0, PerSector) \subseteq IF 0 \in completed THEN {} ELSE {0}
        BY <1>1, <2>4, <4>1, <4>2, FirstOfAll
      <4>4. IsFiniteSet({0}) /\ Cardinality({0}) = 1
        BY FS_Singleton
      <4>5. Cardinality(Lost(f, completed, 0, PerSector)) <= 1
        BY <4>3, <4>4, FS_Subset
      <4>6. Cardinality(Lost(f, completed, 0, PerSector)) \in Nat
        BY <1>1, SpentCounts
      <4>7. RingHeld(f, completed, 0, PerSector, cuts + 1)
        BY <1>1, <4>3, <4>5, <4>6 DEF RingHeld
      <4>8. 0 \in Nat /\ PerSector \in Nat
        OBVIOUS
      <4>9. QED BY <4>3, <4>7, <4>8 DEF BlockHeld
    <3>4. QED BY <2>3, <3>1, <3>2, <3>3
  <2>5. CASE \E b, from \in Nat : RingHeld(flash, completed, b, from, cuts) /\ (enabled => Cursor(flash, completed, b, n))
    <3>1. PICK b \in Nat, from \in Nat : RingHeld(flash, completed, b, from, cuts) /\ Cursor(flash, completed, b, n)
      BY <2>1, <2>5
    <3>2. /\ Filled(flash, completed, b, from)
          /\ Cardinality(Lost(flash, completed, b, from)) <= cuts
          /\ Cardinality(Lost(flash, completed, b, from)) \in Nat
          /\ Aligned(b) /\ b < n /\ n <= b + PerSector
      BY <1>1, <3>1, SpentCounts DEF RingHeld, Filled, Begun, Cursor
    <3>3. ASSUME NEW c \in Nat, NEW to \in Nat, Sound(f), Filled(f, completed, c, to),
                 \/ Lost(f, completed, c, to) \subseteq Lost(flash, completed, b, from)
                 \/ Lost(f, completed, c, to) \subseteq Lost(flash, completed, b, from) \cup {n}
          PROVE  BlockHeld(f, completed, cuts + 1)
      <4>1. Cardinality(Lost(f, completed, c, to)) <= Cardinality(Lost(flash, completed, b, from)) + 1
        <5>1. Lost(f, completed, c, to) \subseteq Lost(flash, completed, b, from) \cup {n}
          BY <3>3
        <5>2. QED BY <1>1, <5>1, SpentCounts
      <4>2. Cardinality(Lost(f, completed, c, to)) \in Nat
        BY <1>1, SpentCounts
      <4>3. RingHeld(f, completed, c, to, cuts + 1)
        BY <1>1, <3>2, <3>3, <4>1, <4>2 DEF RingHeld
      <4>4. QED BY <3>3, <4>3 DEF BlockHeld
    <3>4. CASE Aligned(n)
      <4>1. n = b + PerSector
        BY <2>2, <3>2, <3>4, NextSector
      <4>2. CASE f \in TornErase(SlotAt(n))
        <5>1. Full(flash, completed, b)
          <6>1. b .. n - 1 = b .. b + PerSector - 1
            BY <4>1
          <6>2. \A j \in b .. n - 1 : Tried(flash, completed, j)
            BY <3>1, Zenon DEF Cursor
          <6>3. QED BY <6>1, <6>2 DEF Full
        <5>2. /\ Sound(f) /\ Filled(f, completed, b, b + 2 * PerSector)
              /\ Lost(f, completed, b, b + 2 * PerSector) \subseteq Lost(flash, completed, b, from)
          <6> HIDE DEF n
          <6>1. QED BY <1>1, <3>2, <4>1, <4>2, <5>1, Tears
        <5>3. b + 2 * PerSector \in Nat
          OBVIOUS
        <5>4. QED BY <3>3, <5>2, <5>3
      <4>3. CASE \E r \in {Record(n), HeadOnly(n)} : f = [Erased(SlotAt(n)) EXCEPT ![SlotAt(n)] = r]
        <5>1. PICK r \in {Record(n), HeadOnly(n)} : f = [Erased(SlotAt(n)) EXCEPT ![SlotAt(n)] = r]
          BY <4>3
        <5>2. /\ Sound(f) /\ Filled(f, completed, n, n + PerSector)
              /\ Lost(f, completed, n, n + PerSector) \subseteq
                    Lost(flash, completed, b, from) \cup (IF n \in completed THEN {} ELSE {n})
          <6> HIDE DEF n
          <6>1. QED BY <1>1, <2>2, <3>1, <3>2, <4>1, <5>1, NextFirst
        <5>3. n + PerSector \in Nat
          BY <2>2
        <5>4. Lost(f, completed, n, n + PerSector) \subseteq Lost(flash, completed, b, from) \cup {n}
          BY <5>2
        <5>5. QED BY <2>2, <3>3, <5>2, <5>3, <5>4
      <4>4. QED BY <2>3, <3>4, <4>2, <4>3
    <3>5. CASE ~Aligned(n)
      <4>1. n < b + PerSector
        BY <2>2, <3>2, <3>5, NextSector
      <4>2. f \in TornWrite(SlotAt(n)) /\ Ready(SlotAt(n)) = flash /\ flash[SlotAt(n)].free
        BY <2>1, <2>2, <3>5 DEF Ready
      <4>3. PICK r \in {flash[SlotAt(n)], Spoilt, HeadOnly(n), Record(n)} : f = [flash EXCEPT ![SlotAt(n)] = r]
        BY <4>2 DEF TornWrite
      <4>4. MayWrite(n, r, completed) /\ f = Put(n, r)
        BY <4>2, <4>3 DEF MayWrite, Put
      <4>5. /\ Sound(f) /\ Filled(f, completed, b, from)
            /\ Lost(f, completed, b, from) \subseteq
                  Lost(flash, completed, b, from) \cup (IF n \in completed THEN {} ELSE {n})
        <5>1. /\ Filled(flash, completed, b, from) /\ Sound(flash) /\ completed \subseteq Index
              /\ n \in Index /\ Cursor(flash, completed, b, n) /\ n < b + PerSector
          BY <1>1, <2>2, <3>1, <3>2, <4>1, Zenon
        <5> HIDE DEF n
        <5>2. QED BY <4>4, <5>1, Writes
      <4>6. Lost(f, completed, b, from) \subseteq Lost(flash, completed, b, from) \cup {n}
        BY <4>5
      <4>7. QED BY <3>3, <4>5, <4>6
    <3>6. QED BY <3>4, <3>5
  <2>6. \/ Blank(flash, completed) /\ (enabled => n = 0)
        \/ \E b, from \in Nat : RingHeld(flash, completed, b, from, cuts) /\ (enabled => Cursor(flash, completed, b, n))
    BY DEF LogInv
  <2>7. QED BY <2>1, <2>4, <2>5, <2>6
<1>4. QED BY <1>2, <1>3

LEMMA FailKeeps ==
    ASSUME LogInv, WriteFailed
    PROVE  LogInv'
<1>1. /\ cuts' = cuts + 1 /\ flash' \in Left /\ enabled' = FALSE
      /\ completed' = completed /\ nextIndex' = nextIndex /\ nextSlot' = nextSlot
  BY DEF WriteFailed
<1>2. BlockHeld(flash', completed, cuts + 1)
  BY <1>1, LeftIsHeld
<1>3. nextIndex \in 0 .. MaxIndex /\ cuts + 1 \in Nat /\ completed \subseteq Index
  BY DEF LogInv
<1>4. QED BY <1>1, <1>2, <1>3 DEF LogInv, BlockHeld

LEMMA CutKeeps ==
    ASSUME LogInv, CutLog
    PROVE  LogInv'
<1> USE LogConstants
<1>1. /\ cuts' = cuts + 1 /\ flash' \in Left /\ completed' = completed
      /\ nextIndex' = Recovered(flash').index /\ nextSlot' = Recovered(flash').slot
  BY DEF CutLog
<1>2. BlockHeld(flash', completed, cuts + 1)
  BY <1>1, LeftIsHeld
<1>3. cuts + 1 \in Nat /\ completed \subseteq Index
  BY DEF LogInv
<1>4. CASE Blank(flash', completed)
  <2>1. Readable(flash') = {}
    BY <1>4 DEF Blank, Readable
  <2>2. nextIndex' = 0 /\ nextSlot' = 0
    BY <1>1, <2>1 DEF Recovered
  <2>3. SlotAt(0) = 0
    <3>1. Parts(0, Slots, 0, 0)
      BY DEF Parts
    <3>2. QED BY <3>1, Remains DEF SlotAt
  <2>4. QED BY <1>1, <1>2, <1>3, <1>4, <2>2, <2>3 DEF LogInv, BlockHeld, SlotAt
<1>5. CASE \E b, from \in Nat : RingHeld(flash', completed, b, from, cuts + 1)
  <2>1. PICK f : f = flash'
    OBVIOUS
  <2>2. PICK b \in Nat, from \in Nat : RingHeld(f, completed, b, from, cuts + 1)
    BY <1>5, <2>1
  <2>3. Sound(f) /\ Filled(f, completed, b, from)
    BY <1>2, <2>1, <2>2 DEF BlockHeld, RingHeld
  <2>4. /\ Recovered(f).index \in Nat /\ Recovered(f).index <= MaxIndex
        /\ Recovered(f).slot = SlotAt(Recovered(f).index)
        /\ Cursor(f, completed, b, Recovered(f).index)
    BY <2>3, Recovers
  <2>5. /\ nextIndex' \in 0 .. MaxIndex /\ nextSlot' = SlotAt(nextIndex')
        /\ Cursor(flash', completed', b, nextIndex')
        /\ RingHeld(flash', completed', b, from, cuts')
    BY <1>1, <2>1, <2>2, <2>4 DEF SlotAt
  <2>6. Sound(flash') /\ cuts' \in Nat /\ completed' \subseteq Index
    BY <1>1, <1>3, <2>1, <2>3
  <2>7. QED BY <2>5, <2>6 DEF LogInv, SlotAt
<1>6. QED BY <1>2, <1>4, <1>5 DEF BlockHeld

\* Each missing record is spoilt in its slot; or its slot has been erased for the
\* index a round later, and the cursor was over every index up to that sector, of
\* which none past the newest record was finished: one of those stands for it.
LEMMA LogInvGives == LogInv => LogKept
<1> USE LogConstants, CellType
<1> SUFFICES ASSUME LogInv PROVE LogKept
  OBVIOUS
<1>1. \A s, t \in Slot : flash[s].head = flash[t].head /\ s # t => flash[s].head = None
  BY DEF LogInv, Sound
<1>2. cuts \in Nat /\ completed \subseteq Index
  BY DEF LogInv
<1>3. Cardinality(Missing) <= cuts
  <2>1. CASE Blank(flash, completed)
    <3>1. Missing = {}
      BY <2>1 DEF Blank, Missing, Window
    <3>2. QED BY <1>2, <3>1, FS_EmptySet
  <2>2. CASE \E b, from \in Nat : RingHeld(flash, completed, b, from, cuts)
    <3>1. PICK b \in Nat, from \in Nat : RingHeld(flash, completed, b, from, cuts)
      BY <2>2
    <3> DEFINE T == Lost(flash, completed, b, from)
               Later(i) == i + Slots - PerSector
               g == [i \in Missing |-> IF i + Slots >= from THEN i ELSE Later(i)]
    <3>2. /\ from \in {b + PerSector, b + 2 * PerSector}
          /\ \A i \in completed : i \in Nat /\ i < b + PerSector
          /\ \A i \in completed : i + Slots >= from => Stands(flash, i)
          /\ from # b + PerSector => Full(flash, completed, b)
      BY <1>2, <3>1 DEF RingHeld, Filled, Standing, InTurn
    <3>3. ASSUME NEW i \in Missing
          PROVE  /\ i \in completed /\ i \in Nat /\ flash[SlotAt(i)].whole # i
                 /\ \A j \in completed : j < Later(i)
      <4>1. i \in completed /\ i \in Nat
        BY <3>2 DEF Missing, Window
      <4>2. flash[SlotAt(i)].whole # i
        BY <4>1, AtType DEF Missing
      <4>3. \A j \in completed : j + PerSector < i + Slots /\ j \in Nat
        BY <3>2 DEF Missing, Window
      <4>5. i \in Nat /\ Slots \in Nat /\ PerSector \in Nat
        BY <4>1, LogConstants
      <4>6. \A j \in completed : j < i + Slots - PerSector
        BY <4>3, <4>5
      <4>4. QED BY <4>1, <4>2, <4>6
    <3>4. ASSUME NEW i \in Missing, i + Slots >= from PROVE i \in T
      <4>1. Bad(flash, i)
        BY <3>2, <3>3, <3>4 DEF Stands
      <4>2. i \in 0 .. b + PerSector - 1
        BY <3>2, <3>3
      <4>3. QED BY <3>3, <3>4, <4>1, <4>2 DEF Lost
    <3>5. ASSUME NEW i \in Missing, i + Slots < from PROVE Later(i) \in T
      <4>1. Later(i) \in 0 .. b + PerSector - 1 /\ Later(i) \notin completed
        BY <3>2, <3>3, <3>5
      <4>2. ASSUME Later(i) >= b PROVE ~flash[SlotAt(Later(i))].free
        <5>1. from # b + PerSector
          BY <3>2, <3>3, <3>5, <4>2
        <5>2. Tried(flash, completed, Later(i))
          <6>1. Later(i) \in b .. b + PerSector - 1
            BY <4>1, <4>2
          <6>2. Full(flash, completed, b)
            BY <3>2, <5>1
          <6> HIDE DEF Later
          <6>3. QED BY <6>1, <6>2 DEF Full
        <5> HIDE DEF Later
        <5>3. flash[SlotAt(Later(i))].head # None /\ SlotAt(Later(i)) \in Slot
          BY <4>1, <5>2, AtType DEF Tried
        <5>4. QED BY <5>3 DEF LogInv, Sound
      <4> HIDE DEF Later
      <4>3. QED BY <4>1, <4>2 DEF Lost
    <3>6. g \in [Missing -> T]
      BY <3>2, <3>3, <3>4, <3>5
    <3>7. ASSUME NEW i \in Missing, NEW j \in Missing, g[i] = g[j] PROVE i = j
      <4>1. \A k \in Missing : k \in Nat /\ k \in completed /\ k < Later(i) /\ k < Later(j)
        BY <3>3
      <4>2. CASE i + Slots >= from /\ j + Slots >= from
        BY <3>7, <4>2
      <4>3. CASE i + Slots >= from /\ ~(j + Slots >= from)
        BY <3>7, <4>1, <4>3
      <4>4. CASE ~(i + Slots >= from) /\ j + Slots >= from
        BY <3>7, <4>1, <4>4
      <4>5. CASE ~(i + Slots >= from) /\ ~(j + Slots >= from)
        BY <3>7, <4>1, <4>5
      <4>6. QED BY <4>2, <4>3, <4>4, <4>5
    <3>8. g \in Injection(Missing, T)
      <4> HIDE DEF g, T
      <4>1. QED BY <3>6, <3>7 DEF Injection, IsInjective
    <3>9. IsFiniteSet(T) /\ Cardinality(T) \in Nat
      BY <1>2, SpentCounts
    <3>10. Cardinality(Missing) <= Cardinality(T) /\ Cardinality(Missing) \in Nat
      <4> HIDE DEF g, T
      <4>1. QED BY <3>8, <3>9, FS_Injection, FS_CardinalityType
    <3>11. Cardinality(T) <= cuts
      BY <3>1 DEF RingHeld
    <3> HIDE DEF T
    <3>12. QED BY <1>2, <3>9, <3>10, <3>11
  <2>3. QED BY <2>1, <2>2 DEF LogInv
<1>4. QED BY <1>1, <1>3 DEF LogKept

LEMMA LogStarts == LogInit => LogInv
<1> USE LogConstants, CellType
<1> SUFFICES ASSUME LogInit PROVE LogInv
  OBVIOUS
<1>1. /\ flash = [s \in Slot |-> Free] /\ nextSlot = 0 /\ nextIndex = 0
      /\ completed = {} /\ cuts = 0
  BY DEF LogInit
<1>2. Sound(flash) /\ Blank(flash, completed)
  BY <1>1 DEF Sound, Blank, Free
<1>3. SlotAt(0) = 0
  <2>1. Parts(0, Slots, 0, 0)
    BY DEF Parts
  <2>2. QED BY <2>1, Remains DEF SlotAt
<1>4. QED BY <1>1, <1>2, <1>3 DEF LogInv

LEMMA LogIdles ==
    ASSUME LogInv, UNCHANGED <<flash, nextSlot, nextIndex, enabled, completed, cuts>>
    PROVE  LogInv'
BY DEF LogInv

\* Power cuts in the middle of erasures and writes cost the drive log one finished
\* record each at most, and never number two alike: recover_cursor goes on past every
\* header, and write_record erases a sector only once the one before it is full.
THEOREM LogAlwaysKept == LogSpec => []LogKept
<1>1. LogInit => LogInv
  BY LogStarts
<1>2. LogInv /\ [LogNext]_logVars => LogInv'
  <2> SUFFICES ASSUME LogInv, [LogNext]_logVars PROVE LogInv'
    OBVIOUS
  <2>1. CASE UNCHANGED logVars
    BY <2>1, LogIdles DEF logVars
  <2>2. CASE LogEvent
    BY <2>2, LogIdles DEF LogEvent
  <2>3. CASE WriteRecord
    BY <2>3, RecordKeeps
  <2>4. CASE WriteFailed
    BY <2>4, FailKeeps
  <2>5. CASE CutLog
    BY <2>5, CutKeeps
  <2>6. CASE \E v \in {"near", "far"} : LogChange(v)
    BY <2>6, LogIdles DEF LogChange
  <2>7. QED BY <2>1, <2>2, <2>3, <2>4, <2>5, <2>6 DEF LogNext
<1>3. LogInv => LogKept
  BY LogInvGives
<1>4. QED BY <1>1, <1>2, <1>3, PTL DEF LogSpec

-----------------------------------------------------------------------------
(* The call page, its ring and the finger on it.                            *)

PartNames == {"ring", "bubble", "phone", "caller", "duration"}
Parting == {"collapse", "collapsed", "gone"}
Completions == {"still", "rest", "phone", "caller", "landed", "duration", "accept"} \cup Parting
Motions == [at : Nat, to : Nat, then : Completions]

\* Only the ring accepts; and what takes the page down does not run on one that is up.
PartsOK(p) ==
    /\ p \in [PartNames -> Motions]
    /\ \A x \in PartNames \ {"ring"} : p[x].then # "accept"
Calm(p) == \A x \in PartNames : p[x].then \notin Parting

FaceOK(f) ==
    f \in [id : 0 .. 2, ringing : BOOLEAN, active : BOOLEAN, landed : BOOLEAN, pressed : BOOLEAN,
           accepted : BOOLEAN, answered : BOOLEAN, left : Int]

\* A ring that will accept is of a call that rings, on a page that has landed.
RingEarned(f, p) == p["ring"].then = "accept" => f.landed /\ (f.ringing \/ f.answered)

\* On a page that is up: it shows the call, and a press is of that call.
UpInv(v, f, p, t) ==
    /\ v # NoCall /\ f.id = v.id
    /\ f.ringing <=> v.is = "ringing"
    /\ f.active <=> v.is = "active"
    /\ RingEarned(f, p) /\ Calm(p)
    /\ f.pressed /\ ~f.answered => t.on = v.id

FaceInv ==
    /\ callView \in CallViews /\ callPage \in {"away", "up", "leaving", "covered"}
    /\ FaceOK(face) /\ PartsOK(parts)
    /\ thumb \in [down : BOOLEAN, on : 0 .. 2] /\ accepts \in Nat
    /\ face.pressed => thumb.down /\ callPage \in {"up", "covered"}
    /\ callPage = "up" => UpInv(callView, face, parts, thumb)
    /\ callPage = "covered" => Calm(parts)

-----------------------------------------------------------------------------
LEMMA TweenFacts ==
    ASSUME NEW m \in Motions, NEW n \in Nat, NEW then \in Completions
    PROVE  Tween(m, n, then) \in Motions /\ Tween(m, n, then).then = then
  BY DEF Tween, Motions

LEMMA StillFacts ==
    ASSUME NEW n \in Nat
    PROVE  Still(n) \in Motions /\ Still(n).then = "still"
  BY DEF Still, Motions, Completions

LEMMA StoppedFacts ==
    ASSUME NEW m \in Motions
    PROVE  Stopped(m) \in Motions /\ Stopped(m).then = "still"
  BY DEF Stopped, Motions, Completions

LEMMA MovedFacts ==
    ASSUME NEW m \in Motions
    PROVE  Moved(m) \in Motions /\ Moved(m).then \in {m.then, "still"}
<1>1. Stepped(m) \in Nat
  BY DEF Stepped, Motions
<1>2. [m EXCEPT !.at = Stepped(m)] \in Motions /\ [m EXCEPT !.at = Stepped(m)].then = m.then
  BY <1>1 DEF Motions
<1>3. Still(m.to) \in Motions /\ Still(m.to).then = "still"
  BY StillFacts DEF Motions
<1> QED  BY <1>2, <1>3 DEF Moved

LEMMA AnsweredFacts ==
    ASSUME NEW f, NEW p, PartsOK(p), NEW q, q = AnsweredParts(f, p)
    PROVE  /\ PartsOK(q) /\ (Calm(p) => Calm(q))
           /\ q["ring"].then \in {p["ring"].then, "rest"}
<1>1. CASE f.answered
  BY <1>1 DEF AnsweredParts
<1>2. CASE ~f.answered
  <2> DEFINE r == IF p["ring"].at < 2 THEN Tween(p["ring"], 2, "rest") ELSE p["ring"]
             d == Tween(p["phone"], 0, "duration")
  <2>1. p["ring"] \in Motions /\ p["phone"] \in Motions
    BY DEF PartsOK, PartNames
  <2>2. d \in Motions /\ d.then = "duration" /\ r \in Motions /\ r.then \in {p["ring"].then, "rest"}
    BY ZenonT(30), <2>1, TweenFacts DEF Completions
  <2>3. PICK o : o = [p EXCEPT !["ring"] = r]
    OBVIOUS
  <2>4. q = [o EXCEPT !["phone"] = d]
    BY <1>2, <2>3 DEF AnsweredParts, PartsOK, PartNames
  <2> HIDE DEF r, d
  <2>5. /\ PartsOK(o) /\ o["ring"] = r /\ (Calm(p) /\ r.then \notin Parting => Calm(o))
    <3>1. PartsOK(o)
      BY <2>2, <2>3 DEF PartsOK, Calm, PartNames
    <3>2. o["ring"] = r
      BY <2>2, <2>3 DEF PartsOK, Calm, PartNames
    <3>3. Calm(p) /\ r.then \notin Parting => Calm(o)
      BY <2>2, <2>3 DEF PartsOK, Calm, PartNames
    <3> QED  BY <3>1, <3>2, <3>3
  <2>6. /\ PartsOK(q) /\ q["ring"] = r /\ (Calm(o) => Calm(q))
    <3>1. PartsOK(q)
      BY <2>2, <2>4, <2>5 DEF Parting, PartsOK, Calm, PartNames
    <3>2. q["ring"] = r
      BY <2>2, <2>4, <2>5 DEF Parting, PartsOK, Calm, PartNames
    <3>3. Calm(o) => Calm(q)
      BY <2>2, <2>4, <2>5 DEF Parting, PartsOK, Calm, PartNames
    <3> QED  BY <3>1, <3>2, <3>3
  <2>7. Calm(p) => r.then \notin Parting
    BY <2>2 DEF Calm, PartNames, Parting
  <2> QED  BY <2>2, <2>5, <2>6, <2>7
<1> QED  BY <1>1, <1>2

LEMMA HeldFacts ==
    ASSUME NEW f, NEW p, PartsOK(p), NEW q, q = HeldParts(f, p)
    PROVE  /\ PartsOK(q) /\ (Calm(p) => Calm(q))
           /\ q["ring"].then = p["ring"].then \/ Holds(f)
<1>1. CASE Holds(f)
  <2>1. p["ring"] \in Motions
    BY DEF PartsOK, PartNames
  <2>2. PICK m \in Motions : m = Tween(p["ring"], 2, "accept") /\ m.then = "accept"
    BY <2>1, TweenFacts DEF Completions
  <2>3. q = [p EXCEPT !["ring"] = m]
    BY <1>1, <2>2 DEF HeldParts
  <2>4. PartsOK(q)
    BY <2>2, <2>3 DEF PartsOK, Calm, PartNames
  <2>5. Calm(p) => Calm(q)
    BY <2>2, <2>3 DEF Parting, PartsOK, Calm, PartNames
  <2> QED  BY <1>1, <2>4, <2>5
<1>2. CASE ~Holds(f)
  BY <1>2 DEF HeldParts
<1> QED  BY <1>1, <1>2

LEMMA RenewedFacts ==
    ASSUME NEW f, NEW p, PartsOK(p), NEW v, NEW q, q = RenewedParts(f, p, v)
    PROVE  /\ PartsOK(q) /\ (Calm(p) => Calm(q))
           /\ q["ring"].then \in {p["ring"].then, "rest"}
           /\ f.landed /\ f.id # v.id => q["ring"].then = "rest"
<1>1. CASE f.id = v.id
  BY <1>1 DEF RenewedParts
<1>2. CASE f.id # v.id
  <2> DEFINE ph == IF f.answered THEN Tween(p["phone"], 1, "rest") ELSE p["phone"]
             du == IF f.answered THEN Tween(p["duration"], 0, "rest") ELSE p["duration"]
             ri == IF f.landed THEN Tween(p["ring"], 0, "rest") ELSE p["ring"]
  <2>1. p["ring"] \in Motions /\ p["phone"] \in Motions /\ p["duration"] \in Motions
    BY DEF PartsOK, PartNames
  <2>2. /\ ph \in Motions /\ ph.then \in {p["phone"].then, "rest"}
        /\ du \in Motions /\ du.then \in {p["duration"].then, "rest"}
        /\ ri \in Motions /\ ri.then \in {p["ring"].then, "rest"} /\ (f.landed => ri.then = "rest")
    <3>1. \A m \in Motions, n \in {0, 1} : Tween(m, n, "rest") \in Motions /\ Tween(m, n, "rest").then = "rest"
      BY TweenFacts DEF Completions
    <3> QED  BY <2>1, <3>1
  <2>3. PICK o : o = [p EXCEPT !["phone"] = ph]
    OBVIOUS
  <2>4. PICK u : u = [o EXCEPT !["duration"] = du]
    OBVIOUS
  <2>5. q = [u EXCEPT !["ring"] = ri]
    BY <1>2, <2>3, <2>4 DEF RenewedParts, PartsOK, PartNames
  <2> HIDE DEF ph, du, ri
  <2>6. p["phone"].then # "accept" /\ p["duration"].then # "accept"
    BY DEF PartsOK, PartNames
  <2>7. PartsOK(o) /\ (Calm(p) /\ ph.then \notin Parting => Calm(o))
    BY <2>2, <2>3, <2>6 DEF PartsOK, Calm, PartNames
  <2>8. PartsOK(u) /\ (Calm(o) /\ du.then \notin Parting => Calm(u))
    BY <2>2, <2>4, <2>6, <2>7 DEF PartsOK, Calm, PartNames
  <2>9. PartsOK(q) /\ (Calm(u) /\ ri.then \notin Parting => Calm(q)) /\ q["ring"] = ri
    <3>1. PartsOK(q)
      BY <2>2, <2>5, <2>8 DEF PartsOK, Calm, PartNames
    <3>2. Calm(u) /\ ri.then \notin Parting => Calm(q)
      BY <2>2, <2>5, <2>8 DEF PartsOK, Calm, PartNames
    <3>3. q["ring"] = ri
      BY <2>2, <2>5, <2>8 DEF PartsOK, Calm, PartNames
    <3> QED  BY <3>1, <3>2, <3>3
  <2>10. Calm(p) => ph.then \notin Parting /\ du.then \notin Parting /\ ri.then \notin Parting
    BY <2>2 DEF Calm, PartNames, Parting
  <2> QED  BY <2>2, <2>7, <2>8, <2>9, <2>10
<1> QED  BY <1>1, <1>2

LEMMA UpdatedFacts ==
    ASSUME NEW f, FaceOK(f), NEW p, PartsOK(p), NEW v \in CallViews, v # NoCall, Updated(f, p, v)
    PROVE  /\ FaceOK(face') /\ PartsOK(parts') /\ (Calm(p) => Calm(parts'))
           /\ parts'["ring"].then \in {p["ring"].then, "rest"}
           /\ face'.id = v.id /\ face'.landed = f.landed
           /\ face'.ringing <=> v.is = "ringing"
           /\ face'.active <=> v.is = "active"
           /\ face'.pressed => f.pressed /\ f.id = v.id
           /\ face'.pressed /\ ~face'.answered => ~f.answered
           /\ f.landed /\ v.is = "active" => face'.answered
           /\ f.id = v.id /\ f.answered => face'.answered
           /\ f.landed /\ f.id # v.id => parts'["ring"].then = "rest"
<1> DEFINE g == Renewed(f, v)
           q == RenewedParts(f, p, v)
<1>1. /\ FaceOK(g) /\ g.id = v.id /\ g.landed = f.landed
      /\ g.ringing <=> v.is = "ringing"
      /\ g.active <=> v.is = "active"
      /\ g.pressed = (f.pressed /\ f.id = v.id) /\ g.answered = (f.answered /\ f.id = v.id)
  <2>1. PICK ri \in BOOLEAN, ac \in BOOLEAN, ad \in BOOLEAN, pr \in BOOLEAN, an \in BOOLEAN :
          /\ g = [f EXCEPT !.id = v.id, !.ringing = ri, !.active = ac, !.accepted = ad, !.pressed = pr, !.answered = an]
          /\ ri = (v.is = "ringing") /\ ac = (v.is = "active")
          /\ pr = (f.pressed /\ f.id = v.id) /\ an = (f.answered /\ f.id = v.id)
    <3>1. g = [f EXCEPT !.id = v.id, !.ringing = v.is = "ringing", !.active = v.is = "active",
                        !.accepted = f.accepted /\ f.id = v.id, !.pressed = f.pressed /\ f.id = v.id,
                        !.answered = f.answered /\ f.id = v.id]
      BY DEF Renewed, FaceOK
    <3>2. /\ (v.is = "ringing") \in BOOLEAN /\ (v.is = "active") \in BOOLEAN
          /\ (f.accepted /\ f.id = v.id) \in BOOLEAN /\ (f.pressed /\ f.id = v.id) \in BOOLEAN
          /\ (f.answered /\ f.id = v.id) \in BOOLEAN
      OBVIOUS
    <3> HIDE DEF g
    <3> QED  BY <3>1, <3>2
  <2>2. v.id \in 0 .. 2
    BY DEF CallViews, NoCall
  <2> HIDE DEF g
  <2>3. FaceOK(g)
    <3>1. g = [f EXCEPT !.id = v.id, !.ringing = ri, !.active = ac, !.accepted = ad, !.pressed = pr, !.answered = an]
      BY <2>1
    <3>2. PICK h : h = [f EXCEPT !.id = v.id, !.ringing = ri, !.active = ac]
      OBVIOUS
    <3>3. FaceOK(h)
      BY <2>2, <3>2 DEF FaceOK
    <3>4. g = [h EXCEPT !.accepted = ad, !.pressed = pr, !.answered = an]
      BY <3>1, <3>2 DEF FaceOK
    <3> QED  BY <3>3, <3>4 DEF FaceOK
  <2>4. /\ g.id = v.id /\ g.landed = f.landed /\ g.ringing = ri /\ g.active = ac /\ g.pressed = pr
        /\ g.answered = an
    BY <2>1 DEF FaceOK
  <2> QED  BY <2>1, <2>3, <2>4
<1>2. /\ PartsOK(q) /\ (Calm(p) => Calm(q)) /\ q["ring"].then \in {p["ring"].then, "rest"}
      /\ f.landed /\ f.id # v.id => q["ring"].then = "rest"
  BY RenewedFacts
<1>3. CASE v.is = "active" /\ f.landed
  <2>1. face' = [g EXCEPT !.answered = TRUE] /\ parts' = AnsweredParts(g, q)
    BY <1>3 DEF Updated, Answered
  <2> HIDE DEF g, q
  <2>2. /\ FaceOK(face') /\ face'.id = g.id /\ face'.landed = g.landed /\ face'.ringing = g.ringing
        /\ face'.active = g.active /\ face'.pressed = g.pressed /\ face'.answered
    BY <1>1, <2>1 DEF FaceOK
  <2>3. PartsOK(parts') /\ (Calm(q) => Calm(parts')) /\ parts'["ring"].then \in {q["ring"].then, "rest"}
    BY <1>2, <2>1, AnsweredFacts
  <2> QED  BY <1>1, <1>2, <2>2, <2>3
<1>4. CASE ~(v.is = "active" /\ f.landed)
  <2>1. face' = g /\ parts' = q
    BY <1>4 DEF Updated
  <2> HIDE DEF g, q
  <2> QED  BY <1>1, <1>2, <1>4, <2>1
<1> QED  BY <1>3, <1>4

LEMMA ViewFacts ==
    ASSUME NEW v \in CallViews, FaceInv, View(v)
    PROVE  callView' = v /\ thumb' = thumb /\ accepts' = accepts
  BY DEF View

LEMMA FreshFacts ==
    ASSUME NEW i \in 0 .. 2
    PROVE  /\ FaceOK([NewFace EXCEPT !.id = i]) /\ ~[NewFace EXCEPT !.id = i].pressed
           /\ PartsOK(NoParts) /\ Calm(NoParts)
           /\ PartsOK([NoParts EXCEPT !["bubble"] = Tween(@, 1, "phone")])
           /\ Calm([NoParts EXCEPT !["bubble"] = Tween(@, 1, "phone")])
           /\ [NoParts EXCEPT !["bubble"] = Tween(@, 1, "phone")]["ring"].then = "still"
<1>1. Still(0) \in Motions /\ Still(0).then = "still"
  BY StillFacts
<1>2. NoParts = [x \in PartNames |-> Still(0)]
  BY DEF NoParts, PartNames
<1>3. PICK m : m = Tween(Still(0), 1, "phone")
  OBVIOUS
<1>4. m \in Motions /\ m.then = "phone"
  BY <1>1, <1>3, TweenFacts DEF Completions
<1>5. [NoParts EXCEPT !["bubble"] = Tween(@, 1, "phone")] = [NoParts EXCEPT !["bubble"] = m]
  BY <1>2, <1>3 DEF PartNames
<1>6. PartsOK(NoParts) /\ Calm(NoParts)
  BY <1>1, <1>2 DEF PartsOK, Calm, Parting
<1>7. PICK o : o = [NoParts EXCEPT !["bubble"] = m]
  OBVIOUS
<1>8. o["ring"] = Still(0) /\ PartsOK(o) /\ Calm(o)
  <2>1. \A x \in PartNames : o[x] = IF x = "bubble" THEN m ELSE Still(0)
    BY <1>2, <1>7 DEF PartNames
  <2>2. o \in [PartNames -> Motions]
    BY <1>1, <1>2, <1>4, <1>7 DEF PartNames
  <2> QED  BY <1>1, <1>4, <2>1, <2>2 DEF PartsOK, Calm, Parting, PartNames
<1>9. FaceOK([NewFace EXCEPT !.id = i]) /\ ~[NewFace EXCEPT !.id = i].pressed
  <2>1. NewFace \in [id : 0 .. 2, ringing : BOOLEAN, active : BOOLEAN, landed : BOOLEAN, pressed : BOOLEAN,
           accepted : BOOLEAN, answered : BOOLEAN, left : Int] /\ ~NewFace.pressed
    BY DEF NewFace
  <2> QED  BY <2>1 DEF FaceOK
<1> QED  BY <1>1, <1>5, <1>6, <1>7, <1>8, <1>9

-----------------------------------------------------------------------------
LEMMA DrawKeeps ==
    ASSUME FaceInv, NEW v \in CallViews, DrawCall(v)
    PROVE  FaceInv' /\ accepts' = accepts
<1>1. /\ callPage = "up" /\ callPage' = "up" /\ v # NoCall /\ Updated(face, parts, v)
      /\ callView' = v /\ thumb' = thumb /\ accepts' = accepts
  BY ViewFacts DEF DrawCall
<1>2. FaceOK(face) /\ PartsOK(parts) /\ UpInv(callView, face, parts, thumb)
  BY <1>1 DEF FaceInv
<1>3. /\ FaceOK(face') /\ PartsOK(parts') /\ (Calm(parts) => Calm(parts'))
      /\ parts'["ring"].then \in {parts["ring"].then, "rest"}
      /\ face'.id = v.id /\ face'.landed = face.landed
      /\ face'.ringing <=> v.is = "ringing"
      /\ face'.active <=> v.is = "active"
      /\ face'.pressed => face.pressed /\ face.id = v.id
      /\ face'.pressed /\ ~face'.answered => ~face.answered
      /\ face.landed /\ v.is = "active" => face'.answered
      /\ face.id = v.id /\ face.answered => face'.answered
      /\ face.landed /\ face.id # v.id => parts'["ring"].then = "rest"
  BY <1>1, <1>2, UpdatedFacts
<1>4. v.is \in {"ringing", "active"}
  BY <1>1 DEF CallViews, NoCall
<1>5. RingEarned(face', parts')
  BY <1>2, <1>3, <1>4 DEF RingEarned, UpInv
<1>6. UpInv(v, face', parts', thumb)
  BY <1>1, <1>2, <1>3, <1>5 DEF UpInv
<1>7. face'.pressed => thumb.down
  BY <1>3 DEF FaceInv
<1> QED  BY <1>1, <1>3, <1>6, <1>7 DEF FaceInv

LEMMA AllStoppedFacts ==
    ASSUME PartsOK(parts), NEW q, q = [AllStopped(parts) EXCEPT !["ring"] = Tween(parts["ring"], 0, "collapse")]
    PROVE  PartsOK(q)
<1>1. parts \in [PartNames -> Motions] /\ "ring" \in PartNames
  BY DEF PartsOK, PartNames
<1>2. PICK o : o = AllStopped(parts)
  OBVIOUS
<1>3. o \in [PartNames -> Motions] /\ \A x \in PartNames : o[x].then = "still"
  <2>1. o = [x \in PartNames |-> Stopped(parts[x])]
    BY <1>1, <1>2 DEF AllStopped
  <2>2. \A x \in PartNames : Stopped(parts[x]) \in Motions /\ Stopped(parts[x]).then = "still"
    BY <1>1, StoppedFacts
  <2> QED  BY <2>1, <2>2
<1>4. PICK m : m = Tween(parts["ring"], 0, "collapse")
  OBVIOUS
<1>5. m \in Motions
  BY <1>1, <1>4, TweenFacts DEF Completions, Parting
<1>6. q = [o EXCEPT !["ring"] = m]
  BY <1>2, <1>4
<1> QED  BY ZenonT(30), <1>1, <1>3, <1>5, <1>6 DEF PartsOK

LEMMA LeaveKeeps ==
    ASSUME FaceInv, LeaveCall \/ CoverCall
    PROVE  FaceInv' /\ accepts' = accepts
<1>1. callPage = "up" /\ callView' = NoCall /\ thumb' = thumb /\ accepts' = accepts /\ NoCall \in CallViews
  BY ViewFacts DEF LeaveCall, CoverCall, View, CallViews
<1>2. CASE LeaveCall
  <2>1. /\ callPage' = "leaving" /\ face' = [face EXCEPT !.pressed = FALSE]
        /\ parts' = [AllStopped(parts) EXCEPT !["ring"] = Tween(parts["ring"], 0, "collapse")]
    BY <1>2 DEF LeaveCall
  <2>2. PartsOK(parts') /\ FaceOK(face') /\ ~face'.pressed
    BY <2>1, AllStoppedFacts DEF FaceInv, FaceOK
  <2> QED  BY <1>1, <2>1, <2>2 DEF FaceInv
<1>3. CASE CoverCall
  <2>1. callPage' = "covered" /\ face' = face /\ parts' = parts
    BY <1>3 DEF CoverCall
  <2> QED  BY <1>1, <2>1 DEF FaceInv, UpInv
<1> QED  BY <1>2, <1>3

LEMMA OtherKeeps ==
    ASSUME FaceInv, NEW v \in CallViews, OtherView(v)
    PROVE  FaceInv' /\ accepts' = accepts
<1>1. /\ callPage # "up" /\ callPage' = callPage /\ face' = face /\ parts' = parts
      /\ callView' = v /\ thumb' = thumb /\ accepts' = accepts
  BY ViewFacts DEF OtherView
<1> QED  BY <1>1 DEF FaceInv

LEMMA EnterKeeps ==
    ASSUME FaceInv, EnterCall
    PROVE  FaceInv' /\ accepts' = accepts
<1>1. PICK f, p : /\ f = [NewFace EXCEPT !.id = face.id]
                  /\ p = [NoParts EXCEPT !["bubble"] = Tween(@, 1, "phone")]
  OBVIOUS
<1>2. /\ callView # NoCall /\ callPage' = "up" /\ Updated(f, p, callView)
      /\ callView' = callView /\ thumb' = thumb /\ accepts' = accepts
  BY <1>1 DEF EnterCall
<1>3. FaceOK(f) /\ ~f.pressed /\ PartsOK(p) /\ Calm(p) /\ p["ring"].then = "still"
  <2>1. face.id \in 0 .. 2
    BY DEF FaceInv, FaceOK
  <2> QED  BY <1>1, <2>1, FreshFacts
<1>4. callView \in CallViews
  BY DEF FaceInv
<1>5. /\ FaceOK(face') /\ PartsOK(parts') /\ Calm(parts')
      /\ parts'["ring"].then \in {"still", "rest"}
      /\ face'.id = callView.id
      /\ face'.ringing <=> callView.is = "ringing"
      /\ face'.active <=> callView.is = "active"
      /\ ~face'.pressed
  BY <1>2, <1>3, <1>4, UpdatedFacts
<1>6. UpInv(callView, face', parts', thumb)
  BY <1>2, <1>5 DEF UpInv, RingEarned
<1> QED  BY <1>2, <1>5, <1>6 DEF FaceInv

\* What is moved or set going on a page leaves the invariant, if it is still the
\* same call under the same finger.
LEMMA SameCall ==
    ASSUME FaceInv, callView' = callView, callPage' = callPage, accepts' \in Nat, thumb' \in [down : BOOLEAN, on : 0 .. 2],
           FaceOK(face'), PartsOK(parts'), callPage \in {"up", "covered"} => Calm(parts'),
           face'.id = face.id, face'.ringing = face.ringing, face'.active = face.active,
           face.landed => face'.landed, face.answered => face'.answered,
           face'.pressed => thumb'.down /\ callPage \in {"up", "covered"},
           callPage = "up" /\ face'.pressed /\ ~face'.answered => thumb'.on = callView.id,
           callPage = "up" /\ parts'["ring"].then = "accept" =>
             \/ Holds(face')
             \/ parts["ring"].then = "accept"
    PROVE  FaceInv'
<1>1. ASSUME callPage = "up"
      PROVE  UpInv(callView, face', parts', thumb')
  <2>1. UpInv(callView, face, parts, thumb)
    BY <1>1 DEF FaceInv
  <2>2. RingEarned(face', parts')
    BY <1>1, <2>1 DEF UpInv, RingEarned, Holds
  <2> QED  BY <1>1, <2>1, <2>2 DEF UpInv
<1>2. callView \in CallViews /\ callPage \in {"away", "up", "leaving", "covered"}
  BY DEF FaceInv
<1> QED  BY <1>1, <1>2 DEF FaceInv

LEMMA PressKeeps ==
    ASSUME FaceInv, PressCall \/ ReleaseCall
    PROVE  FaceInv' /\ accepts' = accepts
<1>1. callView' = callView /\ callPage' = callPage /\ accepts' = accepts
  BY DEF PressCall, ReleaseCall
<1>2. /\ FaceOK(face) /\ PartsOK(parts) /\ callView.id \in 0 .. 2 /\ accepts \in Nat
      /\ thumb \in [down : BOOLEAN, on : 0 .. 2]
      /\ callPage \in {"up", "covered"} => Calm(parts)
      /\ callPage = "up" => UpInv(callView, face, parts, thumb)
  BY DEF FaceInv, UpInv, CallViews, NoCall
<1>3. CASE PressCall
  <2>1. ~thumb.down /\ callPage \in {"up", "leaving"} /\ thumb' = [down |-> TRUE, on |-> callView.id] /\ ~face.pressed
    BY <1>3 DEF PressCall, FaceInv
  <2>2. thumb' \in [down : BOOLEAN, on : 0 .. 2] /\ thumb'.down /\ thumb'.on = callView.id
    BY <1>2, <2>1
  <2>3. CASE callPage = "leaving"
    <3>1. face' = face /\ parts' = parts
      BY <1>3, <2>3 DEF PressCall
    <3> QED  BY <1>1, <1>2, <2>1, <2>2, <2>3, <3>1, SameCall
  <2>4. CASE callPage # "leaving"
    <3>1. PICK f : f = [face EXCEPT !.pressed = TRUE]
      OBVIOUS
    <3>2. face' = f /\ parts' = HeldParts(f, parts) /\ callPage = "up"
      BY <1>3, <2>1, <2>4, <3>1 DEF PressCall
    <3>3. /\ FaceOK(f) /\ f.id = face.id /\ f.ringing = face.ringing /\ f.active = face.active
          /\ f.landed = face.landed /\ f.answered = face.answered
      BY <1>2, <3>1 DEF FaceOK
    <3>4. PartsOK(parts') /\ (Calm(parts) => Calm(parts')) /\ (parts'["ring"].then = parts["ring"].then \/ Holds(f))
      BY <1>2, <3>2, HeldFacts
    <3>5. UpInv(callView, face', parts', thumb')
      <4>1. RingEarned(face', parts')
        BY <1>2, <2>4, <3>1, <3>2, <3>3, <3>4 DEF RingEarned, UpInv, Holds
      <4> QED  BY <1>2, <2>2, <3>2, <3>3, <3>4, <4>1 DEF UpInv
    <3> QED  BY <1>1, <1>2, <2>2, <3>2, <3>3, <3>4, <3>5 DEF FaceInv
  <2> QED  BY <1>1, <2>3, <2>4
<1>4. CASE ReleaseCall
  <2>1. thumb' = [thumb EXCEPT !.down = FALSE] /\ face' = [face EXCEPT !.pressed = FALSE]
    BY <1>4 DEF ReleaseCall
  <2>2. /\ FaceOK(face') /\ ~face'.pressed /\ thumb' \in [down : BOOLEAN, on : 0 .. 2]
        /\ face'.id = face.id /\ face'.ringing = face.ringing /\ face'.active = face.active
        /\ face'.landed = face.landed /\ face'.answered = face.answered
    BY <1>2, <2>1 DEF FaceOK
  <2>3. /\ PartsOK(parts') /\ (Calm(parts) => Calm(parts'))
        /\ parts'["ring"].then \in {parts["ring"].then, "rest"}
    <3>1. CASE parts' = parts
      BY <1>2, <3>1
    <3>2. CASE parts' # parts
      <4>1. parts["ring"] \in Motions
        BY <1>2 DEF PartsOK, PartNames
      <4>2. PICK m : m = Tween(parts["ring"], 0, "rest")
        OBVIOUS
      <4>3. m \in Motions /\ m.then = "rest"
        BY <4>1, <4>2, TweenFacts DEF Completions
      <4>4. parts' = [parts EXCEPT !["ring"] = m]
        BY <1>4, <3>2, <4>2 DEF ReleaseCall
      <4>5. PartsOK(parts')
        BY <1>2, <4>3, <4>4 DEF PartsOK, PartNames
      <4>6. Calm(parts) => Calm(parts')
        BY <1>2, <4>3, <4>4 DEF PartsOK, PartNames, Calm, Parting
      <4>7. parts'["ring"] = m
        BY <1>2, <4>4 DEF PartsOK, PartNames
      <4> QED  BY <4>3, <4>5, <4>6, <4>7
    <3> QED  BY <3>1, <3>2
  <2> QED  BY <1>1, <1>2, <2>2, <2>3, SameCall
<1> QED  BY <1>3, <1>4

\* An animation's step: an accept is for the call that rings, under its finger.
LEMMA MoveKeeps ==
    ASSUME FaceInv, NEW x \in DOMAIN parts, MovePart(x)
    PROVE  /\ FaceInv'
           /\ accepts' # accepts =>
                callPage = "covered" \/ (callPage = "up" /\ callView.is = "ringing" /\ face.id = callView.id
                                         /\ thumb.down /\ thumb.on = callView.id)
<1> DEFINE then == IF Lands(parts[x]) THEN parts[x].then ELSE "rest"
<1>1. /\ FaceOK(face) /\ PartsOK(parts) /\ x \in PartNames /\ parts[x] \in Motions /\ accepts \in Nat
      /\ thumb \in [down : BOOLEAN, on : 0 .. 2]
      /\ callPage \in {"up", "covered"} => Calm(parts)
      /\ callPage = "up" => UpInv(callView, face, parts, thumb)
      /\ face.pressed => thumb.down /\ callPage \in {"up", "covered"}
  BY DEF FaceInv, UpInv, PartsOK
<1>2. PICK p : p = [parts EXCEPT ![x] = Moved(@)]
  OBVIOUS
<1>3. /\ PartsOK(p) /\ (Calm(parts) => Calm(p)) /\ p["ring"].then \in {parts["ring"].then, "still"}
  <2>1. PICK m : m = Moved(parts[x])
    OBVIOUS
  <2>2. m \in Motions /\ m.then \in {parts[x].then, "still"}
    BY <1>1, <2>1, MovedFacts
  <2>3. p = [parts EXCEPT ![x] = m]
    BY <1>2, <2>1
  <2>4. PartsOK(p)
    BY <1>1, <2>2, <2>3 DEF PartsOK, PartNames
  <2>5. Calm(parts) => Calm(p)
    BY <1>1, <2>2, <2>3 DEF PartsOK, PartNames, Calm, Parting
  <2>6. p["ring"].then \in {parts["ring"].then, "still"}
    BY <1>1, <2>2, <2>3 DEF PartsOK, PartNames
  <2> QED  BY <2>4, <2>5, <2>6
<1>4. /\ CASE then = "phone" -> parts' = [p EXCEPT !["phone"] = Tween(@, 1, "caller")] /\ UNCHANGED face
           [] then = "caller" -> parts' = [p EXCEPT !["caller"] = Tween(@, 1, "landed")] /\ UNCHANGED face
           [] then = "landed" -> Landed(p)
           [] then = "duration" -> parts' = [p EXCEPT !["duration"] = Tween(@, 1, "rest")] /\ UNCHANGED face
           [] then = "accept" -> Accepted(p)
           [] then = "collapse" -> parts' = Collapses(p) /\ face' = [face EXCEPT !.left = 3]
           [] then = "collapsed" ->
                /\ face' = [face EXCEPT !.left = @ - 1]
                /\ parts' = IF face.left > 1 THEN p ELSE [p EXCEPT !["bubble"] = Tween(@, 0, "gone")]
           [] OTHER -> parts' = p /\ UNCHANGED face
      /\ callPage' = IF then = "gone" THEN "away" ELSE callPage
      /\ then # "accept" => thumb' = thumb /\ accepts' = accepts
      /\ callView' = callView
  BY <1>2 DEF MovePart
<1>5. /\ callPage \in {"up", "covered"} => then \notin Parting
      /\ then = "accept" => x = "ring" /\ parts["ring"].then = "accept"
  BY <1>1 DEF Calm, PartsOK, Parting
<1>6. \A n \in {0, 1}, t \in Completions : \A m \in Motions : Tween(m, n, t) \in Motions /\ Tween(m, n, t).then = t
  BY TweenFacts
<1> HIDE DEF then
<1>7. ASSUME NEW y \in PartNames \ {"ring"}, NEW m \in Motions, NEW q, q = [p EXCEPT ![y] = m], m.then # "accept"
      PROVE  PartsOK(q) /\ (Calm(p) /\ m.then \notin Parting => Calm(q)) /\ q["ring"] = p["ring"]
  <2>1. PartsOK(q)
    BY <1>3, <1>7 DEF PartsOK, PartNames
  <2>2. Calm(p) /\ m.then \notin Parting => Calm(q)
    BY <1>3, <1>7 DEF PartsOK, PartNames, Calm
  <2>3. q["ring"] = p["ring"]
    BY <1>3, <1>7 DEF PartsOK, PartNames
  <2> QED  BY <2>1, <2>2, <2>3
<1>8. \A y \in PartNames : p[y] \in Motions
  BY <1>3 DEF PartsOK
<1>9. CASE then \in {"phone", "caller", "duration"}
  <2>1. PICK y, t : /\ y \in PartNames \ {"ring"} /\ t \in {"caller", "landed", "rest"}
                    /\ parts' = [p EXCEPT ![y] = Tween(p[y], 1, t)] /\ face' = face
    BY <1>4, <1>9 DEF PartNames
  <2>2. PICK m : m = Tween(p[y], 1, t)
    OBVIOUS
  <2>3. m \in Motions /\ m.then = t
    BY <1>6, <1>8, <2>1, <2>2 DEF Completions
  <2>4. PartsOK(parts') /\ (Calm(p) => Calm(parts')) /\ parts'["ring"] = p["ring"]
    BY <1>7, <2>1, <2>2, <2>3 DEF Parting
  <2> QED  BY <1>1, <1>3, <1>4, <1>9, <2>1, <2>4, SameCall DEF UpInv
<1>10. CASE then = "landed"
  <2>1. PICK f : f = [face EXCEPT !.landed = TRUE]
    OBVIOUS
  <2>2. PICK q : q = HeldParts(f, p)
    OBVIOUS
  <2>3. /\ FaceOK(f) /\ f.landed /\ f.id = face.id /\ f.ringing = face.ringing /\ f.active = face.active
        /\ f.pressed = face.pressed /\ f.answered = face.answered
    BY <1>1, <2>1 DEF FaceOK
  <2>4. PartsOK(q) /\ (Calm(p) => Calm(q)) /\ (q["ring"].then = p["ring"].then \/ Holds(f))
    BY <1>3, <2>2, HeldFacts
  <2>5. Landed(p)
    BY <1>4, <1>10
  <2>6. thumb' = thumb /\ accepts' = accepts /\ callPage' = callPage /\ callView' = callView
    BY <1>4, <1>10
  <2>7. CASE ~f.active
    <3>1. face' = f /\ parts' = q
      BY <2>1, <2>2, <2>5, <2>7 DEF Landed
    <3> QED  BY <1>1, <1>3, <2>3, <2>4, <2>6, <3>1, SameCall DEF UpInv
  <2>8. CASE f.active
    <3>1. face' = [f EXCEPT !.answered = TRUE] /\ parts' = AnsweredParts(f, q)
      BY <2>1, <2>2, <2>5, <2>8 DEF Landed, Answered
    <3>2. /\ FaceOK(face') /\ face'.landed /\ face'.answered /\ face'.id = face.id /\ face'.ringing = face.ringing
          /\ face'.active = face.active /\ face'.pressed = face.pressed
      BY <2>3, <3>1 DEF FaceOK
    <3>3. PartsOK(parts') /\ (Calm(q) => Calm(parts')) /\ parts'["ring"].then \in {q["ring"].then, "rest"}
      BY <2>4, <3>1, AnsweredFacts
    <3>4. callPage = "up" => ~Holds(f)
      BY <1>1, <2>3, <2>8 DEF UpInv, Holds
    <3> QED  BY <1>1, <1>3, <2>4, <2>6, <3>2, <3>3, <3>4, SameCall DEF UpInv
  <2> QED  BY <2>7, <2>8
<1>11. CASE then = "accept"
  <2>1. Accepted(p) /\ callPage' = callPage /\ callView' = callView /\ parts["ring"].then = "accept"
    BY <1>4, <1>5, <1>11
  <2>2. CASE ~face.pressed \/ face.answered
    <3>1. parts' = p /\ face' = face /\ thumb' = thumb /\ accepts' = accepts
      BY <2>1, <2>2 DEF Accepted
    <3> QED  BY <1>1, <1>3, <2>1, <2>2, <3>1, SameCall DEF UpInv
  <2>3. CASE face.pressed /\ ~face.answered
    <3>1. /\ face' = [face EXCEPT !.answered = TRUE, !.accepted = TRUE] /\ parts' = AnsweredParts(face, p)
          /\ accepts' = accepts + 1 /\ thumb' = [thumb EXCEPT !.on = 0]
      BY <1>1, <2>1, <2>3 DEF Accepted, Answered, FaceOK
    <3>2. /\ FaceOK(face') /\ face'.landed = face.landed /\ face'.answered /\ face'.id = face.id
          /\ face'.ringing = face.ringing /\ face'.active = face.active /\ face'.pressed
      BY <1>1, <2>3, <3>1 DEF FaceOK
    <3>3. PartsOK(parts') /\ (Calm(p) => Calm(parts')) /\ parts'["ring"].then \in {p["ring"].then, "rest"}
      BY <1>3, <3>1, AnsweredFacts
    <3>4. thumb' \in [down : BOOLEAN, on : 0 .. 2] /\ thumb'.down = thumb.down /\ accepts' \in Nat
      BY <1>1, <3>1
    <3>5. FaceInv'
      BY <1>1, <1>3, <2>1, <2>3, <3>2, <3>3, <3>4, SameCall
    <3>6. callPage = "up" => callView.is = "ringing" /\ face.id = callView.id /\ thumb.on = callView.id
      BY <1>1, <2>1, <2>3 DEF UpInv, RingEarned
    <3> QED  BY <1>1, <2>3, <3>5, <3>6
  <2> QED  BY <1>1, <2>2, <2>3 DEF FaceOK
<1>12. CASE then = "collapse"
  <2>1. /\ parts' = Collapses(p) /\ face' = [face EXCEPT !.left = 3] /\ callPage' = callPage
        /\ thumb' = thumb /\ accepts' = accepts /\ callView' = callView /\ callPage \notin {"up", "covered"}
    BY <1>4, <1>5, <1>12 DEF Parting
  <2>2. /\ FaceOK(face') /\ face'.landed = face.landed /\ face'.answered = face.answered /\ face'.id = face.id
        /\ face'.ringing = face.ringing /\ face'.active = face.active /\ face'.pressed = face.pressed
    BY <1>1, <2>1 DEF FaceOK
  <2>3. PartsOK(parts')
    <3>1. parts' = [y \in PartNames |-> IF y \in Collapsing THEN Tween(p[y], 0, "collapsed") ELSE p[y]]
      BY <1>3, <2>1 DEF Collapses, PartsOK
    <3>2. \A y \in PartNames : Tween(p[y], 0, "collapsed") \in Motions /\ Tween(p[y], 0, "collapsed").then = "collapsed"
      BY <1>6, <1>8 DEF Completions, Parting
    <3>3. \A y \in PartNames : parts'[y] = IF y \in Collapsing THEN Tween(p[y], 0, "collapsed") ELSE p[y]
      BY <3>1
    <3>4. parts' \in [PartNames -> Motions]
      BY <1>8, <3>1, <3>2
    <3> QED  BY <1>3, <3>2, <3>3, <3>4 DEF PartsOK
  <2> QED  BY <1>1, <2>1, <2>2, <2>3, SameCall
<1>13. CASE then = "collapsed"
  <2>1. /\ face' = [face EXCEPT !.left = @ - 1] /\ callPage' = callPage
        /\ parts' = IF face.left > 1 THEN p ELSE [p EXCEPT !["bubble"] = Tween(@, 0, "gone")]
        /\ thumb' = thumb /\ accepts' = accepts /\ callView' = callView /\ callPage \notin {"up", "covered"}
    BY <1>4, <1>5, <1>13 DEF Parting
  <2>2. /\ FaceOK(face') /\ face'.landed = face.landed /\ face'.answered = face.answered /\ face'.id = face.id
        /\ face'.ringing = face.ringing /\ face'.active = face.active /\ face'.pressed = face.pressed
    BY <1>1, <2>1 DEF FaceOK
  <2>3. PartsOK(parts')
    <3>1. PICK m : m = Tween(p["bubble"], 0, "gone")
      OBVIOUS
    <3>2. m \in Motions /\ m.then = "gone"
      BY <1>6, <1>8, <3>1 DEF Completions, Parting, PartNames
    <3>3. parts' = p \/ parts' = [p EXCEPT !["bubble"] = m]
      BY <2>1, <3>1
    <3> QED  BY <1>3, <1>7, <3>2, <3>3 DEF PartNames
  <2> QED  BY <1>1, <2>1, <2>2, <2>3, SameCall
<1>14. CASE then = "gone"
  <2>1. callPage' = "away" /\ callPage \notin {"up", "covered"} /\ parts' = p /\ face' = face
    BY <1>4, <1>5, <1>14 DEF Parting
  <2>2. thumb' = thumb /\ accepts' = accepts /\ callView' = callView
    BY <1>4, <1>14
  <2> QED  BY <1>1, <1>3, <2>1, <2>2 DEF FaceInv
<1>15. CASE then \in {"still", "rest"}
  <2>1. /\ parts' = p /\ face' = face /\ callPage' = callPage
        /\ thumb' = thumb /\ accepts' = accepts /\ callView' = callView
    BY <1>4, <1>15
  <2> QED  BY <1>1, <1>3, <2>1, SameCall DEF UpInv
<1>16. then \in Completions
  BY <1>1 DEF then, Motions, Completions
<1> QED  BY <1>9, <1>10, <1>11, <1>12, <1>13, <1>14, <1>15, <1>16 DEF Completions, Parting

-----------------------------------------------------------------------------
LEMMA FaceStarts == FaceInit => FaceInv
<1> SUFFICES ASSUME FaceInit PROVE FaceInv
  OBVIOUS
<1>1. FaceOK(face) /\ ~face.pressed
  BY DEF FaceInit, NewFace, FaceOK
<1>2. PartsOK(parts)
  BY FreshFacts DEF FaceInit
<1> QED  BY <1>1, <1>2 DEF FaceInit, FaceInv, CallViews

FaceSpec == FaceInit /\ [][FaceNext]_faceVars

LEMMA FaceKeeps ==
    ASSUME FaceInv, [FaceNext]_faceVars
    PROVE  /\ FaceInv'
           /\ accepts' # accepts =>
                callPage = "covered" \/ (callPage = "up" /\ callView.is = "ringing" /\ face.id = callView.id
                                         /\ thumb.down /\ thumb.on = callView.id)
<1>1. CASE CallMoves
  BY <1>1, MoveKeeps DEF CallMoves
<1>2. CASE CallDraws
  BY <1>2, DrawKeeps, OtherKeeps, LeaveKeeps, EnterKeeps DEF CallDraws
<1>3. CASE PressCall \/ ReleaseCall
  BY <1>3, PressKeeps
<1>4. CASE UNCHANGED faceVars
  BY <1>4 DEF faceVars, FaceInv, UpInv, RingEarned
<1> QED  BY <1>1, <1>2, <1>3, <1>4 DEF FaceNext

\* An accept is sent only for the call the page shows, while it rings and under a finger
\* that came down on it, but on a page covered in the hold (call_screen.cpp).
THEOREM AlwaysAcceptHeld == FaceSpec => AcceptHeld
<1>1. FaceInv /\ [FaceNext]_faceVars => FaceInv'
  BY FaceKeeps
<1>2. FaceInv /\ [FaceNext]_faceVars =>
        [accepts' # accepts =>
         callPage = "covered" \/ (callPage = "up" /\ callView.is = "ringing" /\ face.id = callView.id
                                  /\ thumb.down /\ thumb.on = callView.id)]_faceVars
  BY FaceKeeps
<1> QED  BY <1>1, <1>2, FaceStarts, PTL DEF FaceSpec, AcceptHeld

-----------------------------------------------------------------------------
(* Add friend's closing.                                                    *)

RideViews == [route : Routes, call : BOOLEAN, speed : Speeds]
PromptNames == {"none", "offer", "waiting", "done"}
Meshes == [prompt : PromptNames, sure : BOOLEAN, visible : BOOLEAN, menu : BOOLEAN, allowed : BOOLEAN, ran : BOOLEAN]
Menus == [open : BOOLEAN, auto : BOOLEAN, seen : PromptNames, missed : BOOLEAN]
Shared == [view : RideViews, prompt : PromptNames, allowed : BOOLEAN, drawn : BOOLEAN]

\* A finished view says whether Add friend may show, but for the first, which shows nobody.
MenuInv ==
    /\ events \in Nat /\ ride \in RideViews
    /\ mesh \in Meshes
    /\ shared \in Shared /\ menu \in Menus /\ halfway \in BOOLEAN
    /\ ~halfway => shared.allowed = Gate(shared.view) \/ shared.prompt = "none"

Kept == menu.open /\ ~menu'.open /\ menu.seen = shared.prompt /\ shared.prompt # "none"
          => events' # events \/ ~Gate(shared.view) \/ halfway

ScreensSpec == ScreensInit /\ [][ScreensNext]_screenVars

-----------------------------------------------------------------------------
LEMMA GateType == ASSUME NEW v \in RideViews PROVE Gate(v) \in BOOLEAN
  BY DEF Gate

LEMMA ScreensStart == ASSUME ScreensInit PROVE MenuInv
<1>1. ride \in RideViews /\ shared.view \in RideViews
  BY DEF ScreensInit, RideViews, Routes, Speeds
<1> QED  BY <1>1 DEF ScreensInit, MenuInv, PromptNames, Meshes, Menus, Shared

\* A frame draws what is published, and closes Add friend over a handshake only
\* where it is not allowed.
LEMMA MenuFrame ==
    ASSUME MenuInv, NEW minute \in BOOLEAN, NEW long \in BOOLEAN, Frame(minute, long)
    PROVE  MenuInv' /\ Kept
<1>1. /\ shared' = [shared EXCEPT !.drawn = TRUE] /\ halfway' = halfway /\ events' = events /\ ride' = ride /\ mesh' = mesh
      /\ menu'.open = (MenuOpen(shared, minute) \/ Held(shared, long))
  BY DEF Frame, worldVars
<1>2. /\ shared' \in Shared /\ shared'.view = shared.view /\ shared'.prompt = shared.prompt
      /\ shared'.allowed = shared.allowed
  BY <1>1 DEF MenuInv, PromptNames, Meshes, Menus, Shared
<1>5. menu' \in Menus
  <2>1. PICK open \in BOOLEAN, auto \in BOOLEAN, missed \in BOOLEAN :
          menu' = [open |-> open, auto |-> auto, seen |-> shared.prompt, missed |-> missed]
    BY <1>1 DEF Frame, MenuInv, PromptNames, Meshes, Menus
  <2> QED  BY <2>1 DEF MenuInv, PromptNames, Meshes, Menus, Shared
<1>3. MenuInv'
  BY <1>1, <1>2, <1>5 DEF MenuInv, PromptNames, Meshes, Menus, Gate, TurnNear
<1>4. Kept
  <2> SUFFICES ASSUME menu.open, ~menu'.open, menu.seen = shared.prompt, shared.prompt # "none", ~halfway
               PROVE  ~Gate(shared.view)
    BY DEF Kept
  <2>1. ~shared.allowed
    BY <1>1 DEF MenuOpen, Quiet
  <2> QED  BY <2>1 DEF MenuInv, PromptNames, Meshes, Menus
<1> QED  BY <1>3, <1>4

LEMMA MenuPass ==
    ASSUME MenuInv, PublishPacket \/ FinishPass \/ MeshPass
    PROVE  MenuInv' /\ Kept
<1>1. ShownPrompt \in PromptNames
  BY DEF MenuInv, PromptNames, Meshes, Menus, ShownPrompt
<1>2. menu' = menu
  BY DEF PublishPacket, FinishPass, MeshPass, guiVars
<1>3. CASE PublishPacket
  <2>1. [ride EXCEPT !.call = shared.view.call] \in RideViews
    BY DEF MenuInv, PromptNames, Meshes, Menus, Shared, RideViews
  <2>2. PICK v \in RideViews : v = [ride EXCEPT !.call = shared.view.call]
    BY <2>1
  <2>3. /\ shared' = [view |-> v, prompt |-> ShownPrompt, allowed |-> FALSE, drawn |-> TRUE]
        /\ halfway' /\ halfway' \in BOOLEAN /\ events' = events /\ ride' = ride /\ mesh' = mesh
    BY <1>3, <2>2 DEF PublishPacket, worldVars
  <2>4. shared' \in Shared
    BY <1>1, <2>2, <2>3 DEF Shared
  <2> QED  BY <1>2, <2>3, <2>4 DEF MenuInv, Kept
<1>4. CASE FinishPass
  <2>1. Gate(ride) \in BOOLEAN /\ (splash = "up") \in BOOLEAN
    BY GateType DEF MenuInv, PromptNames, Meshes, Menus
  <2>2. /\ shared' \in Shared /\ shared'.allowed = Gate(ride) /\ shared'.view = ride
        /\ mesh' = [mesh EXCEPT !.allowed = Gate(ride), !.ran = FALSE] /\ ride' = ride /\ events' = events
    BY <1>1, <1>4, <2>1 DEF FinishPass, MenuInv, PromptNames, Meshes, Menus, Shared, worldVars
  <2>3. shared'.allowed = Gate(shared.view)'
    BY <2>2 DEF Gate, TurnNear
  <2>4. mesh' \in Meshes
    BY <2>1, <2>2 DEF MenuInv, PromptNames, Meshes, Menus
  <2>5. halfway' \in BOOLEAN /\ ride \in RideViews /\ events \in Nat /\ menu \in Menus
    BY <1>4 DEF FinishPass, MenuInv
  <2> QED  BY <1>2, <2>2, <2>3, <2>4, <2>5 DEF MenuInv, Kept
<1>5. CASE MeshPass
  <2>1. PICK p \in PromptNames :
          mesh' = [mesh EXCEPT !.menu = menu.open, !.visible = mesh.allowed, !.ran = TRUE, !.prompt = p]
    <3>1. PICK withdrawn : withdrawn = (mesh.menu /\ ~menu.open /\ mesh.prompt \in {"offer", "waiting"} /\ ~mesh.sure)
      OBVIOUS
    <3>2. mesh' = [mesh EXCEPT !.menu = menu.open, !.visible = mesh.allowed, !.ran = TRUE,
                               !.prompt = IF withdrawn THEN "none" ELSE mesh.prompt]
      BY <1>5, <3>1 DEF MeshPass, MenuInv, PromptNames, Meshes, Menus
    <3> QED  BY <3>2 DEF MenuInv, PromptNames, Meshes, Menus
  <2>2. mesh' \in Meshes
    BY <2>1 DEF MenuInv, PromptNames, Meshes, Menus
  <2>3. shared' = shared /\ halfway' = halfway /\ ride' = ride /\ events' = events
    BY <1>5 DEF MeshPass, worldVars
  <2> QED  BY <1>2, <2>2, <2>3 DEF MenuInv, PromptNames, Meshes, Menus, Kept, Gate, TurnNear
<1> QED  BY <1>3, <1>4, <1>5

\* What happens outside is an event or leaves the page alone.
LEMMA OutsideKeeps ==
    ASSUME MenuInv, RideChanges \/ Asked \/ PromptMoves \/ Timers \/ DoubleTap \/ Press \/ Lift
    PROVE  MenuInv' /\ Kept
<1>1. shared' = shared /\ halfway' = halfway
  BY DEF RideChanges, Asked, PromptMoves, Timers, DoubleTap, Press, Lift, SplashTime, LeaveDone, Land, StopPasses
<1>2. menu' = menu \/ (Event /\ menu' \in Menus)
  BY DEF RideChanges, Asked, PromptMoves, Timers, DoubleTap, Press, Lift, SplashTime, LeaveDone, Land, StopPasses,
         guiVars, MenuInv, PromptNames, Meshes, Menus
<1>3. events' = events \/ Event
  BY DEF RideChanges, Asked, PromptMoves, Timers, DoubleTap, Press, Lift, SplashTime, LeaveDone, Land, StopPasses, worldVars
<1>4. events' \in Nat /\ menu' \in Menus /\ (menu' = menu \/ events' # events)
  BY <1>2, <1>3 DEF Event, MenuInv, PromptNames, Meshes, Menus
<1>5. ride' \in RideViews
  BY ZenonT(30) DEF RideChanges, Asked, PromptMoves, Timers, DoubleTap, Press, Lift, SplashTime, LeaveDone, Land, StopPasses,
         worldVars, MenuInv, PromptNames, Meshes, Menus, RideViews
<1>6. mesh' \in Meshes
  BY DEF RideChanges, Asked, PromptMoves, Timers, DoubleTap, Press, Lift, SplashTime, LeaveDone, Land, StopPasses,
         worldVars, MenuInv, PromptNames, Meshes, Menus
<1> QED  BY <1>1, <1>4, <1>5, <1>6 DEF MenuInv, PromptNames, Meshes, Menus, Kept, Gate, TurnNear

LEMMA MenuKeeps ==
    ASSUME MenuInv, [ScreensNext]_screenVars
    PROVE  MenuInv' /\ Kept
<1>1. CASE UNCHANGED screenVars
  BY <1>1 DEF screenVars, worldVars, guiVars, MenuInv, PromptNames, Meshes, Menus, Kept, Gate, TurnNear
<1> QED  BY <1>1, MenuFrame, MenuPass, OutsideKeeps DEF ScreensNext, Draw

\* Nothing but the rider, a call or a turn closes Add friend over a handshake that
\* shows, unless the frame is drawn halfway through a pass (gui_app.cpp).
THEOREM MenuAlwaysKept == ScreensSpec => MenuKept
<1>1. ScreensInit => MenuInv
  BY ScreensStart
<1>2. MenuInv /\ [ScreensNext]_screenVars => MenuInv' /\ Kept
  BY MenuKeeps
<1> QED  BY <1>1, <1>2, PTL DEF ScreensSpec, MenuKept, Kept

-----------------------------------------------------------------------------
(* The compass.                                                             *)

\* The shorter way round, without a remainder.
Shorter(m) == IF m <= Circle - m THEN m ELSE Circle - m
ShorterWay(a, b) == IF a < b THEN Shorter(b - a) ELSE Shorter(a - b)

LEMMA CircleFacts == /\ Circle \in Nat /\ Circle >= 2
                     /\ NoHeading \notin Headings
                     /\ \A a \in Headings : a \in Int /\ 0 <= a /\ a < Circle
  BY CompassAssumption DEF Headings

\* A remainder of what is within a circle of the headings.
LEMMA Wrapped ==
    ASSUME NEW n \in Int, NEW c \in Nat, c > 0, -c <= n, n < 2 * c
    PROVE  n % c = IF n < 0 THEN n + c ELSE IF n < c THEN n ELSE n - c
  OBVIOUS

LEMMA Half == ASSUME NEW c \in Nat PROVE c \div 2 \in Nat /\ 2 * (c \div 2) <= c /\ c < 2 * (c \div 2) + 2
  OBVIOUS

LEMMA DeltaIs ==
    ASSUME NEW a \in Headings, NEW b \in Headings
    PROVE  /\ AngleDelta(a, b) \in {b - a, b - a + Circle, b - a - Circle}
           /\ AngleDelta(a, b) \in Int
           /\ -Circle <= 2 * AngleDelta(a, b) /\ 2 * AngleDelta(a, b) <= Circle
<1>1. PICK half \in Nat : half = Circle \div 2 /\ 2 * half <= Circle /\ Circle < 2 * half + 2
  BY CircleFacts, Half
<1>2. PICK n \in Int : n = b - a + half
  BY CircleFacts
<1>3. -Circle <= n /\ n < 2 * Circle
  BY <1>1, <1>2, CircleFacts
<1>4. n % Circle = IF n < 0 THEN n + Circle ELSE IF n < Circle THEN n ELSE n - Circle
  BY <1>3, CircleFacts, Wrapped
<1>5. AngleDelta(a, b) = (n % Circle) - half
  BY <1>1, <1>2 DEF AngleDelta
<1> QED  BY <1>1, <1>2, <1>3, <1>4, <1>5, CircleFacts

LEMMA ApartIs ==
    ASSUME NEW a \in Headings, NEW b \in Headings
    PROVE  Apart(a, b) = ShorterWay(a, b) /\ ShorterWay(a, b) \in Nat
<1>1. PICK d \in Int : d = AngleDelta(a, b)
  BY DeltaIs
<1>2. d \in {b - a, b - a + Circle, b - a - Circle} /\ -Circle <= 2 * d /\ 2 * d <= Circle
  BY <1>1, DeltaIs
<1>3. Apart(a, b) = IF d < 0 THEN -d ELSE d
  BY <1>1 DEF Apart
<1> QED  BY <1>2, <1>3, CircleFacts DEF ShorterWay, Shorter

LEMMA BetweenIs ==
    ASSUME NEW a \in Headings, NEW b \in Headings, NEW h
    PROVE  h \in Between[a][b] <=> h \in Headings /\ ShorterWay(a, h) + ShorterWay(h, b) = ShorterWay(a, b)
<1>1. Between[a][b] = {x \in Headings : Apart(a, x) + Apart(x, b) = Apart(a, b)}
  BY DEF Between
<1> QED  BY <1>1, ApartIs

\* An angle between two and then between that and a third is between two of the three.
LEMMA ArcsJoin ==
    ASSUME NEW a \in Headings, NEW b \in Headings, NEW c \in Headings,
           NEW x \in Between[a][b], NEW h \in Between[x][c]
    PROVE  h \in Between[a][b] \/ h \in Between[a][c] \/ h \in Between[b][c]
<1>1. x \in Headings /\ ShorterWay(a, x) + ShorterWay(x, b) = ShorterWay(a, b)
  BY BetweenIs
<1>2. h \in Headings /\ ShorterWay(x, h) + ShorterWay(h, c) = ShorterWay(x, c)
  BY <1>1, BetweenIs
<1>3. ShorterWay(a, h) + ShorterWay(h, b) = ShorterWay(a, b) \/ ShorterWay(a, h) + ShorterWay(h, c) = ShorterWay(a, c)
      \/ ShorterWay(b, h) + ShorterWay(h, c) = ShorterWay(b, c)
  BY <1>1, <1>2, CircleFacts DEF ShorterWay, Shorter
<1> QED  BY <1>2, <1>3, BetweenIs

LEMMA BetweenEnds ==
    ASSUME NEW a \in Headings, NEW b \in Headings
    PROVE  /\ a \in Between[a][b] /\ b \in Between[a][b]
           /\ Between[a][b] \subseteq Headings
           /\ \A h \in Between[a][a] : h = a
           /\ \A h \in Between[a][b] : Apart(h, b) <= Apart(a, b)
<1>1. ShorterWay(a, a) = 0 /\ ShorterWay(b, b) = 0
  BY CircleFacts DEF ShorterWay, Shorter
<1>2. a \in Between[a][b] /\ b \in Between[a][b]
  BY <1>1, ApartIs, BetweenIs
<1>3. ASSUME NEW h \in Between[a][a] PROVE h = a
  <2>1. h \in Headings /\ ShorterWay(a, h) + ShorterWay(h, a) = 0
    BY <1>1, BetweenIs
  <2> QED  BY <2>1, CircleFacts DEF ShorterWay, Shorter
<1>4. ASSUME NEW h \in Between[a][b] PROVE Apart(h, b) <= Apart(a, b)
  <2>1. h \in Headings /\ ShorterWay(a, h) + ShorterWay(h, b) = ShorterWay(a, b)
    BY BetweenIs
  <2>2. ShorterWay(a, h) \in Nat /\ ShorterWay(h, b) \in Nat /\ ShorterWay(a, b) \in Nat
    BY <2>1, ApartIs
  <2>3. Apart(h, b) = ShorterWay(h, b) /\ Apart(a, b) = ShorterWay(a, b)
    BY <2>1, ApartIs
  <2> QED  BY <2>1, <2>2, <2>3
<1> QED  BY <1>2, <1>3, <1>4, BetweenIs

-----------------------------------------------------------------------------
Maybe == Headings \cup {NoHeading}
\* An angle that may have been learnt: between two the phone has had.
Learnt(o, had) == o # NoHeading => \E a, b \in had : o \in Between[a][b]

EstOK(e) ==
    e \in [filtered : Maybe, offset : Maybe, displayed : Maybe, timed : BOOLEAN, frozen : BOOLEAN]
CompassInv ==
    /\ bike \in Headings /\ bends \in Nat /\ reboots \in Nat
    /\ pocket \in [angle : Headings, had : SUBSET Headings, changes : Nat]
    /\ pocket.angle \in pocket.had
    /\ EstOK(est) /\ cached \in [filtered : Maybe, offset : Maybe]
    /\ est.filtered = NoHeading => est.displayed = NoHeading
    /\ Learnt(est.offset, pocket.had) /\ Learnt(cached.offset, pocket.had)

Inputs == [course : Maybe, accuracy : {"good", "poor"}, speed : Moving \cup {"still", "none"},
           rate : {"swaying", "cornering", "quiet", "none"}, yaw : Maybe]

\* What there is to sense, and that what the compass learns from is the bike's heading.
LEMMA InputFacts ==
    ASSUME NEW b \in Headings, NEW turn \in {0, 1}, NEW i \in HeadingInputs[b][turn]
    PROVE  /\ i \in Inputs /\ i.yaw \in {NoHeading, b}
           /\ CanLearnOffset(i) => i.course = b
<1>1. PICK g \in Situations(b, turn) :
        i \in [course : {g.course}, accuracy : {g.accuracy}, speed : {g.speed}, rate : {g.rate, "none"},
              yaw : {NoHeading, b}]
  <2>1. HeadingInputs[b][turn] =
          UNION {[course : {g.course}, accuracy : {g.accuracy}, speed : {g.speed}, rate : {g.rate, "none"},
                  yaw : {NoHeading, b}] : g \in Situations(b, turn)}
    BY DEF HeadingInputs
  <2> QED  BY <2>1
<1>2. /\ g.course \in Maybe /\ g.accuracy \in {"good", "poor"} /\ g.speed \in Moving \cup {"still", "none"}
      /\ g.rate \in {"swaying", "cornering", "quiet"}
      /\ g.speed = "fast" /\ g.accuracy = "good" /\ g.rate \in {"quiet", "swaying"} => g.course \in {b, NoHeading}
  <2> DEFINE around == {h \in Headings : Apart(h, b) < 2}
  <2>1. \/ g \in Sensed(Moving, {"swaying"}, {b}, "good")
        \/ g \in Sensed(Moving, {"cornering"}, around, "good")
        \/ g \in Sensed({"still"}, {"swaying", "cornering"}, {0}, "good")
        \/ g \in Sensed(Moving, {"quiet"}, {b}, "good")
        \/ g \in Sensed(Moving, {"quiet"}, around, "poor")
        \/ g \in Sensed({"still"}, {"quiet"}, {0}, "good")
        \/ g \in Sensed({"none"}, {"quiet"}, {b}, "good")
    BY DEF Situations
  <2>2. around \subseteq Headings /\ 0 \in Headings
    BY CircleFacts DEF Headings
  <2> HIDE DEF around
  <2> QED  BY <2>1, <2>2 DEF Sensed, Moving, Maybe
<1> QED  BY <1>1, <1>2, CircleFacts DEF Inputs, CanLearnOffset, Maybe

\* The phone's yaw is the bike's heading less its angle; with the angle it is the heading.
LEMMA PocketTurns ==
    ASSUME NEW b \in Headings, NEW angle \in Headings, NEW yaw, yaw = (b - angle) % Circle
    PROVE  yaw \in Headings /\ (yaw + angle) % Circle = b /\ (b - yaw) % Circle = angle
<1>1. \A n \in Int : -Circle <= n /\ n < 2 * Circle =>
        n % Circle = IF n < 0 THEN n + Circle ELSE IF n < Circle THEN n ELSE n - Circle
  BY CircleFacts, Wrapped
<1>2. b - angle \in Int /\ -Circle <= b - angle /\ b - angle < 2 * Circle
  BY CircleFacts
<1>3. yaw = IF b - angle < 0 THEN b - angle + Circle ELSE b - angle
  BY <1>1, <1>2, CircleFacts
<1>4. yaw \in Headings
  BY <1>3, CircleFacts DEF Headings
<1>5. (yaw + angle) % Circle = b
  <2>1. yaw + angle \in {b, b + Circle} /\ yaw + angle \in Int
    BY <1>3, CircleFacts
  <2> QED  BY <1>1, <2>1, CircleFacts
<1>6. (b - yaw) % Circle = angle
  <2>1. PICK n \in Int : n = b - yaw
    BY <1>3, CircleFacts
  <2>2. n = angle \/ n = angle - Circle
    BY <1>3, <2>1, CircleFacts
  <2>3. n % Circle = IF n < 0 THEN n + Circle ELSE IF n < Circle THEN n ELSE n - Circle
    BY <1>1, <2>2, CircleFacts
  <2>4. n % Circle = angle
    BY <2>2, <2>3, CircleFacts
  <2> QED  BY <2>1, <2>4
<1> QED  BY <1>4, <1>5, <1>6

LEMMA TurnsWithin ==
    ASSUME NEW n \in Int PROVE n % Circle \in Headings
  BY CircleFacts DEF Headings

\* What a packet may learn of the phone's angle.
LEMMA LearnsTrue ==
    ASSUME CompassInv, NEW b \in Headings, NEW turn \in {0, 1}, NEW i \in HeadingInputs[b][turn],
           NEW p, p = InPocket(i), NEW o \in Offsets(p)
    PROVE  o \in Maybe /\ Learnt(o, pocket.had)
<1>1. pocket.angle \in pocket.had /\ pocket.had \subseteq Headings /\ est.offset \in Maybe /\ Learnt(est.offset, pocket.had)
  BY DEF CompassInv, EstOK
<1>2. CASE CanLearnOffset(p) /\ est.timed
  <2>1. i \in Inputs /\ i.yaw \in {NoHeading, b} /\ (CanLearnOffset(i) => i.course = b)
    BY InputFacts
  <2>2. p = [i EXCEPT !.yaw = IF i.yaw = NoHeading THEN i.yaw ELSE (i.yaw - pocket.angle) % Circle]
    BY <2>1 DEF InPocket, Inputs
  <2>3. i.yaw = b /\ p.yaw = (b - pocket.angle) % Circle /\ p.course = b
    BY <1>2, <2>1, <2>2 DEF CanLearnOffset, Inputs
  <2>4. (p.course - p.yaw) % Circle = pocket.angle
    BY <1>1, <2>3, PocketTurns
  <2>5. o \in Blended(est.offset, pocket.angle, TRUE)
    BY <1>2, <2>4 DEF Offsets
  <2>6. CASE est.offset = NoHeading
    <3>1. o = pocket.angle
      BY <2>5, <2>6 DEF Blended
    <3> QED  BY <1>1, <3>1, BetweenEnds DEF Learnt, Maybe
  <2>7. CASE est.offset # NoHeading
    <3>1. o \in Between[est.offset][pocket.angle]
      BY <2>5, <2>7 DEF Blended
    <3>2. PICK x \in pocket.had, y \in pocket.had : est.offset \in Between[x][y]
      BY <1>1, <2>7 DEF Learnt
    <3>3. o \in Between[x][y] \/ o \in Between[x][pocket.angle] \/ o \in Between[y][pocket.angle]
      BY <1>1, <3>1, <3>2, ArcsJoin
    <3>4. o \in Headings
      BY <1>1, <3>2, <3>3, BetweenIs
    <3> QED  BY <1>1, <3>2, <3>3, <3>4 DEF Learnt, Maybe
  <2> QED  BY <2>6, <2>7
<1>3. CASE ~(CanLearnOffset(p) /\ est.timed)
  BY <1>1, <1>3 DEF Offsets
<1> QED  BY <1>2, <1>3

\* Where a packet may take the filtered heading: while what is learnt is right, and
\* the course not wrong, no further from the bike's.
LEMMA FollowsBike ==
    ASSUME CompassInv, NEW b \in Headings, NEW turn \in {0, 1}, NEW i \in HeadingInputs[b][turn],
           NEW p, p = InPocket(i), NEW e \in HeadingsAfter(p)
    PROVE  /\ e.offset \in Offsets(p) /\ e.displayed = est.displayed
           /\ EstOK(e) /\ (est.filtered # NoHeading => e.filtered # NoHeading)
           /\ est.filtered # NoHeading /\ ~Misleads(i, b) /\ e.offset \in {NoHeading, pocket.angle}
                => Apart(e.filtered, b) <= Apart(est.filtered, b)
<1> DEFINE own(o) == IF NoHeading \in {p.yaw, o} THEN NoHeading ELSE (p.yaw + o) % Circle
           filtered(ts) == IF ts = {} THEN {est.filtered}
                           ELSE UNION {Blended(est.filtered, t, est.timed) : t \in ts}
<1>1. PICK o \in Offsets(p) :
        e \in [filtered : filtered(Targets(p, own(o))), offset : {o}, displayed : {est.displayed},
              timed : {TRUE}, frozen : {p.speed = "still" /\ Targets(p, own(o)) = {}}]
  BY DEF HeadingsAfter
<1>2. /\ i \in Inputs /\ i.yaw \in {NoHeading, b}
      /\ pocket.angle \in Headings /\ EstOK(est)
  BY InputFacts DEF CompassInv
<1>3. p = [i EXCEPT !.yaw = IF i.yaw = NoHeading THEN i.yaw ELSE (i.yaw - pocket.angle) % Circle]
  BY <1>2 DEF InPocket, Inputs
<1>4. PICK yaw : yaw = (b - pocket.angle) % Circle
  OBVIOUS
<1>5. /\ p.course = i.course /\ p.speed = i.speed /\ p.rate = i.rate /\ p.course \in Maybe
      /\ p.speed \in Moving \cup {"still", "none"}
      /\ p.yaw \in {NoHeading, yaw}
  BY <1>2, <1>3, <1>4 DEF Inputs
<1>6. yaw \in Headings /\ (yaw + pocket.angle) % Circle = b
  BY <1>2, <1>4, PocketTurns
<1>7. o \in Maybe
  BY LearnsTrue
<1>8. PICK w : w = own(o)
  OBVIOUS
<1>9. w \in Maybe /\ (o \in {NoHeading, pocket.angle} => w \in {NoHeading, b})
  <2>1. CASE NoHeading \in {p.yaw, o}
    BY <1>8, <2>1 DEF Maybe
  <2>2. CASE NoHeading \notin {p.yaw, o}
    <3>1. w = (yaw + o) % Circle /\ o \in Headings
      BY <1>5, <1>7, <1>8, <2>2 DEF Maybe
    <3>2. w \in Headings
      BY <1>6, <3>1, TurnsWithin, CircleFacts
    <3> QED  BY <1>6, <2>2, <3>1, <3>2 DEF Maybe
  <2> QED  BY <2>1, <2>2
<1>10. PICK ts : ts = Targets(p, w)
  OBVIOUS
<1>11. ts \subseteq Headings
  <2>1. CASE p.speed \in {"limit", "fast"}
    BY <1>5, <1>9, <1>10, <2>1 DEF Targets, Maybe
  <2>2. CASE p.speed = "still"
    BY <1>5, <1>9, <1>10, <2>2 DEF Targets, Maybe
  <2>3. CASE p.speed \in {"slow", "none"}
    <3>1. ts = BlendTarget(p.course, w)
      BY <1>10, <2>3 DEF Targets
    <3> QED  BY <1>5, <1>9, <3>1, BetweenEnds DEF BlendTarget, Maybe
  <2> QED  BY <1>5, <2>1, <2>2, <2>3 DEF Moving
<1>12. ~Misleads(i, b) /\ o \in {NoHeading, pocket.angle} => \A t \in ts : t = b
  <2> SUFFICES ASSUME ~Misleads(i, b), o \in {NoHeading, pocket.angle}, NEW t \in ts
               PROVE  t = b
    OBVIOUS
  <2>1. w \in {NoHeading, b} /\ (p.speed # "still" => p.course \in {NoHeading, b})
    BY <1>5, <1>9 DEF Misleads
  <2>2. CASE p.speed \in {"limit", "fast"}
    BY <1>10, <2>1, <2>2 DEF Targets
  <2>3. CASE p.speed = "still"
    BY <1>10, <2>1, <2>3 DEF Targets
  <2>4. CASE p.speed \in {"slow", "none"}
    <3>1. t \in BlendTarget(p.course, w)
      BY <1>10, <2>4 DEF Targets
    <3> QED  BY <2>1, <2>4, <3>1, BetweenEnds DEF BlendTarget
  <2> QED  BY <1>5, <2>2, <2>3, <2>4 DEF Moving
<1>13. e \in [filtered : filtered(ts), offset : {o}, displayed : {est.displayed}, timed : {TRUE},
             frozen : {p.speed = "still" /\ ts = {}}]
  BY <1>1, <1>8, <1>10
<1>14. /\ e.filtered \in filtered(ts) /\ e.offset = o /\ e.displayed = est.displayed
       /\ e = [filtered |-> e.filtered, offset |-> e.offset, displayed |-> e.displayed, timed |-> e.timed,
               frozen |-> e.frozen]
       /\ e.timed \in BOOLEAN /\ e.frozen \in BOOLEAN
  BY <1>13
<1> HIDE DEF own
<1>15. e.filtered = est.filtered \/ \E t \in ts : e.filtered \in Blended(est.filtered, t, est.timed)
  BY <1>14
<1>16. ASSUME NEW t \in ts, e.filtered \in Blended(est.filtered, t, est.timed)
       PROVE  e.filtered \in Headings /\ (est.filtered # NoHeading => Apart(e.filtered, t) <= Apart(est.filtered, t))
  <2>1. t \in Headings /\ est.filtered \in Maybe
    BY <1>2, <1>11 DEF EstOK
  <2>2. CASE e.filtered = t
    <3>1. est.filtered # NoHeading => t \in Between[est.filtered][t]
      BY <2>1, BetweenEnds DEF Maybe
    <3> QED  BY <2>1, <2>2, <3>1, BetweenEnds DEF Maybe
  <2>3. CASE e.filtered # t
    <3>1. est.filtered # NoHeading /\ e.filtered \in Between[est.filtered][t]
      BY <1>16, <2>3 DEF Blended
    <3> QED  BY <2>1, <3>1, BetweenEnds DEF Maybe
  <2> QED  BY <2>2, <2>3
<1>17. EstOK(e)
  <2>1. e.filtered \in Maybe
    BY <1>2, <1>15, <1>16 DEF EstOK, Maybe
  <2>2. e.displayed \in Maybe /\ e.offset \in Maybe
    BY <1>2, <1>7, <1>14 DEF EstOK
  <2> HIDE DEF filtered
  <2> QED  BY <1>14, <2>1, <2>2 DEF EstOK
<1>18. est.filtered # NoHeading => Apart(est.filtered, b) <= Apart(est.filtered, b)
  BY <1>2, ApartIs DEF EstOK, Maybe
<1>19. est.filtered # NoHeading => e.filtered # NoHeading
  BY <1>15, <1>16, CircleFacts
<1> QED  BY <1>12, <1>14, <1>15, <1>16, <1>17, <1>18, <1>19

\* How far it is round to what is left to turn.
LEMMA RestSpans ==
    ASSUME NEW n \in Headings, NEW f \in Headings, NEW s \in Int, NEW rest \in Int,
           n \in {s, s + Circle, s - Circle}, s + rest \in {f, f + Circle, f - Circle},
           -Circle <= 2 * rest, 2 * rest <= Circle
    PROVE  ShorterWay(n, f) = IF rest < 0 THEN -rest ELSE rest
<1>1. PICK k \in {0, Circle, -Circle} : n = s + k
  BY CircleFacts
<1>2. PICK l \in {0, Circle, -Circle} : s + rest = f + l
  BY CircleFacts
<1>3. k \in Int /\ l \in Int /\ Circle \in Int /\ n \in Int /\ f \in Int
  BY CircleFacts
<1>4. f - n = rest - (k + l)
  BY <1>1, <1>2, <1>3
<1>5. k + l \in {0, Circle, -Circle, 2 * Circle, -2 * Circle}
  BY <1>3
<1>6. -Circle < f - n /\ f - n < Circle
  BY CircleFacts
<1>7. k + l \in {0, Circle, -Circle}
  BY <1>3, <1>4, <1>5, <1>6, CircleFacts
<1>8. f - n \in {rest, rest + Circle, rest - Circle}
  BY <1>3, <1>4, <1>7
<1> QED  BY <1>3, <1>8, CircleFacts DEF ShorterWay, Shorter

\* A frame turns the arrow no further than to the filtered heading.
LEMMA SlewsTowards ==
    ASSUME NEW d \in Headings, NEW f \in Headings, NEW step \in Nat,
           NEW delta, delta = AngleDelta(d, f),
           NEW moved, moved = IF delta > step THEN step ELSE IF delta < -step THEN -step ELSE delta,
           NEW n, n = (d + moved) % Circle
    PROVE  n \in Headings /\ Apart(n, f) <= Apart(d, f)
<1>1. /\ delta \in {f - d, f - d + Circle, f - d - Circle} /\ delta \in Int
      /\ -Circle <= 2 * delta /\ 2 * delta <= Circle
  BY DeltaIs
<1>2. /\ moved \in Int
      /\ IF delta < 0 THEN delta <= moved /\ moved <= 0 ELSE 0 <= moved /\ moved <= delta
  BY <1>1
<1>3. PICK s \in Int : s = d + moved /\ -Circle <= s /\ s < 2 * Circle
  BY <1>1, <1>2, CircleFacts
<1>4. n = IF s < 0 THEN s + Circle ELSE IF s < Circle THEN s ELSE s - Circle
  BY <1>3, CircleFacts, Wrapped
<1>5. n \in Headings
  BY <1>3, <1>4, CircleFacts DEF Headings
<1>6. Apart(n, f) = ShorterWay(n, f) /\ Apart(d, f) = IF delta < 0 THEN -delta ELSE delta
  BY <1>5, ApartIs DEF Apart
<1>7. ShorterWay(n, f) <= IF delta < 0 THEN -delta ELSE delta
  <2>1. PICK rest \in Int : rest = delta - moved
    BY <1>1, <1>2
  <2>2. /\ -Circle <= 2 * rest /\ 2 * rest <= Circle
        /\ IF delta < 0 THEN delta <= rest /\ rest <= 0 ELSE 0 <= rest /\ rest <= delta
    BY <1>1, <1>2, <2>1, CircleFacts
  <2>3. /\ n \in Int /\ 0 <= n /\ n < Circle /\ f \in Int /\ 0 <= f /\ f < Circle
        /\ n \in {s, s + Circle, s - Circle}
    BY <1>3, <1>4, <1>5, CircleFacts
  <2>4. s + rest \in {f, f + Circle, f - Circle}
    <3>1. d \in Int /\ Circle \in Int /\ s + rest = d + delta
      BY <1>1, <1>2, <1>3, <2>1, CircleFacts
    <3>2. CASE delta = f - d
      BY <2>3, <3>1, <3>2
    <3>3. CASE delta = f - d + Circle
      BY <2>3, <3>1, <3>3
    <3>4. CASE delta = f - d - Circle
      BY <2>3, <3>1, <3>4
    <3> QED  BY <1>1, <3>2, <3>3, <3>4
  <2>6. ShorterWay(n, f) = IF rest < 0 THEN -rest ELSE rest
    BY <1>3, <1>5, <2>1, <2>2, <2>3, <2>4, RestSpans
  <2> QED  BY <1>1, <2>1, <2>2, <2>6
<1> QED  BY <1>5, <1>6, <1>7

-----------------------------------------------------------------------------
NoFurther ==
    est.filtered # NoHeading /\ ~misled' /\ reboots' = reboots /\ est'.offset \in {NoHeading, pocket.angle}
        => Apart(est'.filtered, bike') <= Apart(est.filtered, bike')
Towards ==
    est.displayed # NoHeading /\ est'.displayed # NoHeading
        => Apart(est'.displayed, est.filtered) <= Apart(est.displayed, est.filtered)

LEMMA LearntGrows ==
    ASSUME NEW o, NEW had, NEW more, had \subseteq more, Learnt(o, had)
    PROVE  Learnt(o, more)
  BY DEF Learnt

\* Where the filtered heading stands still, so does how far it is from the bike's.
LEMMA StandsStill ==
    ASSUME CompassInv, bike' = bike, est'.filtered = est.filtered
    PROVE  NoFurther
<1>1. est.filtered # NoHeading => Apart(est.filtered, bike) \in Nat
  BY ApartIs DEF CompassInv, EstOK, Maybe
<1> QED  BY <1>1 DEF NoFurther

LEMMA ShowsStill ==
    ASSUME CompassInv, est'.displayed \in {est.displayed, NoHeading}
    PROVE  Towards
<1>1. est.filtered # NoHeading /\ est.displayed # NoHeading => Apart(est.displayed, est.filtered) \in Nat
  BY ApartIs DEF CompassInv, EstOK, Maybe
<1> QED  BY <1>1 DEF Towards, CompassInv

LEMMA AcceptKeeps ==
    ASSUME CompassInv, AcceptHeading
    PROVE  CompassInv' /\ NoFurther /\ Towards
<1>1. PICK turn \in {0, 1} : \E b \in Headings : \E i \in HeadingInputs[b][turn] :
        /\ bike' = b /\ bends' = bends + turn /\ misled' = Misleads(i, b)
        /\ est' \in HeadingsAfter(InPocket(i))
        /\ pocket' = pocket /\ reboots' = reboots /\ cached' = cached
  <2>4. PICK turn \in {0, 1} :
          LET b == (bike + turn) % Circle IN
          /\ bends' = bends + turn /\ bike' = b
          /\ \E wrong \in BOOLEAN :
              /\ misled' = wrong
              /\ est' \in UNION {HeadingsAfter(InPocket(i)) : i \in {j \in HeadingInputs[b][turn] : Misleads(j, b) = wrong}}
          /\ pocket' = pocket /\ reboots' = reboots /\ cached' = cached
    BY DEF AcceptHeading
  <2>5. PICK b : b = (bike + turn) % Circle
    OBVIOUS
  <2>1. PICK wrong \in BOOLEAN :
          /\ bends' = bends + turn /\ bike' = b /\ misled' = wrong
          /\ est' \in UNION {HeadingsAfter(InPocket(i)) : i \in {j \in HeadingInputs[b][turn] : Misleads(j, b) = wrong}}
          /\ pocket' = pocket /\ reboots' = reboots /\ cached' = cached
    BY <2>4, <2>5
  <2>2. b \in Headings
    BY <2>5, TurnsWithin, CircleFacts DEF CompassInv
  <2>3. PICK i \in HeadingInputs[b][turn] : Misleads(i, b) = wrong /\ est' \in HeadingsAfter(InPocket(i))
    BY <2>1
  <2> QED  BY <2>1, <2>2, <2>3
<1>2. PICK b \in Headings : \E i \in HeadingInputs[b][turn] :
        /\ bike' = b /\ bends' = bends + turn /\ misled' = Misleads(i, b)
        /\ est' \in HeadingsAfter(InPocket(i))
        /\ pocket' = pocket /\ reboots' = reboots /\ cached' = cached
  BY <1>1
<1>3. PICK i \in HeadingInputs[b][turn] :
        /\ bike' = b /\ bends' = bends + turn /\ misled' = Misleads(i, b)
        /\ est' \in HeadingsAfter(InPocket(i))
        /\ pocket' = pocket /\ reboots' = reboots /\ cached' = cached
  BY <1>2
<1>4. PICK p, e : p = InPocket(i) /\ e = est'
  OBVIOUS
<1>5. e \in HeadingsAfter(p)
  BY <1>3, <1>4
<1>6. /\ e.offset \in Offsets(p) /\ e.displayed = est.displayed
      /\ EstOK(e) /\ (est.filtered # NoHeading => e.filtered # NoHeading)
      /\ est.filtered # NoHeading /\ ~Misleads(i, b) /\ e.offset \in {NoHeading, pocket.angle}
           => Apart(e.filtered, b) <= Apart(est.filtered, b)
  BY <1>4, <1>5, FollowsBike
<1>7. Learnt(e.offset, pocket.had)
  BY <1>4, <1>6, LearnsTrue
<1>8. CompassInv'
  BY <1>3, <1>4, <1>6, <1>7 DEF CompassInv
<1>9. NoFurther
  BY <1>3, <1>4, <1>6 DEF NoFurther
<1> QED  BY <1>4, <1>6, <1>8, <1>9, ShowsStill

LEMMA EstimateKeeps ==
    ASSUME CompassInv, Estimate
    PROVE  CompassInv' /\ NoFurther /\ Towards
<1>1. /\ est.filtered \in Headings /\ est.displayed \in Maybe /\ EstOK(est) /\ Slew \in Nat
      /\ est.filtered # NoHeading
  BY CompassAssumption DEF CompassInv, EstOK, Estimate, Maybe
<1>2. PICK elapsed \in 0..1 :
        LET delta == AngleDelta(est.displayed, est.filtered)
            step == Slew * elapsed
            moved == IF delta > step THEN step ELSE IF delta < -step THEN -step ELSE delta
        IN est' = [est EXCEPT !.displayed =
                     IF @ = NoHeading THEN est.filtered ELSE (@ + moved) % Circle]
  BY DEF Estimate
<1>3. PICK step \in Nat : step = Slew * elapsed
  BY <1>1, <1>2
<1>4. PICK delta : delta = AngleDelta(est.displayed, est.filtered)
  OBVIOUS
<1>5. PICK moved : moved = IF delta > step THEN step ELSE IF delta < -step THEN -step ELSE delta
  OBVIOUS
<1>6. PICK n : n = IF est.displayed = NoHeading THEN est.filtered ELSE (est.displayed + moved) % Circle
  OBVIOUS
<1>7. est' = [est EXCEPT !.displayed = n]
  <2>1. est' = [est EXCEPT !.displayed = IF est.displayed = NoHeading THEN est.filtered ELSE (est.displayed + moved) % Circle]
    BY <1>2, <1>3, <1>4, <1>5 DEF EstOK
  <2> QED  BY <1>6, <2>1
<1>8. n \in Headings /\ (est.displayed # NoHeading => Apart(n, est.filtered) <= Apart(est.displayed, est.filtered))
  <2>1. CASE est.displayed = NoHeading
    BY <1>1, <1>6, <2>1
  <2>2. CASE est.displayed # NoHeading
    BY <1>1, <1>3, <1>4, <1>5, <1>6, <2>2, SlewsTowards DEF Maybe
  <2> QED  BY <2>1, <2>2
<1>9. /\ EstOK(est') /\ est'.displayed = n /\ est'.filtered = est.filtered /\ est'.offset = est.offset
  BY <1>1, <1>7, <1>8 DEF EstOK, Maybe
<1>10. bike' = bike /\ bends' = bends /\ reboots' = reboots /\ pocket' = pocket /\ cached' = cached
  BY DEF Estimate
<1>11. CompassInv'
  BY <1>1, <1>9, <1>10 DEF CompassInv
<1> QED  BY <1>8, <1>9, <1>10, <1>11, StandsStill DEF Towards

LEMMA SaveKeeps ==
    ASSUME CompassInv, SaveHeading
    PROVE  CompassInv' /\ NoFurther /\ Towards
<1>1. /\ bike' = bike /\ bends' = bends /\ reboots' = reboots /\ pocket' = pocket /\ est' = est
      /\ cached' = [filtered |-> est.filtered, offset |-> est.offset]
  BY DEF SaveHeading
<1>2. CompassInv'
  BY <1>1 DEF CompassInv, EstOK
<1> QED  BY <1>1, <1>2, StandsStill, ShowsStill

LEMMA CompassRestarts ==
    ASSUME CompassInv, RestartCompass
    PROVE  CompassInv' /\ NoFurther /\ Towards
<1>1. /\ bike' = bike /\ bends' = bends /\ reboots' = reboots + 1 /\ pocket' = pocket /\ cached' = cached
      /\ est' = IF cached.filtered = NoHeading THEN Cold ELSE RestoreState(cached)
  BY DEF RestartCompass
<1>2. EstOK(est') /\ est'.displayed = NoHeading /\ est'.offset \in {NoHeading, cached.offset}
  BY <1>1 DEF CompassInv, EstOK, Cold, RestoreState, Maybe
<1>3. CompassInv'
  BY <1>1, <1>2 DEF CompassInv, Learnt
<1>4. reboots' # reboots
  BY <1>1 DEF CompassInv
<1> QED  BY <1>2, <1>3, <1>4, ShowsStill DEF NoFurther

LEMMA RepocketKeeps ==
    ASSUME CompassInv, Repocket
    PROVE  CompassInv' /\ NoFurther /\ Towards
<1>1. /\ bike' = bike /\ bends' = bends /\ reboots' = reboots /\ est' = est /\ cached' = cached
  BY DEF Repocket
<1>2. PICK a \in Headings : pocket' = [angle |-> a, had |-> pocket.had \cup {a}, changes |-> pocket.changes + 1]
  <2>1. PICK a : a = (pocket.angle + 1) % Circle
    OBVIOUS
  <2>2. a \in Headings
    BY <2>1, TurnsWithin, CircleFacts DEF CompassInv
  <2>3. pocket' = [angle |-> a, had |-> pocket.had \cup {a}, changes |-> pocket.changes + 1]
    BY <2>1 DEF Repocket
  <2> QED  BY <2>2, <2>3
<1>3. pocket.had \subseteq pocket'.had
  BY <1>2
<1>4. Learnt(est.offset, pocket'.had) /\ Learnt(cached.offset, pocket'.had)
  BY <1>3, LearntGrows DEF CompassInv
<1>5. CompassInv'
  BY <1>1, <1>2, <1>4 DEF CompassInv
<1> QED  BY <1>1, <1>5, StandsStill, ShowsStill

CompassSpec == CompassInit /\ [][CompassNext]_compassVars

LEMMA CompassKeeps ==
    ASSUME CompassInv, [CompassNext]_compassVars
    PROVE  CompassInv' /\ NoFurther /\ Towards
<1>1. CASE UNCHANGED compassVars
  <2>1. bike' = bike /\ est' = est
    BY <1>1 DEF compassVars
  <2>2. CompassInv'
    BY <1>1 DEF compassVars, CompassInv
  <2> QED  BY <2>1, <2>2, StandsStill, ShowsStill
<1> QED  BY <1>1, AcceptKeeps, EstimateKeeps, SaveKeeps, CompassRestarts, RepocketKeeps DEF CompassNext

LEMMA CompassStarts == ASSUME CompassInit PROVE CompassInv
<1>1. 0 \in Headings
  BY CircleFacts DEF Headings
<1> QED  BY <1>1 DEF CompassInit, CompassInv, EstOK, Cold, Uncached, Learnt, Maybe

\* The phone's angle is learnt from angles it has had; while it is right no packet with
\* a true course takes the heading further from the bike's; and no frame turns the
\* arrow away from it (heading_fusion.c).
THEOREM CompassAlwaysTrue == CompassSpec => CompassTrue
<1>1. CompassInit => CompassInv
  BY CompassStarts
<1>2. CompassInv /\ [CompassNext]_compassVars => CompassInv' /\ NoFurther /\ Towards
  BY CompassKeeps
<1>3. CompassInv => (est.offset # NoHeading => \E a, b \in pocket.had : est.offset \in Between[a][b])
  BY DEF CompassInv, Learnt
<1> QED  BY <1>1, <1>2, <1>3, PTL DEF CompassSpec, CompassTrue, NoFurther, Towards

-----------------------------------------------------------------------------
(* mesh.c's store. *)

\* While nothing is owed the list on flash is the list, unless the generation has moved on
\* from the one saved, which it never falls behind.
RosterKept ==
    /\ meshTask \in {"starting", "running", "gone"}
    /\ rosterGen \in Nat /\ savedGen \in Nat /\ savedGen <= rosterGen
    /\ meshTask = "starting" /\ owed = {} => nvsMesh.friends = roster
    /\ meshTask = "running" /\ rosterGen = savedGen /\ owed = {} => nvsMesh.friends = roster
\* Whoever set the identity last is about to write it, has written it, or a reason is noted.
IdentKept ==
    /\ newest \in {"host", "console"} /\ console \in {"idle", "checked", "set"}
    /\ nvsMesh.ident # self /\ idOwed = {} =>
          IF newest = "host" THEN hostWrites # NoOne ELSE console = "set"
    /\ hostWrites # NoOne /\ newest = "host" => self = hostWrites
    /\ console = "set" /\ newest = "console" => self = DevId
    /\ hostWrites # NoOne /\ newest = "console" => idOwed # {}
    /\ console = "set" /\ newest = "host" => idOwed # {}
BlobsHeld ==
    /\ DOMAIN nvsMesh = {"friends", "ident"}
    /\ nvsMesh = [friends |-> nvsMesh.friends, ident |-> nvsMesh.ident]
    /\ nvsMesh.friends \subseteq Mates
KeepInv == BlobsHeld /\ roster \subseteq Mates /\ RosterKept /\ IdentKept

KeepSpec == KeepInit /\ [][KeepNext]_keepVars

LEMMA CountOfMates == ASSUME NEW list \in SUBSET Mates PROVE Cardinality(list) \in Nat
<1>1. IsFiniteSet(Mates)
  BY MeshStoreAssumption, FS_Interval DEF Mates
<1> QED  BY <1>1, FS_Subset, FS_CardinalityType

LEMMA KeepStarts == ASSUME KeepInit PROVE KeepInv
<1>1. roster \in SUBSET Mates
  BY DEF KeepInit
<1>2. rosterGen \in Nat
  BY <1>1, CountOfMates DEF KeepInit
<1>3. BlobsHeld
  BY DEF KeepInit, BlobsHeld
<1> QED  BY <1>1, <1>2, <1>3 DEF KeepInit, KeepInv, RosterKept, IdentKept, NoOne, PhoneIds

LEMMA ChangeKeeps ==
    ASSUME KeepInv, NEW list \in SUBSET Mates, Changed(list)
    PROVE  KeepInv'
<1>1. RosterKept'
  BY DEF Changed, KeepInv, RosterKept
<1> QED  BY <1>1 DEF Changed, KeepInv, BlobsHeld, IdentKept, identVars

LEMMA SaveOfMatesKeeps ==
    ASSUME KeepInv, TaskStarts \/ SaveMates \/ SaveFails
    PROVE  KeepInv'
<1>1. BlobsHeld' /\ roster' \subseteq Mates /\ nvsMesh'.ident = nvsMesh.ident
  BY DEF TaskStarts, SaveMates, SaveFails, KeepInv, BlobsHeld
<1>2. RosterKept'
  <2>1. CASE TaskStarts
    BY <2>1 DEF TaskStarts, KeepInv, RosterKept
  <2>2. CASE SaveMates
    BY <2>2 DEF SaveMates, SaveDue, KeepInv, BlobsHeld, RosterKept
  <2>3. CASE SaveFails
    BY <2>3 DEF SaveFails, SaveDue, KeepInv, RosterKept
  <2> QED  BY <2>1, <2>2, <2>3
<1>3. IdentKept'
  BY <1>1 DEF TaskStarts, SaveMates, SaveFails, KeepInv, IdentKept, identVars
<1> QED  BY <1>1, <1>2, <1>3 DEF KeepInv

LEMMA IdentityKeeps ==
    ASSUME KeepInv,
           \/ \E id \in PhoneIds : PhoneSetsIdentity(id)
           \/ WriteIdentity \/ IdentityFails \/ ConsoleLooks \/ ConsoleSets \/ ConsoleWrites
    PROVE  KeepInv'
<1>1. BlobsHeld' /\ nvsMesh'.friends = nvsMesh.friends /\ UNCHANGED rosterVars
  BY DEF PhoneSetsIdentity, WriteIdentity, IdentityFails, ConsoleLooks, ConsoleSets, ConsoleWrites, KeepInv, BlobsHeld
<1>2. RosterKept' /\ roster' \subseteq Mates
  BY <1>1 DEF KeepInv, RosterKept, rosterVars
<1>3. IdentKept'
  <2>1. CASE \E id \in PhoneIds : PhoneSetsIdentity(id)
    BY <2>1 DEF PhoneSetsIdentity, Same, KeepInv, IdentKept, NoOne, PhoneIds
  <2>2. CASE WriteIdentity
    BY <2>2 DEF WriteIdentity, Settles, KeepInv, BlobsHeld, IdentKept, NoOne
  <2>3. CASE IdentityFails
    BY <2>3 DEF IdentityFails, KeepInv, BlobsHeld, IdentKept, NoOne
  <2>4. CASE ConsoleLooks \/ ConsoleSets
    BY <2>4 DEF ConsoleLooks, ConsoleSets, KeepInv, IdentKept, NoOne, DevId
  <2>5. CASE ConsoleWrites
    BY <2>5 DEF ConsoleWrites, Settles, KeepInv, BlobsHeld, IdentKept, NoOne, DevId
  <2> QED  BY <2>1, <2>2, <2>3, <2>4, <2>5
<1> QED  BY <1>1, <1>2, <1>3 DEF KeepInv

LEMMA RestartOfMeshKeeps == ASSUME KeepInv, RestartMesh PROVE KeepInv'
<1>1. PICK unread \in SUBSET {"friends", "ident"} : Loads(unread)
  BY DEF RestartMesh
<1>2. BlobsHeld' /\ roster' \in SUBSET Mates
  BY <1>1 DEF RestartMesh, Loads, KeepInv, BlobsHeld
<1>3. rosterGen' \in Nat
  BY <1>1, <1>2, CountOfMates DEF Loads
<1>4. RosterKept' /\ IdentKept'
  BY <1>1, <1>3 DEF RestartMesh, Loads, RosterKept, IdentKept, NoOne
<1> QED  BY <1>2, <1>4 DEF KeepInv

\* What is on flash of the friends and of the identity is what the terminal uses, but for the
\* reasons the property names (mesh.c, save_friends and mesh_identity_ble_access).
THEOREM AlwaysStoredAsHeld == KeepSpec => []StoredAsHeld
<1>1. KeepInit => KeepInv
  BY KeepStarts
<1>2. KeepInv /\ [KeepNext]_keepVars => KeepInv'
  <2> SUFFICES ASSUME KeepInv, [KeepNext]_keepVars PROVE KeepInv'
    OBVIOUS
  <2>1. CASE UNCHANGED keepVars
    BY <2>1 DEF keepVars, rosterVars, identVars, KeepInv, BlobsHeld, RosterKept, IdentKept
  <2>2. CASE \E m \in Mates : UpsertMate(m) \/ RemoveMate(m) \/ Befriended(m)
    BY <2>2, ChangeKeeps DEF UpsertMate, RemoveMate, Befriended, KeepInv
  <2>3. CASE ClearMates \/ ForgetAll
    BY <2>3, ChangeKeeps DEF ClearMates, ForgetAll
  <2> QED  BY <2>1, <2>2, <2>3, SaveOfMatesKeeps, IdentityKeeps, RestartOfMeshKeeps DEF KeepNext
<1>3. KeepInv => StoredAsHeld
  BY DEF KeepInv, RosterKept, IdentKept, StoredAsHeld, NoOne
<1> QED  BY <1>1, <1>2, <1>3, PTL DEF KeepSpec

-----------------------------------------------------------------------------
(* How the terminal comes up. *)

\* Passes since gui_task last copied the view, or since its first.
Missed == IF frame = Junk THEN drawn ELSE frame

\* What a hold of the view may still cost it: the save under way, and one before each
\* further call.
HoldLeft ==
    saving + (CASE calls = 1 -> IF mayCut THEN SavePasses ELSE 0
                [] calls = 2 -> SavePasses + (IF mayCut THEN SavePasses ELSE 0)
                [] OTHER -> 2 * SavePasses + (IF mayCut THEN SavePasses ELSE 0))

BootType ==
    /\ bootStep \in 1 .. 15 /\ mainWaited \in 0 .. WaitRounds
    /\ guiStep \in {"none", "display", "paint", "light", "pass"}
    /\ counting \in {"asleep", "awake", "calling"}
    /\ calls \in 0 .. 3 /\ saving \in 0 .. SavePasses /\ mayCut \in BOOLEAN
    /\ frame \in Nat \cup {Junk} /\ drawn \in Nat
ScreenUp ==
    /\ DOMAIN panel = {"holds", "on", "light"}
    /\ guiStep # "none" => bootStep >= 8
    /\ displayed => guiStep \in {"paint", "light", "pass"}
    /\ guiStep \in {"paint", "light", "pass"} => displayed
    /\ panel.light = "on" => guiStep = "pass"
    /\ guiStep \in {"light", "pass"} => panel.holds \in {"logo", "pages"}
    /\ bootStep >= 12 /\ ~displayed => mainWaited = WaitRounds
ViewFresh ==
    /\ counting # "asleep" => bootStep = 15
    /\ guiStep # "pass" => drawn = 0 /\ frame = Junk
    /\ bootStep < 15 \/ counting = "awake" => Missed = 0
    /\ counting # "calling" => Missed <= 3 * SavePasses
    /\ counting = "calling" => calls \in 1 .. 3 /\ Missed + HoldLeft <= 3 * SavePasses
BootInv == BootType /\ ScreenUp /\ ViewFresh

BootSpec == BootInit /\ [][BootNext]_bootVars

LEMMA BootConstants == /\ WaitRounds \in Nat /\ SplashPasses \in Nat /\ SavePasses \in Nat
                       /\ SplashPasses > 3 * SavePasses /\ MeshCalls = 3 /\ Junk = -1
BY BootAssumption DEF MeshCalls, Junk

\* Where each part stands in the order of app_main.
LEMMA StepsOfTasks ==
    /\ Len(Order) = 14
    /\ \A i \in 1 .. 14 :
          /\ (Order[i] = "dark" <=> i = 1) /\ (Order[i] = "state" <=> i = 2)
          /\ (Order[i] = "nvs" <=> i = 3) /\ (Order[i] = "settings" <=> i = 4)
          /\ (Order[i] = "queues" <=> i = 5) /\ (Order[i] = "log" <=> i = 6)
          /\ (Order[i] = "gui" <=> i = 7) /\ (Order[i] = "mesh" <=> i = 8)
          /\ (Order[i] = "apple" <=> i = 9) /\ (Order[i] = "ble" <=> i = 10)
          /\ (Order[i] = "wait" <=> i = 11) /\ (Order[i] = "meshTask" <=> i = 12)
          /\ (Order[i] = "stores" <=> i = 13) /\ (Order[i] = "countdown" <=> i = 14)
<1>1. Len(Order) = 14
  BY DEF Order
<1>2. /\ Order[1] = "dark" /\ Order[2] = "state" /\ Order[3] = "nvs" /\ Order[4] = "settings" /\ Order[5] = "queues"
      /\ Order[6] = "log" /\ Order[7] = "gui" /\ Order[8] = "mesh" /\ Order[9] = "apple" /\ Order[10] = "ble"
      /\ Order[11] = "wait" /\ Order[12] = "meshTask" /\ Order[13] = "stores" /\ Order[14] = "countdown"
  BY DEF Order
<1>3. ASSUME NEW i \in 1 .. 14 PROVE i \in {1, 2, 3, 4, 5, 6, 7, 8, 9, 10, 11, 12, 13, 14}
  OBVIOUS
<1> QED  BY <1>1, <1>2, <1>3

LEMMA UpAt ==
    ASSUME bootStep \in 1 .. 15
    PROVE  /\ (Up("state") <=> bootStep > 2) /\ (Up("nvs") <=> bootStep > 3)
           /\ (Up("settings") <=> bootStep > 4) /\ (Up("queues") <=> bootStep > 5)
           /\ (Up("log") <=> bootStep > 6) /\ (Up("mesh") <=> bootStep > 8)
           /\ (Up("apple") <=> bootStep > 9) /\ (Up("ble") <=> bootStep > 10)
           /\ (Up("meshTask") <=> bootStep > 12) /\ (Up("stores") <=> bootStep > 13)
           /\ (Up("countdown") <=> bootStep > 14)
BY StepsOfTasks DEF Up

LEMMA BootingAt ==
    ASSUME bootStep \in 1 .. 15
    PROVE  /\ Booting("dark") <=> bootStep = 1
           /\ Booting("gui") <=> bootStep = 7
           /\ Booting("wait") <=> bootStep = 11
           /\ Booting("countdown") <=> bootStep = 14
BY StepsOfTasks DEF Booting

LEMMA BootStarts == ASSUME BootInit PROVE BootInv
BY BootConstants DEF BootInit, BootInv, BootType, ScreenUp, ViewFresh, Missed, HoldLeft

\* A step that leaves the view and its users alone.
LEMMA ViewStandsStill ==
    ASSUME BootInv, bootStep' = bootStep \/ (bootStep < 14 /\ bootStep' = bootStep + 1), BootType',
           UNCHANGED <<counting, calls, saving, mayCut, frame, drawn>>,
           guiStep' = guiStep \/ guiStep # "pass"
    PROVE  ViewFresh'
<1>1. Missed' = Missed /\ HoldLeft' = HoldLeft
  BY DEF Missed, HoldLeft
<1> QED  BY <1>1 DEF BootInv, BootType, ViewFresh

LEMMA MainKeeps ==
    ASSUME BootInv, HoldDark \/ BringsUp \/ WaitsForDisplay
    PROVE  BootInv'
<1>1. CASE HoldDark
  <2>1. bootStep = 1
    BY <1>1, BootingAt DEF HoldDark, BootInv, BootType
  <2>2. BootType' /\ ScreenUp'
    BY <1>1, <2>1 DEF HoldDark, BootInv, BootType, ScreenUp
  <2> QED  BY <1>1, <2>1, <2>2, ViewStandsStill DEF HoldDark, BootInv
<1>2. CASE WaitsForDisplay
  <2>1. bootStep = 11
    BY <1>2, BootingAt DEF WaitsForDisplay, BootInv, BootType
  <2>2. BootType' /\ ScreenUp'
    BY <1>2, <2>1, BootConstants DEF WaitsForDisplay, WaitOver, BootInv, BootType, ScreenUp
  <2>3. bootStep' = bootStep \/ bootStep' = bootStep + 1
    BY <1>2 DEF WaitsForDisplay
  <2> QED  BY <1>2, <2>1, <2>2, <2>3, ViewStandsStill DEF WaitsForDisplay, BootInv
<1>3. CASE BringsUp
  <2>1. bootStep \in 1 .. 14 /\ bootStep # 11 /\ bootStep' = bootStep + 1
    BY <1>3, StepsOfTasks, BootingAt DEF BringsUp, BootInv, BootType
  <2>2. /\ bootStep = 7 => guiStep' = "display"
        /\ bootStep # 7 => guiStep' = guiStep
        /\ bootStep = 14 => counting' = "awake"
        /\ bootStep # 14 => counting' = counting
    BY <1>3, <2>1, BootingAt DEF BringsUp
  <2>3. BootType' /\ ScreenUp'
    BY <1>3, <2>1, <2>2 DEF BringsUp, BootInv, BootType, ScreenUp
  <2>4. CASE bootStep = 14
    <3>1. Missed' = Missed /\ Missed = 0 /\ guiStep' = guiStep
      BY <1>3, <2>2, <2>4 DEF BringsUp, Missed, BootInv, ViewFresh
    <3> QED  BY <1>3, <2>1, <2>2, <2>3, <2>4, <3>1, BootConstants DEF BringsUp, BootInv, BootType, ViewFresh
  <2>5. CASE bootStep # 14
    <3>1. guiStep' = guiStep \/ guiStep # "pass"
      BY <2>2, <2>1 DEF BootInv, BootType, ScreenUp
    <3> QED  BY <1>3, <2>1, <2>2, <2>3, <2>5, <3>1, ViewStandsStill DEF BringsUp, BootInv
  <2> QED  BY <2>3, <2>4, <2>5 DEF BootInv
<1> QED  BY <1>1, <1>2, <1>3

LEMMA ScreenKeeps ==
    ASSUME BootInv, DisplayUp \/ PaintSplash \/ LightUp
    PROVE  BootInv'
<1>1. BootType' /\ ScreenUp'
  BY DEF DisplayUp, PaintSplash, LightUp, Goes, BootInv, BootType, ScreenUp
<1>2. guiStep # "pass"
  BY DEF DisplayUp, PaintSplash, LightUp, Goes
<1>3. ViewFresh'
  BY <1>1, <1>2, ViewStandsStill DEF DisplayUp, PaintSplash, LightUp
<1> QED  BY <1>1, <1>3 DEF BootInv

LEMMA PassKeeps ==
    ASSUME BootInv, GuiPass \/ StillStarting
    PROVE  BootInv'
<1>1. /\ saving > 0 => saving' = saving - 1
      /\ saving = 0 => saving' = 0
      /\ counting' \in {counting, "awake"}
      /\ counting # "asleep" => counting' = counting
      /\ counting' # counting => bootStep = 15
  BY UpAt DEF GuiPass, StillStarting, TimeGoesBy, BootInv, BootType
<1>2. BootType'
  <2>1. saving' \in 0 .. SavePasses
    BY <1>1, BootConstants DEF BootInv, BootType
  <2>2. frame' \in Nat \cup {Junk} /\ drawn' \in Nat
    BY BootConstants DEF GuiPass, StillStarting, BootInv, BootType
  <2> QED  BY <1>1, <2>1, <2>2 DEF GuiPass, StillStarting, BootInv, BootType
<1>3. ScreenUp'
  BY DEF GuiPass, StillStarting, BootInv, ScreenUp
<1>4. CASE StillStarting
  <2>1. Missed' = Missed /\ Missed = 0
    BY <1>4 DEF StillStarting, Missed, BootInv, ViewFresh
  <2>2. HoldLeft' <= HoldLeft /\ HoldLeft' \in Int /\ HoldLeft \in Int
    BY <1>1, <1>4, BootConstants DEF StillStarting, HoldLeft, BootInv, BootType
  <2>3. drawn' = 0 /\ frame' = Junk /\ bootStep' = bootStep /\ calls' = calls
    BY <1>4 DEF StillStarting, BootInv, ViewFresh
  <2>4. counting' # "asleep" => bootStep' = 15
    BY <1>1, <2>3 DEF BootInv, ViewFresh
  <2>5. counting' = "calling" => counting = "calling"
    BY <1>1 DEF BootInv, BootType
  <2>6. counting' = "calling" => calls' \in 1 .. 3 /\ Missed' + HoldLeft' <= 3 * SavePasses
    <3> SUFFICES ASSUME counting' = "calling" PROVE calls' \in 1 .. 3 /\ Missed' + HoldLeft' <= 3 * SavePasses
      OBVIOUS
    <3>1. calls \in 1 .. 3 /\ Missed + HoldLeft <= 3 * SavePasses
      BY <2>5 DEF BootInv, ViewFresh
    <3> DEFINE H == HoldLeft
               I == HoldLeft'
               M == Missed
               N == Missed'
    <3>2. H \in Int /\ I \in Int /\ M = 0 /\ N = 0 /\ I <= H /\ M + H <= 3 * SavePasses
      BY <2>1, <2>2, <3>1
    <3> HIDE DEF H, I, M, N
    <3>3. N + I <= 3 * SavePasses
      BY <3>2, BootConstants
    <3> QED  BY <2>3, <3>1, <3>3 DEF N, I
  <2>7. ViewFresh'
    BY <2>1, <2>3, <2>4, <2>6, BootConstants DEF ViewFresh
  <2> QED  BY <1>2, <1>3, <2>7 DEF BootInv
<1>5. CASE GuiPass /\ ~ViewHeld
  <2>1. frame' = 0 /\ Missed' = 0 /\ counting' # "calling"
    BY <1>1, <1>5, BootConstants DEF GuiPass, ViewHeld, Missed
  <2>2. ViewFresh'
    BY <1>1, <1>2, <1>5, <2>1, BootConstants DEF GuiPass, BootInv, BootType, ViewFresh
  <2> QED  BY <1>2, <1>3, <2>2 DEF BootInv
<1>6. CASE GuiPass /\ ViewHeld
  <2>1. saving > 0 /\ saving' = saving - 1 /\ counting = "calling" /\ counting' = "calling" /\ bootStep = 15
    BY <1>1, <1>6 DEF GuiPass, ViewHeld, BootInv, BootType, ViewFresh
  <2>2. Missed' <= Missed + 1 /\ Missed' \in Int /\ Missed \in Int
    BY <1>2, <1>6, BootConstants DEF GuiPass, Missed, BootInv, BootType
  <2>3. HoldLeft' = HoldLeft - 1 /\ HoldLeft \in Int
    BY <1>6, <2>1, BootConstants DEF GuiPass, HoldLeft, BootInv, BootType
  <2>4. ViewFresh'
    BY <1>6, <2>1, <2>2, <2>3, BootConstants DEF GuiPass, BootInv, BootType, ViewFresh
  <2> QED  BY <1>2, <1>3, <2>4 DEF BootInv
<1> QED  BY <1>4, <1>5, <1>6

LEMMA OthersKeep ==
    ASSUME BootInv, TakesView \/ AsksMesh \/ MeshSaves
    PROVE  BootInv'
<1>1. BootType'
  <2>1. CASE TakesView
    <3>1. mayCut' \in BOOLEAN
      BY <2>1 DEF TakesView
    <3>2. calls' \in 0 .. 3 /\ counting' = "calling"
      BY <2>1, BootConstants DEF TakesView
    <3>3. UNCHANGED <<bootStep, mainWaited, guiStep, saving, frame, drawn>>
      BY <2>1 DEF TakesView
    <3> QED  BY <3>1, <3>2, <3>3 DEF BootInv, BootType
  <2>2. CASE AsksMesh
    BY <2>2 DEF AsksMesh, ViewHeld, PassDone, BootInv, BootType, ViewFresh
  <2>3. CASE MeshSaves
    <3>1. saving' \in 0 .. SavePasses
      BY <2>3, BootConstants DEF MeshSaves
    <3>2. mayCut' \in BOOLEAN
      BY <2>3 DEF MeshSaves
    <3> QED  BY <2>3, <3>1, <3>2 DEF MeshSaves, BootInv, BootType
  <2> QED  BY <2>1, <2>2, <2>3
<1>2. ScreenUp'
  BY DEF TakesView, AsksMesh, MeshSaves, BootInv, ScreenUp
<1>3. Missed' = Missed /\ Missed \in Int
  BY BootConstants DEF TakesView, AsksMesh, MeshSaves, Missed, BootInv, BootType
<1>4. CASE TakesView
  <2>1. Missed = 0 /\ calls' = 3 /\ bootStep = 15
    BY <1>4, BootConstants DEF TakesView, BootInv, ViewFresh
  <2>2. HoldLeft' <= 3 * SavePasses /\ HoldLeft' \in Int
    <3>1. saving' = saving /\ saving \in 0 .. SavePasses
      BY <1>4 DEF TakesView, BootInv, BootType
    <3>2. (saving = 0 => mayCut' = TRUE) /\ (saving # 0 => mayCut' = FALSE)
      BY <1>4, Zenon DEF TakesView
    <3> QED  BY <2>1, <3>1, <3>2, BootConstants DEF HoldLeft
  <2>4. counting' = "calling" /\ bootStep' = 15 /\ UNCHANGED <<guiStep, frame, drawn>>
    BY <1>4, <2>1 DEF TakesView
  <2>5. Missed' = 0
    BY <1>3, <2>1
  <2>3. ViewFresh'
    BY <2>1, <2>2, <2>4, <2>5 DEF BootInv, ViewFresh
  <2> QED  BY <1>1, <1>2, <2>3 DEF BootInv
<1>5. CASE AsksMesh
  <2>1. counting = "calling" /\ calls \in 1 .. 3 /\ saving = 0 /\ saving' = 0 /\ mayCut' = TRUE /\ calls' = calls - 1
    BY <1>5 DEF AsksMesh, ViewHeld, BootInv, ViewFresh
  <2>2. HoldLeft \in Int /\ HoldLeft >= 0 /\ HoldLeft' \in Int /\ (calls > 1 => HoldLeft' <= HoldLeft)
    BY <2>1, BootConstants DEF HoldLeft, BootInv, BootType
  <2>3. counting' = (IF calls = 1 THEN "asleep" ELSE "calling") /\ bootStep = 15
    BY <1>5, <2>1 DEF AsksMesh, PassDone, BootInv, ViewFresh
  <2>4. Missed + HoldLeft <= 3 * SavePasses /\ Missed <= 3 * SavePasses
    BY <1>3, <2>1, <2>2, BootConstants DEF BootInv, ViewFresh
  <2>5. bootStep' = bootStep /\ UNCHANGED <<guiStep, drawn, frame>>
    BY <1>5 DEF AsksMesh
  <2>6. ASSUME calls = 1 PROVE ViewFresh'
    <3>1. counting' = "asleep" /\ Missed' = Missed /\ bootStep' = 15
      BY <1>3, <2>3, <2>5, <2>6
    <3> QED  BY <2>4, <2>5, <3>1 DEF BootInv, ViewFresh
  <2>7. ASSUME calls # 1 PROVE ViewFresh'
    <3>0. calls > 1 /\ HoldLeft' <= HoldLeft /\ Missed + HoldLeft <= 3 * SavePasses
      BY <2>1, <2>2, <2>4, <2>7
    <3>1. counting' = "calling" /\ Missed' = Missed /\ bootStep' = 15 /\ calls' \in 1 .. 3
      BY <1>3, <2>1, <2>3, <2>5, <2>7
    <3>2. Missed' + HoldLeft' <= 3 * SavePasses
      <4> DEFINE H == HoldLeft
                 I == HoldLeft'
                 M == Missed
                 N == Missed'
      <4>1. H \in Int /\ I \in Int /\ M \in Int /\ N = M /\ I <= H /\ M + H <= 3 * SavePasses
        BY <1>3, <2>2, <3>0
      <4> HIDE DEF H, I, M, N
      <4>2. N + I <= 3 * SavePasses
        BY <4>1, BootConstants
      <4> QED  BY <4>2 DEF N, I
    <3> QED  BY <2>5, <3>1, <3>2 DEF BootInv, ViewFresh
  <2> QED  BY <1>1, <1>2, <2>6, <2>7 DEF BootInv
<1>6. CASE MeshSaves
  <2>1. saving = 0 /\ saving' \in 1 .. SavePasses /\ mayCut' = FALSE /\ calls' = calls
    BY <1>6 DEF MeshSaves
  <2>2. counting = "calling" => mayCut
    BY <1>6 DEF MeshSaves, ViewHeld
  <2>3. counting = "calling" => HoldLeft' <= HoldLeft /\ HoldLeft' \in Int /\ HoldLeft \in Int
    BY <2>1, <2>2, BootConstants DEF HoldLeft, BootInv, BootType
  <2>4. ViewFresh'
    BY <1>3, <1>6, <2>1, <2>3, BootConstants DEF MeshSaves, BootInv, ViewFresh
  <2> QED  BY <1>1, <1>2, <2>4 DEF BootInv
<1> QED  BY <1>4, <1>5, <1>6

LEMMA ResetKeeps == ASSUME BootInv, ResetTerminal PROVE BootInv'
BY BootConstants DEF ResetTerminal, BootInv, BootType, ScreenUp, ViewFresh, Missed, HoldLeft

LEMMA BootInvEnough == ASSUME BootInv PROVE BroughtUp
<1>1. bootStep \in 1 .. 15
  BY DEF BootInv, BootType
<1>2. guiStep # "none" => \A x \in GuiUses : Up(x)
  BY <1>1, UpAt DEF BootInv, ScreenUp, GuiUses
<1>3. HostUses \subseteq {"queues", "log", "settings", "nvs", "state", "mesh", "apple"}
  <2>1. ASSUME NEW c \in DOMAIN Characteristics
        PROVE  Characteristics[c] \subseteq {"queues", "log", "settings", "nvs", "state", "mesh"}
    BY DEF Characteristics
  <2>2. ASSUME NEW e \in DOMAIN GapEvents
        PROVE  GapEvents[e] \subseteq {"queues", "log", "nvs", "apple"}
    BY DEF GapEvents
  <2> DEFINE Used == {"queues", "log", "settings", "nvs", "state", "mesh", "apple"}
  <2>3. \A c \in DOMAIN Characteristics : Characteristics[c] \subseteq Used
    BY <2>1
  <2>4. \A e \in DOMAIN GapEvents : GapEvents[e] \subseteq Used
    BY <2>2
  <2> HIDE DEF Used
  <2>5. ASSUME NEW x \in HostUses PROVE x \in Used
    <3>1. \/ \E c \in DOMAIN Characteristics : x \in Characteristics[c]
          \/ \E e \in DOMAIN GapEvents : x \in GapEvents[e]
      BY Zenon DEF HostUses
    <3> QED  BY <2>3, <2>4, <3>1, Zenon
  <2> QED  BY <2>5 DEF Used
<1>4. /\ Up("ble") => \A x \in HostUses : Up(x)
      /\ Up("meshTask") => \A x \in MeshUses : Up(x)
      /\ Up("countdown") => \A x \in CountdownUses : Up(x)
  BY <1>1, <1>3, UpAt DEF MeshUses, CountdownUses
<1>5. panel.light = "on" => panel.holds \in {"logo", "pages"}
  BY DEF BootInv, ScreenUp
<1>6. Up("meshTask") /\ ~displayed => mainWaited = WaitRounds
  BY <1>1, UpAt DEF BootInv, ScreenUp
<1>7. drawn = SplashPasses => frame # Junk /\ frame <= MeshCalls * SavePasses
  <2>1. Missed <= 3 * SavePasses
    <3>1. counting = "calling" => HoldLeft \in Int /\ HoldLeft >= 0 /\ Missed \in Int
      BY BootConstants DEF HoldLeft, Missed, BootInv, BootType
    <3> QED  BY <3>1, BootConstants DEF BootInv, BootType, ViewFresh
  <2> QED  BY <2>1, BootConstants DEF Missed, BootInv, BootType
<1> QED  BY <1>2, <1>4, <1>5, <1>6, <1>7 DEF BroughtUp

\* app_main brings up what each task and callback uses before it can run, the splash before
\* the light and the display's buffers before other stacks; and what gui_task routes by has
\* been copied from the view, not long ago (main.c).
THEOREM AlwaysBroughtUp == BootSpec => []BroughtUp
<1>1. BootInit => BootInv
  BY BootStarts
<1>2. BootInv /\ [BootNext]_bootVars => BootInv'
  <2> SUFFICES ASSUME BootInv, [BootNext]_bootVars PROVE BootInv'
    OBVIOUS
  <2>1. CASE UNCHANGED bootVars
    BY <2>1 DEF bootVars, BootInv, BootType, ScreenUp, ViewFresh, Missed, HoldLeft
  <2> QED  BY <2>1, MainKeeps, ScreenKeeps, PassKeeps, OthersKeep, ResetKeeps DEF BootNext
<1>3. BootInv => BroughtUp
  BY BootInvEnough
<1> QED  BY <1>1, <1>2, <1>3, PTL DEF BootSpec

-----------------------------------------------------------------------------
(* The run's specification is that of each of its parts.                    *)

\* A step of another part leaves this one's variables alone.
LEMMA StepsOfParts ==
    ASSUME [Next]_all
    PROVE  /\ [StoreNext]_storeVars /\ [OdoNext]_odoVars /\ [LogNext]_logVars /\ [ScreensNext]_screenVars
           /\ [CardNext]_friendVars /\ [FaceNext]_faceVars /\ [CompassNext]_compassVars
           /\ [KeepNext]_keepVars /\ [BootNext]_bootVars
           /\ [PlacesNext]_placeVars /\ [MarkersNext]_markerVars
<1>1. CASE UNCHANGED all
  BY SMTT(30), <1>1 DEF all
<1>2. CASE Next
  BY <1>2 DEF Next, Only
<1> QED  BY <1>1, <1>2

LEMMA SpecOfParts ==
    Spec => /\ StoreSpec /\ OdoSpec /\ LogSpec /\ ScreensSpec
            /\ CardSpec /\ FaceSpec /\ CompassSpec
            /\ KeepSpec /\ BootSpec /\ PlacesSpec /\ MarkersSpec
<1>1. Init => /\ StoreInit /\ OdoInit /\ LogInit /\ ScreensInit /\ CardInit /\ FaceInit /\ CompassInit
              /\ KeepInit /\ BootInit /\ PlacesInit /\ MarkersInit
  BY DEF Init
<1>2. [Next]_all => /\ [StoreNext]_storeVars /\ [OdoNext]_odoVars /\ [LogNext]_logVars /\ [ScreensNext]_screenVars
                    /\ [CardNext]_friendVars /\ [FaceNext]_faceVars /\ [CompassNext]_compassVars
                    /\ [KeepNext]_keepVars /\ [BootNext]_bootVars
                    /\ [PlacesNext]_placeVars /\ [MarkersNext]_markerVars
  BY StepsOfParts
<1> QED  BY <1>1, <1>2, PTL DEF Spec, StoreSpec, OdoSpec, LogSpec, ScreensSpec, CardSpec, FaceSpec, CompassSpec,
                              KeepSpec, BootSpec, PlacesSpec, MarkersSpec

\* A hold does what it does for what was held: on the card the rider changes by nothing
\* but what the property names, and an accept is of the call held.
THEOREM HoldsAlwaysMeant == Spec => HoldsMeant
BY SpecOfParts, CardAlwaysHolds, AlwaysAcceptHeld, PTL DEF HoldsMeant

\* What the flash keeps of the rider's is whole, whatever writes fail and whenever the power
\* goes: a mixture of two settings writes is replaced (settings.c), the ride's total falls
\* behind by no more than a save's worth (odometer.c), a power cut costs the drive log at
\* most one finished record and never numbers two alike (drive_log.c), and with no write due
\* the friends and the identity on flash are those held, but where a write has failed (mesh.c).
THEOREM FlashAlwaysKept == Spec => []FlashKept
BY SpecOfParts, MixturesReplaced, RideAlwaysKept, LogAlwaysKept, AlwaysStoredAsHeld, PTL DEF FlashKept

\* The compass shows friends near enough to where they are, once by the pseudonym they go by and
\* by an earlier one only until its offset runs out (mesh_core.c), and each with the look that is
\* theirs (friend_markers.cpp).
THEOREM FriendsAlwaysTrue == Spec => []FriendsTrue
BY SpecOfParts, AlwaysPlacesTrue, AlwaysMarkersTrue, PTL DEF FriendsTrue
=============================================================================
