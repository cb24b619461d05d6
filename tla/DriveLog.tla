------------------------------ MODULE DriveLog ------------------------------
(***************************************************************************)
(* The drive log, drive_log.c: a ring of records on raw flash, with no       *)
(* bookkeeping but the records themselves.  A power cut may come in the      *)
(* middle of an erasure or of a write, and the cursor is found again by      *)
(* reading every header.                                                     *)
(*                                                                           *)
(* Flash clears bits and only an erasure sets them: a record written over    *)
(* anything but a free slot comes out spoilt.  A slot is what its header     *)
(* reads as, an index or None, and the record whose every byte is there.     *)
(***************************************************************************)
EXTENDS Naturals, FiniteSets

CONSTANTS
    Sectors,      \* flash sectors in the partition
    PerSector,    \* RECORDS_PER_SECTOR
    QueueLen,     \* LOG_QUEUE_LEN
    MaxIndex,     \* bound: record indices
    MaxCuts       \* bound: power cuts and failures

ASSUME DriveLogAssumption ==
    /\ Sectors \in Nat \ {0, 1} /\ {PerSector, QueueLen} \subseteq Nat \ {0}
    /\ {MaxIndex, MaxCuts} \subseteq Nat

Slots == Sectors * PerSector
Slot == 0 .. Slots - 1
None == MaxIndex + 1
Free == [head |-> None, whole |-> None, free |-> TRUE]
Spoilt == [head |-> None, whole |-> None, free |-> FALSE]
HeadOnly(i) == [head |-> i, whole |-> None, free |-> FALSE]
Record(i) == [head |-> i, whole |-> i, free |-> FALSE]

VARIABLES
    flash,       \* the partition
    nextSlot,    \* s_next_slot
    nextIndex,   \* s_next_index
    queued,      \* records in s_queue
    lastView,    \* s_last_model and s_last_view: what was logged last, "" for nothing
    enabled,     \* s_enabled
    completed,   \* history: indices of the records write_record finished
    cuts         \* power cuts and failures so far

logVars == <<flash, nextSlot, nextIndex, queued, lastView, enabled, completed, cuts>>

LogInit ==
    /\ flash = [s \in Slot |-> Free]
    /\ nextSlot = 0 /\ nextIndex = 0 /\ queued = 0 /\ lastView = "" /\ enabled = TRUE
    /\ completed = {} /\ cuts = 0

-----------------------------------------------------------------------------
\* enqueue: a full queue drops the record.
Enqueued == IF queued < QueueLen THEN queued + 1 ELSE queued

\* drive_log_raw, drive_log_ble, drive_log_ancs and drive_log_boot.
LogEvent ==
    /\ enabled
    /\ queued' = Enqueued
    /\ UNCHANGED <<flash, nextSlot, nextIndex, lastView, enabled, completed, cuts>>

\* drive_log_model and drive_log_view: only what has changed, which counts as
\* logged even if the queue drops it.
LogChange(view) ==
    /\ enabled /\ view # lastView
    /\ lastView' = view
    /\ queued' = Enqueued
    /\ UNCHANGED <<flash, nextSlot, nextIndex, enabled, completed, cuts>>

EntersRing(slot) == slot = 0
EntersSector(slot) == slot % PerSector = 0
SectorOf(slot) == {s \in Slot : s \div PerSector = slot \div PerSector}

Erased(slot) == [s \in Slot |-> IF s \in SectorOf(slot) THEN Free ELSE flash[s]]
Ready(slot) == IF EntersSector(slot) THEN Erased(slot) ELSE flash

\* Over a slot that is not free, the header may or may not come out.
Programmed(old, i) == IF old.free THEN {Record(i)} ELSE {Spoilt, HeadOnly(i)}

\* drive_log_task and write_record.
WriteRecord ==
    /\ enabled /\ queued > 0 /\ nextIndex < MaxIndex
    /\ \E r \in Programmed(Ready(nextSlot)[nextSlot], nextIndex) :
          flash' = [Ready(nextSlot) EXCEPT ![nextSlot] = r]
    /\ completed' = completed \cup {nextIndex}
    /\ nextIndex' = nextIndex + 1
    /\ nextSlot' = (nextSlot + 1) % Slots
    /\ queued' = queued - 1
    /\ UNCHANGED <<lastView, enabled, cuts>>

-----------------------------------------------------------------------------
(* A step that does not finish: a failure, or a power cut and the boot      *)
(* that follows.                                                            *)

\* What the cut may have left of the step it came in.
TornErase(slot) ==
    {[s \in Slot |-> IF s \in erased THEN Free ELSE IF s \in half THEN Spoilt ELSE flash[s]] :
        erased \in SUBSET SectorOf(slot), half \in SUBSET SectorOf(slot)}
TornWrite(slot) ==
    {[Ready(slot) EXCEPT ![slot] = r] :
        r \in {Ready(slot)[slot], Spoilt, HeadOnly(nextIndex), Record(nextIndex)}}
Left ==
    {flash} \cup
    IF ~enabled \/ queued = 0 \/ nextIndex = MaxIndex THEN {}
    ELSE (IF EntersSector(nextSlot) THEN TornErase(nextSlot) ELSE {}) \cup
         {f \in TornWrite(nextSlot) : Ready(nextSlot)[nextSlot].free}

\* An erasure or a write that fails ends logging for this boot.
WriteFailed ==
    /\ enabled /\ queued > 0 /\ cuts < MaxCuts
    /\ cuts' = cuts + 1
    /\ flash' \in Left
    /\ enabled' = FALSE
    /\ queued' = queued - 1
    /\ UNCHANGED <<nextSlot, nextIndex, lastView, completed>>

\* recover_cursor: after the highest index that reads.
Readable(f) == {s \in Slot : f[s].head # None}
Recovered(f) ==
    IF Readable(f) = {} THEN [slot |-> 0, index |-> 0]
    ELSE LET best == CHOOSE s \in Readable(f) : \A t \in Readable(f) : f[s].head >= f[t].head
         IN  [slot |-> (best + 1) % Slots, index |-> f[best].head + 1]

CutLog ==
    /\ cuts < MaxCuts
    /\ cuts' = cuts + 1
    /\ flash' \in Left
    /\ nextSlot' = Recovered(flash').slot
    /\ nextIndex' = Recovered(flash').index
    /\ queued' = 0 /\ lastView' = "" /\ enabled' = TRUE
    /\ UNCHANGED completed

LogNext ==
    \/ LogEvent \/ WriteRecord \/ WriteFailed \/ CutLog
    \/ \E view \in {"near", "far"} : LogChange(view)

LogSpec == LogInit /\ [][LogNext]_logVars

-----------------------------------------------------------------------------
\* The records the ring still has room for once the sector after the newest of
\* them is erased.
Window == {i \in completed : \A j \in completed : j + PerSector < i + Slots}
Missing == {i \in Window : ~\E s \in Slot : flash[s].whole = i}

\* Every record of the ring can be read back, but for at most one finished
\* record for each power cut; and no two records have one index.
LogKept ==
    /\ Cardinality(Missing) <= cuts
    /\ \A s, t \in Slot : flash[s].head = flash[t].head /\ s # t => flash[s].head = None
=============================================================================
