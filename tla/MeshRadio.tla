----------------------------- MODULE MeshRadio ------------------------------
(****************************************************************************)
(* A frame's way from one terminal's mesh task to another's: send_frame puts*)
(* it on every transport that is up.  ESP-NOW broadcasts it at once; the BLE*)
(* transport keeps it in a short outbox until its turn on the one extended  *)
(* advert, which is heard any number of times while it lasts.  The other    *)
(* terminal queues what it hears and hands each frame to mesh_core once,    *)
(* by a ring of those it has seen.                                          *)
(*                                                                          *)
(* A frame is the number its rider gave it; time is passes of the mesh task.*)
(* A scan that stops loses frames as the air does, and is not modelled.     *)
(****************************************************************************)
EXTENDS Naturals, Sequences

CONSTANTS
    OutboxLen,   \* OUTBOX_LEN
    AdvertPasses,\* FRAME_WINDOW_MS, in passes
    DedupLen,    \* DEDUP_LEN
    RxLen,       \* RX_QUEUE_LEN
    MaxSent,     \* bound: frames
    MaxUpsets    \* bound: resets of the host and calls of it that fail

ASSUME RadioAssumption ==
    /\ {OutboxLen, AdvertPasses, DedupLen, RxLen} \subseteq Nat \ {0}
    /\ {MaxSent, MaxUpsets} \subseteq Nat

VARIABLES
    radios,      \* s_transport_up, of the sender
    numbered,    \* the last frame's number
    outbox,      \* s_outbox from s_head, s_count of them
    driver,      \* s_configured, s_advertising, passes left to s_frame_until_ms
    host,        \* NimBLE's host: synced, reset, or reset and polled since
    advert,      \* instance 1 in the controller: whether there, the frame on the air or 0
    rx,          \* s_rx_queue of the receiver
    sighted,     \* its ring, and next
    upsets,      \* resets and failed calls so far
    aired,       \* history: frames that went on the air, in order
    forgone,     \* history: frames newer ones pushed out, or lost with a failed call
    refused,     \* history: frames the controller had no instance for
    unnoticed,   \* history: the host was reset and synced between two passes
    waited,      \* history: passes in which the outbox held frames and none was taken
    handed,      \* history: frames handed to mesh_core, in order
    ignored      \* history: frames taken for repeats

radioVars == <<radios, numbered, outbox, driver, host, advert, rx, sighted, upsets,
               aired, forgone, refused, unnoticed, waited, handed, ignored>>
sendVars == <<radios, numbered, outbox, forgone>>
hearVars == <<sighted, handed, ignored>>

NoInstance == [there |-> FALSE, frame |-> 0]
Showing(f) == [there |-> TRUE, frame |-> f]
Silent == Showing(0)
ElementsOf(s) == {s[i] : i \in DOMAIN s}

\* mesh_task starts the transports; the host is still on its way up.
RadioInit ==
    /\ radios \in {{"ble"}, {"espnow"}, {"ble", "espnow"}}
    /\ numbered = 0 /\ outbox = <<>>
    /\ driver = [configured |-> FALSE, advertising |-> FALSE, left |-> 0]
    /\ host = "noticed" /\ advert = NoInstance
    /\ rx = <<>> /\ sighted = [ring |-> [i \in 0 .. DedupLen - 1 |-> 0], next |-> 0]
    /\ upsets = 0
    /\ aired = <<>> /\ forgone = {} /\ refused = {} /\ unnoticed = FALSE /\ waited = 0
    /\ handed = <<>> /\ ignored = {}

\* on_recv: a full queue drops the frame.
OnRecv(f) == IF Len(rx) < RxLen THEN Append(rx, f) ELSE rx

-----------------------------------------------------------------------------
(* The sender.                                                              *)

\* ble_send: a full outbox drops its oldest frame.
BleSend(f) == Append(IF Len(outbox) = OutboxLen THEN Tail(outbox) ELSE outbox, f)

SendFrame ==
    LET f == numbered + 1 IN
    /\ numbered < MaxSent
    /\ numbered' = f
    /\ outbox' = IF "ble" \in radios THEN BleSend(f) ELSE outbox
    /\ forgone' = forgone \cup (ElementsOf(outbox) \ ElementsOf(outbox'))
    /\ rx' \in {rx} \cup (IF "espnow" \in radios THEN {OnRecv(f)} ELSE {})
    /\ UNCHANGED <<radios, driver, host, advert, upsets, aired, refused, unnoticed, waited>>
    /\ UNCHANGED hearVars

UnsyncedKeepingInstance == [driver EXCEPT !.advertising = FALSE]
\* ble_poll finds the host unsynced: the advert and its instance are gone.
Unsynced == [driver EXCEPT !.configured = FALSE, !.advertising = FALSE]

PollUnsynced ==
    /\ "ble" \in radios /\ host # "synced"
    /\ driver' = Unsynced
    /\ host' = "noticed"
    /\ waited' = 0
    /\ UNCHANGED <<advert, rx, upsets, aired, refused, unnoticed>>
    /\ UNCHANGED sendVars /\ UNCHANGED hearVars

Failing == upsets < MaxUpsets /\ upsets' = upsets + 1
Remaining == IF driver.left > 0 THEN driver.left - 1 ELSE 0

\* The instance cannot be configured: tried again in the next pass.
ConfigureFails ==
    /\ "ble" \in radios /\ host = "synced" /\ ~driver.configured
    /\ Failing
    /\ driver' = [driver EXCEPT !.left = Remaining]
    /\ UNCHANGED <<host, advert, rx, aired, refused, unnoticed, waited>>
    /\ UNCHANGED sendVars /\ UNCHANGED hearVars

\* The instance as it is once ble_poll has passed configure().
Instance == IF ~driver.configured THEN Silent ELSE advert
\* The frame on the air has its window still.
Busy == driver.advertising /\ Remaining > 0
RadioReady == "ble" \in radios /\ host = "synced"

PollBusy ==
    /\ RadioReady /\ Busy
    /\ driver' = [driver EXCEPT !.configured = TRUE, !.left = Remaining]
    /\ advert' = Instance
    /\ waited' = IF outbox # <<>> THEN waited + 1 ELSE 0
    /\ UNCHANGED <<host, rx, upsets, aired, refused, unnoticed>>
    /\ UNCHANGED sendVars /\ UNCHANGED hearVars

\* Nothing new: the advert stops rather than repeat an old frame.
PollEmpty ==
    /\ RadioReady /\ ~Busy /\ outbox = <<>>
    /\ driver' = [configured |-> TRUE, advertising |-> FALSE, left |-> Remaining]
    /\ advert' = IF driver.advertising /\ Instance.there THEN Silent ELSE Instance
    /\ waited' = 0
    /\ UNCHANGED <<host, rx, upsets, aired, refused, unnoticed>>
    /\ UNCHANGED sendVars /\ UNCHANGED hearVars

\* ble_poll takes the oldest frame; the window runs whatever comes of it.
TakesFrame ==
    /\ RadioReady /\ ~Busy /\ outbox # <<>>
    /\ outbox' = Tail(outbox)
    /\ waited' = 0
    /\ UNCHANGED <<radios, numbered, host, rx, unnoticed>> /\ UNCHANGED hearVars

Driven(onAir) == [configured |-> TRUE, advertising |-> onAir, left |-> AdvertPasses]

Advertise ==
    /\ TakesFrame /\ Instance.there
    /\ advert' = Showing(Head(outbox)) /\ aired' = Append(aired, Head(outbox))
    /\ driver' = Driven(TRUE)
    /\ UNCHANGED <<upsets, forgone, refused>>

\* The controller knows no such instance: stop, set_data and start all fail.
AdvertiseRefused ==
    /\ TakesFrame /\ ~Instance.there
    /\ refused' = refused \cup {Head(outbox)}
    /\ driver' = Driven(FALSE)
    /\ UNCHANGED <<advert, upsets, aired, forgone>>

\* No buffer, and what was on the air stays there for another window; or
\* set_data or start fails, once that has been stopped.
AdvertiseFails ==
    /\ TakesFrame /\ Instance.there
    /\ Failing
    /\ forgone' = forgone \cup {Head(outbox)}
    /\ \/ driver' = Driven(driver.advertising) /\ advert' = Instance
       \/ driver' = Driven(FALSE) /\ advert' = Silent
    /\ UNCHANGED <<aired, refused>>

\* The host is reset, and the controller with it; it syncs again by itself,
\* perhaps before a pass has looked.
HostResets ==
    /\ host = "synced" /\ Failing
    /\ host' = "reset" /\ advert' = NoInstance
    /\ UNCHANGED <<driver, rx, aired, refused, unnoticed, waited>>
    /\ UNCHANGED sendVars /\ UNCHANGED hearVars

HostSyncs ==
    /\ host # "synced"
    /\ host' = "synced"
    /\ unnoticed' = (unnoticed \/ host = "reset")
    /\ UNCHANGED <<driver, advert, rx, upsets, aired, refused, waited>>
    /\ UNCHANGED sendVars /\ UNCHANGED hearVars

-----------------------------------------------------------------------------
(* The receiver.                                                            *)

\* The scan catches the advert, for the first time or again.
HearAdvert ==
    /\ advert.frame # 0
    /\ rx' = OnRecv(advert.frame)
    /\ UNCHANGED <<driver, host, advert, upsets, aired, refused, unnoticed, waited>>
    /\ UNCHANGED sendVars /\ UNCHANGED hearVars

RememberedShort(f) ==
    [ring |-> [sighted.ring EXCEPT ![sighted.next] = f], next |-> (sighted.next + 1) % (DedupLen - 1)]
Remembered(f) ==
    [ring |-> [sighted.ring EXCEPT ![sighted.next] = f], next |-> (sighted.next + 1) % DedupLen]
SeenBefore(f) == \E i \in DOMAIN sighted.ring : sighted.ring[i] = f

\* mesh_task drains the queue: a first sighting goes to mesh_core_rx.
DrainOne ==
    LET f == Head(rx) IN
    /\ rx # <<>>
    /\ rx' = Tail(rx)
    /\ IF SeenBefore(f)
       THEN ignored' = ignored \cup {f} /\ UNCHANGED <<sighted, handed>>
       ELSE sighted' = Remembered(f) /\ handed' = Append(handed, f) /\ UNCHANGED ignored
    /\ UNCHANGED <<driver, host, advert, upsets, aired, refused, unnoticed, waited>>
    /\ UNCHANGED sendVars

PollRadio ==
    \/ PollUnsynced \/ ConfigureFails \/ PollBusy \/ PollEmpty
    \/ Advertise \/ AdvertiseRefused \/ AdvertiseFails

RadioNext == SendFrame \/ PollRadio \/ HostResets \/ HostSyncs \/ HearAdvert \/ DrainOne

RadioSpec == RadioInit /\ [][RadioNext]_radioVars

-----------------------------------------------------------------------------
Increasing(s) == \A i, j \in DOMAIN s : i < j => s[i] < s[j]

\* Every frame waits its turn, goes on the air in order, or was pushed out by
\* newer ones or a failed call: none is lost to a reset of the host that a pass
\* has seen.  The outbox never waits longer than the window of the frame before,
\* and an advert on the air is one the driver knows of and will stop.
FramesAired ==
    "ble" \in radios =>
        /\ 1 .. numbered = ElementsOf(outbox) \cup ElementsOf(aired) \cup forgone \cup refused
        /\ Increasing(aired \o outbox)
        /\ refused # {} => unnoticed
        /\ waited < AdvertPasses
        /\ advert.frame # 0 => driver.advertising /\ driver.left > 0

\* However often and by whatever radio a frame is heard, mesh_core is handed it
\* once, or again only after a ring's length of others; and no frame is taken
\* for a repeat that was not handed on before.
HeardOnce ==
    /\ \A i, j \in DOMAIN handed : i < j /\ handed[i] = handed[j] => j - i > DedupLen
    /\ ignored \subseteq ElementsOf(handed)

\* Both: what is sent goes out once and in its turn, and is heard once.
AiredAndHeard == FramesAired /\ HeardOnce
=============================================================================
