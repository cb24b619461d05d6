----------------------------- MODULE PhoneLink -----------------------------
(***************************************************************************)
(* How the phone and the terminal find each other, lose each other and find *)
(* each other again, and what crosses the link while it is there: the       *)
(* phone's RelayService and RelayBleClient (start, scan, bond, connect,      *)
(* discover), the terminal's GAP handler in ble_link.c (advertise, fall back *)
(* to the slow rate, connect, disconnect) and the packets of Fragments.     *)
(*                                                                          *)
(* One terminal, one phone, its Bluetooth on.  The link may go at any time;  *)
(* each end hears of it on its own, later, in the order it happened.        *)
(***************************************************************************)
EXTENDS Fragments

CONSTANTS
    MaxOffers,   \* bound: packets offered apart from those a connection brings
    MaxUpsets    \* bound: links lost, starts failed and things killed

ASSUME PhoneLinkAssumption == {MaxOffers, MaxUpsets} \subseteq Nat

VARIABLES
    phone,       \* RelayService and RelayBleClient; what it knows of the bond
    term,        \* ble_link.c: power, the advert of instance 0, s_adv_slow, s_connected
    link,        \* the two radios have a connection
    toPhone,     \* what onConnectionStateChange is still to be told
    toTerm,      \* what gap_event_cb is still to be told
    broken,      \* history: something failed that the code does not try again
    upsets       \* upsets so far

linkVars == <<phone, term, link, toPhone, toTerm, broken, upsets>>
vars == <<fragVars, linkVars>>

\* gatt: "none" (null), "parked" (autoConnect), "dialing" (direct), "open", or
\* "idle": disconnected and not closed yet.  target: connectedAddress is set.
\* seeking: discoverServices is out.  awaiting: bondReceiver is registered.
FreshPhone(saved, bond) ==
    [up |-> FALSE, gatt |-> "none", target |-> FALSE, bgPending |-> FALSE,
     seeking |-> FALSE, refreshed |-> FALSE, chars |-> FALSE, connected |-> FALSE,
     scanning |-> FALSE, awaiting |-> FALSE, saved |-> saved, bond |-> bond]

NoTerm == [power |-> FALSE, adv |-> "off", slow |-> FALSE, connected |-> FALSE]

Init ==
    /\ FragInit
    /\ phone = FreshPhone(FALSE, "none")
    /\ term = NoTerm
    /\ link = FALSE /\ toPhone = <<>> /\ toTerm = <<>>
    /\ broken = FALSE /\ upsets = 0

Upset == upsets < MaxUpsets /\ upsets' = upsets + 1

\* Everything on the air goes with the link.
AirLost == air' = <<>> /\ hurt' = hurt \cup {f.packet : f \in Range(air)}

UnchangedButAir == UNCHANGED <<phoneFragVars, termFragVars, offered, newest>>

\* The link is cut, if there is one; the terminal will hear of it.
CutByPhone ==
    /\ link' = FALSE
    /\ toTerm' = IF link THEN Append(toTerm, "disconnect") ELSE toTerm
    /\ AirLost

-----------------------------------------------------------------------------
(* The phone: connecting.                                                   *)

StopScan(p) == [p EXCEPT !.scanning = FALSE]

\* connect() has nothing to do: a connection is there or on its way.  A direct
\* connect may replace one that is parked.
Busy(p, background) ==
    p.gatt # "none" /\ p.target /\ (background \/ ~p.bgPending)

Dials(p, background) == ~Busy(p, background) /\ p.bond # "none"

Connect(p, background) ==
    IF Busy(p, background) THEN p
    ELSE IF p.bond = "none" THEN [p EXCEPT !.bond = "bonding", !.awaiting = TRUE]
    ELSE [p EXCEPT !.gatt = IF background THEN "parked" ELSE "dialing",
                   !.target = TRUE, !.bgPending = background]

\* connectGatt closes the client before it, with its connection and what it
\* had still to report.
Connecting(p, background) ==
    /\ phone' = Connect(p, background)
    /\ IF Dials(p, background)
       THEN CutByPhone /\ toPhone' = <<>>
       ELSE UNCHANGED <<link, toTerm, air, hurt, toPhone>>

ReconnectingByScan(p) ==
    IF p.saved /\ ~p.scanning THEN Connecting(p, TRUE)
    ELSE /\ phone' = [p EXCEPT !.scanning = TRUE]
         /\ UNCHANGED <<link, toTerm, air, hurt, toPhone>>
\* reconnect(): the known terminal in the background; a scan only before any
\* terminal has connected.
Reconnecting(p) ==
    IF p.saved THEN Connecting(StopScan(p), TRUE)
    ELSE /\ phone' = [p EXCEPT !.scanning = TRUE]
         /\ UNCHANGED <<link, toTerm, air, hurt, toPhone>>

\* onStartCommand without an address: boot, the app, START_STICKY.
Start ==
    /\ Reconnecting([phone EXCEPT !.up = TRUE])
    /\ UnchangedButAir
    /\ UNCHANGED <<term, broken, upsets>>

\* onStartCommand with one: the companion service has seen the terminal.
StartAppeared ==
    /\ term.adv # "off"
    /\ Connecting(StopScan([phone EXCEPT !.up = TRUE]), FALSE)
    /\ UnchangedButAir
    /\ UNCHANGED <<term, broken, upsets>>

ScanResult ==
    /\ phone.scanning /\ term.adv # "off"
    /\ Connecting(StopScan(phone), FALSE)
    /\ UnchangedButAir
    /\ UNCHANGED <<term, broken, upsets>>

\* onScanFailed: nobody scans again.
ScanFailed ==
    /\ phone.scanning /\ Upset
    /\ phone' = StopScan(phone)
    /\ broken' = TRUE
    /\ UNCHANGED <<fragVars, term, link, toPhone, toTerm>>

\* The bond is made with the terminal in reach.
Bonded ==
    /\ phone.bond = "bonding" /\ term.adv # "off"
    /\ LET p == [phone EXCEPT !.bond = "bonded", !.awaiting = FALSE]
       IN  IF phone.awaiting
           THEN Connecting(p, FALSE)
           ELSE phone' = p /\ UNCHANGED <<link, toTerm, air, hurt, toPhone>>
    /\ UnchangedButAir
    /\ UNCHANGED <<term, broken, upsets>>

BondFailed ==
    /\ phone.bond = "bonding" /\ Upset
    /\ phone' = [phone EXCEPT !.bond = "none", !.awaiting = FALSE]
    /\ broken' = TRUE
    /\ UNCHANGED <<fragVars, term, link, toPhone, toTerm>>

-----------------------------------------------------------------------------
(* The phone: the GATT callbacks.                                           *)

TellPhone(what) == toPhone # <<>> /\ Head(toPhone) = what

OnConnected ==
    /\ TellPhone("connected")
    /\ phone' = [phone EXCEPT !.gatt = "open", !.bgPending = FALSE, !.refreshed = FALSE,
                              !.saved = TRUE, !.seeking = TRUE]
    /\ toPhone' = Tail(toPhone)
    /\ UNCHANGED <<fragVars, term, link, toTerm, broken, upsets>>

\* A write the link took with it is never answered; reconnect() follows.
\* What is pending stays pending.
OnDisconnected ==
    /\ TellPhone("disconnected")
    /\ LET p == [phone EXCEPT !.gatt = "idle", !.chars = FALSE, !.target = FALSE,
                              !.bgPending = FALSE, !.seeking = FALSE, !.connected = FALSE]
       IN  Reconnecting(p)
    /\ slot' = "free"
    /\ UNCHANGED <<pending, nextId, termFragVars, offered, newest, term, broken, upsets>>

\* The terminal answers discovery once its host has seen the connection.
Discovering == phone.seeking /\ link /\ term.connected /\ toTerm = <<>> /\ toPhone = <<>>

\* onServicesDiscovered with Android's stale table: once per connection.
RefreshCache ==
    /\ Discovering /\ ~phone.refreshed
    /\ phone' = [phone EXCEPT !.refreshed = TRUE]
    /\ UNCHANGED <<fragVars, term, link, toPhone, toTerm, broken, upsets>>

\* ... and with a good one: the call action's CCCD write, if it starts, holds
\* the slot; the service hears, stops its scan and publishes.
Discovered ==
    /\ Discovering
    /\ phone' = [StopScan(phone) EXCEPT !.seeking = FALSE, !.chars = TRUE, !.connected = TRUE]
    /\ slot' \in {"free", "other"}
    /\ Offer("nav")
    /\ UNCHANGED <<air, termFragVars, hurt, term, link, toPhone, toTerm, broken, upsets>>

\* ... and with none: the link stays, of no use.
DiscoveryFailed ==
    /\ Discovering /\ Upset
    /\ phone' = [phone EXCEPT !.seeking = FALSE]
    /\ broken' = TRUE
    /\ UNCHANGED <<fragVars, term, link, toPhone, toTerm>>

\* onDestroy, or the process killed: the next instance has a new client.
Destroy ==
    /\ phone.up /\ Upset
    /\ phone' = FreshPhone(phone.saved, phone.bond)
    /\ toPhone' = <<>>
    /\ CutByPhone
    /\ pending' = <<>> /\ nextId' = 0 /\ slot' = "free"
    /\ UNCHANGED <<termFragVars, offered, newest, term, broken>>

-----------------------------------------------------------------------------
(* The phone: packets.                                                      *)

\* publish() and a call event: only the first asks whether there is a link.
OfferPacket(k) ==
    /\ phone.up /\ offered < MaxOffers
    /\ k = "nav" => phone.connected
    /\ Offer(k)
    /\ UNCHANGED <<slot, air, termFragVars, hurt, linkVars>>

PumpFrame == phone.chars /\ link /\ WriteHead /\ UNCHANGED linkVars
PumpNothing == phone.gatt # "none" /\ ~phone.chars /\ DropCallHead /\ UNCHANGED linkVars
WriteAnswered == link /\ WriteDone /\ UNCHANGED linkVars

-----------------------------------------------------------------------------
(* The terminal.                                                            *)

\* start_advertising, when it works.
Advertised(t) ==
    IF t.connected THEN t ELSE [t EXCEPT !.adv = IF t.slow THEN "slow" ELSE "fast"]

\* The running advert is stopped first; a payload or a start that fails leaves
\* none, and nobody calls again.
Advertising(t) ==
    \/ term' = Advertised(t) /\ UNCHANGED <<broken, upsets>>
    \/ ~t.connected /\ Upset /\ term' = [t EXCEPT !.adv = "off"] /\ broken' = TRUE

\* on_sync after a power cut; s_adv_slow is as at boot.
PowerOn ==
    /\ ~term.power
    /\ Advertising([NoTerm EXCEPT !.power = TRUE])
    /\ UNCHANGED <<fragVars, phone, link, toPhone, toTerm>>

\* BLE_GAP_EVENT_ADV_COMPLETE: the fast burst is over.
AdvComplete ==
    /\ term.adv = "fast"
    /\ Advertising([term EXCEPT !.slow = TRUE])
    /\ UNCHANGED <<fragVars, phone, link, toPhone, toTerm>>

TellTerm(what) == toTerm # <<>> /\ Head(toTerm) = what /\ toTerm' = Tail(toTerm)

\* BLE_GAP_EVENT_CONNECT: what was reassembled on the link before is dropped.
GapConnect ==
    /\ TellTerm("connect")
    /\ term' = [term EXCEPT !.connected = TRUE]
    /\ reasm' = [k \in Kind |-> NoPartial]
    /\ hurt' = hurt \cup UNION {Range(reasm[k].have) : k \in Kind}
    /\ UNCHANGED <<phoneFragVars, air, offered, newest, heard, torn,
                   phone, link, toPhone, broken, upsets>>

\* ... with a status: the advert has stopped, and starts at the rate it had.
GapConnectFailed ==
    /\ TellTerm("failed")
    /\ Advertising(term)
    /\ UNCHANGED <<fragVars, phone, link, toPhone>>

\* BLE_GAP_EVENT_DISCONNECT.
Gone(t) == [t EXCEPT !.connected = FALSE, !.slow = FALSE]
GoneLate(t) == [t EXCEPT !.slow = FALSE]
GapDisconnect ==
    /\ TellTerm("disconnect")
    /\ Advertising(Gone(term))
    /\ UNCHANGED <<fragVars, phone, link, toPhone>>

FragmentArrives ==
    /\ link /\ toTerm = <<>>
    /\ Arrive
    /\ UNCHANGED linkVars

-----------------------------------------------------------------------------
(* The radios and the world.                                                *)

Waiting == phone.gatt \in {"parked", "dialing"} /\ ~link /\ toPhone = <<>>

\* The advert ends with the connection.
Meet ==
    /\ Waiting /\ term.adv # "off"
    /\ link' = TRUE
    /\ toPhone' = <<"connected">>
    /\ toTerm' = Append(toTerm, "connect")
    /\ term' = [term EXCEPT !.adv = "off"]
    /\ UNCHANGED <<fragVars, phone, broken, upsets>>

\* The terminal's half of a connection that comes to nothing.
MeetFails ==
    /\ Waiting /\ term.adv # "off" /\ Upset
    /\ toTerm' = Append(toTerm, "failed")
    /\ term' = [term EXCEPT !.adv = "off"]
    /\ UNCHANGED <<fragVars, phone, link, toPhone, broken>>

\* A direct connect gives up after its timeout; a parked one never does.
DialFails ==
    /\ Waiting /\ phone.gatt = "dialing"
    /\ toPhone' = <<"disconnected">>
    /\ UNCHANGED <<fragVars, phone, term, link, toTerm, broken, upsets>>

Cut ==
    /\ link' = FALSE
    /\ toPhone' = IF link THEN Append(toPhone, "disconnected") ELSE toPhone
    /\ AirLost

DropLink ==
    /\ link /\ Upset
    /\ Cut
    /\ toTerm' = Append(toTerm, "disconnect")
    /\ UnchangedButAir
    /\ UNCHANGED <<phone, term, broken>>

PowerCut ==
    /\ term.power /\ Upset
    /\ Cut
    /\ term' = NoTerm /\ toTerm' = <<>>
    /\ reasm' = [k \in Kind |-> NoPartial]
    /\ UNCHANGED <<phoneFragVars, offered, newest, heard, torn, phone, broken>>

\* The rider removes the terminal from the phone's Bluetooth settings.
Forget ==
    /\ phone.bond = "bonded" /\ Upset
    /\ phone' = [phone EXCEPT !.bond = "none"]
    /\ Cut
    /\ toTerm' = IF link THEN Append(toTerm, "disconnect") ELSE toTerm
    /\ UnchangedButAir
    /\ UNCHANGED <<term, broken>>

FragmentLost ==
    /\ link /\ Upset
    /\ LoseHead
    /\ UNCHANGED <<phone, term, link, toPhone, toTerm, broken>>

-----------------------------------------------------------------------------
Calls ==
    \/ OnConnected \/ OnDisconnected \/ RefreshCache \/ Discovered
    \/ ScanResult \/ Bonded
Traffic == PumpFrame \/ PumpNothing \/ WriteAnswered \/ FragmentArrives
Gap == PowerOn \/ AdvComplete \/ GapConnect \/ GapConnectFailed \/ GapDisconnect
World ==
    \/ StartAppeared \/ ScanFailed \/ BondFailed \/ DiscoveryFailed \/ Destroy
    \/ MeetFails \/ DialFails \/ DropLink \/ PowerCut \/ Forget \/ FragmentLost
    \/ \E k \in Kind : OfferPacket(k)

Next == Calls \/ Traffic \/ Gap \/ Start \/ Meet \/ World

\* A scan is only counted on for the first connection, with the rider at the
\* phone: later ones were found suspended for hours.
Fairness ==
    /\ WF_vars(OnConnected) /\ WF_vars(OnDisconnected) /\ WF_vars(Discovered)
    /\ WF_vars(ScanResult /\ ~phone.saved) /\ WF_vars(Bonded)
    /\ WF_vars(PumpFrame) /\ WF_vars(WriteAnswered) /\ WF_vars(FragmentArrives)
    /\ WF_vars(Gap)
    /\ WF_vars(Start /\ ~phone.up)
    /\ SF_vars(Meet)

Spec == Init /\ [][Next]_vars /\ Fairness

-----------------------------------------------------------------------------
Ready == link /\ phone.chars /\ term.connected /\ toPhone = <<>> /\ toTerm = <<>>

\* Whatever drops the link or restarts an end, the two are together in the end
\* and stay so, unless one of the four things failed that nobody retries.
Reconnects == <>[](Ready \/ broken)

Queued(k) == {i \in DOMAIN pending : pending[i].kind = k /\ pending[i].packet = newest[k]}

\* On a link that stays, the newest packet of a kind is delivered, however many
\* it overtook, unless a fragment of it was lost.
NewestArrives ==
    \A k \in Kind :
        (Ready /\ Cardinality(Queued(k)) = FragCount(k))
            ~> (newest[k] = heard[k] \/ newest[k] \in hurt \/ ~Ready)
=============================================================================
