----------------------------- MODULE MCTerminal -----------------------------
(***************************************************************************)
(* The terminal's smaller parts: the settings and the avatar, the ride's    *)
(* total and calibration, the drive log, the pages, Add friend's card, what  *)
(* goes over the air and back, what is read in a navigation's words, the     *)
(* faces of the pages, the compass and the friends on it, the arrow's route, *)
(* the radio a frame of the mesh takes, what the mesh keeps on flash and how *)
(* the terminal comes up.  They share nothing but the power, so a behaviour  *)
(* is one of theirs, the others standing still.                              *)
(***************************************************************************)
EXTENDS SettingsStore, Odometer, DriveLog, Screens, FriendCard, Codecs, Guidance,
    CallFace, DialFace, PageFaces, Compass, MeshRadio, MeshStore, Boot, ArrowRoute,
    FriendPlaces, FriendMarkers

VARIABLE part    \* which of them this behaviour is about

all == <<part, storeVars, odoVars, logVars, screenVars, friendVars, codecVars, readVars,
         faceVars, dialVars, sheetVars, compassVars, radioVars,
         keepVars, bootVars, routeVars, placeVars, markerVars>>

Init ==
    /\ part \in {"settings", "ride", "log", "pages", "card", "wire", "reading", "call", "dial", "sheets",
        "compass", "radio", "store", "boot", "arrow", "places", "markers"}
    /\ StoreInit /\ OdoInit /\ LogInit /\ CardInit /\ FaceInit /\ DialInit /\ SheetsInit
    /\ CompassInit /\ BootInit /\ RouteInit
    /\ ScreensInit /\ (part # "pages" => ride.route = "idle")
    /\ RadioInit /\ (part # "radio" => radios = {"ble"})
    /\ KeepInit /\ (part # "store" => nvsMesh = NewFlash)
    /\ PlacesInit /\ (part # "places" => fellows = Pack /\ \A r, q \in Pack : lead[r] = lead[q])
    /\ MarkersInit
    /\ part # "markers" => near = <<>> /\ course = -1 /\ ringSet = [show |-> TRUE, dot |-> FALSE]
    /\ IF part = "wire" THEN CodecsInit ELSE CodecsRest
    /\ IF part = "reading" THEN GuideInit ELSE GuideRest

\* Every part but p stands still.
Only(p) ==
    /\ part = p /\ UNCHANGED part
    /\ p # "settings" => UNCHANGED storeVars
    /\ p # "ride" => UNCHANGED odoVars
    /\ p # "log" => UNCHANGED logVars
    /\ p # "pages" => UNCHANGED screenVars
    /\ p # "card" => UNCHANGED friendVars
    /\ p # "wire" => UNCHANGED codecVars
    /\ p # "reading" => UNCHANGED readVars
    /\ p # "call" => UNCHANGED faceVars
    /\ p # "dial" => UNCHANGED dialVars
    /\ p # "sheets" => UNCHANGED sheetVars
    /\ p # "compass" => UNCHANGED compassVars
    /\ p # "radio" => UNCHANGED radioVars
    /\ p # "store" => UNCHANGED keepVars
    /\ p # "boot" => UNCHANGED bootVars
    /\ p # "arrow" => UNCHANGED routeVars
    /\ p # "places" => UNCHANGED placeVars
    /\ p # "markers" => UNCHANGED markerVars

Next ==
    \/ Only("settings") /\ StoreNext
    \/ Only("ride") /\ OdoNext
    \/ Only("log") /\ LogNext
    \/ Only("pages") /\ ScreensNext
    \/ Only("card") /\ CardNext
    \/ Only("wire") /\ CodecsNext
    \/ Only("reading") /\ GuideNext
    \/ Only("call") /\ FaceNext
    \/ Only("dial") /\ DialNext
    \/ Only("sheets") /\ SheetsNext
    \/ Only("compass") /\ CompassNext
    \/ Only("radio") /\ RadioNext
    \/ Only("store") /\ KeepNext
    \/ Only("boot") /\ BootNext
    \/ Only("arrow") /\ RouteNext
    \/ Only("places") /\ PlacesNext
    \/ Only("markers") /\ MarkersNext

\* countdown_task, gui_task and mesh_task are never starved for good, and the
\* host task finishes what it is doing; a write fails as often as its bound
\* allows.  Animations and timers end.
StoreFairness ==
    /\ WF_storeVars(part = "settings" /\ (CountdownStep \/ WriteSettings))
    /\ WF_storeVars(part = "settings" /\ TellAvatar)
    /\ WF_storeVars(part = "settings" /\ (TestAvatar \/ ClearThenRead))
GuiFairness ==
    /\ WF_screenVars(part = "pages" /\ FinishPass)
    /\ WF_screenVars(part = "pages" /\ MeshPass)
    /\ WF_screenVars(part = "pages" /\ Draw)
    /\ WF_screenVars(part = "pages" /\ Timers)
FaceFairness ==
    /\ WF_faceVars(part = "call" /\ (CallMoves \/ EnterCall))
    /\ WF_dialVars(part = "dial" /\ (DialMoves \/ FirstDraw))
    /\ WF_sheetVars(part = "sheets" /\ SheetMoves)

Spec == Init /\ [][Next]_all /\ StoreFairness /\ GuiFairness /\ FaceFairness

\* What the flash keeps of the rider's: the settings, the ride, the log of it, friends and identity.
FlashKept == MixtureIsTemporary /\ RideKept /\ LogKept /\ StoredAsHeld

\* The compass shows friends where they are, and who they are.
FriendsTrue == PlacesTrue /\ MarkersTrue

\* What a hold does it does for what was held: on the card and on a call.
HoldsMeant == CardHolds /\ AcceptHeld

\* Once nothing more is asked of them the pages come to rest: the call's, the
\* dial and the others are up or gone, whole, and show what is the case.
FacesSettle == <>[](CallSettled /\ DialSettled /\ (part = "sheets" => SheetsSettled))
=============================================================================
