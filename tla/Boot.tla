-------------------------------- MODULE Boot --------------------------------
(***************************************************************************)
(* How the terminal comes up, main.c's app_main, and what its tasks share    *)
(* from then on: gui_task brings up the panel while app_main brings up the   *)
(* rest, the NimBLE host calls back from the end of ble_link_init, and the    *)
(* tasks hand the view on under view_mutex, which countdown_task holds while *)
(* it waits for the mesh's mutex.                                            *)
(*                                                                          *)
(* Time goes by in passes of gui_task.  On a board with one core or two: a   *)
(* task goes on at any time, and a reset may come at any step.               *)
(***************************************************************************)
EXTENDS Integers, Sequences

CONSTANTS
    WaitRounds,  \* app_main's 2 s, in rounds of its wait
    SplashPasses,\* kSplashMinMs, in passes of gui_task
    SavePasses,  \* bound: passes of gui_task one save of the friends holds the mesh's mutex for
    MaxResets    \* bound

\* The three mutexed calls of fill_mesh_view: prompt, candidates, friends in range.
MeshCalls == 3

ASSUME BootAssumption ==
    /\ {WaitRounds, SplashPasses, SavePasses, MaxResets} \subseteq Nat
    /\ SplashPasses > MeshCalls * SavePasses

VARIABLES
    bootStep,    \* what app_main does next: an index of Order
    mainWaited,      \* rounds of its wait
    guiStep,     \* what gui_task does next, or "none" before it is created
    displayed,   \* s_display_ready
    panel,       \* what its memory holds, whether its output is on, its backlight
    counting,    \* countdown_task: "asleep", "awake", or "calling", view_mutex held
    calls,       \* the calls of fill_mesh_view it has still to make
    saving,      \* passes of gui_task the mesh task's save still takes, its mutex held
    mayCut,      \* countdown_task is not waiting for that mutex yet
    frame,       \* gui_task's copy of the view: how many passes old, or Junk
    drawn,       \* passes since gui_app_init, up to the splash's
    bootResets   \* resets so far

bootVars == <<bootStep, mainWaited, guiStep, displayed, panel, counting, calls, saving, mayCut, frame, drawn, bootResets>>

Junk == -1

-----------------------------------------------------------------------------
(* app_main.                                                                *)

BleFirst == <<"dark", "state", "nvs", "settings", "queues", "log", "gui", "ble", "mesh", "apple",
              "wait", "meshTask", "stores", "countdown">>
Order == <<"dark", "state", "nvs", "settings", "queues", "log", "gui", "mesh", "apple", "ble",
           "wait", "meshTask", "stores", "countdown">>

Up(what) == \E i \in 1 .. bootStep - 1 : Order[i] = what
Booting(what) == bootStep <= Len(Order) /\ Order[bootStep] = what

BootInit ==
    /\ bootStep = 1 /\ mainWaited = 0 /\ guiStep = "none" /\ displayed = FALSE
    /\ panel = [holds |-> "noise", on |-> FALSE, light |-> "floating"]
    /\ counting = "asleep" /\ calls = 0 /\ saving = 0 /\ mayCut = TRUE /\ frame = Junk /\ drawn = 0
    /\ bootResets = 0

\* display_driver_hold_dark, before anything else.
HoldDark ==
    /\ Booting("dark")
    /\ bootStep' = bootStep + 1
    /\ panel' = [panel EXCEPT !.light = "off"]
    /\ UNCHANGED <<mainWaited, guiStep, displayed, counting, calls, saving, mayCut, frame, drawn, bootResets>>

BringsUp ==
    /\ bootStep <= Len(Order) /\ Order[bootStep] \notin {"dark", "wait"}
    /\ bootStep' = bootStep + 1
    /\ guiStep' = IF Booting("gui") THEN "display" ELSE guiStep
    /\ counting' = IF Booting("countdown") THEN "awake" ELSE counting
    /\ UNCHANGED <<mainWaited, displayed, panel, calls, saving, mayCut, frame, drawn, bootResets>>

\* The stacks of the other tasks wait for the display's buffers, so long.
NoPatience == TRUE
WaitOver == displayed \/ mainWaited = WaitRounds
WaitsForDisplay ==
    /\ Booting("wait")
    /\ IF WaitOver THEN bootStep' = bootStep + 1 /\ UNCHANGED mainWaited
       ELSE mainWaited' = mainWaited + 1 /\ UNCHANGED bootStep
    /\ UNCHANGED <<guiStep, displayed, panel, counting, calls, saving, mayCut, frame, drawn, bootResets>>

-----------------------------------------------------------------------------
(* gui_task.                                                                *)

Goes(from, to) == guiStep = from /\ guiStep' = to

\* display_driver_init: the output off, the buffers, of which there may be
\* too little left once other stacks have been cut from the heap.
DisplayUp ==
    /\ Goes("display", "paint")
    /\ panel' = [panel EXCEPT !.on = FALSE, !.light = "off"]
    /\ displayed' = TRUE
    /\ UNCHANGED <<bootStep, mainWaited, counting, calls, saving, mayCut, frame, drawn, bootResets>>

\* The touch panel, the avatar and the splash; lv_refr_now returns once all
\* of it has been transferred.
PaintSplash ==
    /\ Goes("paint", "light")
    /\ panel' = [panel EXCEPT !.holds = "logo"]
    /\ UNCHANGED <<bootStep, mainWaited, displayed, counting, calls, saving, mayCut, frame, drawn, bootResets>>
LightUp ==
    /\ Goes("light", "pass")
    /\ panel' = [panel EXCEPT !.on = TRUE, !.light = "on"]
    /\ UNCHANGED <<bootStep, mainWaited, displayed, counting, calls, saving, mayCut, frame, drawn, bootResets>>

\* What a pass's time does for the others: a save goes on, a sleep ends.
TimeGoesBy ==
    /\ saving' = IF saving > 0 THEN saving - 1 ELSE 0
    /\ counting' = IF counting = "asleep" /\ Up("countdown") THEN "awake" ELSE counting
StillStarting ==
    /\ guiStep # "pass"
    /\ TimeGoesBy
    /\ UNCHANGED <<bootStep, mainWaited, guiStep, displayed, panel, calls, mayCut, frame, drawn, bootResets>>

ViewHeld == counting = "calling"
\* A pass: the snapshot, or 10 ms for nothing and what the last pass left in
\* the frame; the page; and time for everybody else.  Only a wait for the
\* mesh's mutex keeps countdown_task from letting go within those 10 ms.
GuiPass ==
    /\ guiStep = "pass"
    /\ ViewHeld => saving > 0
    /\ frame' = IF ~ViewHeld THEN 0 ELSE IF frame = Junk THEN Junk ELSE frame + 1
    /\ panel' = [panel EXCEPT !.holds = "pages"]
    /\ drawn' = IF drawn < SplashPasses THEN drawn + 1 ELSE drawn
    /\ TimeGoesBy
    /\ UNCHANGED <<bootStep, mainWaited, guiStep, displayed, calls, mayCut, bootResets>>

-----------------------------------------------------------------------------
(* countdown_task and mesh_task.                                            *)

TakesView ==
    /\ counting = "awake"
    /\ counting' = "calling" /\ calls' = MeshCalls
    /\ mayCut' = (saving = 0)
    /\ UNCHANGED <<bootStep, mainWaited, guiStep, displayed, panel, saving, frame, drawn, bootResets>>
\* Its pass done it sleeps, for several of gui_task's.
DoneAtOnce == "awake"
PassDone == "asleep"
AsksMesh ==
    /\ ViewHeld /\ saving = 0
    /\ calls' = calls - 1
    /\ counting' = IF calls = 1 THEN PassDone ELSE counting
    /\ mayCut' = TRUE
    /\ UNCHANGED <<bootStep, mainWaited, guiStep, displayed, panel, saving, frame, drawn, bootResets>>
\* Who waits for the mutex has it next: a second save comes after its call.
MeshSaves ==
    /\ Up("meshTask") /\ saving = 0 /\ (ViewHeld => mayCut)
    /\ saving' \in 1 .. SavePasses
    /\ mayCut' = FALSE
    /\ UNCHANGED <<bootStep, mainWaited, guiStep, displayed, panel, counting, calls, frame, drawn, bootResets>>

\* A reset, by hand, by a watchdog or by an ESP_ERROR_CHECK.  The panel keeps
\* its power, its memory and its output; the pin of the backlight floats.
ResetTerminal ==
    /\ bootResets < MaxResets
    /\ bootResets' = bootResets + 1
    /\ bootStep' = 1 /\ mainWaited' = 0 /\ guiStep' = "none" /\ displayed' = FALSE
    /\ panel' = [holds |-> IF panel.holds = "noise" THEN "noise" ELSE "old", on |-> panel.on, light |-> "floating"]
    /\ counting' = "asleep" /\ calls' = 0 /\ saving' = 0 /\ mayCut' = TRUE /\ frame' = Junk /\ drawn' = 0

BootNext ==
    \/ HoldDark \/ BringsUp \/ WaitsForDisplay \/ DisplayUp \/ PaintSplash \/ LightUp \/ GuiPass \/ StillStarting
    \/ TakesView \/ AsksMesh \/ MeshSaves \/ ResetTerminal

-----------------------------------------------------------------------------
(* Who uses what.                                                           *)

\* The access callbacks of s_gatt_svcs and the events of gap_event_cb, on the
\* host task.
Characteristics ==
    [nav |-> {"queues", "log"}, callEvent |-> {"queues"}, settings |-> {"settings", "nvs"}, info |-> {"state"},
     avatar |-> {"nvs"}, identity |-> {"mesh", "nvs"}, friends |-> {"mesh"}]
GapEvents ==
    [connect |-> {"apple", "log"}, mtu |-> {"log"}, encryption |-> {"apple"}, notify |-> {"apple", "queues"},
     pairing |-> {"nvs"}]
HostUses ==
    (UNION {Characteristics[c] : c \in DOMAIN Characteristics}) \cup (UNION {GapEvents[e] : e \in DOMAIN GapEvents})
GuiUses == {"settings", "nvs", "queues"}
CountdownUses == {"queues", "settings", "log", "stores", "mesh", "apple", "ble"}
MeshUses == {"mesh", "settings", "ble"}

\* Nobody runs before what he uses is there; the panel is lit only with this boot's own
\* picture whole in its memory; no other task's stack is cut from the heap before the
\* display's buffers but when the wait has run out; and what gui_task routes by, once the
\* splash is over, has been copied, no longer ago than the saves of one hold of the view.
BroughtUp ==
    /\ guiStep # "none" => \A x \in GuiUses : Up(x)
    /\ Up("ble") => \A x \in HostUses : Up(x)
    /\ Up("meshTask") => \A x \in MeshUses : Up(x)
    /\ Up("countdown") => \A x \in CountdownUses : Up(x)
    /\ panel.light = "on" => panel.holds \in {"logo", "pages"}
    /\ Up("meshTask") /\ ~displayed => mainWaited = WaitRounds
    /\ drawn = SplashPasses => frame # Junk /\ frame <= MeshCalls * SavePasses
=============================================================================
