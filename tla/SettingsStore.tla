--------------------------- MODULE SettingsStore ---------------------------
(***************************************************************************)
(* The rider's settings and avatar on the terminal: written by the phone on *)
(* the NimBLE host task, applied and saved by countdown_task, which the host *)
(* task preempts between any two of its steps, and the avatar drawn by the  *)
(* GUI task.  NVS survives a power cut; nothing else does.                  *)
(*                                                                          *)
(* The settings are two fields, a colour and a choice: what a field holds is *)
(* the number of the write that set it, so a mixture of two writes shows.   *)
(***************************************************************************)
EXTENDS Naturals, Sequences

CONSTANTS
    QuietTicks,  \* SETTINGS_STORE_QUIET_MS, in passes of countdown_task
    MaxSets,     \* bound: settings writes by the phone
    MaxAvatars,  \* bound: avatar uploads and erasures
    MaxFlaws     \* bound: failed NVS writes and power cuts

ASSUME SettingsAssumption == {QuietTicks, MaxSets, MaxAvatars, MaxFlaws} \subseteq Nat

VARIABLES
    current,     \* s_current
    generation,  \* s_generation, counted over all boots here
    saved,       \* s_saved_generation
    seen,        \* s_seen_generation
    quiet,       \* passes since s_seen_ms, up to QuietTicks
    applied,     \* what the pipeline was given; applied_generation
    task,        \* countdown_task: where it is, the generation and bytes it holds
    nvs,         \* the blobs "tlv" and "avatar"
    changed,     \* avatar_store's s_changed
    storing,     \* the host task has committed an avatar and not said so yet
    gui,         \* the GUI task: "idle", "taken" or "reading"; what it shows
    flaws        \* failed writes and power cuts so far

settingsVars == <<current, generation, saved, seen, quiet, applied, task>>
avatarVars == <<changed, storing, gui>>
storeVars == <<settingsVars, avatarVars, nvs, flaws>>

Field == {"accent", "choice"}
Defaults == [f \in Field |-> 0]

\* settings_store_load: an unreadable blob would give the defaults.
Loaded(blob) ==
    /\ current' = blob
    /\ saved' = generation' /\ seen' = generation'
    /\ quiet' = 0
    /\ task' = [at |-> "apply", gen |-> generation', buf |-> Defaults]

StoreInit ==
    /\ current = Defaults /\ generation = 1 /\ saved = 1 /\ seen = 1 /\ quiet = 0
    /\ applied = [gen |-> 0, of |-> Defaults]
    /\ task = [at |-> "apply", gen |-> 1, buf |-> Defaults]
    /\ nvs = [tlv |-> Defaults, avatar |-> 0]
    /\ changed = FALSE /\ storing = FALSE
    /\ gui = [at |-> "idle", shows |-> 0]
    /\ flaws = 0

-----------------------------------------------------------------------------
(* The host task.                                                           *)

\* settings_access_cb and settings_set: a write names some fields and keeps
\* the others.  The phone sends its settings as several such writes.
SetSettings(fields) ==
    /\ generation <= MaxSets
    /\ current' = [f \in Field |-> IF f \in fields THEN generation ELSE current[f]]
    /\ generation' = generation + 1
    /\ UNCHANGED <<saved, seen, quiet, applied, task, avatarVars, nvs, flaws>>

\* write() in avatar_store.c commits first ...
StoreAvatar ==
    /\ ~storing /\ nvs.avatar < MaxAvatars
    /\ nvs' = [nvs EXCEPT !.avatar = @ + 1]
    /\ storing' = TRUE
    /\ UNCHANGED <<settingsVars, changed, gui, flaws>>

\* ... and then tells the GUI.
TellAvatar ==
    /\ storing
    /\ changed' = TRUE /\ storing' = FALSE
    /\ UNCHANGED <<settingsVars, gui, nvs, flaws>>

-----------------------------------------------------------------------------
(* countdown_task.                                                          *)

At(where) == task.at = where
Goto(where) == task' = [task EXCEPT !.at = where]

\* apply_pipeline_settings: the generation first, the settings after it.
ApplyGeneration ==
    /\ At("apply")
    /\ IF generation = applied.gen
       THEN Goto("check") /\ UNCHANGED applied
       ELSE Goto("read") /\ applied' = [applied EXCEPT !.gen = generation]
    /\ UNCHANGED <<current, generation, saved, seen, quiet, avatarVars, nvs, flaws>>

ApplySettings ==
    /\ At("read")
    /\ applied' = [applied EXCEPT !.of = current]
    /\ Goto("check")
    /\ UNCHANGED <<current, generation, saved, seen, quiet, avatarVars, nvs, flaws>>

\* settings_store_maybe_save, before it encodes.
CheckSave ==
    /\ At("check")
    /\ \/ generation = saved /\ Goto("apply") /\ UNCHANGED <<seen, quiet>>
       \/ generation # saved /\ generation # seen
          /\ seen' = generation /\ quiet' = 0 /\ Goto("apply")
       \/ generation # saved /\ generation = seen /\ quiet < QuietTicks
          /\ quiet' = quiet + 1 /\ Goto("apply") /\ UNCHANGED seen
       \/ generation # saved /\ generation = seen /\ quiet = QuietTicks
          /\ task' = [at |-> "encode", gen |-> generation, buf |-> [Defaults EXCEPT !["accent"] = current["accent"]]]
          /\ UNCHANGED <<seen, quiet>>
    /\ UNCHANGED <<current, generation, saved, applied, avatarVars, nvs, flaws>>

EncodeRest ==
    /\ At("encode")
    /\ task' = [task EXCEPT !.at = "write", !.buf["choice"] = current["choice"]]
    /\ UNCHANGED <<current, generation, saved, seen, quiet, applied, avatarVars, nvs, flaws>>

\* What counts as saved: what was newest before the encoder read anything.
SavedNow(gen) == generation
Saved(gen) == gen

WriteSettings ==
    /\ At("write")
    /\ nvs' = [nvs EXCEPT !.tlv = task.buf]
    /\ saved' = Saved(task.gen)
    /\ Goto("apply")
    /\ UNCHANGED <<current, generation, seen, quiet, applied, avatarVars, flaws>>

\* Tried again after another quiet period.
WriteFails ==
    /\ At("write") /\ flaws < MaxFlaws
    /\ flaws' = flaws + 1
    /\ quiet' = 0
    /\ Goto("apply")
    /\ UNCHANGED <<current, generation, saved, seen, applied, avatarVars, nvs>>

-----------------------------------------------------------------------------
(* The GUI task.                                                            *)

\* avatar_store_take_changed tests the flag, clears it, and gui_task then reads.
TestAvatar ==
    /\ gui.at = "idle" /\ changed
    /\ gui' = [gui EXCEPT !.at = "taken"]
    /\ UNCHANGED <<settingsVars, changed, storing, nvs, flaws>>

ClearThenRead ==
    \/ /\ gui.at = "taken"
       /\ changed' = FALSE
       /\ gui' = [gui EXCEPT !.at = "reading"]
       /\ UNCHANGED <<settingsVars, storing, nvs, flaws>>
    \/ /\ gui.at = "reading"
       /\ gui' = [at |-> "idle", shows |-> nvs.avatar]
       /\ UNCHANGED <<settingsVars, changed, storing, nvs, flaws>>

-----------------------------------------------------------------------------
\* As if only an upload made the GUI read.
RestartUnread ==
    /\ flaws < MaxFlaws /\ flaws' = flaws + 1
    /\ generation' = generation /\ Loaded(nvs.tlv)
    /\ applied' = [gen |-> 0, of |-> Defaults]
    /\ changed' = FALSE /\ storing' = FALSE
    /\ gui' = [at |-> "idle", shows |-> 0]
    /\ UNCHANGED nvs
\* app_main: the settings are loaded before any task starts; gui_task reads
\* the avatar before its loop.
RestartTerminal ==
    /\ flaws < MaxFlaws
    /\ flaws' = flaws + 1
    /\ generation' = generation
    /\ Loaded(nvs.tlv)
    /\ applied' = [gen |-> 0, of |-> Defaults]
    /\ changed' = FALSE /\ storing' = FALSE
    /\ gui' = [at |-> "idle", shows |-> nvs.avatar]
    /\ UNCHANGED nvs

CountdownStep == ApplyGeneration \/ ApplySettings \/ CheckSave \/ EncodeRest
HostStep == (\E fields \in SUBSET Field \ {{}} : SetSettings(fields)) \/ StoreAvatar
StoreNext ==
    \/ CountdownStep \/ WriteSettings \/ WriteFails \/ HostStep \/ TellAvatar
    \/ TestAvatar \/ ClearThenRead \/ RestartTerminal

StoreSpec == StoreInit /\ [][StoreNext]_storeVars

-----------------------------------------------------------------------------
\* Two writes half each may reach flash, but only with another save to come.
MixtureIsTemporary ==
    nvs.tlv # current => generation # saved

\* What the phone stored last, unless the power was cut first, is in the end
\* what is saved, what the pipeline was given and what the splash shows.
StoresSettle ==
    <>[](nvs.tlv = current /\ applied.of = current /\ gui.shows = nvs.avatar)
=============================================================================
