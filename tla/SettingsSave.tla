---------------------------- MODULE SettingsSave ----------------------------
(***************************************************************************)
(* settings.c, settings_store.c and the runtime's use of them: the panel   *)
(* changes the settings in memory, a save replaces the file through a      *)
(* temporary one, and the tablet may lose power, or the program die,       *)
(* between any two system calls.                                           *)
(*                                                                         *)
(* A file is its data and whether fsync has been called since it was       *)
(* written; the directory entry exists twice, as processes see it and as   *)
(* the disk has it.  A power loss keeps the disk's entry and may tear data *)
(* that was never synced.  The save is synchronous, but each call of it is *)
(* an action.  When a save comes (Save in the panel, two seconds after a   *)
(* change, before sleep) is left open, as is when the user changes what.   *)
(* A temporary file that outlives its save is never read and not modelled. *)
(***************************************************************************)
CONSTANTS
    Settings,       \* the valid settings
    Defaults,       \* settings_defaults
    Torn,           \* contents of a file that is not wholly on the disk
    NoFile

(* The contents of files. *)
Contents == [data : Settings \union {Torn}, safe : BOOLEAN]

ASSUME SettingsAssumption ==
    /\ Defaults \in Settings /\ Torn \notin Settings
    /\ NoFile \notin Contents

VARIABLES
    settings,       \* r->settings
    pending,        \* r->settings_pending
    failed,         \* r->settings_failed
    step,           \* the next call of settings_save, or "idle"
    temp,           \* the temporary file
    path, disk,     \* what the settings' path names: now, and on the disk
    recent          \* history: what a load after a power loss may return

vars == <<settings, pending, failed, step, temp, path, disk, recent>>

Files == Contents \union {NoFile}
Written(data, safe) == [data |-> data, safe |-> safe]

(* Defect: a missing file leaves the settings unset. *)
LoadUnset(file) == IF file = NoFile THEN Torn ELSE file.data

(* settings_load: the defaults stand in for what a file does not say. *)
Load(file) ==
    IF file = NoFile \/ file.data = Torn THEN Defaults ELSE file.data

Init ==
    /\ path \in {NoFile} \union {Written(v, TRUE) : v \in Settings}
    /\ disk = path /\ temp = NoFile
    /\ settings = Load(path)
    /\ pending = FALSE /\ failed \in BOOLEAN
    /\ step = "idle"
    /\ recent = {Load(path)}

-----------------------------------------------------------------------------
(* CC_SET_BRIGHTNESS, CC_SET_AUTO, CC_SET_SLEEP_MINUTES *)
Change(v) ==
    /\ step = "idle"
    /\ settings' = v /\ pending' = TRUE
    /\ UNCHANGED <<failed, step, temp, path, disk, recent>>

(* save: without a data partition it fails at once. *)
Save ==
    /\ step = "idle"
    /\ pending' = FALSE
    /\ \/ step' = "create" /\ UNCHANGED failed
       \/ failed' = TRUE /\ UNCHANGED step
    /\ UNCHANGED <<settings, temp, path, disk, recent>>

(* mkstemp, and the first of possibly several writes. *)
Create ==
    /\ step = "create"
    /\ temp' = Written(Torn, FALSE)
    /\ step' = "write"
    /\ UNCHANGED <<settings, pending, failed, path, disk, recent>>

Write ==
    /\ step = "write"
    /\ temp' = Written(settings, FALSE)
    /\ step' = "sync"
    /\ UNCHANGED <<settings, pending, failed, path, disk, recent>>

(* Defect: the file is closed without fsync. *)
SyncOmitted ==
    /\ step = "sync"
    /\ step' = "rename"
    /\ UNCHANGED <<settings, pending, failed, temp, path, disk, recent>>

(* fsync of the file, and close. *)
Sync ==
    /\ step = "sync"
    /\ temp' = Written(temp.data, TRUE)
    /\ step' = "rename"
    /\ UNCHANGED <<settings, pending, failed, path, disk, recent>>

Rename ==
    /\ step = "rename"
    /\ path' = temp /\ temp' = NoFile
    /\ recent' = recent \union {settings}
    /\ step' = "syncdir"
    /\ UNCHANGED <<settings, pending, failed, disk>>

(* Defect: success is reported without fsync of the directory. *)
SyncDirectoryOmitted ==
    /\ step = "syncdir"
    /\ failed' = FALSE /\ recent' = {settings}
    /\ step' = "idle"
    /\ UNCHANGED <<settings, pending, temp, path, disk>>

SyncDirectory ==
    /\ step = "syncdir"
    /\ disk' = path
    /\ failed' = FALSE /\ recent' = {settings}
    /\ step' = "idle"
    /\ UNCHANGED <<settings, pending, temp, path>>

(* Defect: a failure after the last success goes unnoticed. *)
SaveFailsSilently ==
    /\ step # "idle"
    /\ temp' = NoFile
    /\ step' = "idle"
    /\ UNCHANGED <<settings, pending, failed, path, disk, recent>>

(* Any call fails: the temporary file is unlinked.  At "syncdir" the entry
   is already replaced, and may or may not reach the disk. *)
SaveFails ==
    /\ step # "idle"
    /\ temp' = NoFile
    /\ failed' = TRUE
    /\ step' = "idle"
    /\ UNCHANGED <<settings, pending, path, disk, recent>>

-----------------------------------------------------------------------------
(* The kernel writes the directory entry by itself. *)
WriteBack ==
    /\ disk # path
    /\ disk' = path
    /\ UNCHANGED <<settings, pending, failed, step, temp, path, recent>>

(* control_runtime_init: a file that cannot be read counts as failed, and
   so does one that cannot be written. *)
Start ==
    /\ \/ settings' = Load(path') /\ failed' \in BOOLEAN
       \/ settings' = Defaults /\ failed' = TRUE
    /\ pending' = FALSE /\ step' = "idle" /\ temp' = NoFile

(* The program dies and its supervisor starts it again. *)
Restart ==
    /\ UNCHANGED <<path, disk, recent>>
    /\ Start

(* What the disk's file holds when the power comes back. *)
Survivors(file) ==
    IF file = NoFile \/ file.safe THEN {file}
    ELSE {Written(file.data, TRUE), Written(Torn, TRUE)}

PowerLoss ==
    /\ disk' \in Survivors(disk) /\ path' = disk'
    /\ recent' = {Load(path')}
    /\ Start

Next ==
    \/ \E v \in Settings : Change(v)
    \/ Save \/ Create \/ Write \/ Sync \/ Rename \/ SyncDirectory \/ SaveFails
    \/ WriteBack \/ Restart \/ PowerLoss

Spec == Init /\ [][Next]_vars

-----------------------------------------------------------------------------
TypeOK ==
    /\ settings \in Settings
    /\ pending \in BOOLEAN /\ failed \in BOOLEAN
    /\ step \in {"idle", "create", "write", "sync", "rename", "syncdir"}
    /\ temp \in Files /\ path \in Files /\ disk \in Files
    /\ recent \in SUBSET Settings

(* Whenever the power fails, the file is the old one or the new one, whole:
   neither entry ever names data that was not synced. *)
FileIsWhole ==
    \A file \in {path, disk} :
        file # NoFile => file.safe /\ file.data \in Settings

(* "The replacement is durable only after its directory entry is synced"
   (settings.c:205): a save that reports success survives a power loss, and
   one that does not leaves the old or the new settings, nothing else. *)
SavedSurvives == Load(disk) \in recent

(* Settings that the file does not hold are waiting to be saved, or the
   panel says "Settings not saved". *)
UnsavedIsKnown ==
    step = "idle" /\ settings # Load(path) => pending \/ failed
==============================================================================
