-------------------------- MODULE SettingsSaveProofs --------------------------
(***************************************************************************)
(* Proofs about SettingsSave, for every set of settings.  The properties   *)
(* are not inductive by themselves: what each step of the save has already *)
(* achieved is added, and that what processes see may reach the disk.      *)
(***************************************************************************)
EXTENDS SettingsSave, TLAPS

(* What the save has achieved when it is about to take a step. *)
Progress ==
    /\ step = "sync" => temp \in Contents /\ temp.data = settings
    /\ step = "rename" => temp = Written(settings, TRUE)
    /\ step = "syncdir" => path = Written(settings, TRUE)

(* The entry processes see may become the disk's at any time. *)
VisibleIsRecent == Load(path) \in recent

IInv == /\ TypeOK /\ FileIsWhole /\ SavedSurvives /\ UnsavedIsKnown
        /\ Progress /\ VisibleIsRecent

(* A whole file loads as what it holds, a missing one as the defaults. *)
LEMMA LoadType ==
    ASSUME NEW file \in Files
    PROVE  Load(file) \in Settings
BY SettingsAssumption DEF Load, Files, Contents

LEMMA LoadWritten ==
    ASSUME NEW v \in Settings, NEW b \in BOOLEAN
    PROVE  /\ Written(v, b) \in Contents
           /\ Written(v, b).data = v /\ Written(v, b).safe = b
           /\ Written(v, b) # NoFile
           /\ Load(Written(v, b)) = v
<1>1. /\ Written(v, b) \in Contents
      /\ Written(v, b).data = v /\ Written(v, b).safe = b
  BY DEF Written, Contents
<1>2. Written(v, b) # NoFile
  BY <1>1, SettingsAssumption
<1>3. v # Torn
  BY SettingsAssumption
<1> QED
  BY <1>1, <1>2, <1>3 DEF Load

LEMMA InitIInv == Init => IInv
<1> SUFFICES ASSUME Init PROVE IInv
  OBVIOUS
<1>1. path \in Files /\ FileIsWhole
  <2>1. CASE path = NoFile
    BY <2>1 DEF Init, Files, FileIsWhole
  <2>2. CASE path # NoFile
    <3>1. PICK v \in Settings : path = Written(v, TRUE)
      BY <2>2 DEF Init
    <3> QED
      BY <3>1, LoadWritten DEF Init, Files, FileIsWhole
  <2> QED
    BY <2>1, <2>2
<1>2. Load(path) \in Settings
  BY <1>1, LoadType
<1>3. TypeOK
  BY <1>1, <1>2 DEF Init, TypeOK, Files
<1> QED
  BY <1>1, <1>3 DEF Init, IInv, SavedSurvives, UnsavedIsKnown, Progress,
                    VisibleIsRecent

(* The panel's changes and the steps of a save before the rename. *)
LEMMA BeforeRename ==
    ASSUME IInv,
           \/ \E v \in Settings : Change(v)
           \/ Save \/ Create \/ Write \/ Sync
    PROVE  IInv'
<1> USE DEF IInv, FileIsWhole, SavedSurvives, VisibleIsRecent
<1>1. ASSUME NEW v \in Settings, Change(v) PROVE IInv'
  BY <1>1 DEF Change, TypeOK, UnsavedIsKnown, Progress, Load
<1>2. CASE Save
  BY <1>2 DEF Save, TypeOK, UnsavedIsKnown, Progress, Load
<1>3. CASE Create
  <2>1. Written(Torn, FALSE) \in Files
    BY DEF Written, Files, Contents
  <2> QED
    BY <1>3, <2>1 DEF Create, TypeOK, UnsavedIsKnown, Progress, Load
<1>4. CASE Write
  <2>1. /\ Written(settings, FALSE) \in Contents
        /\ Written(settings, FALSE).data = settings
    BY LoadWritten DEF TypeOK
  <2> QED
    BY <1>4, <2>1 DEF Write, TypeOK, UnsavedIsKnown, Progress, Load, Files
<1>5. CASE Sync
  <2>1. temp.data = settings
    BY <1>5 DEF Sync, Progress
  <2>2. Written(settings, TRUE) \in Files
    BY LoadWritten DEF TypeOK, Files
  <2> QED
    BY <1>5, <2>1, <2>2 DEF Sync, TypeOK, UnsavedIsKnown, Progress, Load
<1> QED
  BY <1>1, <1>2, <1>3, <1>4, <1>5

(* The rename and what comes after it, in the save and in the kernel. *)
LEMMA FromRename ==
    ASSUME IInv, Rename \/ SyncDirectory \/ SaveFails \/ WriteBack
    PROVE  IInv'
<1> USE DEF IInv, FileIsWhole
<1>1. CASE Rename
  <2>1. /\ path' = Written(settings, TRUE) /\ temp' = NoFile
        /\ recent' = recent \union {settings} /\ step' = "syncdir"
        /\ UNCHANGED <<settings, pending, failed, disk>>
    BY <1>1 DEF Rename, Progress
  <2>2. /\ path' \in Files /\ path' # NoFile /\ path'.safe
        /\ path'.data = settings /\ Load(path') = settings
    BY <2>1, LoadWritten DEF TypeOK, Files
  <2>3. TypeOK' /\ FileIsWhole'
    BY <2>1, <2>2 DEF TypeOK, Files
  <2>4. SavedSurvives' /\ VisibleIsRecent'
    BY <2>1, <2>2 DEF SavedSurvives, VisibleIsRecent, Load
  <2> QED
    BY <2>1, <2>3, <2>4 DEF UnsavedIsKnown, Progress
<1>2. CASE SyncDirectory
  <2>1. path = Written(settings, TRUE)
    BY <1>2 DEF SyncDirectory, Progress
  <2>2. Load(path) = settings
    BY <2>1, LoadWritten DEF TypeOK
  <2>3. /\ TypeOK' /\ FileIsWhole' /\ Progress'
    BY <1>2 DEF SyncDirectory, TypeOK, Progress
  <2>4. /\ Load(disk') = settings /\ Load(path') = settings
    BY <1>2, <2>2 DEF SyncDirectory
  <2> QED
    BY <1>2, <2>3, <2>4 DEF SyncDirectory, SavedSurvives, VisibleIsRecent,
                            UnsavedIsKnown, Load
<1>3. CASE SaveFails
  BY <1>3 DEF SaveFails, TypeOK, Files, SavedSurvives, VisibleIsRecent,
              UnsavedIsKnown, Progress, Load
<1>4. CASE WriteBack
  BY <1>4 DEF WriteBack, TypeOK, SavedSurvives, VisibleIsRecent,
              UnsavedIsKnown, Progress, Load
<1> QED
  BY <1>1, <1>2, <1>3, <1>4

(* A start re-reads the file, whatever the save had come to. *)
LEMMA RestartSteps ==
    ASSUME IInv, Restart \/ PowerLoss
    PROVE  IInv'
<1>1. /\ path' \in {path, disk} /\ disk' \in {path, disk}
      /\ Load(disk') \in recent' /\ Load(path') \in recent'
      /\ recent' \in SUBSET Settings
  <2>1. CASE Restart
    BY <2>1 DEF Restart, IInv, TypeOK, SavedSurvives, VisibleIsRecent, Load
  <2>2. CASE PowerLoss
    <3>1. Survivors(disk) = {disk}
      BY DEF Survivors, IInv, FileIsWhole
    <3>2. disk' = disk /\ path' = disk /\ recent' = {Load(path')}
      BY <2>2, <3>1 DEF PowerLoss
    <3>3. Load(path') \in Settings
      BY <3>2, LoadType DEF IInv, TypeOK
    <3>4. Load(disk') = Load(path')
      BY <3>2
    <3> QED
      BY <3>2, <3>3, <3>4
  <2> QED
    BY <2>1, <2>2
<1>2. path' \in Files /\ disk' \in Files /\ FileIsWhole'
  BY <1>1 DEF IInv, TypeOK, FileIsWhole
<1>3. Start
  BY DEF Restart, PowerLoss
<1>4. Load(path') \in Settings
  BY <1>2, LoadType
<1>5. TypeOK'
  BY <1>1, <1>2, <1>3, <1>4, SettingsAssumption DEF Start, TypeOK, Files
<1>6. UnsavedIsKnown' /\ Progress'
  BY <1>3 DEF Start, UnsavedIsKnown, Progress, Load
<1> QED
  BY <1>1, <1>2, <1>5, <1>6 DEF IInv, SavedSurvives, VisibleIsRecent, Load

(* The inductive invariant holds in every reachable state. *)
THEOREM SettingsInductive == Spec => []IInv
<1>1. IInv /\ [Next]_vars => IInv'
  <2> SUFFICES ASSUME IInv, [Next]_vars PROVE IInv'
    OBVIOUS
  <2>1. CASE \/ \E v \in Settings : Change(v)
             \/ Save \/ Create \/ Write \/ Sync
    BY <2>1, BeforeRename
  <2>2. CASE Rename \/ SyncDirectory \/ SaveFails \/ WriteBack
    BY <2>2, FromRename
  <2>3. CASE Restart \/ PowerLoss
    BY <2>3, RestartSteps
  <2>4. CASE UNCHANGED vars
    BY <2>4 DEF vars, IInv, TypeOK, FileIsWhole, SavedSurvives,
                UnsavedIsKnown, Progress, VisibleIsRecent, Load
  <2> QED
    BY <2>1, <2>2, <2>3, <2>4 DEF Next
<1> QED
  BY InitIInv, <1>1, PTL DEF Spec

(* Every variable of the save keeps its type: above all, what the program
   holds and what the file says are valid settings. *)
THEOREM TypeCorrect == Spec => []TypeOK
<1>1. IInv => TypeOK
  BY DEF IInv
<1> QED
  BY <1>1, SettingsInductive, PTL

(* settings_save never exposes a file that is not whole: after a power loss
   or a restart at any point the file is the old one or the new one. *)
THEOREM FileIsWholeThm == Spec => []FileIsWhole
<1>1. IInv => FileIsWhole
  BY DEF IInv
<1> QED
  BY <1>1, SettingsInductive, PTL

(* A save that reported success survives a power loss. *)
THEOREM SavedSurvivesThm == Spec => []SavedSurvives
<1>1. IInv => SavedSurvives
  BY DEF IInv
<1> QED
  BY <1>1, SettingsInductive, PTL

(* The panel never silently holds settings that the file does not. *)
THEOREM UnsavedIsKnownThm == Spec => []UnsavedIsKnown
<1>1. IInv => UnsavedIsKnown
  BY DEF IInv
<1> QED
  BY <1>1, SettingsInductive, PTL
==============================================================================
