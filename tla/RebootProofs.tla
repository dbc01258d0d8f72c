----------------------------- MODULE RebootProofs -----------------------------
(***************************************************************************)
(* Proofs about Reboot, for every set of settings.  The calls of a reboot  *)
(* do to the settings' file only what the kernel or a failure may do to it *)
(* at any time, so that Reboot implements SettingsSave and inherits its    *)
(* properties; what is left to prove is what the calls have achieved, each *)
(* by the time the next one is made.                                       *)
(***************************************************************************)
EXTENDS Reboot, SettingsSaveProofs

Blocks == {"blank", "torn", "message"}

RebootTypeOK ==
    /\ call \in {"idle", "write", "sync", "verify", "syncall", "reboot",
                 "loader", "load"}
    /\ block \in Blocks /\ diskBlock \in Blocks
    /\ reported \in BOOLEAN

(* What the calls before the next one have achieved: the block that is
   compared is on the eMMC, the one that was compared is the message. *)
CallProgress ==
    /\ call \in {"verify", "syncall", "reboot"} => diskBlock = block
    /\ call \in {"syncall", "reboot"} => block = "message"

RebootIInv == RebootTypeOK /\ CallProgress /\ RebootKeepsAll

-----------------------------------------------------------------------------
(* sync writes the settings' entry as the kernel does by itself, or has
   nothing to write. *)
LEMMA SyncIsWriteBack ==
    ASSUME SyncAll \/ LoaderSyncs
    PROVE  [Next]_vars
<1>1. /\ disk' = path
      /\ UNCHANGED <<settings, pending, failed, step, temp, path, recent>>
  BY DEF SyncAll, LoaderSyncs
<1>2. CASE disk = path
  BY <1>1, <1>2 DEF vars
<1>3. CASE disk # path
  BY <1>1, <1>3 DEF WriteBack, Next
<1> QED
  BY <1>2, <1>3

(* Every step of a reboot is a step of the save, or leaves it alone. *)
LEMMA RebootStepSaves ==
    ASSUME [RebootNext]_allVars
    PROVE  [Next]_vars
<1>1. CASE call = "idle" /\ Saving /\ UNCHANGED rebootVars
  BY <1>1 DEF Saving, Next
<1>2. CASE \/ Rescue \/ WriteBlock \/ SyncBlock \/ VerifyBlock
           \/ RebootFails \/ Loader \/ LoaderFails \/ WriteBackBlock
  BY <1>2 DEF Rescue, WriteBlock, SyncBlock, VerifyBlock, RebootFails, Loader,
              LoaderFails, WriteBackBlock
<1>3. CASE SyncAll \/ LoaderSyncs
  BY <1>3, SyncIsWriteBack
<1>4. CASE RescueReboots \/ Restarts
  BY <1>4 DEF RescueReboots, Restarts, Next
<1>5. CASE LoaderEnds
  BY <1>5 DEF LoaderEnds, Restarts, Dies, Next
<1>6. CASE WriteBack \/ Dies
  BY <1>6 DEF Dies, Next
<1>7. CASE UNCHANGED allVars
  BY <1>7 DEF allVars
<1> QED
  BY <1>1, <1>2, <1>3, <1>4, <1>5, <1>6, <1>7 DEF RebootNext

(* The reboots implement the save of the settings: with them, too, nothing
   happens to the file that SettingsSave does not allow. *)
THEOREM RebootImplementsSave == RebootSpec => Spec
<1>1. RebootInit => Init
  BY DEF RebootInit
<1>2. [RebootNext]_allVars => [Next]_vars
  BY RebootStepSaves
<1> QED
  BY <1>1, <1>2, PTL DEF RebootSpec, Spec

-----------------------------------------------------------------------------
LEMMA InitReboot == RebootInit => RebootIInv
BY DEF RebootInit, RebootIInv, RebootTypeOK, CallProgress, RebootKeepsAll, Blocks

LEMMA RebootStep ==
    ASSUME RebootIInv, [RebootNext]_allVars
    PROVE  RebootIInv'
<1> USE DEF RebootIInv, RebootTypeOK, CallProgress, RebootKeepsAll, Blocks
<1>1. CASE call = "idle" /\ Saving /\ UNCHANGED rebootVars
  BY <1>1 DEF rebootVars
<1>2. CASE Rescue
  BY <1>2 DEF Rescue, vars
<1>3. CASE WriteBlock
  BY <1>3 DEF WriteBlock, vars
<1>4. CASE SyncBlock
  BY <1>4 DEF SyncBlock, vars
<1>5. CASE VerifyBlock
  BY <1>5 DEF VerifyBlock, vars
<1>6. CASE SyncAll
  BY <1>6 DEF SyncAll
<1>7. CASE RebootFails
  BY <1>7 DEF RebootFails, vars
<1>8. CASE Loader \/ LoaderFails
  BY <1>8 DEF Loader, LoaderFails, vars
<1>9. CASE LoaderSyncs
  BY <1>9 DEF LoaderSyncs
<1>10. CASE WriteBack /\ UNCHANGED rebootVars
  BY <1>10 DEF WriteBack, rebootVars
<1>11. CASE WriteBackBlock
  BY <1>11 DEF WriteBackBlock, vars
<1>12. CASE \/ RescueReboots \/ LoaderEnds \/ Restarts
            \/ Dies /\ UNCHANGED <<block, diskBlock>>
  <2>1. /\ call' = "idle" /\ reported' = FALSE
        /\ block' \in {block, diskBlock} /\ diskBlock' = diskBlock
    BY <1>12 DEF RescueReboots, LoaderEnds, Restarts, Dies
  <2> QED
    BY <2>1
<1>13. CASE UNCHANGED allVars
  BY <1>13 DEF allVars, vars, rebootVars
<1> HIDE DEF RebootIInv
<1> QED
  BY <1>1, <1>2, <1>3, <1>4, <1>5, <1>6, <1>7, <1>8, <1>9, <1>10, <1>11,
     <1>12, <1>13 DEF RebootNext

THEOREM RebootInductive == RebootSpec => []RebootIInv
BY InitReboot, RebootStep, PTL DEF RebootSpec

(* When the tablet is told to restart, the boot loader will find the whole
   message on the eMMC, and the next boot the settings as the program last saw
   them: no failure and no crash in between gets past the calls' order. *)
THEOREM RebootKeepsAllThm == RebootSpec => []RebootKeepsAll
<1>1. RebootIInv => RebootKeepsAll
  BY DEF RebootIInv
<1> QED
  BY <1>1, RebootInductive, PTL

(* A reboot, and what it leaves when it fails or dies half-way, keeps what the
   save promises: a whole file, saved settings that survive a power loss,
   unsaved ones the panel knows of. *)
THEOREM RebootKeepsSettings ==
    RebootSpec => [](TypeOK /\ FileIsWhole /\ SavedSurvives /\ UnsavedIsKnown)
<1>1. IInv => TypeOK /\ FileIsWhole /\ SavedSurvives /\ UnsavedIsKnown
  BY DEF IInv
<1> QED
  BY <1>1, RebootImplementsSave, SettingsInductive, PTL
===============================================================================
