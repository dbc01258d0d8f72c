-------------------------------- MODULE Reboot --------------------------------
(***************************************************************************)
(* reboot_target.c and reboot-loader.c over the settings of SettingsSave:  *)
(* the confirmed tap on Rescue writes a message for the boot loader to the *)
(* eMMC, call by call, and restarts the tablet; the one on Loader hands    *)
(* the process over to reboot-loader.  Main does nothing else meanwhile;   *)
(* the power may fail at any point.                                        *)
(*                                                                         *)
(* The message is one block.  Processes and the disk may see different     *)
(* blocks until it is synced.  Nothing in the tablet's system takes the    *)
(* message back: that is left to tools on the host, and not modelled.      *)
(***************************************************************************)
EXTENDS SettingsSave

VARIABLES
    call,               \* the next call of reboot_target_rescue, or "idle"
    block, diskBlock,   \* the message: as processes see it, as the eMMC has it
    reported            \* the panel's note says that no reboot came of it

rebootVars == <<call, block, diskBlock, reported>>
allVars == <<vars, rebootVars>>

(* The first boot, or one the host tools prepared. *)
RebootInit ==
    /\ Init
    /\ call = "idle"
    /\ block = "blank" /\ diskBlock = "blank"
    /\ reported = FALSE

-----------------------------------------------------------------------------
(* emmc_device: exactly one partition starts where the rescue system does,
   or there is no target. *)
Rescue ==
    /\ step = "idle" /\ call = "idle"
    /\ \/ call' = "write" /\ UNCHANGED reported
       \/ reported' = TRUE /\ UNCHANGED call
    /\ UNCHANGED <<vars, block, diskBlock>>

(* The loop of pwrite: any part of the block may be there when one fails. *)
WriteBlock ==
    /\ call = "write"
    /\ \/ block' = "message" /\ call' = "sync" /\ UNCHANGED reported
       \/ block' \in {block, "torn"} /\ call' = "idle" /\ reported' = TRUE
    /\ UNCHANGED <<vars, diskBlock>>

(* Defect: the block is not synced. *)
SyncBlockOmitted ==
    /\ call = "sync"
    /\ call' = "verify"
    /\ UNCHANGED <<vars, block, diskBlock, reported>>

SyncBlock ==
    /\ call = "sync"
    /\ \/ diskBlock' = block /\ call' = "verify" /\ UNCHANGED reported
       \/ call' = "idle" /\ reported' = TRUE /\ UNCHANGED diskBlock
    /\ UNCHANGED <<vars, block>>

(* pread, memcmp and close. *)
VerifyBlock ==
    /\ call = "verify"
    /\ \/ block = "message" /\ call' = "syncall" /\ UNCHANGED reported
       \/ call' = "idle" /\ reported' = TRUE
    /\ UNCHANGED <<vars, block, diskBlock>>

(* sync: the entries of all files, and the data of those that have any left
   to write; of the settings' only the entry. *)
SyncAll ==
    /\ call = "syncall"
    /\ disk' = path
    /\ call' = "reboot"
    /\ UNCHANGED <<settings, pending, failed, step, temp, path, recent,
                   block, diskBlock, reported>>

(* reboot does not come back unless it fails. *)
RebootFails ==
    /\ call = "reboot"
    /\ call' = "idle" /\ reported' = TRUE
    /\ UNCHANGED <<vars, block, diskBlock>>

(* The process ends, and the supervisor starts it again. *)
Dies == Restart /\ call' = "idle" /\ reported' = FALSE

(* The machine starts again, into rescue or into the system; here the system
   again, with what the disk holds. *)
Restarts ==
    /\ PowerLoss
    /\ call' = "idle" /\ reported' = FALSE
    /\ block' = diskBlock /\ UNCHANGED diskBlock

RescueReboots == call = "reboot" /\ Restarts

(* execv of reboot-loader: it may not be there; its reboot may fail, and
   then the supervisor starts the program again. *)
LoaderFails ==
    /\ step = "idle" /\ call = "idle"
    /\ reported' = TRUE
    /\ UNCHANGED <<vars, call, block, diskBlock>>

Loader ==
    /\ step = "idle" /\ call = "idle"
    /\ call' = "loader"
    /\ UNCHANGED <<vars, block, diskBlock, reported>>

LoaderSyncs ==
    /\ call = "loader"
    /\ disk' = path
    /\ call' = "load"
    /\ UNCHANGED <<settings, pending, failed, step, temp, path, recent,
                   block, diskBlock, reported>>

LoaderEnds ==
    /\ call = "load"
    /\ \/ Restarts
       \/ Dies /\ UNCHANGED <<block, diskBlock>>

(* The kernel writes the block by itself. *)
WriteBackBlock ==
    /\ diskBlock' = block
    /\ UNCHANGED <<vars, call, block, reported>>

Saving ==
    \/ \E v \in Settings : Change(v)
    \/ Save \/ Create \/ Write \/ Sync \/ Rename \/ SyncDirectory \/ SaveFails

RebootNext ==
    \/ call = "idle" /\ Saving /\ UNCHANGED rebootVars
    \/ Rescue \/ WriteBlock \/ SyncBlock \/ VerifyBlock \/ SyncAll
    \/ RescueReboots \/ RebootFails
    \/ Loader \/ LoaderFails \/ LoaderSyncs \/ LoaderEnds
    \/ WriteBack /\ UNCHANGED rebootVars
    \/ WriteBackBlock
    \/ Dies /\ UNCHANGED <<block, diskBlock>>
    \/ Restarts

RebootSpec == RebootInit /\ [][RebootNext]_allVars

-----------------------------------------------------------------------------
(* "the BCB descriptor was fsynced; the mounted /data was not"
   (reboot_target.c:126): when the tablet is told to restart, the boot loader
   will find the whole message on the eMMC, and the next boot the settings as
   the program last saw them -- also after a save that failed half-way.  The
   loader's restart keeps the second half. *)
RebootKeepsAll ==
    /\ call \in {"reboot", "load"} => disk = path
    /\ call = "reboot" => diskBlock = "message"
=============================================================================
