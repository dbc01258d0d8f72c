-------------------------------- MODULE MCReboot -------------------------------
(* Three settings: the default one, an older one on the disk, a newer one.  *)
EXTENDS Reboot

CONSTANTS v1, v2, v3

MCSettings == {v1, v2, v3}
==============================================================================
