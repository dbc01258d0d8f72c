---------------------------- MODULE MCPowerPolicy ----------------------------
(* One supply and the battery; a draining and a gaining current, of which   *)
(* three can average to a drain, to a gain, or to neither.  A maximum that  *)
(* is no multiple of a step above the floor, as 255 is not.                 *)
EXTENDS PowerPolicy

CONSTANT usb

MCSources == {usb}
MCCurrents == {-60, 110}
==============================================================================
