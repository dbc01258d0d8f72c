--------------------------- MODULE MCControlRuntime ---------------------------
(* Two levels, and a stored one above them; a timer of one minute, and none.*)
EXTENDS ControlRuntime

MCStored == {10}
MCTimers == {0, 1}
===============================================================================
