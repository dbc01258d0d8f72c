---------------------------- MODULE MCTouchInput ----------------------------
(* Two slots and two tracking ids: enough for a contact that replaces       *)
(* another in its slot while a second one is down.                          *)
EXTENDS TouchInput

CONSTANTS i1, i2

MCSlots == {0, 1}
MCIds == {i1, i2}
MCOneId == {i1}
==============================================================================
