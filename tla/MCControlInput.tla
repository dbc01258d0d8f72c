--------------------------- MODULE MCControlInput ---------------------------
(* Two contacts at once, and as many ticks as tell a short press from a     *)
(* long one and a confirmation in time from one that is late.               *)
EXTENDS ControlInput, TLC

CONSTANTS s1, s2

MCSlots == {s1, s2}
MCSlot == {s1}
MCLevels == {8, 9}
MCLevel == {8}
MCMinutes == {0, 5}

(* The tiles that reboot, and the handle that closes. *)
RebootingTiles == {"handle", "rescue", "loader"}
NoTimers == <<>>

(* The tiles that change a setting. *)
SettingTiles == {"bright", "auto", "off", "wifi", "never"}
OneTimer == [t \in {"never"} |-> 0]

SlotSymmetry == Permutations(MCSlots)
==============================================================================
