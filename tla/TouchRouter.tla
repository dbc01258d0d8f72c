----------------------------- MODULE TouchRouter -----------------------------
(***************************************************************************)
(* touch_router.c: gives each contact, from its DOWN to its end, to the    *)
(* cube, to the control centre's panel or to nobody.  The operators map a  *)
(* router state and an event to the next state and to what the call        *)
(* reports; ControlInput holds the state.                                  *)
(*                                                                         *)
(* Coordinates are places on the screen: "bar" is the status bar, "handle" *)
(* the panel's handle, the other Tiles lie in the panel, "outside" is the  *)
(* rest.  A MOVE or UP says whether it is 60 px or more below ("down") or  *)
(* above ("up") where its contact began.  control_input_feed passes one    *)
(* event per call, so the 32-event output never overflows and the pending  *)
(* queue is empty between calls; it is not modelled.                       *)
(***************************************************************************)
CONSTANTS
    Slots,      \* touch slots
    NoSlot,     \* panel_primary = -1, capture_slot = -1
    Tiles       \* places inside the panel

Places == Tiles \union {"bar", "outside"}
Drags == {"none", "down", "up"}
Owners == {"NONE", "CANDIDATE", "CUBE", "PANEL", "PANEL_IGNORED"}

Contacts == [owner : Owners, opening : BOOLEAN, dismiss : BOOLEAN,
             handle : BOOLEAN, closing : BOOLEAN]

Routers == [open : BOOLEAN, primary : Slots \union {NoSlot},
            contact : [Slots -> Contacts], cube : [Slots -> BOOLEAN]]

NoContact == [owner |-> "NONE", opening |-> FALSE, dismiss |-> FALSE,
              handle |-> FALSE, closing |-> FALSE]

(* touch_router_new *)
RouterInit == [open |-> FALSE, primary |-> NoSlot,
               contact |-> [s \in Slots |-> NoContact],
               cube |-> [s \in Slots |-> FALSE]]

(* touch_router_reset: panel_open is left alone. *)
RouterReset(r) == [RouterInit EXCEPT !.open = r.open]

(* touch_router_set_panel_open *)
SetPanelOpen(r, open) == [r EXCEPT !.open = open]

(* clear_contact *)
ClearContact(r, s) ==
    [r EXCEPT !.primary = IF @ = s THEN NoSlot ELSE @,
              !.contact[s] = NoContact]

(* What one call reports: the next state, open_panel, close_panel, and
   whether the event is passed on to the panel. *)
Routed(r) == [router |-> r, open |-> FALSE, close |-> FALSE, panel |-> FALSE]

Ends(e) == e.kind \in {"UP", "CANCEL"}

(* begin_contact *)
BeginContact(r0, e) ==
    LET r == ClearContact(r0, e.slot)
        Own(owner) == [r EXCEPT !.contact[e.slot].owner = owner]
    IN  IF r.open /\ r.primary # NoSlot
        THEN Routed(Own("PANEL_IGNORED"))
        ELSE IF r.open
        THEN [Routed([r EXCEPT
                  !.primary = e.slot,
                  !.contact[e.slot] = [NoContact EXCEPT
                      !.owner = "PANEL",
                      !.dismiss = e.place \notin Tiles,
                      !.handle = (e.place = "handle")]])
              EXCEPT !.panel = TRUE]
        ELSE IF e.place = "bar"
        THEN Routed(Own("CANDIDATE"))
        ELSE Routed([Own("CUBE") EXCEPT !.cube[e.slot] = TRUE])

(* Defect: the contact that opens the panel becomes the panel's. *)
RouteCandidateHandover(r, e) ==
    IF Ends(e) THEN Routed(ClearContact(r, e.slot))
    ELSE IF e.drag = "down" /\ ~r.contact[e.slot].opening
    THEN [Routed([r EXCEPT !.open = TRUE, !.primary = e.slot,
                           !.contact[e.slot].opening = TRUE,
                           !.contact[e.slot].owner = "PANEL"])
          EXCEPT !.open = TRUE]
    ELSE Routed(r)

(* route_candidate: a drag of 60 px down from the bar opens the panel. *)
RouteCandidate(r, e) ==
    IF Ends(e) THEN Routed(ClearContact(r, e.slot))
    ELSE IF e.drag = "down" /\ ~r.contact[e.slot].opening
    THEN [Routed([r EXCEPT !.open = TRUE, !.primary = e.slot,
                           !.contact[e.slot].opening = TRUE])
          EXCEPT !.open = TRUE]
    ELSE Routed(r)

(* Defect: a cancelled contact stays with the cube. *)
RouteCubeUpOnly(r, e) ==
    IF e.kind = "UP"
    THEN Routed(ClearContact([r EXCEPT !.cube[e.slot] = FALSE], e.slot))
    ELSE Routed(r)

(* route_cube *)
RouteCube(r, e) ==
    IF Ends(e)
    THEN Routed(ClearContact([r EXCEPT !.cube[e.slot] = FALSE], e.slot))
    ELSE Routed(r)

(* route_panel: dragging the handle up, or letting go of a contact that
   began outside the panel, closes it. *)
RoutePanel(r, e) ==
    LET c == r.contact[e.slot]
        pulled == e.kind = "MOVE" /\ c.handle /\ ~c.closing /\ e.drag = "up"
    IN  [router |-> IF Ends(e) THEN ClearContact(r, e.slot)
                    ELSE IF pulled
                    THEN [r EXCEPT !.contact[e.slot].closing = TRUE]
                    ELSE r,
         open |-> FALSE,
         close |-> pulled \/ (e.kind = "UP" /\ c.dismiss),
         panel |-> TRUE]

(* route_ignored *)
RouteIgnored(r, e) ==
    Routed(IF Ends(e) THEN ClearContact(r, e.slot) ELSE r)

(* touch_router_feed of one event. *)
RouterFeed(r, e) ==
    IF e.kind = "DOWN" THEN BeginContact(r, e)
    ELSE CASE r.contact[e.slot].owner = "CANDIDATE" -> RouteCandidate(r, e)
           [] r.contact[e.slot].owner = "CUBE" -> RouteCube(r, e)
           [] r.contact[e.slot].owner = "PANEL" -> RoutePanel(r, e)
           [] r.contact[e.slot].owner = "PANEL_IGNORED" -> RouteIgnored(r, e)
           [] r.contact[e.slot].owner = "NONE" -> Routed(r)
==============================================================================
