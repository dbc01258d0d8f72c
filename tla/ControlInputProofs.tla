-------------------------- MODULE ControlInputProofs --------------------------
(***************************************************************************)
(* Proofs about ControlInput, for any slots, tiles, levels and times: what *)
(* the router does with a contact, what the panel does with an event, and  *)
(* the two composed.  Added to the properties are that a panel which is    *)
(* dark slides from nowhere, and that an armed tile was tapped no longer   *)
(* ago than its confirmation thinks.                                       *)
(***************************************************************************)
EXTENDS ControlInput, SequenceTheorems, TLAPS

(* r holds the contacts d, the cube has its own, and the panel's primary
   contact belongs to the panel or is the one that opened it. *)
Tracks(r, d) ==
    /\ \A s \in Slots : d[s] <=> r.contact[s].owner # "NONE"
    /\ \A s \in Slots : r.cube[s] <=> r.contact[s].owner = "CUBE"
    /\ r.primary # NoSlot => r.contact[r.primary].owner \in {"CANDIDATE", "PANEL"}

-----------------------------------------------------------------------------
(* What an event is. *)
LEMMA EventType ==
    ASSUME NEW e \in Events
    PROVE  /\ e.kind \in {"DOWN", "MOVE", "UP", "CANCEL"}
           /\ e.slot \in Slots /\ e.place \in Places /\ e.drag \in Drags
           /\ e.level \in Levels /\ e.paint \in BOOLEAN
<1>1. PICK s \in Slots : e \in EventsOf(s)
  BY DEF Events
<1> DEFINE Event(kind, place, drag, level, paint) ==
            [kind |-> kind, slot |-> s, place |-> place, drag |-> drag,
             level |-> level, paint |-> paint]
<1>2. \/ \E place \in Places, level \in Levels :
            e = Event("DOWN", place, "none", level, FALSE)
      \/ \E drag \in Drags, level \in Levels, paint \in BOOLEAN :
            e = Event("MOVE", "outside", drag, level, paint)
      \/ \E place \in Places, drag \in {"none", "up"}, level \in Levels :
            e = Event("UP", place, drag, level, FALSE)
      \/ e = Event("CANCEL", "outside", "none", InitialLevel, FALSE)
  BY <1>1 DEF EventsOf
<1>3. "outside" \in Places /\ {"none", "up"} \subseteq Drags
  BY DEF Places, Drags
<1>4. InitialLevel \in Levels
  BY InitialAssumption
<1>5. CASE \E place \in Places, level \in Levels :
            e = Event("DOWN", place, "none", level, FALSE)
  BY <1>3, <1>5
<1>6. CASE \E drag \in Drags, level \in Levels, paint \in BOOLEAN :
            e = Event("MOVE", "outside", drag, level, paint)
  BY <1>3, <1>6
<1>7. CASE \E place \in Places, drag \in {"none", "up"}, level \in Levels :
            e = Event("UP", place, drag, level, FALSE)
  BY <1>3, <1>7
<1>8. CASE e = Event("CANCEL", "outside", "none", InitialLevel, FALSE)
  BY <1>3, <1>4, <1>8
<1> QED
  BY <1>2, <1>5, <1>6, <1>7, <1>8

(* clear_contact *)
LEMMA ClearedContact ==
    ASSUME NEW r \in Routers, NEW s \in Slots
    PROVE  LET c == ClearContact(r, s)
           IN  /\ c \in Routers
               /\ c.open = r.open /\ c.cube = r.cube
               /\ c.primary = IF r.primary = s THEN NoSlot ELSE r.primary
               /\ c.contact = [r.contact EXCEPT ![s] = NoContact]
BY DEF ClearContact, Routers, NoContact, Contacts, Owners

(* A call for slot s moves that contact alone. *)
Moved(r, n, s) ==
    /\ n \in Routers
    /\ \A t \in Slots \ {s} : n.contact[t] = r.contact[t] /\ n.cube[t] = r.cube[t]

(* A router in which the contact of slot s is c, and all others are r's. *)
Given(r, s, primary, c, cube) ==
    [open |-> r.open, primary |-> primary,
     contact |-> [r.contact EXCEPT ![s] = c],
     cube |-> [r.cube EXCEPT ![s] = cube]]

(* A contact that belongs to owner and nothing more. *)
Owned(owner) == [NoContact EXCEPT !.owner = owner]

LEMMA GivenContact ==
    ASSUME NEW r \in Routers, NEW s \in Slots, NEW c \in Contacts,
           NEW primary \in Slots \union {NoSlot}, NEW cube \in BOOLEAN
    PROVE  LET g == Given(r, s, primary, c, cube)
           IN  /\ Moved(r, g, s) /\ g.open = r.open /\ g.primary = primary
               /\ g.contact[s] = c /\ g.cube[s] = cube
BY DEF Given, Moved, Routers

(* begin_contact: the contact gets an owner, the others keep theirs. *)
LEMMA BeginCases ==
    ASSUME NEW r \in Routers, NEW e \in Events
    PROVE  LET s == e.slot
               primary == IF r.primary = s THEN NoSlot ELSE r.primary
               cube == r.cube[s]
               mine == [NoContact EXCEPT !.owner = "PANEL",
                                         !.dismiss = e.place \notin Tiles,
                                         !.handle = (e.place = "handle")]
           IN  BeginContact(r, e) =
                IF r.open /\ primary # NoSlot
                THEN Routed(Given(r, s, primary, Owned("PANEL_IGNORED"), cube))
                ELSE IF r.open
                THEN [Routed(Given(r, s, s, mine, cube)) EXCEPT !.panel = TRUE]
                ELSE IF e.place = "bar"
                THEN Routed(Given(r, s, primary, Owned("CANDIDATE"), cube))
                ELSE Routed(Given(r, s, primary, Owned("CUBE"), TRUE))
<1> DEFINE s == e.slot
           c == ClearContact(r, s)
           primary == IF r.primary = s THEN NoSlot ELSE r.primary
           cube == r.cube[s]
           mine == [NoContact EXCEPT !.owner = "PANEL",
                                     !.dismiss = e.place \notin Tiles,
                                     !.handle = (e.place = "handle")]
<1>1. s \in Slots
  BY EventType
<1>2. c = [open |-> r.open, primary |-> primary,
           contact |-> [r.contact EXCEPT ![s] = NoContact],
           cube |-> r.cube]
  <2>1. r = [open |-> r.open, primary |-> r.primary, contact |-> r.contact,
             cube |-> r.cube]
    BY DEF Routers
  <2>2. c = [r EXCEPT !.primary = primary,
                      !.contact = [r.contact EXCEPT ![s] = NoContact]]
    BY <1>1 DEF ClearContact, Routers
  <2> QED
    BY <2>1, <2>2
<1>3. BeginContact(r, e) =
        IF c.open /\ c.primary # NoSlot
        THEN Routed([c EXCEPT !.contact[s].owner = "PANEL_IGNORED"])
        ELSE IF c.open
        THEN [Routed([c EXCEPT !.primary = s, !.contact[s] = mine])
              EXCEPT !.panel = TRUE]
        ELSE IF e.place = "bar"
        THEN Routed([c EXCEPT !.contact[s].owner = "CANDIDATE"])
        ELSE Routed([[c EXCEPT !.contact[s].owner = "CUBE"]
                     EXCEPT !.cube[s] = TRUE])
  BY DEF BeginContact
<1>4. c.open = r.open /\ c.primary = primary
  BY <1>2
<1> HIDE DEF c, mine, cube, primary
<1>5. \A owner : [c EXCEPT !.contact[s].owner = owner]
                 = Given(r, s, primary, Owned(owner), cube)
  BY <1>1, <1>2 DEF Given, Owned, Routers, cube
<1>6. [c EXCEPT !.primary = s, !.contact[s] = mine]
        = Given(r, s, s, mine, cube)
  <2>1. [c EXCEPT !.primary = s, !.contact[s] = mine]
        = [open |-> r.open, primary |-> s,
           contact |-> [[r.contact EXCEPT ![s] = NoContact] EXCEPT ![s] = mine],
           cube |-> r.cube]
    <3>1. c.contact = [r.contact EXCEPT ![s] = NoContact]
      BY <1>2
    <3>2. [c EXCEPT !.primary = s, !.contact[s] = mine]
          = [c EXCEPT !.primary = s, !.contact = [c.contact EXCEPT ![s] = mine]]
      BY <1>2
    <3>3. \A x : [c EXCEPT !.primary = s, !.contact = x]
                 = [open |-> r.open, primary |-> s, contact |-> x, cube |-> r.cube]
      <4> DEFINE d == [c EXCEPT !.primary = s]
      <4>1. d = [open |-> r.open, primary |-> s, contact |-> c.contact, cube |-> r.cube]
        BY <1>2
      <4>2. \A x : [c EXCEPT !.primary = s, !.contact = x]
                    = [d EXCEPT !.contact = x]
        OBVIOUS
      <4> HIDE DEF d
      <4>3. \A x : [d EXCEPT !.contact = x]
                 = [open |-> r.open, primary |-> s, contact |-> x, cube |-> r.cube]
        BY <4>1
      <4> QED
        BY <4>2, <4>3
    <3> QED
      BY <3>1, <3>2, <3>3
  <2>2. [[r.contact EXCEPT ![s] = NoContact] EXCEPT ![s] = mine]
        = [r.contact EXCEPT ![s] = mine]
    BY <1>1 DEF Routers
  <2>3. r.cube = [r.cube EXCEPT ![s] = cube]
    BY <1>1 DEF Routers, cube
  <2> QED
    BY <2>1, <2>2, <2>3 DEF Given
<1>7. [[c EXCEPT !.contact[s].owner = "CUBE"] EXCEPT !.cube[s] = TRUE]
        = Given(r, s, primary, Owned("CUBE"), TRUE)
  <2>1. [[c EXCEPT !.contact[s].owner = "CUBE"] EXCEPT !.cube[s] = TRUE]
        = [Given(r, s, primary, Owned("CUBE"), cube) EXCEPT !.cube[s] = TRUE]
    BY <1>5
  <2>2. [[r.cube EXCEPT ![s] = cube] EXCEPT ![s] = TRUE]
        = [r.cube EXCEPT ![s] = TRUE]
    BY <1>1 DEF Routers
  <2> DEFINE g == Given(r, s, primary, Owned("CUBE"), cube)
  <2>3. g = [open |-> r.open, primary |-> primary,
             contact |-> [r.contact EXCEPT ![s] = Owned("CUBE")],
             cube |-> [r.cube EXCEPT ![s] = cube]]
    BY DEF Given
  <2>4. Given(r, s, primary, Owned("CUBE"), TRUE) =
            [open |-> r.open, primary |-> primary,
             contact |-> [r.contact EXCEPT ![s] = Owned("CUBE")],
             cube |-> [r.cube EXCEPT ![s] = TRUE]]
    BY DEF Given
  <2> HIDE DEF g
  <2>5. [g EXCEPT !.cube[s] = TRUE] = [g EXCEPT !.cube = [g.cube EXCEPT ![s] = TRUE]]
    BY <2>3
  <2>6. \A x : [g EXCEPT !.cube = x]
               = [open |-> r.open, primary |-> primary,
                  contact |-> [r.contact EXCEPT ![s] = Owned("CUBE")], cube |-> x]
    BY <2>3
  <2>7. g.cube = [r.cube EXCEPT ![s] = cube]
    BY <2>3
  <2>8. [g EXCEPT !.cube[s] = TRUE] = Given(r, s, primary, Owned("CUBE"), TRUE)
    BY <2>2, <2>4, <2>5, <2>6, <2>7
  <2> QED
    BY <2>1, <2>8 DEF g
<1> QED
  BY <1>3, <1>5, <1>6, <1>7, <1>4 DEF mine, cube, primary

(* What begin_contact leaves: the contact has an owner; it is the cube's only
   while the panel is closed. *)
Begun(r, f, s) ==
    LET is == f.router.contact[s].owner
    IN  /\ Moved(r, f.router, s)
        /\ is \in {"CANDIDATE", "CUBE", "PANEL", "PANEL_IGNORED"}
        /\ f.router.cube[s] <=> is = "CUBE" \/ r.cube[s]
        /\ \/ f.router.primary # s /\ f.router.primary \in {r.primary, NoSlot}
           \/ f.router.primary = s /\ is = "PANEL"
        /\ is = "CUBE" => ~r.open /\ ~f.panel
        /\ f.open = FALSE /\ f.close = FALSE /\ f.panel \in BOOLEAN

(* begin_contact *)
LEMMA BeginStep ==
    ASSUME NEW r \in Routers, NEW e \in Events
    PROVE  Begun(r, BeginContact(r, e), e.slot)
<1> DEFINE f == BeginContact(r, e)
           s == e.slot
           primary == IF r.primary = s THEN NoSlot ELSE r.primary
           mine == [NoContact EXCEPT !.owner = "PANEL",
                                     !.dismiss = e.place \notin Tiles,
                                     !.handle = (e.place = "handle")]
<1>1. s \in Slots /\ NoSlot \notin Slots
  BY EventType, SlotAssumption
<1>2. /\ primary \in Slots \union {NoSlot} /\ primary # s
      /\ primary \in {r.primary, NoSlot} /\ r.cube[s] \in BOOLEAN
      /\ r.open \in BOOLEAN
  BY <1>1 DEF Routers
<1>3. \A owner \in Owners : Owned(owner) \in Contacts /\ Owned(owner).owner = owner
  BY DEF Contacts, NoContact, Owned
<1>4. mine \in Contacts /\ mine.owner = "PANEL"
  <2>1. (e.place \notin Tiles) \in BOOLEAN /\ (e.place = "handle") \in BOOLEAN
    OBVIOUS
  <2> QED
    BY <2>1 DEF Contacts, NoContact, Owners
<1>5. f = IF r.open /\ primary # NoSlot
          THEN Routed(Given(r, s, primary, Owned("PANEL_IGNORED"), r.cube[s]))
          ELSE IF r.open
          THEN [Routed(Given(r, s, s, mine, r.cube[s])) EXCEPT !.panel = TRUE]
          ELSE IF e.place = "bar"
          THEN Routed(Given(r, s, primary, Owned("CANDIDATE"), r.cube[s]))
          ELSE Routed(Given(r, s, primary, Owned("CUBE"), TRUE))
  BY BeginCases
<1>6. \A n : /\ Routed(n).router = n /\ Routed(n).open = FALSE
             /\ Routed(n).close = FALSE /\ Routed(n).panel = FALSE
             /\ [Routed(n) EXCEPT !.panel = TRUE].router = n
             /\ [Routed(n) EXCEPT !.panel = TRUE].open = FALSE
             /\ [Routed(n) EXCEPT !.panel = TRUE].close = FALSE
             /\ [Routed(n) EXCEPT !.panel = TRUE].panel = TRUE
  BY DEF Routed
<1>7. /\ Owned("CANDIDATE") \in Contacts
      /\ Owned("CANDIDATE").owner = "CANDIDATE"
      /\ Owned("CUBE") \in Contacts /\ Owned("CUBE").owner = "CUBE"
      /\ Owned("PANEL_IGNORED") \in Contacts
      /\ Owned("PANEL_IGNORED").owner = "PANEL_IGNORED"
  BY <1>3 DEF Owners
<1> SUFFICES Begun(r, f, s)
  OBVIOUS
<1> HIDE DEF f, primary, mine
<1>8. CASE r.open /\ primary # NoSlot
  <2> DEFINE g == Given(r, s, primary, Owned("PANEL_IGNORED"), r.cube[s])
  <2>1. /\ Moved(r, g, s) /\ g.primary = primary
        /\ g.contact[s].owner = "PANEL_IGNORED" /\ g.cube[s] = r.cube[s]
    BY <1>1, <1>2, <1>7, GivenContact
  <2> QED
    BY <1>2, <1>5, <1>6, <1>8, <2>1 DEF Begun
<1>9. CASE r.open /\ ~(primary # NoSlot)
  <2> DEFINE g == Given(r, s, s, mine, r.cube[s])
  <2>1. /\ Moved(r, g, s) /\ g.primary = s
        /\ g.contact[s].owner = "PANEL" /\ g.cube[s] = r.cube[s]
    BY <1>1, <1>2, <1>4, GivenContact
  <2> QED
    BY <1>2, <1>5, <1>6, <1>9, <2>1 DEF Begun
<1>10. CASE ~r.open /\ e.place = "bar"
  <2> DEFINE g == Given(r, s, primary, Owned("CANDIDATE"), r.cube[s])
  <2>1. /\ Moved(r, g, s) /\ g.primary = primary
        /\ g.contact[s].owner = "CANDIDATE" /\ g.cube[s] = r.cube[s]
    BY <1>1, <1>2, <1>7, GivenContact
  <2> QED
    BY <1>2, <1>5, <1>6, <1>10, <2>1 DEF Begun
<1>11. CASE ~r.open /\ e.place # "bar"
  <2> DEFINE cube == TRUE
             g == Given(r, s, primary, Owned("CUBE"), cube)
  <2>1. cube \in BOOLEAN
    OBVIOUS
  <2> HIDE DEF cube
  <2>2. /\ Moved(r, g, s) /\ g.primary = primary
        /\ g.contact[s] = Owned("CUBE") /\ g.cube[s] = cube
    BY <1>1, <1>2, <1>7, <2>1, GivenContact
  <2>3. f = Routed(Given(r, s, primary, Owned("CUBE"), TRUE))
    BY <1>2, <1>5, <1>11
  <2>4. f.router = g /\ f.open = FALSE /\ f.close = FALSE /\ f.panel = FALSE
    BY <1>6, <2>3 DEF cube
  <2>5. g.contact[s].owner = "CUBE" /\ g.cube[s] = TRUE
    BY <1>7, <2>2 DEF cube
  <2> HIDE DEF g
  <2> QED
    BY <1>2, <1>11, <2>2, <2>4, <2>5 DEF Begun
<1> QED
  BY <1>8, <1>9, <1>10, <1>11

(* What an event leaves of a contact that began before: its owner keeps it
   until it ends. *)
Carried(r, f, e) ==
    LET s == e.slot
        was == r.contact[s].owner
        is == f.router.contact[s].owner
    IN  /\ Moved(r, f.router, s)
        /\ is = IF Ends(e) THEN "NONE" ELSE was
        /\ f.router.cube[s] <=> r.cube[s] /\ ~(Ends(e) /\ was = "CUBE")
        /\ f.router.primary \in {r.primary, NoSlot, s}
        /\ f.router.primary = s => is = was /\ (r.primary = s \/ was = "CANDIDATE")
        /\ f.panel <=> was = "PANEL"
        /\ f.panel \in BOOLEAN /\ f.open \in BOOLEAN /\ f.close \in BOOLEAN
        /\ e.kind = "CANCEL" => f.open = FALSE /\ f.close = FALSE

(* route_candidate, route_cube, route_panel, route_ignored, and an event of a
   contact the router does not have. *)
LEMMA CarryStep ==
    ASSUME NEW r \in Routers, NEW e \in Events, e.kind # "DOWN"
    PROVE  Carried(r, RouterFeed(r, e), e)
<1> DEFINE f == RouterFeed(r, e)
           s == e.slot
           was == r.contact[s].owner
           c == ClearContact(r, s)
<1>1. s \in Slots /\ NoSlot \notin Slots
  BY EventType, SlotAssumption
<1>2. /\ c \in Routers /\ c.cube = r.cube
      /\ c.primary # s /\ c.primary \in {r.primary, NoSlot}
      /\ c.contact = [r.contact EXCEPT ![s] = NoContact]
  BY <1>1, ClearedContact
<1>3. Moved(r, c, s) /\ c.contact[s].owner = "NONE" /\ c.cube[s] = r.cube[s]
  BY <1>1, <1>2 DEF Moved, Routers, NoContact
<1>4. Moved(r, r, s)
  BY DEF Moved
<1>5. was \in Owners /\ r.primary \in Slots \union {NoSlot}
  BY <1>1 DEF Routers, Contacts
<1>6. \A n : /\ Routed(n).router = n /\ Routed(n).open = FALSE
             /\ Routed(n).close = FALSE /\ Routed(n).panel = FALSE
  BY DEF Routed
<1>7. CASE was = "NONE"
  <2>1. f = Routed(r)
    BY <1>7 DEF RouterFeed
  <2> HIDE DEF f, c
  <2> SUFFICES Carried(r, f, e)
    BY DEF f
  <2> QED
    BY <1>4, <1>6, <1>7, <2>1 DEF Carried
<1>8. CASE was = "PANEL_IGNORED"
  <2>1. f = Routed(IF Ends(e) THEN c ELSE r)
    BY <1>8 DEF RouterFeed, RouteIgnored
  <2> HIDE DEF f, c
  <2> SUFFICES Carried(r, f, e)
    BY DEF f
  <2> QED
    BY <1>2, <1>3, <1>4, <1>6, <1>8, <2>1 DEF Carried
<1>9. CASE was = "CANDIDATE"
  <2> DEFINE g == [r EXCEPT !.open = TRUE, !.primary = s,
                            !.contact[s].opening = TRUE]
  <2>1. f = IF Ends(e) THEN Routed(c)
            ELSE IF e.drag = "down" /\ ~r.contact[s].opening
            THEN [Routed(g) EXCEPT !.open = TRUE]
            ELSE Routed(r)
    BY <1>9 DEF RouterFeed, RouteCandidate
  <2>2. /\ Moved(r, g, s) /\ g.primary = s /\ g.contact[s].owner = was
        /\ g.cube[s] = r.cube[s]
    <3> DEFINE d == [r EXCEPT !.open = TRUE, !.primary = s]
    <3>1. g = [d EXCEPT !.contact[s].opening = TRUE]
      OBVIOUS
    <3>2. /\ d \in Routers /\ d.primary = s
          /\ d.contact = r.contact /\ d.cube = r.cube
      BY <1>1 DEF Routers
    <3> HIDE DEF d
    <3> DEFINE k == [r.contact EXCEPT ![s] = [r.contact[s] EXCEPT !.opening = TRUE]]
    <3>3. g = [d EXCEPT !.contact = k]
      BY <3>1, <3>2 DEF Routers
    <3>4. /\ k \in [Slots -> Contacts] /\ k[s].owner = was
          /\ \A t \in Slots \ {s} : k[t] = r.contact[t]
      BY <1>1 DEF Routers, Contacts
    <3> HIDE DEF g, k
    <3>5. g \in Routers /\ g.primary = s /\ g.cube = r.cube /\ g.contact = k
      BY <3>2, <3>3, <3>4 DEF Routers
    <3> QED
      BY <3>4, <3>5 DEF Moved
  <2>3. \A n : /\ [Routed(n) EXCEPT !.open = TRUE].router = n
               /\ [Routed(n) EXCEPT !.open = TRUE].open = TRUE
               /\ [Routed(n) EXCEPT !.open = TRUE].close = FALSE
               /\ [Routed(n) EXCEPT !.open = TRUE].panel = FALSE
    BY DEF Routed
  <2>4. e.kind = "CANCEL" => Ends(e)
    BY DEF Ends
  <2> HIDE DEF f, c, g
  <2> SUFFICES Carried(r, f, e)
    BY DEF f
  <2>5. CASE Ends(e)
    BY <1>2, <1>3, <1>6, <1>9, <2>1, <2>5 DEF Carried
  <2>6. CASE ~Ends(e) /\ e.drag = "down" /\ ~r.contact[s].opening
    BY <1>9, <2>1, <2>2, <2>3, <2>4, <2>6 DEF Carried
  <2>7. CASE ~Ends(e) /\ ~(e.drag = "down" /\ ~r.contact[s].opening)
    BY <1>4, <1>6, <1>9, <2>1, <2>7 DEF Carried
  <2> QED
    BY <2>5, <2>6, <2>7
<1>10. CASE was = "CUBE"
  <2> DEFINE n == [r EXCEPT !.cube[s] = FALSE]
             g == ClearContact(n, s)
  <2>1. f = IF Ends(e) THEN Routed(g) ELSE Routed(r)
    BY <1>10 DEF RouterFeed, RouteCube
  <2>2. /\ n \in Routers /\ n.primary = r.primary /\ n.contact = r.contact
        /\ n.cube = [r.cube EXCEPT ![s] = FALSE]
    BY <1>1 DEF Routers
  <2> HIDE DEF n
  <2>3. /\ g \in Routers /\ g.cube = [r.cube EXCEPT ![s] = FALSE]
        /\ g.primary # s /\ g.primary \in {r.primary, NoSlot}
        /\ g.contact = [r.contact EXCEPT ![s] = NoContact]
    BY <1>1, <2>2, ClearedContact
  <2> HIDE DEF g
  <2>4. Moved(r, g, s) /\ g.contact[s].owner = "NONE" /\ g.cube[s] = FALSE
    <3>1. Moved(r, g, s)
      BY <1>1, <2>3 DEF Moved, Routers
    <3>2. g.contact[s].owner = "NONE"
      BY <1>1, <2>3 DEF Routers, NoContact
    <3>3. g.cube[s] = FALSE
      BY <1>1, <2>3 DEF Routers
    <3> QED
      BY <3>1, <3>2, <3>3
  <2> HIDE DEF f
  <2> SUFFICES Carried(r, f, e)
    BY DEF f
  <2>5. CASE Ends(e)
    BY <1>6, <1>10, <2>1, <2>3, <2>4, <2>5 DEF Carried
  <2>6. CASE ~Ends(e)
    BY <1>4, <1>6, <1>10, <2>1, <2>6 DEF Carried
  <2> QED
    BY <2>5, <2>6
<1>11. CASE was = "PANEL"
  <2> DEFINE pulled == e.kind = "MOVE" /\ r.contact[s].handle
                       /\ ~r.contact[s].closing /\ e.drag = "up"
             g == [r EXCEPT !.contact[s].closing = TRUE]
             close == pulled \/ (e.kind = "UP" /\ r.contact[s].dismiss)
  <2>1. f = [router |-> IF Ends(e) THEN c ELSE IF pulled THEN g ELSE r,
             open |-> FALSE, close |-> close, panel |-> TRUE]
    BY <1>11 DEF RouterFeed, RoutePanel
  <2>2. /\ Moved(r, g, s) /\ g.primary = r.primary
        /\ g.contact[s].owner = was /\ g.cube[s] = r.cube[s]
    BY <1>1 DEF Moved, Routers, Contacts
  <2>3. close \in BOOLEAN /\ (e.kind = "CANCEL" => close = FALSE)
    OBVIOUS
  <2>4. f.open = FALSE /\ f.panel = TRUE /\ f.close = close
    BY <2>1
  <2>5. f.router = IF Ends(e) THEN c ELSE IF pulled THEN g ELSE r
    BY <2>1
  <2> HIDE DEF f, c, g, close, pulled
  <2> SUFFICES Carried(r, f, e)
    BY DEF f
  <2>6. CASE Ends(e)
    BY <1>2, <1>3, <1>11, <2>3, <2>4, <2>5, <2>6 DEF Carried
  <2>7. CASE ~Ends(e) /\ pulled
    BY <1>11, <2>2, <2>3, <2>4, <2>5, <2>7 DEF Carried
  <2>8. CASE ~Ends(e) /\ ~pulled
    BY <1>4, <1>11, <2>3, <2>4, <2>5, <2>8 DEF Carried
  <2> QED
    BY <2>6, <2>7, <2>8
<1> QED
  BY <1>5, <1>7, <1>8, <1>9, <1>10, <1>11 DEF Owners

(* Whatever legal event is fed, the router goes on to hold the contacts, and
   none changes hands. *)
LEMMA FeedTracks ==
    ASSUME NEW r \in Routers, NEW d \in [Slots -> BOOLEAN], NEW e \in Events,
           Tracks(r, d), (e.kind = "DOWN") <=> ~d[e.slot]
    PROVE  LET f == RouterFeed(r, e).router
           IN  /\ Tracks(f, [d EXCEPT ![e.slot] = (e.kind \in {"DOWN", "MOVE"})])
               /\ \A s \in Slots :
                    LET was == r.contact[s].owner
                        is == f.contact[s].owner
                    IN  was = "NONE" \/ is = "NONE" \/ was = is
<1> DEFINE g == RouterFeed(r, e)
           f == g.router
           s == e.slot
           n == [d EXCEPT ![s] = (e.kind \in {"DOWN", "MOVE"})]
           was == r.contact[s].owner
           is == f.contact[s].owner
<1>1. s \in Slots /\ NoSlot \notin Slots
  BY EventType, SlotAssumption
<1>2. /\ n[s] <=> e.kind \in {"DOWN", "MOVE"}
      /\ \A t \in Slots \ {s} : n[t] = d[t]
  BY <1>1
<1>3. /\ \A t \in Slots : d[t] <=> r.contact[t].owner # "NONE"
      /\ \A t \in Slots : r.cube[t] <=> r.contact[t].owner = "CUBE"
      /\ r.primary # NoSlot =>
            r.contact[r.primary].owner \in {"CANDIDATE", "PANEL"}
      /\ r.primary \in Slots \union {NoSlot}
  BY DEF Tracks, Routers
<1> HIDE DEF n
<1>4. /\ Moved(r, f, s)
      /\ is # "NONE" <=> e.kind \in {"DOWN", "MOVE"}
      /\ was = "NONE" \/ is = "NONE" \/ was = is
      /\ f.cube[s] <=> is = "CUBE"
      /\ f.primary \in {r.primary, NoSlot, s}
      /\ f.primary = s => is \in {"CANDIDATE", "PANEL"}
  <2>1. CASE e.kind = "DOWN"
    <3>1. Begun(r, g, s) /\ was = "NONE" /\ ~r.cube[s]
      <4>1. g = BeginContact(r, e)
        BY <2>1 DEF RouterFeed
      <4>2. was = "NONE" /\ ~r.cube[s]
        BY <1>1, <1>3, <2>1
      <4> HIDE DEF g
      <4> QED
        BY <4>1, <4>2, BeginStep
    <3> HIDE DEF g
    <3> QED
      BY <2>1, <3>1 DEF Begun
  <2>2. CASE e.kind # "DOWN"
    <3>1. Carried(r, g, e)
      BY <2>2, CarryStep
    <3>2. was # "NONE" /\ (r.cube[s] <=> was = "CUBE")
      BY <1>1, <1>3, <2>2
    <3>3. Ends(e) <=> e.kind \notin {"DOWN", "MOVE"}
      BY <2>2, EventType DEF Ends
    <3>4. r.primary = s => was \in {"CANDIDATE", "PANEL"}
      BY <1>1, <1>3
    <3> HIDE DEF g
    <3>5. /\ Moved(r, f, s)
          /\ is = IF Ends(e) THEN "NONE" ELSE was
          /\ f.cube[s] <=> r.cube[s] /\ ~(Ends(e) /\ was = "CUBE")
          /\ f.primary \in {r.primary, NoSlot, s}
          /\ f.primary = s => is = was /\ (r.primary = s \/ was = "CANDIDATE")
      BY <3>1 DEF Carried
    <3> HIDE DEF f
    <3> QED
      BY <3>2, <3>3, <3>4, <3>5
  <2> QED
    BY <2>1, <2>2
<1> HIDE DEF g
<1>5. \A t \in Slots \ {s} : f.contact[t] = r.contact[t] /\ f.cube[t] = r.cube[t]
  BY <1>4 DEF Moved
<1>6. \A t \in Slots : n[t] <=> f.contact[t].owner # "NONE"
  <2> SUFFICES ASSUME NEW t \in Slots
               PROVE  n[t] <=> f.contact[t].owner # "NONE"
    OBVIOUS
  <2>1. CASE t = s
    BY <1>2, <1>4, <2>1
  <2>2. CASE t # s
    <3>1. n[t] = d[t] /\ f.contact[t] = r.contact[t]
      BY <1>2, <1>5, <2>2
    <3> QED
      BY <1>3, <3>1
  <2> QED
    BY <2>1, <2>2
<1>7. \A t \in Slots : f.cube[t] <=> f.contact[t].owner = "CUBE"
  BY <1>3, <1>4, <1>5
<1>8. f.primary # NoSlot => f.contact[f.primary].owner \in {"CANDIDATE", "PANEL"}
  BY <1>1, <1>3, <1>4, <1>5
<1>9. \A t \in Slots : \/ r.contact[t].owner = "NONE" \/ f.contact[t].owner = "NONE"
                        \/ r.contact[t].owner = f.contact[t].owner
  BY <1>4, <1>5
<1> HIDE DEF f
<1>10. Tracks(f, n)
  BY <1>6, <1>7, <1>8 DEF Tracks
<1> QED
  BY <1>9, <1>10 DEF f, g, n

(* What a call reports, whichever contact it is about. *)
LEMMA FeedType ==
    ASSUME NEW r \in Routers, NEW e \in Events
    PROVE  LET f == RouterFeed(r, e)
           IN  /\ f.router \in Routers
               /\ f.panel \in BOOLEAN /\ f.open \in BOOLEAN /\ f.close \in BOOLEAN
<1>1. CASE e.kind = "DOWN"
  <2>1. RouterFeed(r, e) = BeginContact(r, e)
    BY <1>1 DEF RouterFeed
  <2>2. Begun(r, RouterFeed(r, e), e.slot)
    BY <2>1, BeginStep
  <2> QED
    BY <2>2 DEF Begun, Moved
<1>2. CASE e.kind # "DOWN"
  BY <1>2, CarryStep DEF Carried, Moved
<1> QED
  BY <1>1, <1>2

-----------------------------------------------------------------------------
(* What is armed in n was armed in m, since the same moment. *)
ArmedBefore(m, n) ==
    n.armed = "none" \/ (n.armed = m.armed /\ n.armAge = m.armAge)

(* release *)
LEMMA Released ==
    ASSUME NEW m \in Panels
    PROVE  /\ Release(m) \in Panels
           /\ Release(m).open = m.open /\ Release(m).slot = NoSlot
           /\ Release(m).armed = m.armed /\ Release(m).armAge = m.armAge
           /\ Release(m).slide = m.slide /\ Release(m).from = m.from
<1>1. 0 \in 0 .. TapTicks /\ "none" \in Captures
  BY TickAssumption DEF Captures
<1> QED
  BY <1>1 DEF Release, Panels

(* disarm *)
LEMMA Disarmed ==
    ASSUME NEW m \in Panels
    PROVE  /\ Disarm(m) \in Panels
           /\ Disarm(m).open = m.open /\ Disarm(m).slot = m.slot
           /\ Disarm(m).armed = "none"
           /\ Disarm(m).slide = m.slide /\ Disarm(m).from = m.from
<1>1. 0 \in 0 .. ArmTicks /\ "none" \in Arms
  BY TickAssumption DEF Arms
<1> QED
  BY <1>1 DEF Disarm, Panels

(* slide_tick: a panel whose slide goes from and to nowhere is at rest. *)
LEMMA SlideTicked ==
    ASSUME NEW m \in Panels
    PROVE  /\ SlideTick(m) \in Panels /\ SlideTick(m).slot = m.slot
           /\ SlideTick(m).open = m.open /\ SlideTick(m).from = m.from
           /\ SlideTick(m).armed = m.armed /\ SlideTick(m).armAge = m.armAge
           /\ ~m.open /\ ~m.from => ~SlideTick(m).slide
<1> DEFINE slide == CASE m.slideAge = 0 -> m.from
                      [] m.slideAge = SlideTicks -> m.open
                      [] OTHER -> m.from \/ m.open
<1>1. slide \in BOOLEAN /\ (~m.open /\ ~m.from => ~slide)
  BY DEF Panels
<1>2. SlideTick(m) = [m EXCEPT !.slide = slide]
  BY DEF SlideTick
<1> HIDE DEF slide
<1> QED
  BY <1>1, <1>2 DEF Panels

(* The start of a slide. *)
LEMMA SlideStarted ==
    ASSUME NEW m \in Panels, NEW open \in BOOLEAN
    PROVE  LET n == StartSlide(m, open)
           IN  /\ n \in Panels /\ n.open = open /\ n.slot = m.slot
               /\ n.armed = m.armed /\ n.armAge = m.armAge
<1> DEFINE n == SlideTick(m)
<1>1. n \in Panels /\ n.slot = m.slot /\ n.armed = m.armed /\ n.armAge = m.armAge
  BY SlideTicked
<1>2. StartSlide(m, open)
        = [n EXCEPT !.from = n.slide, !.slideAge = 0, !.open = open]
  BY DEF StartSlide
<1>3. 0 \in 0 .. SlideTicks
  BY TickAssumption
<1> HIDE DEF n
<1> QED
  BY <1>1, <1>2, <1>3 DEF Panels

(* cc_open, cc_close and cc_tick: only an armed tile that is armed already
   stays so, and none that closes. *)
LEMMA PanelCalls ==
    ASSUME NEW m \in Panels
    PROVE  /\ Open(m) \in Panels /\ ArmedBefore(m, Open(m))
           /\ Open(m).open = TRUE /\ Open(m).slot = m.slot
           /\ Close(m) \in Panels /\ Close(m).armed = "none"
           /\ Close(m).open = FALSE /\ Close(m).slot = NoSlot
           /\ Tick(m) \in Panels /\ ArmedBefore(m, Tick(m))
           /\ Tick(m).open = m.open /\ Tick(m).slot = m.slot
<1>1. /\ Open(m) \in Panels /\ ArmedBefore(m, Open(m))
      /\ Open(m).open = TRUE /\ Open(m).slot = m.slot
  <2>1. CASE m.open
    <3>1. Open(m) = m /\ m.open \in BOOLEAN
      BY <2>1 DEF Open, Panels
    <3> QED
      BY <2>1, <3>1 DEF ArmedBefore
  <2>2. CASE ~m.open
    <3> DEFINE open == TRUE
    <3>1. Open(m) = StartSlide(m, open) /\ open \in BOOLEAN
      BY <2>2 DEF Open
    <3> HIDE DEF open
    <3>2. /\ Open(m) \in Panels /\ Open(m).open = open /\ Open(m).slot = m.slot
          /\ Open(m).armed = m.armed /\ Open(m).armAge = m.armAge
      BY <3>1, SlideStarted
    <3> QED
      BY <3>2 DEF ArmedBefore, open
  <2> QED
    BY <2>1, <2>2
<1>2. /\ Close(m) \in Panels /\ Close(m).armed = "none"
      /\ Close(m).open = FALSE /\ Close(m).slot = NoSlot
  <2> DEFINE n == Release(Disarm(m))
  <2>1. n \in Panels /\ n.armed = "none" /\ n.slot = NoSlot
    <3>1. Disarm(m) \in Panels /\ Disarm(m).armed = "none"
      BY Disarmed
    <3> QED
      BY <3>1, Released
  <2> DEFINE open == FALSE
  <2>2. /\ Close(m) = IF n.open THEN StartSlide(n, open) ELSE n
        /\ open \in BOOLEAN
    BY DEF Close
  <2> HIDE DEF n, open
  <2>3. CASE n.open
    <3>1. /\ Close(m) \in Panels /\ Close(m).open = open
          /\ Close(m).slot = n.slot /\ Close(m).armed = n.armed
      BY <2>1, <2>2, <2>3, SlideStarted
    <3> QED
      BY <2>1, <3>1 DEF open
  <2>4. CASE ~n.open
    <3>1. n.open = FALSE
      BY <2>1, <2>4 DEF Panels
    <3> QED
      BY <2>1, <2>2, <2>4, <3>1
  <2> QED
    BY <2>3, <2>4
<1>3. /\ Tick(m) \in Panels /\ ArmedBefore(m, Tick(m))
      /\ Tick(m).open = m.open /\ Tick(m).slot = m.slot
  <2> DEFINE n == SlideTick(m)
  <2>1. /\ n \in Panels /\ n.open = m.open /\ n.slot = m.slot
        /\ n.armed = m.armed /\ n.armAge = m.armAge
    BY SlideTicked
  <2>2. Tick(m) = IF n.armed # "none" /\ n.armAge = ArmTicks THEN Disarm(n) ELSE n
    BY DEF Tick
  <2> HIDE DEF n
  <2>3. /\ Disarm(n) \in Panels /\ Disarm(n).open = n.open
        /\ Disarm(n).slot = n.slot /\ Disarm(n).armed = "none"
    BY <2>1, Disarmed
  <2> QED
    BY <2>1, <2>2, <2>3 DEF ArmedBefore
<1> QED
  BY <1>1, <1>2, <1>3

-----------------------------------------------------------------------------
(* Actions that do not reboot. *)
QuietNames == {"SET_BRIGHTNESS", "SET_AUTO", "SAVE_SETTINGS",
               "SET_SLEEP_MINUTES", "WIFI_TOGGLE", "SLEEP_NOW"}
QuietActs == [action : QuietNames,
              arg : BOOLEAN \union Levels \union Minutes \union {0}]

LEMMA QuietAct ==
    ASSUME NEW name \in QuietNames,
           NEW arg \in BOOLEAN \union Levels \union Minutes \union {0}
    PROVE  Act(name, arg) \in QuietActs
BY DEF Act, QuietActs

(* What cc_handle may answer to an event: it arms the reboot tile that was
   tapped or keeps what was armed, disarms when it closes, and reboots only
   for a second tap in time. *)
ArmsOrKeeps(m, e, n) ==
    /\ n \in Panels
    /\ \/ ArmedBefore(m, n)
       \/ e.kind = "UP" /\ e.place \in RebootTiles
          /\ n.armed = e.place /\ n.armAge = 0
    /\ n.open = m.open \/ n.armed = "none"

Confirms(m, e) ==
    /\ e.kind = "UP" /\ e.place \in RebootTiles
    /\ m.armed = e.place /\ m.armAge < ArmTicks

Answers(m, e, h) ==
    /\ ArmsOrKeeps(m, e, h.panel)
    /\ h.acts \in Seq(QuietActs) \/ Confirms(m, e)

LEMMA QuietAnswer ==
    ASSUME NEW m \in Panels, NEW e, NEW n \in Panels, ArmedBefore(m, n),
           n.open = m.open \/ n.armed = "none",
           NEW acts \in Seq(QuietActs)
    PROVE  Answers(m, e, Acted(n, acts))
BY DEF Answers, ArmsOrKeeps, Acted

(* brightness() *)
LEMMA BrightnessTaken ==
    ASSUME NEW m \in Panels
    PROVE  LET t == TakeBrightness(m)
           IN  /\ t.panel \in Panels /\ t.acts \in Seq(QuietActs)
               /\ t.panel.armed = m.armed /\ t.panel.armAge = m.armAge
               /\ t.panel.open = m.open
<1> DEFINE a == Act("SET_BRIGHTNESS", m.pending)
<1>1. a \in QuietActs
  BY QuietAct DEF Panels, QuietNames
<1>2. <<>> \in Seq(QuietActs) /\ <<a>> \in Seq(QuietActs)
  BY <1>1
<1>3. TakeBrightness(m) =
        IF m.pending = m.brightness THEN Acted(m, <<>>)
        ELSE Acted([m EXCEPT !.brightness = m.pending], <<a>>)
  BY DEF TakeBrightness
<1> HIDE DEF a
<1>4. CASE m.pending = m.brightness
  BY <1>2, <1>3, <1>4 DEF Acted
<1>5. CASE m.pending # m.brightness
  <2> DEFINE n == [m EXCEPT !.brightness = m.pending]
  <2>1. /\ n \in Panels /\ n.armed = m.armed /\ n.armAge = m.armAge
        /\ n.open = m.open
    BY DEF Panels
  <2> HIDE DEF n
  <2>2. TakeBrightness(m) = [panel |-> n, acts |-> <<a>>]
    BY <1>3, <1>5 DEF Acted, n
  <2> QED
    BY <1>2, <2>1, <2>2
<1> QED
  BY <1>4, <1>5

(* What lies at a place is what a capture may name. *)
LEMMA HitCaptures ==
    ASSUME NEW e \in Events
    PROVE  /\ Hit(e.place) \in Captures
           /\ Hit(e.place) \in {"rescue", "loader"}
                => Hit(e.place) = e.place /\ e.place \in RebootTiles
BY DEF Hit, Captures, RebootTiles

(* TOUCH_DOWN *)
LEMMA DownAnswers ==
    ASSUME NEW m \in Panels, NEW e \in Events
    PROVE  Answers(m, e, HandleDown(m, e))
<1> DEFINE c == [m EXCEPT !.slot = e.slot, !.tapAge = 0, !.tile = Hit(e.place)]
           d == [c EXCEPT !.dragging = TRUE, !.auto = FALSE, !.pending = e.level]
           t == TakeBrightness(d)
           first == IF m.auto THEN <<Act("SET_AUTO", FALSE)>> ELSE <<>>
           h == HandleDown(m, e)
<1>1. <<>> \in Seq(QuietActs)
  OBVIOUS
<1>2. c \in Panels /\ ArmedBefore(m, c) /\ c.open = m.open
  <2>1. 0 \in 0 .. TapTicks /\ e.slot \in Slots \union {NoSlot}
    BY EventType, TickAssumption
  <2> QED
    BY <2>1, HitCaptures DEF Panels, ArmedBefore
<1> HIDE DEF c
<1>3. d \in Panels /\ d.armed = c.armed /\ d.armAge = c.armAge /\ d.open = c.open
  BY <1>2, EventType DEF Panels
<1> HIDE DEF d
<1>4. /\ t.panel \in Panels /\ t.acts \in Seq(QuietActs)
      /\ ArmedBefore(m, t.panel) /\ t.panel.open = m.open
  BY <1>2, <1>3, BrightnessTaken DEF ArmedBefore
<1> HIDE DEF t
<1>5. first \in Seq(QuietActs)
  <2> DEFINE a == Act("SET_AUTO", FALSE)
  <2>1. a \in QuietActs
    BY QuietAct DEF QuietNames
  <2> HIDE DEF a
  <2>2. <<a>> \in Seq(QuietActs)
    BY <2>1
  <2>3. first = IF m.auto THEN <<a>> ELSE <<>>
    BY DEF a
  <2> QED
    BY <1>1, <2>2, <2>3
<1> HIDE DEF first
<1>6. first \o t.acts \in Seq(QuietActs)
  BY <1>4, <1>5, ConcatProperties
<1>7. h = IF m.slot # NoSlot THEN Acted(m, <<>>)
          ELSE IF e.place # "bright" THEN Acted(c, <<>>)
          ELSE Acted(t.panel, first \o t.acts)
  BY DEF HandleDown, c, d, t, first
<1>8. ArmedBefore(m, m)
  BY DEF ArmedBefore
<1>9. Answers(m, e, Acted(m, <<>>))
  BY <1>1, <1>8, QuietAnswer
<1>10. Answers(m, e, Acted(c, <<>>))
  BY <1>1, <1>2, QuietAnswer
<1>11. Answers(m, e, Acted(t.panel, first \o t.acts))
  BY <1>4, <1>6, QuietAnswer
<1> HIDE DEF h
<1>12. Answers(m, e, h)
  BY <1>7, <1>9, <1>10, <1>11
<1> QED
  BY <1>12 DEF h

(* A drag of the brightness column. *)
LEMMA DragAnswers ==
    ASSUME NEW m \in Panels, NEW e \in Events
    PROVE  Answers(m, e, HandleDrag(m, e))
<1> DEFINE d == [m EXCEPT !.pending = e.level]
           t == TakeBrightness(d)
           save == Act("SAVE_SETTINGS", 0)
           h == HandleDrag(m, e)
<1>1. d \in Panels /\ d.armed = m.armed /\ d.armAge = m.armAge /\ d.open = m.open
  BY EventType DEF Panels
<1> HIDE DEF d
<1>2. /\ t.panel \in Panels /\ t.acts \in Seq(QuietActs)
      /\ ArmedBefore(m, t.panel) /\ t.panel.open = m.open
      /\ t = Acted(t.panel, t.acts)
  BY <1>1, BrightnessTaken DEF ArmedBefore, TakeBrightness, Acted
<1>3. ArmedBefore(m, d)
  BY <1>1 DEF ArmedBefore
<1> HIDE DEF t
<1> DEFINE r == Release(t.panel)
<1>4. r \in Panels /\ ArmedBefore(m, r) /\ r.open = m.open
  BY <1>2, Released DEF ArmedBefore
<1> HIDE DEF r
<1>5. save \in QuietActs
  BY QuietAct DEF QuietNames
<1> HIDE DEF save
<1>6. Append(t.acts, save) \in Seq(QuietActs)
  BY <1>2, <1>5, AppendProperties
<1>7. h = IF e.kind = "UP" THEN Acted(r, Append(t.acts, save))
          ELSE IF e.paint THEN t ELSE Acted(d, <<>>)
  BY DEF HandleDrag, d, t, r, save
<1>8. Answers(m, e, Acted(r, Append(t.acts, save)))
  BY <1>4, <1>6, QuietAnswer
<1>9. Answers(m, e, t)
  BY <1>2, QuietAnswer
<1>10. Answers(m, e, Acted(d, <<>>))
  <2>1. <<>> \in Seq(QuietActs)
    OBVIOUS
  <2> QED
    BY <1>1, <1>3, <2>1, QuietAnswer
<1> HIDE DEF h
<1>11. Answers(m, e, h)
  BY <1>7, <1>8, <1>9, <1>10
<1> QED
  BY <1>11 DEF h

(* A tap on Rescue or Loader, the capture released. *)
LEMMA RebootAnswers ==
    ASSUME NEW m \in Panels, NEW e \in Events, e.kind = "UP",
           e.place \in RebootTiles
    PROVE  Answers(m, e, TapReboot(m, e.place))
<1> DEFINE h == TapReboot(m, e.place)
           n == [m EXCEPT !.armed = e.place, !.armAge = 0]
<1>1. <<>> \in Seq(QuietActs)
  OBVIOUS
<1>2. CASE m.armed = e.place /\ m.armAge < ArmTicks
  <2>1. h = Acted(Disarm(m), <<Act("REBOOT", e.place)>>)
    BY <1>2 DEF TapReboot
  <2>2. ArmsOrKeeps(m, e, Disarm(m))
    BY Disarmed DEF ArmsOrKeeps, ArmedBefore
  <2>3. h.panel = Disarm(m)
    BY <2>1 DEF Acted
  <2> HIDE DEF h
  <2>4. Answers(m, e, h)
    BY <1>2, <2>2, <2>3 DEF Answers, Confirms
  <2> QED
    BY <2>4 DEF h
<1>3. CASE ~(m.armed = e.place /\ m.armAge < ArmTicks)
  <2>1. h = Acted(n, <<>>)
    BY <1>3 DEF TapReboot
  <2>2. ArmsOrKeeps(m, e, n)
    <3>1. e.place \in Arms /\ 0 \in 0 .. ArmTicks
      BY TickAssumption DEF RebootTiles, Arms
    <3>2. n \in Panels /\ n.armed = e.place /\ n.armAge = 0 /\ n.open = m.open
      BY <3>1 DEF Panels
    <3> HIDE DEF n
    <3> QED
      BY <3>2 DEF ArmsOrKeeps
  <2> HIDE DEF h, n
  <2>3. h.panel = n /\ h.acts = <<>>
    BY <2>1 DEF Acted
  <2>4. Answers(m, e, h)
    BY <1>1, <2>2, <2>3 DEF Answers
  <2> QED
    BY <2>4 DEF h
<1> QED
  BY <1>2, <1>3

(* A tap on a tile, the capture released. *)
LEMMA TapAnswers ==
    ASSUME NEW m \in Panels, NEW e \in Events, NEW tile \in Captures,
           e.kind = "UP",
           tile \in {"rescue", "loader"} => tile = e.place /\ e.place \in RebootTiles
    PROVE  Answers(m, e, Tap(m, tile))
<1> DEFINE wanted == m.wifi \in {"off", "failed"}
           save == Act("SAVE_SETTINGS", 0)
           setAuto == Act("SET_AUTO", ~m.auto)
           auto == [m EXCEPT !.auto = ~@]
           setTimer == Act("SET_SLEEP_MINUTES", Timers[tile])
           timer == [m EXCEPT !.minutes = Timers[tile]]
           toggle == Act("WIFI_TOGGLE", wanted)
           wifi == [m EXCEPT !.wifi = IF wanted THEN "starting" ELSE "off"]
           sleep == Act("SLEEP_NOW", 0)
           h == Tap(m, tile)
<1>1. \/ h = Acted(auto, <<setAuto, save>>)
      \/ tile \in DOMAIN Timers /\ h = Acted(timer, <<setTimer, save>>)
      \/ h = Acted(wifi, <<toggle>>)
      \/ h = Acted(Close(m), <<sleep>>)
      \/ tile \in {"rescue", "loader"} /\ h = TapReboot(m, tile)
      \/ h = Acted(m, <<>>)
  BY DEF Tap
<1>2. save \in QuietActs /\ sleep \in QuietActs
  BY QuietAct DEF QuietNames
<1>3. setAuto \in QuietActs
  <2> DEFINE flipped == ~m.auto
  <2>1. flipped \in BOOLEAN
    <3>1. m.auto \in BOOLEAN
      BY DEF Panels
    <3> QED
      BY <3>1
  <2> HIDE DEF flipped
  <2>2. Act("SET_AUTO", flipped) \in QuietActs
    BY <2>1, QuietAct DEF QuietNames
  <2> QED
    BY <2>2 DEF flipped
<1>4. tile \in DOMAIN Timers => setTimer \in QuietActs
  BY TimerAssumption, QuietAct DEF QuietNames
<1>5. toggle \in QuietActs
  <2>1. wanted \in BOOLEAN
    OBVIOUS
  <2> HIDE DEF wanted
  <2> QED
    BY <2>1, QuietAct DEF QuietNames
<1>6. auto \in Panels /\ ArmedBefore(m, auto) /\ auto.open = m.open
  BY DEF Panels, ArmedBefore
<1>7. tile \in DOMAIN Timers
        => timer \in Panels /\ ArmedBefore(m, timer) /\ timer.open = m.open
  BY TimerAssumption DEF Panels, ArmedBefore
<1>8. wifi \in Panels /\ ArmedBefore(m, wifi) /\ wifi.open = m.open
  <2>1. (IF wanted THEN "starting" ELSE "off") \in WifiStates
    BY DEF WifiStates
  <2> HIDE DEF wanted
  <2> QED
    BY <2>1 DEF Panels, ArmedBefore
<1> HIDE DEF wanted, save, setAuto, auto, setTimer, timer, toggle, wifi, sleep, h
<1>9. /\ <<>> \in Seq(QuietActs) /\ <<setAuto, save>> \in Seq(QuietActs)
      /\ tile \in DOMAIN Timers => <<setTimer, save>> \in Seq(QuietActs)
      /\ <<toggle>> \in Seq(QuietActs) /\ <<sleep>> \in Seq(QuietActs)
  BY <1>2, <1>3, <1>4, <1>5
<1> SUFFICES Answers(m, e, h)
  BY DEF h
<1>10. CASE h = Acted(auto, <<setAuto, save>>)
  BY <1>6, <1>9, <1>10, QuietAnswer
<1>11. CASE tile \in DOMAIN Timers /\ h = Acted(timer, <<setTimer, save>>)
  BY <1>7, <1>9, <1>11, QuietAnswer
<1>12. CASE h = Acted(wifi, <<toggle>>)
  BY <1>8, <1>9, <1>12, QuietAnswer
<1>13. CASE h = Acted(Close(m), <<sleep>>)
  BY <1>9, <1>13, QuietAnswer, PanelCalls DEF ArmedBefore
<1>14. CASE tile \in {"rescue", "loader"} /\ h = TapReboot(m, tile)
  BY <1>14, RebootAnswers
<1>15. CASE h = Acted(m, <<>>)
  <2>1. ArmedBefore(m, m)
    BY DEF ArmedBefore
  <2> QED
    BY <1>9, <1>15, <2>1, QuietAnswer
<1> QED
  BY <1>1, <1>10, <1>11, <1>12, <1>13, <1>14, <1>15

(* What answers an event after the capture is released answers it before. *)
LEMMA AnswersReleased ==
    ASSUME NEW m \in Panels, NEW e, NEW h, Answers(Release(m), e, h)
    PROVE  Answers(m, e, h)
<1>1. /\ Release(m).armed = m.armed /\ Release(m).armAge = m.armAge
      /\ Release(m).open = m.open
  BY Released
<1> QED
  BY <1>1 DEF Answers, ArmsOrKeeps, ArmedBefore, Confirms

(* TOUCH_UP *)
LEMMA UpAnswers ==
    ASSUME NEW m \in Panels, NEW e \in Events, e.kind = "UP"
    PROVE  Answers(m, e, HandleUp(m, e))
<1> DEFINE n == Release(m)
           h == HandleUp(m, e)
<1>1. n \in Panels
  BY Released
<1>2. <<>> \in Seq(QuietActs)
  OBVIOUS
<1>3. m.tile \in Captures
  BY DEF Panels
<1>4. h = IF m.tile = "outside" THEN Acted(Close(n), <<>>)
          ELSE IF m.tapAge < TapTicks /\ m.tile = Hit(e.place) THEN Tap(n, m.tile)
          ELSE Acted(n, <<>>)
  BY DEF HandleUp
<1>5. ASSUME NEW x, Answers(n, e, x) PROVE Answers(m, e, x)
  BY <1>5, AnswersReleased
<1> HIDE DEF n, h
<1> SUFFICES Answers(n, e, h)
  BY <1>5 DEF h
<1>6. CASE m.tile = "outside"
  <2>1. ArmedBefore(n, Close(n)) /\ Close(n) \in Panels /\ Close(n).armed = "none"
    BY <1>1, PanelCalls DEF ArmedBefore
  <2> QED
    BY <1>1, <1>2, <1>4, <1>6, <2>1, QuietAnswer
<1>7. CASE m.tile # "outside" /\ m.tapAge < TapTicks /\ m.tile = Hit(e.place)
  <2>1. h = Tap(n, m.tile)
    BY <1>4, <1>7
  <2>2. m.tile \in {"rescue", "loader"}
            => m.tile = e.place /\ e.place \in RebootTiles
    BY <1>7, HitCaptures
  <2> QED
    BY <1>1, <1>3, <2>1, <2>2, TapAnswers
<1>8. CASE m.tile # "outside" /\ ~(m.tapAge < TapTicks /\ m.tile = Hit(e.place))
  <2>1. h = Acted(n, <<>>)
    BY <1>4, <1>8
  <2>2. ArmedBefore(n, n)
    BY DEF ArmedBefore
  <2> QED
    BY <1>1, <1>2, <2>1, <2>2, QuietAnswer
<1> QED
  BY <1>6, <1>7, <1>8

(* cc_handle *)
LEMMA HandleAnswers ==
    ASSUME NEW m \in Panels, NEW e \in Events
    PROVE  Answers(m, e, Handle(m, e))
<1> DEFINE h == Handle(m, e)
<1>1. \/ h = Acted(m, <<>>)
      \/ h = HandleDown(m, e)
      \/ h = Acted(Release(m), <<>>)
      \/ h = HandleDrag(m, e)
      \/ h = Acted(Close(m), <<>>)
      \/ e.kind = "UP" /\ h = HandleUp(m, e)
  BY DEF Handle
<1>2. <<>> \in Seq(QuietActs)
  OBVIOUS
<1> HIDE DEF h
<1> SUFFICES Answers(m, e, h)
  BY DEF h
<1>3. CASE h = Acted(m, <<>>)
  <2>1. ArmedBefore(m, m)
    BY DEF ArmedBefore
  <2> QED
    BY <1>2, <1>3, <2>1, QuietAnswer
<1>4. CASE h = HandleDown(m, e)
  BY <1>4, DownAnswers
<1>5. CASE h = Acted(Release(m), <<>>)
  <2>1. /\ ArmedBefore(m, Release(m)) /\ Release(m) \in Panels
        /\ Release(m).open = m.open
    BY Released DEF ArmedBefore
  <2> QED
    BY <1>2, <1>5, <2>1, QuietAnswer
<1>6. CASE h = HandleDrag(m, e)
  BY <1>6, DragAnswers
<1>7. CASE h = Acted(Close(m), <<>>)
  <2>1. ArmedBefore(m, Close(m)) /\ Close(m) \in Panels /\ Close(m).armed = "none"
    BY PanelCalls DEF ArmedBefore
  <2> QED
    BY <1>2, <1>7, <2>1, QuietAnswer
<1>8. CASE e.kind = "UP" /\ h = HandleUp(m, e)
  BY <1>8, UpAnswers
<1> QED
  BY <1>1, <1>3, <1>4, <1>5, <1>6, <1>7, <1>8

(* control_input_reset leaves the panel without a capture and without an
   armed tile, and its slide as it is. *)
LEMMA PanelReset ==
    ASSUME NEW m \in Panels
    PROVE  LET n == ResetPanel(m)
           IN  /\ n \in Panels /\ n.armed = "none"
               /\ n.open = m.open /\ n.slide = m.slide /\ n.from = m.from
               /\ m.slot = NoSlot => n.slot = NoSlot
<1> DEFINE cancel == [kind |-> "CANCEL", slot |-> m.slot]
           h == IF m.slot = NoSlot THEN m ELSE Handle(m, cancel).panel
<1>1. h \in {m, Release(m)} /\ (m.slot = NoSlot => h = m)
  BY DEF Handle, Acted
<1>2. /\ h \in Panels /\ h.open = m.open /\ h.slide = m.slide
      /\ h.from = m.from /\ (m.slot = NoSlot => h.slot = NoSlot)
  BY <1>1, Released
<1>3. ResetPanel(m) = Disarm(h)
  BY DEF ResetPanel
<1> HIDE DEF h
<1> QED
  BY <1>2, <1>3, Disarmed

-----------------------------------------------------------------------------
(* In the dark the panel does not slide, nor does it come from a slide. *)
DarkInv ==
    mode = "asleep" =>
        /\ ~panel.open /\ ~panel.slide /\ ~panel.from
        /\ panel.armed = "none" /\ panel.slot = NoSlot
        /\ \A s \in Slots : router.contact[s] = NoContact /\ ~router.cube[s]

(* An armed tile was tapped, no longer ago than its confirmation thinks. *)
ArmedWasTapped ==
    panel.armed # "none" =>
        panel.armed \in RebootTiles /\ tapped[panel.armed] <= panel.armAge

IInv == TypeOK /\ RouterTracksContacts /\ DarkInv /\ ArmedWasTapped

(* touch_router_set_panel_open *)
LEMMA OpenTold ==
    ASSUME NEW r \in Routers, NEW open \in BOOLEAN
    PROVE  LET n == SetPanelOpen(r, open)
           IN  /\ n \in Routers /\ n.open = open /\ n.primary = r.primary
               /\ n.contact = r.contact /\ n.cube = r.cube
BY DEF SetPanelOpen, Routers

(* control_input_feed of one event, its three calls composed. *)
LEMMA FedFacts ==
    ASSUME TypeOK, NEW e \in Events
    PROVE  LET f == Fed(e)
           IN  /\ f.router \in Routers /\ f.panel \in Panels
               /\ \/ ArmedBefore(panel, f.panel)
                  \/ /\ e.kind = "UP" /\ e.place \in RebootTiles
                     /\ router.contact[e.slot].owner = "PANEL"
                     /\ f.panel.armed = e.place /\ f.panel.armAge = 0
               /\ panel.open /\ ~f.panel.open => f.panel.armed = "none"
               /\ Emits(f, "REBOOT") => Confirms(panel, e)
<1> DEFINE t == Tick(panel)
           r == SetPanelOpen(router, Visible(t))
           g == RouterFeed(r, e)
           o == IF g.open THEN Open(t) ELSE t
           h == IF g.panel THEN Handle(o, e) ELSE Acted(o, <<>>)
           p == IF g.close THEN Close(h.panel) ELSE h.panel
           f == Fed(e)
<1>1. f = [router |-> g.router, panel |-> p, acts |-> h.acts]
  BY DEF Fed
<1>2. panel \in Panels /\ router \in Routers
  BY DEF TypeOK
<1>3. t \in Panels /\ ArmedBefore(panel, t) /\ t.open = panel.open
  BY <1>2, PanelCalls
<1> HIDE DEF t
<1>4. r \in Routers /\ r.contact = router.contact
  <2>1. Visible(t) \in BOOLEAN
    BY <1>3 DEF Visible, Panels
  <2> QED
    BY <1>2, <2>1, OpenTold
<1> HIDE DEF r
<1>5. /\ g.router \in Routers
      /\ g.panel /\ e.kind = "UP" => router.contact[e.slot].owner = "PANEL"
  <2>1. g.router \in Routers
    BY <1>4, FeedType
  <2>2. e.kind = "UP" => Carried(r, g, e)
    BY <1>4, CarryStep
  <2> QED
    BY <1>4, <2>1, <2>2 DEF Carried
<1> HIDE DEF g
<1>6. o \in Panels /\ ArmedBefore(panel, o) /\ (panel.open => o.open = TRUE)
  <2>1. /\ Open(t) \in Panels /\ ArmedBefore(t, Open(t)) /\ Open(t).open = TRUE
    BY <1>3, PanelCalls
  <2>2. panel.open => t.open = TRUE
    BY <1>2, <1>3 DEF Panels
  <2> QED
    BY <1>3, <2>1, <2>2 DEF ArmedBefore
<1> HIDE DEF o
<1>7. Answers(o, e, h) /\ (Confirms(o, e) => Confirms(panel, e))
  <2>1. Answers(o, e, Handle(o, e))
    BY <1>6, HandleAnswers
  <2>2. Answers(o, e, Acted(o, <<>>))
    <3>1. <<>> \in Seq(QuietActs) /\ ArmedBefore(o, o)
      BY DEF ArmedBefore
    <3> QED
      BY <1>6, <3>1, QuietAnswer
  <2>3. Confirms(o, e) => Confirms(panel, e)
    BY <1>6 DEF Confirms, ArmedBefore, RebootTiles
  <2> QED
    BY <2>1, <2>2, <2>3
<1>8. ~g.panel => h.panel = o
  BY DEF Acted
<1> HIDE DEF h
<1>9. /\ h.panel \in Panels
      /\ \/ ArmedBefore(panel, h.panel)
         \/ /\ g.panel /\ e.kind = "UP" /\ e.place \in RebootTiles
            /\ h.panel.armed = e.place /\ h.panel.armAge = 0
      /\ h.panel.open = o.open \/ h.panel.armed = "none"
  BY <1>6, <1>7, <1>8 DEF Answers, ArmsOrKeeps, ArmedBefore
<1>10. Close(h.panel) \in Panels /\ Close(h.panel).armed = "none"
  BY <1>9, PanelCalls
<1>11. /\ p \in Panels
       /\ \/ ArmedBefore(panel, p)
          \/ /\ e.kind = "UP" /\ e.place \in RebootTiles
             /\ router.contact[e.slot].owner = "PANEL"
             /\ p.armed = e.place /\ p.armAge = 0
       /\ panel.open /\ ~p.open => p.armed = "none"
  <2>1. CASE g.close
    BY <1>10, <2>1 DEF ArmedBefore
  <2>2. CASE ~g.close
    BY <1>5, <1>6, <1>9, <2>2
  <2> QED
    BY <2>1, <2>2
<1> HIDE DEF p
<1>12. f.router = g.router /\ f.panel = p /\ f.acts = h.acts
  BY <1>1
<1>13. Emits(f, "REBOOT") => Confirms(panel, e)
  <2> SUFFICES ASSUME h.acts \in Seq(QuietActs) PROVE ~Emits(f, "REBOOT")
    BY <1>7 DEF Answers
  <2>1. ASSUME NEW i \in DOMAIN h.acts PROVE h.acts[i].action # "REBOOT"
    <3>1. h.acts[i] \in QuietActs
      BY ElementOfSeq, LenProperties
    <3> QED
      BY <3>1 DEF QuietActs, QuietNames
  <2> QED
    BY <1>12, <2>1 DEF Emits
<1> HIDE DEF f
<1>14. /\ f.router \in Routers /\ f.panel \in Panels
       /\ \/ ArmedBefore(panel, f.panel)
          \/ /\ e.kind = "UP" /\ e.place \in RebootTiles
             /\ router.contact[e.slot].owner = "PANEL"
             /\ f.panel.armed = e.place /\ f.panel.armAge = 0
       /\ panel.open /\ ~f.panel.open => f.panel.armed = "none"
       /\ Emits(f, "REBOOT") => Confirms(panel, e)
  BY <1>5, <1>11, <1>12, <1>13
<1> QED
  BY <1>14 DEF f

(* A touch is routed as the contacts are held. *)
LEMMA TouchRoutes ==
    ASSUME IInv, NEW e \in Events, Touch(e)
    PROVE  /\ Tracks(router', down')
           /\ \A s \in Slots : \/ router.contact[s].owner = "NONE"
                              \/ router'.contact[s].owner = "NONE"
                              \/ router.contact[s].owner = router'.contact[s].owner
           /\ \A s \in Slots : router'.cube[s] /\ ~router.cube[s] => ~Shown'
<1> DEFINE t == Tick(panel)
           open == Visible(t)
           r == SetPanelOpen(router, open)
           g == RouterFeed(r, e)
<1>1. /\ router' = g.router
      /\ down' = [down EXCEPT ![e.slot] = (e.kind \in {"DOWN", "MOVE"})]
      /\ (e.kind = "DOWN") <=> ~down[e.slot]
      /\ ~sleepRequested /\ mode # "asleep"
  BY DEF Touch, Fed, Announce, Legal
<1>2. panel \in Panels /\ router \in Routers /\ down \in [Slots -> BOOLEAN]
  BY DEF IInv, TypeOK
<1>3. t \in Panels
  BY <1>2, PanelCalls
<1>4. open \in BOOLEAN
  BY <1>3 DEF Visible, Panels
<1>5. /\ r \in Routers /\ r.open = open /\ r.primary = router.primary
      /\ r.contact = router.contact /\ r.cube = router.cube
  <2> HIDE DEF open
  <2> QED
    BY <1>2, <1>4, OpenTold
<1>6. Tracks(r, down)
  <2>1. Tracks(router, down)
    BY <1>1 DEF IInv, RouterTracksContacts, Tracks
  <2> HIDE DEF r
  <2> QED
    BY <1>5, <2>1 DEF Tracks
<1>7. e.slot \in Slots
  BY EventType
<1>8. /\ Tracks(router', down')
      /\ \A s \in Slots : \/ r.contact[s].owner = "NONE"
                         \/ router'.contact[s].owner = "NONE"
                         \/ r.contact[s].owner = router'.contact[s].owner
  <2> HIDE DEF r
  <2> QED
    BY <1>1, <1>2, <1>5, <1>6, FeedTracks
<1>9. ASSUME NEW s \in Slots, router'.cube[s], ~router.cube[s]
      PROVE  ~Shown'
  <2> HIDE DEF r
  <2>1. e.kind = "DOWN"
    <3> SUFFICES ASSUME e.kind # "DOWN" PROVE FALSE
      OBVIOUS
    <3>1. Carried(r, g, e)
      BY <1>5, CarryStep
    <3> HIDE DEF g
    <3> QED
      BY <1>1, <1>5, <1>9, <3>1 DEF Carried, Moved
  <2>2. Begun(r, g, e.slot)
    <3>1. g = BeginContact(r, e)
      BY <2>1 DEF RouterFeed
    <3> QED
      BY <1>5, <3>1, BeginStep
  <2> HIDE DEF g
  <2>3. ~open /\ ~g.panel /\ g.open = FALSE /\ g.close = FALSE
    BY <1>1, <1>5, <1>9, <2>2 DEF Begun, Moved
  <2>4. panel' = t
    <3>1. Fed(e).panel = t
      BY <2>3 DEF Fed, Acted, g, r
    <3> QED
      BY <3>1 DEF Touch
  <2> QED
    BY <2>3, <2>4 DEF Shown, Visible
<1> QED
  BY <1>5, <1>8, <1>9

(* A touch keeps the invariant. *)
LEMMA TouchStep ==
    ASSUME IInv, NEW e \in Events, Touch(e)
    PROVE  IInv'
<1> DEFINE f == Fed(e)
           isTap == e.kind = "UP" /\ e.place \in RebootTiles
                    /\ router.contact[e.slot].owner = "PANEL"
           taps == IF isTap THEN [tapped EXCEPT ![e.place] = 0] ELSE tapped
<1>1. /\ mode # "asleep" /\ mode' = mode
      /\ router' = f.router /\ panel' = f.panel
      /\ sleepRequested' = Emits(f, "SLEEP_NOW")
      /\ down' = [down EXCEPT ![e.slot] = (e.kind \in {"DOWN", "MOVE"})]
      /\ tapped' = TapsAfter(taps, f.panel)
  BY DEF Touch, Announce
<1>2. /\ f.router \in Routers /\ f.panel \in Panels
      /\ \/ ArmedBefore(panel, f.panel)
         \/ isTap /\ f.panel.armed = e.place /\ f.panel.armAge = 0
      /\ panel.open /\ ~f.panel.open => f.panel.armed = "none"
  BY FedFacts DEF IInv
<1>3. /\ tapped \in [RebootTiles -> 0 .. ArmTicks]
      /\ mode \in {"first", "awake", "asleep"} /\ panel \in Panels
  BY DEF IInv, TypeOK
<1>4. NoTaps \in [RebootTiles -> 0 .. ArmTicks] /\ 0 \in 0 .. ArmTicks
  BY TickAssumption DEF NoTaps
<1>5. /\ taps \in [RebootTiles -> 0 .. ArmTicks]
      /\ \A tile \in RebootTiles : taps[tile] <= tapped[tile]
      /\ isTap => taps[e.place] = 0 /\ e.place \in RebootTiles
  BY <1>3, <1>4, TickAssumption
<1>6. sleepRequested' \in BOOLEAN
  BY <1>1 DEF Emits
<1>7. down' \in [Slots -> BOOLEAN]
  <2>1. (e.kind \in {"DOWN", "MOVE"}) \in BOOLEAN /\ e.slot \in Slots
    BY EventType
  <2> QED
    BY <1>1, <2>1 DEF IInv, TypeOK
<1> HIDE DEF f, isTap, taps
<1>8. tapped' \in [RebootTiles -> 0 .. ArmTicks]
  BY <1>1, <1>4, <1>5 DEF TapsAfter
<1>9. TypeOK'
  BY <1>1, <1>2, <1>3, <1>6, <1>7, <1>8 DEF TypeOK
<1>10. RouterTracksContacts'
  BY TouchRoutes DEF RouterTracksContacts, Tracks
<1>11. DarkInv'
  BY <1>1 DEF DarkInv
<1>12. ArmedWasTapped'
  <2> SUFFICES ASSUME f.panel.armed # "none"
               PROVE  /\ f.panel.armed \in RebootTiles
                      /\ tapped'[f.panel.armed] <= f.panel.armAge
    BY <1>1 DEF ArmedWasTapped
  <2>1. tapped' = taps
    BY <1>1, <1>2 DEF TapsAfter
  <2>2. CASE ArmedBefore(panel, f.panel)
    <3>1. panel.armed = f.panel.armed /\ panel.armAge = f.panel.armAge
      BY <2>2 DEF ArmedBefore
    <3>2. /\ panel.armed \in RebootTiles
          /\ tapped[panel.armed] <= panel.armAge
      BY <3>1 DEF IInv, ArmedWasTapped
    <3>3. /\ tapped[panel.armed] \in 0 .. ArmTicks
          /\ taps[panel.armed] \in 0 .. ArmTicks
          /\ taps[panel.armed] <= tapped[panel.armed]
          /\ panel.armAge \in 0 .. ArmTicks
      BY <1>3, <1>5, <3>2 DEF Panels
    <3> QED
      BY <2>1, <3>1, <3>2, <3>3, TickAssumption
  <2>3. CASE isTap /\ f.panel.armed = e.place /\ f.panel.armAge = 0
    <3>1. f.panel.armed = e.place /\ e.place \in RebootTiles /\ taps[e.place] = 0
      BY <1>5, <2>3
    <3>2. tapped'[f.panel.armed] = 0 /\ f.panel.armAge = 0
      BY <2>1, <2>3, <3>1
    <3> QED
      BY <3>1, <3>2
  <2> QED
    BY <1>2, <2>2, <2>3
<1> QED
  BY <1>9, <1>10, <1>11, <1>12 DEF IInv

(* control_input_reset leaves nobody's contact and nothing armed. *)
LEMMA ResetFacts ==
    ASSUME IInv, NEW m \in Panels, Reset(m)
    PROVE  /\ router' \in Routers /\ panel' \in Panels
           /\ down' \in [Slots -> BOOLEAN]
           /\ tapped' \in [RebootTiles -> 0 .. ArmTicks]
           /\ Tracks(router', down') /\ panel'.armed = "none"
           /\ \A s \in Slots : router'.contact[s] = NoContact /\ ~router'.cube[s]
           /\ panel'.open = m.open /\ panel'.slide = m.slide
           /\ panel'.from = m.from /\ (m.slot = NoSlot => panel'.slot = NoSlot)
<1>1. /\ router' = RouterReset(router) /\ panel' = ResetPanel(m)
      /\ down' = [s \in Slots |-> FALSE] /\ tapped' = NoTaps
  BY DEF Reset
<1>2. router.open \in BOOLEAN
  BY DEF IInv, TypeOK, Routers
<1>3. NoContact \in Contacts /\ NoContact.owner = "NONE"
  BY DEF NoContact, Contacts, Owners
<1>4. /\ router' \in Routers /\ router'.primary = NoSlot
      /\ router'.contact = [s \in Slots |-> NoContact]
      /\ router'.cube = [s \in Slots |-> FALSE]
  BY <1>1, <1>2, <1>3 DEF RouterReset, RouterInit, Routers
<1>5. Tracks(router', down')
  BY <1>1, <1>3, <1>4 DEF Tracks
<1>6. tapped' \in [RebootTiles -> 0 .. ArmTicks]
  BY <1>1, TickAssumption DEF NoTaps
<1>7. down' \in [Slots -> BOOLEAN]
  BY <1>1
<1>8. /\ panel' \in Panels /\ panel'.armed = "none"
      /\ panel'.open = m.open /\ panel'.slide = m.slide
      /\ panel'.from = m.from /\ (m.slot = NoSlot => panel'.slot = NoSlot)
  BY <1>1, PanelReset
<1> QED
  BY <1>4, <1>5, <1>6, <1>7, <1>8

(* The turn of the tablet, sleep and wake keep the invariant. *)
LEMMA ResetStep == IInv /\ (Sleep \/ Wake \/ Turn) => IInv'
<1>1. ASSUME IInv, NEW m \in Panels, Reset(m), sleepRequested' \in BOOLEAN,
             mode' \in {"first", "awake", "asleep"},
             mode' = "asleep" => ~m.open /\ ~m.slide /\ ~m.from /\ m.slot = NoSlot
      PROVE  IInv'
  <2>1. /\ router' \in Routers /\ panel' \in Panels
        /\ down' \in [Slots -> BOOLEAN]
        /\ tapped' \in [RebootTiles -> 0 .. ArmTicks]
    BY <1>1, ResetFacts
  <2>2. Tracks(router', down') /\ panel'.armed = "none"
    BY <1>1, ResetFacts
  <2>3. /\ \A s \in Slots : router'.contact[s] = NoContact /\ ~router'.cube[s]
        /\ panel'.open = m.open /\ panel'.slide = m.slide
        /\ panel'.from = m.from /\ (m.slot = NoSlot => panel'.slot = NoSlot)
    BY <1>1, ResetFacts
  <2>4. TypeOK'
    BY <1>1, <2>1 DEF TypeOK
  <2>5. RouterTracksContacts'
    BY <2>2 DEF RouterTracksContacts, Tracks
  <2>6. DarkInv'
    BY <1>1, <2>2, <2>3 DEF DarkInv
  <2>7. ArmedWasTapped'
    BY <2>2 DEF ArmedWasTapped
  <2> QED
    BY <2>4, <2>5, <2>6, <2>7 DEF IInv
<1>2. ASSUME IInv, Sleep PROVE IInv'
  <2> DEFINE c == Close(panel)
             m == [c EXCEPT !.slide = FALSE, !.from = FALSE]
  <2>1. c \in Panels /\ c.open = FALSE /\ c.slot = NoSlot
    BY <1>2, PanelCalls DEF IInv, TypeOK
  <2>2. Reset(m) /\ sleepRequested' = FALSE /\ mode' = "asleep"
    BY <1>2 DEF Sleep
  <2> HIDE DEF c
  <2>3. /\ m \in Panels /\ m.open = FALSE /\ m.slot = NoSlot
        /\ m.slide = FALSE /\ m.from = FALSE
    BY <2>1 DEF Panels
  <2> HIDE DEF m
  <2> QED
    BY <1>1, <1>2, <2>2, <2>3
<1>3. ASSUME IInv, Wake \/ Turn PROVE IInv'
  <2>1. /\ Reset(panel) /\ sleepRequested' = sleepRequested
        /\ mode' \in {"first", mode} /\ mode' # "asleep"
    BY <1>3 DEF Wake, Turn
  <2>2. /\ panel \in Panels /\ sleepRequested' \in BOOLEAN
        /\ mode' \in {"first", "awake", "asleep"}
    BY <1>3, <2>1 DEF IInv, TypeOK
  <2> QED
    BY <1>1, <1>3, <2>1, <2>2
<1> QED
  BY <1>2, <1>3

(* A frame keeps the invariant, in the dark as well. *)
LEMMA FrameStep == IInv /\ Frame => IInv'
<1> SUFFICES ASSUME IInv, Frame PROVE IInv'
  OBVIOUS
<1> DEFINE t == Tick(panel)
           open == Visible(t)
<1>1. PICK w \in WifiReadings : panel' = [t EXCEPT !.wifi = w]
  BY DEF Frame
<1>2. /\ router' = IF mode = "asleep" THEN router ELSE SetPanelOpen(router, open)
      /\ UNCHANGED <<down, sleepRequested, mode, tapped>>
  BY DEF Frame
<1>3. panel \in Panels /\ router \in Routers
  BY DEF IInv, TypeOK
<1>4. t \in Panels /\ ArmedBefore(panel, t) /\ t.open = panel.open /\ t.slot = panel.slot
  BY <1>3, PanelCalls
<1>5. ~panel.open /\ ~panel.from => ~t.slide /\ ~t.from
  <2> DEFINE n == SlideTick(panel)
  <2>1. /\ n \in Panels /\ n.from = panel.from
        /\ ~panel.open /\ ~panel.from => ~n.slide
    BY <1>3, SlideTicked
  <2>2. t = n \/ t = Disarm(n)
    BY DEF Tick
  <2> HIDE DEF n, t
  <2> QED
    BY <2>1, <2>2, Disarmed
<1>6. open \in BOOLEAN
  BY <1>4 DEF Visible, Panels
<1> HIDE DEF t, open
<1>7. w \in WifiStates
  BY InitialAssumption
<1>8. /\ panel' \in Panels /\ panel'.open = t.open /\ panel'.slide = t.slide
      /\ panel'.from = t.from /\ panel'.armed = t.armed
      /\ panel'.armAge = t.armAge /\ panel'.slot = t.slot
  BY <1>1, <1>4, <1>7 DEF Panels
<1>9. /\ router' \in Routers /\ router'.primary = router.primary
      /\ router'.contact = router.contact /\ router'.cube = router.cube
  BY <1>2, <1>3, <1>6, OpenTold
<1>10. TypeOK'
  BY <1>2, <1>8, <1>9 DEF IInv, TypeOK
<1>11. RouterTracksContacts'
  BY <1>2, <1>9 DEF IInv, RouterTracksContacts
<1>12. DarkInv'
  BY <1>2, <1>4, <1>5, <1>8, <1>9 DEF IInv, DarkInv, ArmedBefore
<1>13. ArmedWasTapped'
  BY <1>2, <1>4, <1>8 DEF IInv, ArmedWasTapped, ArmedBefore
<1> QED
  BY <1>10, <1>11, <1>12, <1>13 DEF IInv

(* The clock keeps the invariant: what is armed grows older with its tap. *)
LEMMA ElapseStep == IInv /\ Elapse => IInv'
<1> SUFFICES ASSUME IInv, Elapse PROVE IInv'
  OBVIOUS
<1> DEFINE Grown(age, limit) == IF age < limit THEN age + 1 ELSE age
           n == Older(panel)
           armAge == IF panel.armed = "none" THEN 0 ELSE Grown(panel.armAge, ArmTicks)
           slideAge == Grown(panel.slideAge, SlideTicks)
           tapAge == IF panel.slot = NoSlot THEN 0 ELSE Grown(panel.tapAge, TapTicks)
<1>1. /\ panel' = n
      /\ tapped' = [t \in RebootTiles |-> IF tapped[t] < ArmTicks
                                          THEN tapped[t] + 1 ELSE ArmTicks]
      /\ UNCHANGED <<router, down, sleepRequested, mode>>
  BY DEF Elapse
<1>2. /\ panel \in Panels /\ tapped \in [RebootTiles -> 0 .. ArmTicks]
  BY DEF IInv, TypeOK
<1>3. /\ SlideTicks \in Nat /\ TapTicks \in Nat /\ ArmTicks \in Nat
  BY TickAssumption
<1>4. /\ armAge \in 0 .. ArmTicks /\ slideAge \in 0 .. SlideTicks
      /\ tapAge \in 0 .. TapTicks
  BY <1>2, <1>3 DEF Panels
<1>5. n = [panel EXCEPT !.slideAge = slideAge, !.armAge = armAge, !.tapAge = tapAge]
  BY DEF Older
<1> HIDE DEF n, slideAge, tapAge
<1>6. panel.armed # "none" => armAge = Grown(panel.armAge, ArmTicks)
  OBVIOUS
<1> HIDE DEF armAge
<1>7. /\ n \in Panels /\ n.open = panel.open /\ n.slide = panel.slide
      /\ n.from = panel.from /\ n.armed = panel.armed /\ n.slot = panel.slot
      /\ n.armAge = armAge
  BY <1>2, <1>4, <1>5 DEF Panels
<1>8. tapped' \in [RebootTiles -> 0 .. ArmTicks]
  BY <1>1, <1>2, <1>3
<1>9. TypeOK'
  BY <1>1, <1>7, <1>8 DEF IInv, TypeOK
<1>10. RouterTracksContacts' /\ DarkInv'
  BY <1>1, <1>7 DEF IInv, RouterTracksContacts, DarkInv
<1>11. ArmedWasTapped'
  <2> SUFFICES ASSUME panel.armed # "none"
               PROVE  /\ panel.armed \in RebootTiles
                      /\ tapped'[panel.armed] <= armAge
    BY <1>1, <1>7 DEF ArmedWasTapped
  <2>1. panel.armed \in RebootTiles /\ tapped[panel.armed] <= panel.armAge
    BY DEF IInv, ArmedWasTapped
  <2>2. tapped[panel.armed] \in 0 .. ArmTicks /\ panel.armAge \in 0 .. ArmTicks
    BY <1>2, <2>1 DEF Panels
  <2>3. tapped'[panel.armed] = IF tapped[panel.armed] < ArmTicks
                               THEN tapped[panel.armed] + 1 ELSE ArmTicks
    BY <1>1, <2>1
  <2> QED
    BY <1>3, <1>6, <2>1, <2>2, <2>3
<1> QED
  BY <1>9, <1>10, <1>11 DEF IInv

(* A touch in the dark, a request to sleep and the first frame shown move
   neither the router nor the panel. *)
LEMMA AsideStep ==
    ASSUME IInv,
           \/ \E e \in Events : LostTouch(e)
           \/ RequestSleep \/ FirstShown \/ UNCHANGED vars
    PROVE  IInv'
<1>1. /\ UNCHANGED <<router, panel, tapped>>
      /\ down' \in [Slots -> BOOLEAN] /\ sleepRequested' \in BOOLEAN
      /\ mode' \in {"first", "awake", "asleep"}
      /\ mode' = "asleep" => mode = "asleep"
      /\ ~sleepRequested' /\ mode' # "asleep"
            => ~sleepRequested /\ mode # "asleep" /\ down' = down
  <2>1. CASE \E e \in Events : LostTouch(e)
    <3>1. PICK e \in Events : LostTouch(e)
      BY <2>1
    <3>2. (e.kind \in {"DOWN", "MOVE"}) \in BOOLEAN /\ e.slot \in Slots
      BY EventType
    <3>3. down' \in [Slots -> BOOLEAN]
      BY <3>1, <3>2 DEF LostTouch, Announce, IInv, TypeOK
    <3> QED
      BY <3>1, <3>3 DEF LostTouch, IInv, TypeOK
  <2>2. CASE RequestSleep
    BY <2>2 DEF RequestSleep, IInv, TypeOK
  <2>3. CASE FirstShown
    BY <2>3 DEF FirstShown, IInv, TypeOK
  <2>4. CASE UNCHANGED vars
    BY <2>4 DEF vars, IInv, TypeOK
  <2> QED
    BY <2>1, <2>2, <2>3, <2>4
<1>2. TypeOK'
  BY <1>1 DEF IInv, TypeOK
<1>3. RouterTracksContacts'
  BY <1>1 DEF IInv, RouterTracksContacts
<1>4. DarkInv' /\ ArmedWasTapped'
  BY <1>1 DEF IInv, DarkInv, ArmedWasTapped
<1> QED
  BY <1>2, <1>3, <1>4 DEF IInv

(* The start satisfies the invariant. *)
LEMMA InitIInv == Init => IInv
<1> SUFFICES ASSUME Init PROVE IInv
  OBVIOUS
<1>1. NoContact \in Contacts /\ NoContact.owner = "NONE"
  BY DEF NoContact, Contacts, Owners
<1>2. /\ router \in Routers /\ router.primary = NoSlot
      /\ router.contact = [s \in Slots |-> NoContact]
      /\ router.cube = [s \in Slots |-> FALSE]
  BY <1>1 DEF Init, RouterInit, Routers
<1>3. PICK auto \in InitialAuto :
            panel = PanelInit(InitialLevel, auto, InitialMinutes)
  BY DEF Init
<1>4. auto \in BOOLEAN
  BY InitialAssumption
<1>5. panel \in Panels /\ panel.armed = "none"
  <2>1. /\ InitialLevel \in Levels /\ InitialMinutes \in Minutes
        /\ SlideTicks \in 0 .. SlideTicks /\ 0 \in 0 .. ArmTicks
        /\ 0 \in 0 .. TapTicks /\ "off" \in WifiStates /\ "none" \in Arms
        /\ "none" \in Captures
    BY InitialAssumption, TickAssumption DEF WifiStates, Arms, Captures
  <2> QED
    BY <1>3, <1>4, <2>1 DEF PanelInit, Panels
<1>6. /\ tapped \in [RebootTiles -> 0 .. ArmTicks]
      /\ down = [s \in Slots |-> FALSE]
      /\ sleepRequested = FALSE /\ mode = "first"
  BY TickAssumption DEF Init, NoTaps
<1>7. TypeOK
  BY <1>2, <1>5, <1>6 DEF TypeOK
<1>8. RouterTracksContacts
  BY <1>1, <1>2, <1>6 DEF RouterTracksContacts
<1>9. DarkInv /\ ArmedWasTapped
  BY <1>5, <1>6 DEF DarkInv, ArmedWasTapped
<1> QED
  BY <1>7, <1>8, <1>9 DEF IInv

-----------------------------------------------------------------------------
(* The invariant holds however touches, frames, turns and sleeps come. *)
THEOREM InputInductive == Spec => []IInv
<1>1. IInv /\ [Next]_vars => IInv'
  <2> SUFFICES ASSUME IInv, [Next]_vars PROVE IInv'
    OBVIOUS
  <2>1. CASE \E e \in Events : Touch(e)
    BY <2>1, TouchStep
  <2>2. CASE \/ \E e \in Events : LostTouch(e)
             \/ RequestSleep \/ FirstShown \/ UNCHANGED vars
    BY <2>2, AsideStep
  <2>3. CASE Sleep \/ Wake \/ Turn
    BY <2>3, ResetStep
  <2>4. CASE Frame
    BY <2>4, FrameStep
  <2>5. CASE Elapse
    BY <2>5, ElapseStep
  <2> QED
    BY <2>1, <2>2, <2>3, <2>4, <2>5 DEF Next
<1> QED
  BY <1>1, InitIInv, PTL DEF Spec

(* Router, panel and reset keep their fields in range, for any tiles and any
   durations of the slide, of a tap and of a confirmation. *)
THEOREM TypeCorrect == Spec => []TypeOK
BY InputInductive, PTL DEF IInv

(* With any number of fingers the router holds a contact exactly as long as
   the decoder does, and its primary contact is never a stranger's. *)
THEOREM RouterTracksContactsThm == Spec => []RouterTracksContacts
BY InputInductive, PTL DEF IInv

(* A contact is not handed from one owner to another: touch_router.c routes
   it to whoever had it first until it ends or is reset. *)
THEOREM OwnerKeepsContactThm == Spec => OwnerKeepsContact
<1> DEFINE Kept == \A s \in Slots :
                \/ router.contact[s].owner = "NONE"
                \/ router'.contact[s].owner = "NONE"
                \/ router.contact[s].owner = router'.contact[s].owner
<1>1. IInv /\ [Next]_vars => Kept
  <2> SUFFICES ASSUME IInv, [Next]_vars PROVE Kept
    OBVIOUS
  <2>1. CASE \E e \in Events : Touch(e)
    BY <2>1, TouchRoutes
  <2>2. CASE Sleep \/ Wake \/ Turn
    <3>1. PICK m : Reset(m) /\ router' = RouterReset(router)
      BY <2>2 DEF Sleep, Wake, Turn, Reset
    <3> QED
      BY <3>1 DEF RouterReset, RouterInit, NoContact
  <2>3. CASE ~(\E e \in Events : Touch(e)) /\ ~(Sleep \/ Wake \/ Turn)
    <3>1. router'.contact = router.contact
      <4>1. \A open : SetPanelOpen(router, open).contact = router.contact
        BY DEF SetPanelOpen, IInv, TypeOK, Routers
      <4> QED
        BY <2>3, <4>1 DEF Next, LostTouch, Frame, RequestSleep, FirstShown,
                          Elapse, vars
    <3> QED
      BY <3>1
  <2> QED
    BY <2>1, <2>2, <2>3
<1>2. IInv /\ [Next]_vars =>
        [\A s \in Slots :
            LET was == router.contact[s].owner
                is == router'.contact[s].owner
            IN  was = "NONE" \/ is = "NONE" \/ was = is]_vars
  BY <1>1
<1> QED
  BY <1>2, InputInductive, PTL DEF Spec, OwnerKeepsContact

(* While the panel can be seen, sliding away included, no contact becomes the
   cube's, whatever else is on the glass. *)
THEOREM VisiblePanelTakesContactsThm == Spec => VisiblePanelTakesContacts
<1> DEFINE Taken == \A s \in Slots : router'.cube[s] /\ ~router.cube[s] => ~Shown'
<1>1. IInv /\ [Next]_vars => Taken
  <2> SUFFICES ASSUME IInv, [Next]_vars PROVE Taken
    OBVIOUS
  <2>1. CASE \E e \in Events : Touch(e)
    BY <2>1, TouchRoutes
  <2>2. CASE Sleep \/ Wake \/ Turn
    <3>1. PICK m : Reset(m) /\ router' = RouterReset(router)
      BY <2>2 DEF Sleep, Wake, Turn, Reset
    <3>2. router'.cube = [s \in Slots |-> FALSE]
      BY <3>1 DEF RouterReset, RouterInit
    <3> QED
      BY <3>2
  <2>3. CASE ~(\E e \in Events : Touch(e)) /\ ~(Sleep \/ Wake \/ Turn)
    <3>1. router'.cube = router.cube
      <4>1. \A open : SetPanelOpen(router, open).cube = router.cube
        BY DEF SetPanelOpen, IInv, TypeOK, Routers
      <4> QED
        BY <2>3, <4>1 DEF Next, LostTouch, Frame, RequestSleep, FirstShown,
                          Elapse, vars
    <3> QED
      BY <3>1
  <2> QED
    BY <2>1, <2>2, <2>3
<1>2. IInv /\ [Next]_vars => [Taken]_vars
  BY <1>1
<1> QED
  BY <1>2, InputInductive, PTL DEF Spec, VisiblePanelTakesContacts

(* A reboot takes the second of two taps on its tile, in time: the panel's
   armed tile and its age are never older than the tap that armed it. *)
THEOREM RebootIsConfirmedThm == Spec => []RebootIsConfirmed
<1>1. IInv => RebootIsConfirmed
  <2> SUFFICES ASSUME IInv, NEW e \in Events, Emits(Fed(e), "REBOOT")
               PROVE  /\ e.kind = "UP" /\ e.place \in RebootTiles
                      /\ tapped[e.place] < ArmTicks
    BY DEF RebootIsConfirmed
  <2>1. Confirms(panel, e)
    BY FedFacts DEF IInv
  <2>2. /\ e.kind = "UP" /\ e.place \in RebootTiles
        /\ panel.armed = e.place /\ panel.armAge < ArmTicks
    BY <2>1 DEF Confirms
  <2>3. tapped[e.place] <= panel.armAge
    BY <2>2 DEF IInv, ArmedWasTapped, RebootTiles
  <2>4. /\ tapped[e.place] \in Nat /\ panel.armAge \in Nat /\ ArmTicks \in Nat
    BY <2>2, TickAssumption DEF IInv, TypeOK, Panels
  <2> QED
    BY <2>2, <2>3, <2>4
<1> QED
  BY <1>1, InputInductive, PTL

(* A contact that falls silent over a tile presses nothing: cc_handle lets go
   of it and emits no action. *)
THEOREM CancelActsOnNothingThm == Spec => []CancelActsOnNothing
<1>1. IInv => CancelActsOnNothing
  <2> SUFFICES ASSUME IInv, NEW e \in Events, e.kind = "CANCEL"
               PROVE  /\ Fed(e).acts = <<>>
                      /\ Fed(e).panel \in {Tick(panel), Release(Tick(panel))}
    BY DEF CancelActsOnNothing
  <2> DEFINE t == Tick(panel)
             r == SetPanelOpen(router, Visible(t))
             g == RouterFeed(r, e)
             h == IF g.panel THEN Handle(t, e) ELSE Acted(t, <<>>)
  <2>1. g.open = FALSE /\ g.close = FALSE
    <3>1. t \in Panels /\ router \in Routers
      BY PanelCalls DEF IInv, TypeOK
    <3>2. Visible(t) \in BOOLEAN
      BY <3>1 DEF Visible, Panels
    <3> HIDE DEF t
    <3>3. r \in Routers
      BY <3>1, <3>2, OpenTold
    <3> HIDE DEF r
    <3>4. Carried(r, g, e)
      BY <3>3, CarryStep
    <3> QED
      BY <3>4 DEF Carried
  <2>2. Fed(e) = [router |-> g.router, panel |-> h.panel, acts |-> h.acts]
    BY <2>1 DEF Fed
  <2>3. h = Acted(t, <<>>) \/ h = Acted(Release(t), <<>>)
    BY DEF Handle
  <2> HIDE DEF t, h, g
  <2>4. h.acts = <<>> /\ h.panel \in {t, Release(t)}
    BY <2>3 DEF Acted
  <2> QED
    BY <2>2, <2>4 DEF t
<1> QED
  BY <1>1, InputInductive, PTL

(* control_input_reset and the cleared slide leave nothing a wake could show,
   fire or confirm, however many frames the dark loop runs. *)
THEOREM DarkIsQuietThm == Spec => []DarkIsQuiet
<1>1. IInv => DarkIsQuiet
  BY DEF IInv, DarkInv, DarkIsQuiet, Shown
<1> QED
  BY <1>1, InputInductive, PTL
===============================================================================
