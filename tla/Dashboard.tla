------------------------------ MODULE Dashboard ------------------------------
(***************************************************************************)
(* What the pages show: the data store, the REST handlers that change it,  *)
(* the snapshot and the events a page is sent, and the page's own state    *)
(* (frontend/index.html), which also follows the answers to its requests.  *)
(*                                                                         *)
(* A handler assigns and broadcasts with no await in between.  A broadcast *)
(* is taken here by its contract, which Broadcast checks: it reaches every *)
(* browser in the order of the broadcasts, unless it is disturbed: by one  *)
(* that joins or leaves, or by a cancellation.  A disturbed one may miss   *)
(* any page, and may reach any page late: after newer events, after a      *)
(* snapshot that has it already, or again.                                 *)
(***************************************************************************)
EXTENDS Integers, FiniteSets, SequencesExt

CONSTANTS Pages,
          Bundles, NoMaterial,
          Lines,        \* bound: of "a" and "b", whose work codes are set
          Requested,    \* bound: the settings that are changed by requests
          StoreCap,     \* deque(maxlen=1000)
          SnapLimit,    \* get_logs(limit=50)
          ScreenCap,    \* slice(0, 500)
          MaxChanges,   \* bound: changes of the store, requests included
          MaxOutages,   \* bound: crashes of the backend and connections lost
          MaxDisturbed  \* bound: broadcasts disturbed, and what of them comes late

ASSUME BundlesAssumption == NoMaterial \notin Bundles
ASSUME LinesAssumption == Lines \subseteq {"a", "b"}
ASSUME RequestedAssumption == Requested \subseteq {"enabled", "paused", "work"}
ASSUME CapAssumption == /\ {StoreCap, SnapLimit, ScreenCap} \subseteq Nat
                        /\ 0 < StoreCap /\ 0 < SnapLimit /\ SnapLimit <= ScreenCap
ASSUME BoundsAssumption == {MaxChanges, MaxOutages, MaxDisturbed} \subseteq Nat

VARIABLES
  up,          \* the backend runs
  store,       \* its DataStore and the client's alive_paused
  open,        \* the pages whose WebSocket is in active_connections
  queue,       \* what each is sent and has not handled
  screen,      \* the state of each page
  asked,       \* the page's request: {} or one, with where it is
  overruled,   \* history: what a page shows by an answer alone
  late,        \* the events of disturbed broadcasts
  astray,      \* history: pages and what of their events they missed, or got late
  changes, outages, disturbances

bounds == <<changes, outages, disturbances>>
delivery == <<late, astray>>
vars == <<up, store, open, queue, screen, asked, overruled, delivery, bounds>>

Settings == {"state", "enabled", "paused", "work"}
Parts == Settings \cup {"material", "winding_status", "packet_log"}
WorkCodes == {"01", "99"}
Values(f) == CASE f = "state" -> {"disconnected", "connected"}
               [] f \in {"enabled", "paused"} -> BOOLEAN
               [] f = "work" -> [Lines -> WorkCodes]
Blank == [f \in Settings |-> IF f = "state" THEN "disconnected"
                             ELSE IF f = "work" THEN [l \in Lines |-> "01"] ELSE FALSE]

(* A coil and its layers, by the number of the send that set them; 0: none *)
Coils == [bundle : Bundles, layers : 0 .. MaxChanges]

NewStore == [set |-> Blank, material |-> NoMaterial, coils |-> <<>>, logs |-> <<>>, last |-> 0]
NewPage == [set |-> Blank, material |-> NoMaterial, grid |-> 0, logs |-> <<>>]

TypeOK ==
  /\ up \in BOOLEAN
  /\ \A f \in Settings : store.set[f] \in Values(f)
  /\ store.material \in Bundles \cup {NoMaterial}
  /\ store.coils \in Seq(Coils) /\ IsInjective([i \in DOMAIN store.coils |-> store.coils[i].bundle])
  /\ Len(store.logs) <= StoreCap
  /\ open \subseteq Pages /\ (open # {} => up)
  /\ \A p \in Pages \ open : queue[p] = <<>>
  /\ \A p \in Pages : /\ \A f \in Settings : screen[p].set[f] \in Values(f)
                      /\ Len(screen[p].logs) <= ScreenCap
                      /\ Cardinality(asked[p]) <= 1
  /\ astray \subseteq open \X Parts /\ \A m \in late : m.type \in Parts

Init ==
  /\ up = TRUE
  /\ store = NewStore
  /\ open = {}
  /\ queue = [p \in Pages |-> <<>>]
  /\ screen = [p \in Pages |-> NewPage]
  /\ asked = [p \in Pages |-> {}]
  /\ overruled = {} /\ late = {} /\ astray = {}
  /\ changes = 0 /\ outages = 0 /\ disturbances = 0

-----------------------------------------------------------------------------
(* The backend.                                                            *)

First(n, s) == SubSeq(s, 1, Min({n, Len(s)}))
Newest(coils) == Last(coils).layers
Counted(n, max) == n < max

(* An event says all there is to say of its part, but a telegram does not  *)
(* bring back those before it.                                             *)
Mended(type) == {type} \ {"packet_log"}

(* broadcast: to every listed browser in order, unless it is disturbed.    *)
Broadcasts(type, data) ==
  \E disturbed \in BOOLEAN, reached \in SUBSET open :
    /\ IF disturbed THEN open # {} /\ Counted(disturbances, MaxDisturbed) ELSE reached = open
    /\ disturbances' = IF disturbed THEN disturbances + 1 ELSE disturbances
    /\ late' = IF disturbed THEN late \cup {[type |-> type, data |-> data]} ELSE late
    /\ astray' = (astray \ (reached \X Mended(type))) \cup ((open \ reached) \X {type})
    /\ queue' = [p \in Pages |-> IF p \in reached
                                 THEN Append(queue[p], [type |-> type, data |-> data])
                                 ELSE queue[p]]

(* What is left of a disturbed broadcast comes to a page. *)
ArrivesLate(p) ==
  /\ p \in open /\ Counted(disturbances, MaxDisturbed)
  /\ \E m \in late : /\ queue' = [queue EXCEPT ![p] = Append(@, m)]
                     /\ astray' = astray \cup {<<p, m.type>>}
  /\ disturbances' = disturbances + 1
  /\ UNCHANGED <<up, store, open, screen, asked, overruled, late, changes, outages>>

Changing ==
  /\ up /\ Counted(changes, MaxChanges)
  /\ changes' = changes + 1
  /\ UNCHANGED <<up, open, screen, overruled, outages>>

(* Announced, the watchdog, _on_disconnected: connection_state. *)
ConnectionChanges(s) ==
  /\ Changing
  /\ s # store.set["state"]
  /\ store' = [store EXCEPT !.set["state"] = s]
  /\ Broadcasts("state", s)
  /\ UNCHANGED asked

(* add_packet_log and its event. *)
PacketLogged ==
  LET n == store.last + 1
  IN  /\ Changing
      /\ store' = [store EXCEPT !.last = n,
                     !.logs = First(StoreCap, <<n>> \o @)]
      /\ Broadcasts("packet_log", n)
      /\ UNCHANGED asked

(* The place of a coil in the dict, a new one at its end. *)
Place(coils, bn) ==
  IF \E i \in DOMAIN coils : coils[i].bundle = bn
  THEN CHOOSE i \in DOMAIN coils : coils[i].bundle = bn
  ELSE Len(coils) + 1

(* update_coil_from_material *)
UpdateCoilFromMaterial(coils, bn) ==
  IF Place(coils, bn) \in DOMAIN coils THEN coils ELSE Append(coils, [bundle |-> bn, layers |-> 0])

(* update_winding *)
UpdateWinding(coils, bn, layers) ==
  [UpdateCoilFromMaterial(coils, bn) EXCEPT ![Place(coils, bn)].layers = layers]

(* _handle_material *)
MaterialReceived(bn) ==
  /\ Changing
  /\ store' = [store EXCEPT !.material = bn, !.coils = UpdateCoilFromMaterial(@, bn)]
  /\ Broadcasts("material", bn)
  /\ UNCHANGED asked

(* send_winding_status, once the telegram is sent, by hand or not. *)
WindingSent(bn) ==
  /\ Changing
  /\ store' = [store EXCEPT !.coils = UpdateWinding(@, bn, changes + 1)]
  /\ Broadcasts("winding_status", changes + 1)
  /\ UNCHANGED asked

(* Fault: the broadcast is made from the store, before the assignment. *)
SetsAfterwards(f, v) ==
  /\ Changing
  /\ store' = [store EXCEPT !.set[f] = v]
  /\ Broadcasts(f, store.set[f])

(* toggle_alive, toggle_auto_winding_enabled, set_line_status *)
Sets(f, v) ==
  /\ Changing
  /\ store' = [store EXCEPT !.set[f] = v]
  /\ Broadcasts(f, v)

(* For a page, or for another client of the REST API. *)
Handles(p) ==
  \E r \in asked[p] : /\ r.at = "sent"
                      /\ Sets(r.field, r.data)
                      /\ asked' = [asked EXCEPT ![p] = {[r EXCEPT !.at = "answered"]}]

HandlesAnother(f) == (\E v \in Values(f) : Sets(f, v)) /\ UNCHANGED asked

(* websocket_endpoint: the page is listed, then its snapshot is sent. *)
Snapshot ==
  [set |-> store.set, material |-> store.material, coils |-> store.coils,
   logs |-> First(SnapLimit, store.logs)]

Joins(p) ==
  /\ up /\ p \notin open
  /\ open' = open \cup {p}
  /\ queue' = [queue EXCEPT ![p] = <<[type |-> "init_state", data |-> Snapshot]>>]
  /\ UNCHANGED <<up, store, screen, asked, overruled, delivery, bounds>>

Outage ==
  /\ Counted(outages, MaxOutages)
  /\ outages' = outages + 1
  /\ UNCHANGED <<screen, overruled, changes, disturbances>>

(* The backend ends, with its store; the pages' WebSockets close. *)
Crash ==
  /\ up /\ Outage
  /\ up' = FALSE
  /\ store' = NewStore
  /\ open' = {} /\ late' = {} /\ astray' = {}
  /\ queue' = [p \in Pages |-> <<>>]
  /\ UNCHANGED asked

(* lifespan *)
Start ==
  /\ ~up
  /\ up' = TRUE
  /\ UNCHANGED <<store, open, queue, screen, asked, overruled, delivery, bounds>>

(* The page's WebSocket closes. *)
Closes(p) ==
  /\ p \in open /\ Outage
  /\ open' = open \ {p}
  /\ astray' = astray \ ({p} \X Parts)
  /\ queue' = [queue EXCEPT ![p] = <<>>]
  /\ UNCHANGED <<up, store, asked, late>>

-----------------------------------------------------------------------------
(* The page.                                                               *)

(* Fault: the snapshot's log is put above the one the page has. *)
InitStateAbove(s, d) == [s EXCEPT !.set = d.set, !.logs = d.logs \o @]

(* The handlers of App.  A snapshot without a material, or whose newest *)
(* coil has no layers, leaves the page what it has.                        *)
InitState(s, d) ==
  [set |-> d.set, logs |-> d.logs,
   material |-> IF d.material = NoMaterial THEN s.material ELSE d.material,
   grid |-> IF d.coils # <<>> /\ Newest(d.coils) # 0 THEN Newest(d.coils) ELSE s.grid]

Shown(s, m) ==
  CASE m.type = "init_state" -> InitState(s, m.data)
    [] m.type = "packet_log" -> [s EXCEPT !.logs = First(ScreenCap, <<m.data>> \o @)]
    [] m.type = "material" -> [s EXCEPT !.material = m.data]
    [] m.type = "winding_status" -> [s EXCEPT !.grid = m.data]
    [] OTHER -> [s EXCEPT !.set[m.type] = m.data]

(* onmessage *)
Sees(p) ==
  /\ queue[p] # <<>>
  /\ LET m == Head(queue[p])
     IN  /\ screen' = [screen EXCEPT ![p] = Shown(@, m)]
         /\ overruled' = IF m.type = "init_state" THEN {o \in overruled : o[1] # p}
                         ELSE overruled \ {<<p, m.type>>}
  /\ queue' = [queue EXCEPT ![p] = Tail(@)]
  /\ UNCHANGED <<up, store, open, asked, delivery, bounds>>

(* toggleEnabled, toggle of AliveControl, setLine: what is asked for is    *)
(* made from what the page shows.                                          *)
Click(f, s, line) ==
  IF f = "work" THEN [s["work"] EXCEPT ![line] = IF @ = "01" THEN "99" ELSE "01"] ELSE ~s[f]

Asks(p, f, line) ==
  /\ asked[p] = {}
  /\ f # "work" => screen[p].set["state"] # "disconnected"
  /\ asked' = [asked EXCEPT ![p] =
                 {[field |-> f, data |-> Click(f, screen[p].set, line), at |-> "sent"]}]
  /\ UNCHANGED <<up, store, open, queue, screen, overruled, delivery, bounds>>

(* The request fails on its way there, or its answer on its way back. *)
RequestFails(p) ==
  /\ \E r \in asked[p] : /\ r.at # "failed"
                         /\ asked' = [asked EXCEPT ![p] = {[r EXCEPT !.at = "failed"]}]
  /\ UNCHANGED <<up, store, open, queue, screen, overruled, delivery, bounds>>

(* onToggleEnabled and the onUpdates: the page follows the answer, and     *)
(* unless it is about the alive, a failure as well.                        *)
Follows(p) ==
  /\ \E r \in asked[p] :
       /\ r.at # "sent"
       /\ IF (r.at = "failed" /\ r.field = "paused") \/ screen[p].set[r.field] = r.data
          THEN UNCHANGED <<screen, overruled>>
          ELSE /\ screen' = [screen EXCEPT ![p].set[r.field] = r.data]
               /\ overruled' = overruled \cup {<<p, r.field>>}
  /\ asked' = [asked EXCEPT ![p] = {}]
  /\ UNCHANGED <<up, store, open, queue, delivery, bounds>>

Next ==
  \/ \E s \in Values("state") : ConnectionChanges(s)
  \/ PacketLogged
  \/ \E bn \in Bundles : MaterialReceived(bn) \/ WindingSent(bn)
  \/ \E p \in Pages : \/ Handles(p) \/ Joins(p) \/ ArrivesLate(p) \/ Closes(p)
                     \/ Sees(p) \/ RequestFails(p) \/ Follows(p)
  \/ \E f \in Requested : HandlesAnother(f) \/ \E p \in Pages, line \in Lines : Asks(p, f, line)
  \/ Crash
  \/ Start

Spec == Init /\ [][Next]_vars

-----------------------------------------------------------------------------
(* A page that has handled all it was sent. *)
Served(p) == p \in open /\ queue[p] = <<>>

SettingsShown(p) ==
  \A f \in Settings :
    <<p, f>> \notin overruled \cup astray => screen[p].set[f] = store.set[f]

(* A page keeps what it has of a backend that has no material, and the    *)
(* layers it has while the newest coil has none.                          *)
MaterialShown(p) ==
  store.material # NoMaterial /\ <<p, "material">> \notin astray =>
    screen[p].material = store.material
GridShown(p) ==
  store.coils # <<>> /\ Newest(store.coils) # 0 /\ <<p, "winding_status">> \notin astray =>
    screen[p].grid \in {store.coils[i].layers : i \in DOMAIN store.coils}

(* A page that has handled what it was sent shows the store: every         *)
(* setting that an answer of its own did not overrule, the material, and   *)
(* layers a coil has now; except a part whose latest event it missed, or   *)
(* of which an event came late since its latest.  The next complete        *)
(* broadcast of that part, or snapshot, puts it right.                     *)
ScreenShowsStore ==
  \A p \in Pages : Served(p) => SettingsShown(p) /\ MaterialShown(p) /\ GridShown(p)

(* Its log is the newest telegrams, in order, none twice and none left     *)
(* out, as many as a snapshot has or more, if since its snapshot the page  *)
(* neither missed a telegram nor got one late.                             *)
LogsAreTheNewest ==
  \A p \in Pages : Served(p) /\ <<p, "packet_log">> \notin astray =>
    LET logs == screen[p].logs
    IN  /\ \A i \in DOMAIN logs : logs[i] = store.last + 1 - i
        /\ Len(logs) >= SnapLimit \/ Len(logs) >= Len(store.logs)
=============================================================================
