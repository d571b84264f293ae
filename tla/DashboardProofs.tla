--------------------------- MODULE DashboardProofs ---------------------------
(***************************************************************************)
(* What the pages show, for any number of pages, bundles and changes.  A   *)
(* part of the screen is followed through the queue of its page: of the    *)
(* messages about it that the page is yet to handle, the last one carries  *)
(* what the store has now, and if there is none the page shows it already. *)
(***************************************************************************)
EXTENDS Dashboard, FiniteSetTheorems, SequenceTheorems, TLAPS

SettingSets == {s \in [Settings -> UNION {Values(f) : f \in Settings}] :
                  \A f \in Settings : s[f] \in Values(f)}
Logs(n) == {l \in Seq(Nat) : Len(l) <= n}
Materials == Bundles \cup {NoMaterial}

Stores == [set : SettingSets, material : Materials, coils : Seq(Coils), logs : Logs(StoreCap), last : Nat]
Snapshots == [set : SettingSets, material : Materials, coils : Seq(Coils), logs : Logs(SnapLimit)]
Screens == [set : SettingSets, material : Materials, grid : Nat, logs : Logs(ScreenCap)]
Requests == UNION {[field : {f}, data : Values(f), at : {"sent", "answered", "failed"}] : f \in Settings}

SettingEvents == UNION {[type : {f}, data : Values(f)] : f \in Settings}
Events == [type : {"packet_log"}, data : Nat] \cup [type : {"material"}, data : Bundles]
          \cup [type : {"winding_status"}, data : Nat] \cup SettingEvents
InitStates == [type : {"init_state"}, data : Snapshots]
Messages == InitStates \cup Events

OneEach(coils) == \A i, j \in 1..Len(coils) : coils[i].bundle = coils[j].bundle => i = j

StoreType == store \in Stores /\ OneEach(store.coils)

PageType ==
  /\ open \subseteq Pages /\ astray \subseteq open \X Parts /\ late \subseteq Events
  /\ queue \in [Pages -> Seq(Messages)]
  /\ \A p \in Pages \ open : queue[p] = <<>>
  /\ screen \in [Pages -> Screens]

RequestType ==
  /\ asked \in [Pages -> SUBSET Requests]
  /\ \A p \in Pages : asked[p] = {} \/ \E r \in Requests : asked[p] = {r}

TypeInv ==
  /\ StoreType /\ PageType /\ RequestType
  /\ up \in BOOLEAN /\ (open # {} => up)
  /\ changes \in 0 .. MaxChanges

-----------------------------------------------------------------------------
(* Of the messages of q that are in K the last one is in V. *)
LastIn(q, K, V) ==
  \A i \in 1..Len(q) : q[i] \in K /\ (\A j \in 1..Len(q) : i < j => q[j] \notin K) => q[i] \in V

NoneIn(q, K) == \A i \in 1..Len(q) : q[i] \notin K

(* The messages about a setting, and those that carry the value v of it. *)
About(f) == {m \in Messages : m.type \in {f, "init_state"}}
Carries(f, v) == {m \in About(f) : (IF m.type = "init_state" THEN m.data.set[f] ELSE m.data) = v}

SettingFollowed(p, f) ==
  /\ LastIn(queue[p], About(f), Carries(f, store.set[f]))
  /\ NoneIn(queue[p], About(f)) => <<p, f>> \in overruled \/ screen[p].set[f] = store.set[f]

AboutMaterial == {m \in Messages : \/ m.type = "material"
                                   \/ m.type = "init_state" /\ m.data.material # NoMaterial}
CarriesMaterial(bn) ==
  {m \in AboutMaterial : (IF m.type = "init_state" THEN m.data.material ELSE m.data) = bn}

MaterialFollowed(p) ==
  /\ LastIn(queue[p], AboutMaterial, CarriesMaterial(store.material))
  /\ NoneIn(queue[p], AboutMaterial) => screen[p].material = store.material

HasLayers(coils) == coils # <<>> /\ Newest(coils) # 0
Layers(coils) == {coils[i].layers : i \in 1..Len(coils)}
AboutGrid == {m \in Messages : \/ m.type = "winding_status"
                               \/ m.type = "init_state" /\ HasLayers(m.data.coils)}
CarriesGrid(layers) ==
  {m \in AboutGrid : (IF m.type = "init_state" THEN Newest(m.data.coils) ELSE m.data) \in layers}

GridFollowed(p) ==
  /\ LastIn(queue[p], AboutGrid, CarriesGrid(Layers(store.coils)))
  /\ NoneIn(queue[p], AboutGrid) => screen[p].grid \in Layers(store.coils)

(* A log without a gap from its newest telegram down, and long enough. *)
NewestIn(logs) == IF logs = <<>> THEN 0 ELSE logs[1]
Contiguous(logs) ==
  /\ \A i \in 1..Len(logs) : logs[i] = NewestIn(logs) + 1 - i
  /\ \/ Len(logs) >= SnapLimit \/ Len(logs) >= StoreCap \/ Len(logs) >= NewestIn(logs)

AboutLog == {m \in Messages : m.type \in {"packet_log", "init_state"}}
Number(m) == IF m.type = "init_state" THEN NewestIn(m.data.logs) ELSE m.data
CarriesLog(n) == {m \in AboutLog : Number(m) = n}

StoreLog(s) ==
  /\ \A i \in 1..Len(s.logs) : s.logs[i] = s.last + 1 - i
  /\ Len(s.logs) = s.last \/ (Len(s.logs) = StoreCap /\ StoreCap <= s.last)

(* The telegrams of a queue come one after another, after those shown. *)
Consecutive(q) ==
  \A i, j \in 1..Len(q) :
    /\ i < j /\ q[i] \in AboutLog /\ q[j] \in AboutLog
    /\ \A k \in 1..Len(q) : i < k /\ k < j => q[k] \notin AboutLog
    => Number(q[j]) = Number(q[i]) + 1
Continues(q, n) ==
  \A j \in 1..Len(q) :
    /\ q[j] \in AboutLog \ InitStates
    /\ \A k \in 1..Len(q) : k < j => q[k] \notin AboutLog
    => Number(q[j]) = n + 1

LogFollowed(p) ==
  /\ LastIn(queue[p], AboutLog, CarriesLog(store.last))
  /\ NoneIn(queue[p], AboutLog) => NewestIn(screen[p].logs) = store.last
  /\ Consecutive(queue[p])
  /\ Continues(queue[p], NewestIn(screen[p].logs))
  /\ queue[p] = <<>> \/ queue[p][1] \notin InitStates => Contiguous(screen[p].logs)

(* The pages that are shown a part as it was broadcast. *)
InStep(part) == {p \in open : <<p, part>> \notin astray}

(* A snapshot is the first message of its page. *)
SnapshotFirst(q) ==
  \A i \in 1..Len(q) : q[i] \in InitStates => i = 1 /\ Contiguous(q[i].data.logs)

SettingInv == \A f \in Settings : \A p \in InStep(f) : SettingFollowed(p, f)
MaterialInv == store.material # NoMaterial => \A p \in InStep("material") : MaterialFollowed(p)
GridInv == HasLayers(store.coils) => \A p \in InStep("winding_status") : GridFollowed(p)
LogInv == /\ StoreLog(store)
          /\ \A p \in Pages : SnapshotFirst(queue[p])
          /\ \A p \in InStep("packet_log") : LogFollowed(p)

IInv == TypeInv /\ SettingInv /\ MaterialInv /\ GridInv /\ LogInv

-----------------------------------------------------------------------------
(* Queues.                                                                 *)

(* A message that is not about the part that is followed. *)
LEMMA OtherSent ==
  ASSUME NEW M, NEW q \in Seq(M), NEW m \in M, NEW K, NEW V, m \notin K, LastIn(q, K, V)
  PROVE  LastIn(Append(q, m), K, V) /\ (NoneIn(Append(q, m), K) => NoneIn(q, K))
<1>1. /\ Len(Append(q, m)) = Len(q) + 1 /\ Append(q, m)[Len(q) + 1] = m
      /\ \A i \in 1..Len(q) : Append(q, m)[i] = q[i]
  OBVIOUS
<1>2. Len(q) \in Nat
  OBVIOUS
<1> QED BY <1>1, <1>2 DEF LastIn, NoneIn

(* One that is, and carries what there is now. *)
LEMMA CurrentSent ==
  ASSUME NEW M, NEW q \in Seq(M), NEW m \in M, NEW K, NEW V, m \in K, m \in V
  PROVE  LastIn(Append(q, m), K, V) /\ ~ NoneIn(Append(q, m), K)
<1>1. /\ Len(Append(q, m)) = Len(q) + 1 /\ Append(q, m)[Len(q) + 1] = m
      /\ \A i \in 1..Len(q) : Append(q, m)[i] = q[i]
  OBVIOUS
<1>2. Len(q) \in Nat
  OBVIOUS
<1> QED BY <1>1, <1>2 DEF LastIn, NoneIn

LEMMA FirstSent ==
  ASSUME NEW M, NEW m \in M, NEW K, NEW V, m \in K => m \in V
  PROVE  LastIn(<<m>>, K, V) /\ (NoneIn(<<m>>, K) => m \notin K)
BY DEF LastIn, NoneIn

LEMMA HeadHandled ==
  ASSUME NEW M, NEW q \in Seq(M), q # <<>>
  PROVE  /\ Head(q) \in M /\ Head(q) = q[1] /\ Tail(q) \in Seq(M)
         /\ Len(q) \in Nat \ {0} /\ Len(Tail(q)) = Len(q) - 1
         /\ \A i \in 1..Len(Tail(q)) : Tail(q)[i] = q[i + 1]
OBVIOUS

(* The first message is handled. *)
LEMMA LastHandled ==
  ASSUME NEW M, NEW q \in Seq(M), q # <<>>, NEW K, NEW V, LastIn(q, K, V)
  PROVE  /\ LastIn(Tail(q), K, V)
         /\ NoneIn(Tail(q), K) => IF Head(q) \in K THEN Head(q) \in V ELSE NoneIn(q, K)
<1>1. /\ Head(q) = q[1] /\ Len(q) \in Nat \ {0} /\ Len(Tail(q)) = Len(q) - 1
      /\ \A i \in 1..Len(Tail(q)) : Tail(q)[i] = q[i + 1]
  BY HeadHandled
<1>2. \A j \in 1..Len(q) : j > 1 => j - 1 \in 1..Len(Tail(q)) /\ q[j] = Tail(q)[j - 1]
  BY <1>1
<1>3. LastIn(Tail(q), K, V)
  <2> SUFFICES ASSUME NEW i \in 1..Len(Tail(q)), Tail(q)[i] \in K,
                      \A j \in 1..Len(Tail(q)) : i < j => Tail(q)[j] \notin K
               PROVE  Tail(q)[i] \in V
    BY DEF LastIn
  <2>1. i + 1 \in 1..Len(q) /\ q[i + 1] \in K
    BY <1>1
  <2>2. \A j \in 1..Len(q) : i + 1 < j => q[j] \notin K
    BY <1>1, <1>2
  <2> QED BY <1>1, <2>1, <2>2 DEF LastIn
<1>4. ASSUME NoneIn(Tail(q), K) PROVE IF Head(q) \in K THEN Head(q) \in V ELSE NoneIn(q, K)
  <2>1. \A j \in 1..Len(q) : 1 < j => q[j] \notin K
    BY <1>2, <1>4 DEF NoneIn
  <2> QED BY <1>1, <2>1 DEF LastIn, NoneIn
<1> QED BY <1>3, <1>4

LEMMA TwoMin ==
  ASSUME NEW a \in Nat, NEW b \in Nat
  PROVE  Min({a, b}) = IF a <= b THEN a ELSE b
<1>1. \E x \in {a, b} : \A y \in {a, b} : x <= y
  OBVIOUS
<1>2. Min({a, b}) \in {a, b} /\ \A y \in {a, b} : Min({a, b}) <= y
  BY <1>1 DEF Min
<1> QED BY <1>2

(* The first n of a log. *)
LEMMA FirstLemma ==
  ASSUME NEW l \in Seq(Nat), NEW n \in Nat
  PROVE  /\ First(n, l) \in Logs(n)
         /\ Len(First(n, l)) = IF n <= Len(l) THEN n ELSE Len(l)
         /\ \A i \in 1..Len(First(n, l)) : First(n, l)[i] = l[i]
<1> DEFINE k == Min({n, Len(l)})
<1>1. k \in 0..Len(l) /\ k <= n /\ k = IF n <= Len(l) THEN n ELSE Len(l)
  BY TwoMin
<1> HIDE DEF k
<1>2. SubSeq(l, 1, k) \in Seq(Nat) /\ Len(SubSeq(l, 1, k)) = k
      /\ \A i \in 1..k : SubSeq(l, 1, k)[i] = l[i]
  BY <1>1
<1> QED BY <1>1, <1>2 DEF First, k, Logs

(* A new telegram on top of a log. *)
LEMMA OnTop ==
  ASSUME NEW l \in Seq(Nat), NEW d \in Nat, NEW n \in Nat \ {0}
  PROVE  LET top == First(n, <<d>> \o l)
         IN  /\ top \in Logs(n)
             /\ Len(top) = IF n <= Len(l) + 1 THEN n ELSE Len(l) + 1
             /\ top[1] = d /\ Len(top) > 0
             /\ \A i \in 1..Len(top) : i > 1 => i - 1 \in 1..Len(l) /\ top[i] = l[i - 1]
<1> DEFINE long == <<d>> \o l
<1>1. /\ long \in Seq(Nat) /\ Len(long) = Len(l) + 1 /\ long[1] = d
      /\ \A i \in 1..Len(long) : i > 1 => long[i] = l[i - 1]
  OBVIOUS
<1> HIDE DEF long
<1>2. /\ First(n, long) \in Logs(n)
      /\ Len(First(n, long)) = IF n <= Len(long) THEN n ELSE Len(long)
      /\ \A i \in 1..Len(First(n, long)) : First(n, long)[i] = long[i]
  BY <1>1, FirstLemma
<1>3. Len(l) \in Nat
  OBVIOUS
<1>4. /\ Len(First(n, long)) = IF n <= Len(l) + 1 THEN n ELSE Len(l) + 1
      /\ Len(First(n, long)) > 0
  BY <1>1, <1>2, <1>3
<1>5. First(n, long)[1] = d
  BY <1>1, <1>2, <1>4
<1>6. \A i \in 1..Len(First(n, long)) :
        i > 1 => i - 1 \in 1..Len(l) /\ First(n, long)[i] = l[i - 1]
  BY <1>1, <1>2, <1>3, <1>4
<1> QED BY <1>2, <1>4, <1>5, <1>6 DEF long

(* What the handlers of a page make of a message. *)
LEMMA ShownLemma ==
  ASSUME NEW s \in Screens, NEW m \in Messages
  PROVE  /\ Shown(s, m) \in Screens
         /\ \A f \in Settings : Shown(s, m).set[f] =
              IF m \in About(f) THEN IF m.type = "init_state" THEN m.data.set[f] ELSE m.data
              ELSE s.set[f]
         /\ Shown(s, m).material =
              IF m \in AboutMaterial THEN IF m.type = "init_state" THEN m.data.material ELSE m.data
              ELSE s.material
         /\ Shown(s, m).grid =
              IF m \in AboutGrid THEN IF m.type = "init_state" THEN Newest(m.data.coils) ELSE m.data
              ELSE s.grid
         /\ Shown(s, m).logs =
              CASE m.type = "init_state" -> m.data.logs
                [] m.type = "packet_log" -> First(ScreenCap, <<m.data>> \o s.logs)
                [] OTHER -> s.logs
<1>1. CASE m \in InitStates
  <2>1. m.type = "init_state" /\ m.data \in Snapshots
    BY <1>1 DEF InitStates
  <2>2. Shown(s, m) = InitState(s, m.data)
    BY <2>1 DEF Shown
  <2>3. m.data.logs \in Logs(ScreenCap)
    BY <2>1, CapAssumption DEF Snapshots, Logs
  <2>4. HasLayers(m.data.coils) => Newest(m.data.coils) \in Nat
    <3> SUFFICES ASSUME m.data.coils # <<>> PROVE Newest(m.data.coils) \in Nat
      BY DEF HasLayers
    <3>1. m.data.coils \in Seq(Coils)
      BY <2>1 DEF Snapshots
    <3>2. Last(m.data.coils) \in Coils
      BY <3>1 DEF Last
    <3> QED BY <3>2, BoundsAssumption DEF Newest, Coils
  <2> QED BY <1>1, <2>1, <2>2, <2>3, <2>4
          DEF InitState, Screens, Snapshots, About, AboutMaterial, AboutGrid, HasLayers
<1>2. CASE m \in [type : {"packet_log"}, data : Nat]
  <2>1. Shown(s, m) = [s EXCEPT !.logs = First(ScreenCap, <<m.data>> \o @)]
    BY <1>2 DEF Shown
  <2>2. First(ScreenCap, <<m.data>> \o s.logs) \in Logs(ScreenCap)
    <3>1. m.data \in Nat /\ s.logs \in Seq(Nat) /\ ScreenCap \in Nat \ {0}
      BY <1>2, CapAssumption DEF Screens, Logs
    <3> QED BY <3>1, OnTop
  <2> QED BY <1>2, <2>1, <2>2 DEF Screens, About, AboutMaterial, AboutGrid, Settings
<1>3. CASE m \in [type : {"material"}, data : Bundles]
  <2>1. Shown(s, m) = [s EXCEPT !.material = m.data]
    BY <1>3 DEF Shown
  <2> QED BY <1>3, <2>1 DEF Screens, About, AboutMaterial, AboutGrid, Settings, Materials
<1>4. CASE m \in [type : {"winding_status"}, data : Nat]
  <2>1. Shown(s, m) = [s EXCEPT !.grid = m.data]
    BY <1>4 DEF Shown
  <2> QED BY <1>4, <2>1 DEF Screens, About, AboutMaterial, AboutGrid, Settings
<1>5. CASE m \in SettingEvents
  <2>1. PICK f \in Settings : m.type = f /\ m.data \in Values(f)
    BY <1>5 DEF SettingEvents
  <2>2. f \notin {"init_state", "packet_log", "material", "winding_status"}
    BY DEF Settings
  <2>3. Shown(s, m) = [s EXCEPT !.set[f] = m.data]
    BY <2>1, <2>2 DEF Shown
  <2>4. [s.set EXCEPT ![f] = m.data] \in SettingSets
    BY <2>1 DEF SettingSets, Screens
  <2>5. Shown(s, m) = [set |-> [s.set EXCEPT ![f] = m.data], material |-> s.material,
                       grid |-> s.grid, logs |-> s.logs]
    BY <2>3 DEF Screens
  <2>6. \A g \in Settings : [s.set EXCEPT ![f] = m.data][g] = IF g = f THEN m.data ELSE s.set[g]
    BY DEF Screens, SettingSets
  <2> QED BY <2>1, <2>2, <2>4, <2>5, <2>6 DEF Screens, About, AboutMaterial, AboutGrid
<1> QED BY <1>1, <1>2, <1>3, <1>4, <1>5 DEF Messages, Events

LEMMA PlaceLemma ==
  ASSUME NEW coils \in Seq(Coils), NEW bn \in Bundles
  PROVE  \/ Place(coils, bn) \in 1..Len(coils) /\ coils[Place(coils, bn)].bundle = bn
         \/ Place(coils, bn) = Len(coils) + 1 /\ \A i \in 1..Len(coils) : coils[i].bundle # bn
<1>1. DOMAIN coils = 1..Len(coils)
  OBVIOUS
<1>2. CASE \E i \in 1..Len(coils) : coils[i].bundle = bn
  BY <1>1, <1>2 DEF Place
<1>3. CASE \A i \in 1..Len(coils) : coils[i].bundle # bn
  BY <1>1, <1>3 DEF Place
<1> QED BY <1>2, <1>3

(* The coils stay one for each bundle; a material makes at most a coil     *)
(* without layers, and a send gives one coil the layers that were sent.    *)
LEMMA CoilsLemma ==
  ASSUME NEW coils \in Seq(Coils), OneEach(coils), NEW bn \in Bundles, NEW n \in 0..MaxChanges
  PROVE  /\ UpdateCoilFromMaterial(coils, bn) \in Seq(Coils)
         /\ OneEach(UpdateCoilFromMaterial(coils, bn))
         /\ \/ UpdateCoilFromMaterial(coils, bn) = coils
            \/ ~ HasLayers(UpdateCoilFromMaterial(coils, bn))
         /\ UpdateWinding(coils, bn, n) \in Seq(Coils)
         /\ OneEach(UpdateWinding(coils, bn, n))
         /\ n \in Layers(UpdateWinding(coils, bn, n))
<1> DEFINE more == UpdateCoilFromMaterial(coils, bn)
           at == Place(coils, bn)
           new == [bundle |-> bn, layers |-> 0]
<1>1. \/ at \in 1..Len(coils) /\ coils[at].bundle = bn /\ more = coils
      \/ /\ at = Len(coils) + 1 /\ \A i \in 1..Len(coils) : coils[i].bundle # bn
         /\ more = Append(coils, new)
  BY PlaceLemma DEF UpdateCoilFromMaterial
<1>2. new \in Coils /\ Len(coils) \in Nat
  BY BoundsAssumption DEF Coils
<1>3. more \in Seq(Coils) /\ OneEach(more) /\ at \in 1..Len(more) /\ more[at].bundle = bn
      /\ (more = coils \/ ~ HasLayers(more))
  <2>1. CASE at \in 1..Len(coils)
    BY <1>1, <1>2, <2>1
  <2>2. CASE at = Len(coils) + 1
    <3> HIDE DEF new, more, at
    <3>1. /\ more \in Seq(Coils) /\ Len(more) = Len(coils) + 1 /\ more[Len(coils) + 1] = new
          /\ \A i \in 1..Len(coils) : more[i] = coils[i]
      BY <1>1, <1>2, <2>2
    <3>2. new.bundle = bn /\ new.layers = 0
      BY DEF new
    <3>3. ~ HasLayers(more)
      BY <1>2, <3>1, <3>2 DEF HasLayers, Newest, Last
    <3> QED BY <1>1, <1>2, <2>2, <3>1, <3>2, <3>3 DEF OneEach
  <2> QED BY <1>1, <2>1, <2>2
<1>4. UpdateWinding(coils, bn, n) = [more EXCEPT ![at].layers = n]
  BY DEF UpdateWinding
<1> HIDE DEF more, at, new
<1>5. [more[at] EXCEPT !.layers = n] = [bundle |-> bn, layers |-> n]
  <2>1. more[at] \in Coils
    BY <1>3, ElementOfSeq
  <2>2. more[at] \in [bundle : Bundles, layers : 0..MaxChanges]
    BY <2>1 DEF Coils
  <2> QED BY <1>3, <2>2
<1>6. UpdateWinding(coils, bn, n) = [more EXCEPT ![at] = [bundle |-> bn, layers |-> n]]
  BY <1>4, <1>5
<1>7. /\ UpdateWinding(coils, bn, n) \in Seq(Coils)
      /\ Len(UpdateWinding(coils, bn, n)) = Len(more)
      /\ UpdateWinding(coils, bn, n)[at] = [bundle |-> bn, layers |-> n]
      /\ \A i \in 1..Len(more) : i # at => UpdateWinding(coils, bn, n)[i] = more[i]
  BY <1>3, <1>6 DEF Coils
<1>8. n \in Layers(UpdateWinding(coils, bn, n))
  BY <1>3, <1>7 DEF Layers
<1>9. OneEach(UpdateWinding(coils, bn, n))
  BY <1>3, <1>7 DEF OneEach
<1> QED BY <1>3, <1>7, <1>8, <1>9 DEF more

-----------------------------------------------------------------------------
(* What a step does to the store, the queues and the screens.              *)

(* Message m reaches some pages.  Of the other parts they are sent nothing. *)
Reaches(m) ==
  /\ queue' \in [Pages -> Seq(Messages)]
  /\ \A p \in Pages : queue'[p] = queue[p] \/ (p \in open /\ queue'[p] = Append(queue[p], m))
  /\ \A part \in Parts \ {m.type} : InStep(part)' \subseteq InStep(part)
  /\ astray' \subseteq open \X Parts /\ late' \subseteq Events
  /\ UNCHANGED <<open, screen, overruled>>

(* It is broadcast: all that are in step now have it, and a telegram has   *)
(* brought none of them back.                                              *)
Sent(m) ==
  /\ Reaches(m)
  /\ \A p \in open : <<p, m.type>> \notin astray' =>
       /\ queue'[p] = Append(queue[p], m)
       /\ m.type = "packet_log" => p \in InStep("packet_log")

(* It comes late: none that has it is in step now. *)
Strayed(m) ==
  /\ Reaches(m) /\ store' = store
  /\ \A p \in open : <<p, m.type>> \notin astray' =>
       <<p, m.type>> \notin astray /\ queue'[p] = queue[p]

SetsStep(f, v) ==
  /\ Sent([type |-> f, data |-> v])
  /\ store' = [store EXCEPT !.set[f] = v]

LogStep ==
  /\ Sent([type |-> "packet_log", data |-> store.last + 1])
  /\ store' = [store EXCEPT !.last = store.last + 1, !.logs = First(StoreCap, <<store.last + 1>> \o @)]

MaterialStep(bn) ==
  /\ Sent([type |-> "material", data |-> bn])
  /\ store' = [store EXCEPT !.material = bn, !.coils = UpdateCoilFromMaterial(@, bn)]

WindingStep(bn, n) ==
  /\ Sent([type |-> "winding_status", data |-> n])
  /\ store' = [store EXCEPT !.coils = UpdateWinding(@, bn, n)]

(* Pages may be closed, all of them with the store. *)
Leaves ==
  /\ open' \subseteq open /\ \A part \in Parts : InStep(part)' \subseteq InStep(part)
  /\ astray' \subseteq open' \X Parts /\ late' \subseteq late
  /\ queue' \in [Pages -> Seq(Messages)]
  /\ \A p \in Pages : queue'[p] = IF p \in open' THEN queue[p] ELSE <<>>
  /\ store' = store \/ (open' = {} /\ store' = NewStore)
  /\ UNCHANGED <<screen, overruled>>

Move ==
  \/ \E f \in Settings : \E v \in Values(f) : SetsStep(f, v)
  \/ LogStep
  \/ \E bn \in Bundles : MaterialStep(bn) \/ \E n \in 0..MaxChanges : WindingStep(bn, n)
  \/ \E m \in Events : Strayed(m)
  \/ Leaves
  \/ \E p \in Pages : Joins(p) \/ Sees(p) \/ Follows(p)

LEMMA EventTypes ==
  ASSUME NEW m \in Events
  PROVE  m \in Messages /\ m \notin InitStates /\ m.type # "init_state" /\ m.type \in Parts
BY DEF Messages, InitStates, Events, SettingEvents, Settings, Parts

LEMMA BroadcastSends ==
  ASSUME PageType, NEW t, NEW d, [type |-> t, data |-> d] \in Events, Broadcasts(t, d),
         UNCHANGED <<up, open, screen, overruled>>
  PROVE  Sent([type |-> t, data |-> d])
<1> DEFINE m == [type |-> t, data |-> d]
<1>1. PICK reached \in SUBSET open :
        /\ late' = late \/ late' = late \cup {m}
        /\ astray' = (astray \ (reached \X Mended(t))) \cup ((open \ reached) \X {t})
        /\ queue' = [p \in Pages |-> IF p \in reached THEN Append(queue[p], m) ELSE queue[p]]
  BY DEF Broadcasts
<1>2. m \in Messages /\ m \in Events /\ m.type = t /\ t \in Parts
  BY EventTypes
<1> HIDE DEF m
<1>3. \A p \in Pages : queue[p] \in Seq(Messages) /\ Append(queue[p], m) \in Seq(Messages)
  BY <1>2 DEF PageType
<1>4. queue' \in [Pages -> Seq(Messages)]
  BY <1>1, <1>3
<1>5. /\ \A p \in Pages : queue'[p] = queue[p] \/ (p \in open /\ queue'[p] = Append(queue[p], m))
      /\ \A p \in reached : queue'[p] = Append(queue[p], m)
  BY <1>1 DEF PageType
<1>6. astray' \subseteq open \X Parts /\ late' \subseteq Events
  BY <1>1, <1>2 DEF PageType
<1>7. ASSUME NEW part \in Parts, part # t, NEW p \in open, <<p, part>> \notin astray'
      PROVE  <<p, part>> \notin astray
  BY <1>1, <1>7 DEF Mended
<1>8. ASSUME NEW p \in open, <<p, t>> \notin astray'
      PROVE  p \in reached /\ (t = "packet_log" => <<p, t>> \notin astray)
  BY <1>1, <1>8 DEF Mended
<1>9. Reaches(m)
  BY <1>2, <1>4, <1>5, <1>6, <1>7 DEF Reaches, InStep
<1> QED BY <1>2, <1>5, <1>8, <1>9 DEF Sent, InStep, m

LEMMA LateStrays ==
  ASSUME PageType, NEW x \in Pages, ArrivesLate(x)
  PROVE  \E m \in Events : Strayed(m)
<1>1. PICK m \in late : /\ queue' = [queue EXCEPT ![x] = Append(queue[x], m)]
                        /\ astray' = astray \cup {<<x, m.type>>}
  BY DEF ArrivesLate
<1>2. x \in open /\ UNCHANGED <<store, open, screen, overruled, late>>
  BY DEF ArrivesLate
<1>3. m \in Events /\ m \in Messages /\ m.type \in Parts
  BY EventTypes DEF PageType
<1>4. queue \in [Pages -> Seq(Messages)] /\ Append(queue[x], m) \in Seq(Messages)
  BY <1>3 DEF PageType
<1>5. /\ queue' \in [Pages -> Seq(Messages)] /\ queue'[x] = Append(queue[x], m)
      /\ \A p \in Pages : p # x => queue'[p] = queue[p]
  BY <1>1, <1>4
<1>6. astray' \subseteq open \X Parts /\ late' \subseteq Events
  BY <1>1, <1>2, <1>3 DEF PageType
<1>7. Reaches(m)
  BY <1>1, <1>2, <1>5, <1>6 DEF Reaches, InStep
<1>8. ASSUME NEW p \in open, <<p, m.type>> \notin astray'
      PROVE  <<p, m.type>> \notin astray /\ queue'[p] = queue[p]
  BY <1>1, <1>5, <1>8 DEF PageType
<1> QED BY <1>2, <1>3, <1>7, <1>8 DEF Strayed

LEMMA SettingEvent ==
  ASSUME NEW f \in Settings, NEW v \in Values(f)
  PROVE  [type |-> f, data |-> v] \in Events
BY DEF Events, SettingEvents

LEMMA SetsSends ==
  ASSUME PageType, NEW f \in Settings, NEW v \in Values(f), Sets(f, v)
  PROVE  SetsStep(f, v)
<1>1. Sent([type |-> f, data |-> v])
  BY BroadcastSends, SettingEvent DEF Sets, Changing
<1> QED BY <1>1 DEF Sets, SetsStep

LEMMA StepMoves ==
  ASSUME TypeInv, [Next]_vars
  PROVE  Move
<1> USE DEF TypeInv
<1>1. ASSUME NEW s \in Values("state"), ConnectionChanges(s) PROVE Move
  <2>1. "state" \in Settings
    BY DEF Settings
  <2>2. Sent([type |-> "state", data |-> s])
    BY <1>1, <2>1, BroadcastSends, SettingEvent DEF ConnectionChanges, Changing
  <2>3. SetsStep("state", s)
    BY <1>1, <2>2 DEF ConnectionChanges, SetsStep
  <2> QED BY <2>1, <2>3 DEF Move
<1>2. ASSUME PacketLogged PROVE Move
  <2>1. [type |-> "packet_log", data |-> store.last + 1] \in Events
    BY DEF Events, StoreType, Stores
  <2>2. Sent([type |-> "packet_log", data |-> store.last + 1])
    BY <1>2, <2>1, BroadcastSends DEF PacketLogged, Changing
  <2>3. LogStep
    BY <1>2, <2>2 DEF PacketLogged, LogStep
  <2> QED BY <2>3 DEF Move
<1>3. ASSUME NEW bn \in Bundles, MaterialReceived(bn) PROVE Move
  <2>1. Sent([type |-> "material", data |-> bn])
    BY <1>3, BroadcastSends DEF MaterialReceived, Changing, Events
  <2>2. MaterialStep(bn)
    BY <1>3, <2>1 DEF MaterialReceived, MaterialStep
  <2> QED BY <2>2 DEF Move
<1>4. ASSUME NEW bn \in Bundles, WindingSent(bn) PROVE Move
  <2>1. changes + 1 \in 0..MaxChanges /\ changes + 1 \in Nat
    BY <1>4, BoundsAssumption DEF WindingSent, Changing, Counted
  <2>2. [type |-> "winding_status", data |-> changes + 1] \in Events
    BY <2>1 DEF Events
  <2>3. Sent([type |-> "winding_status", data |-> changes + 1])
    BY <1>4, <2>2, BroadcastSends DEF WindingSent, Changing
  <2>4. WindingStep(bn, changes + 1)
    BY <1>4, <2>3 DEF WindingSent, WindingStep
  <2> QED BY <2>1, <2>4 DEF Move
<1>5. ASSUME NEW p \in Pages, Handles(p) PROVE Move
  <2>1. PICK r \in asked[p] : Sets(r.field, r.data)
    BY <1>5 DEF Handles
  <2>2. r \in Requests
    BY <2>1 DEF RequestType
  <2>3. r.field \in Settings /\ r.data \in Values(r.field)
    BY <2>2 DEF Requests
  <2> QED BY <2>1, <2>3, SetsSends DEF Move
<1>6. ASSUME NEW f \in Requested, HandlesAnother(f) PROVE Move
  <2>1. f \in Settings
    BY RequestedAssumption DEF Settings
  <2>2. PICK v \in Values(f) : Sets(f, v)
    BY <1>6 DEF HandlesAnother
  <2> QED BY <2>1, <2>2, SetsSends DEF Move
<1>7. ASSUME NEW p \in Pages, Joins(p) \/ Sees(p) \/ Follows(p) PROVE Move
  BY <1>7 DEF Move
<1>8. ASSUME NEW p \in Pages, Closes(p) PROVE Move
  <2>1. <<>> \in Seq(Messages) /\ p \in open
    BY <1>8 DEF Closes
  <2>2. /\ open' = open \ {p} /\ astray' = astray \ ({p} \X Parts)
        /\ queue' = [queue EXCEPT ![p] = <<>>]
        /\ UNCHANGED <<store, late, screen, overruled>>
    BY <1>8 DEF Closes, Outage
  <2>3. astray' \subseteq open' \X Parts
    BY <2>2 DEF PageType
  <2>4. \A part \in Parts : InStep(part)' \subseteq InStep(part)
    BY <2>2 DEF InStep
  <2>5. Leaves
    BY <2>1, <2>2, <2>3, <2>4 DEF Leaves, PageType
  <2> QED BY <2>5 DEF Move
<1>9. ASSUME Crash PROVE Move
  <2>1. <<>> \in Seq(Messages)
    OBVIOUS
  <2>2. Leaves
    BY <1>9, <2>1 DEF Crash, Outage, Leaves, PageType, InStep
  <2> QED BY <2>2 DEF Move
<1>10. ASSUME UNCHANGED <<store, open, queue, screen, overruled, late, astray>> PROVE Move
  <2>1. Leaves
    BY <1>10 DEF Leaves, PageType, InStep
  <2> QED BY <2>1 DEF Move
<1>11. Start \/ vars' = vars => Move
  BY <1>10 DEF Start, vars, delivery
<1>12. ASSUME NEW p \in Pages, RequestFails(p) PROVE Move
  BY <1>10, <1>12 DEF RequestFails, delivery
<1>13. ASSUME NEW p \in Pages, NEW f, NEW line, Asks(p, f, line) PROVE Move
  BY <1>10, <1>13 DEF Asks, delivery
<1>14. ASSUME NEW p \in Pages, ArrivesLate(p) PROVE Move
  BY <1>14, LateStrays DEF Move
<1> QED BY <1>1, <1>2, <1>3, <1>4, <1>5, <1>6, <1>7, <1>8, <1>9, <1>11, <1>12, <1>13, <1>14 DEF Next

LEMMA StoreAfter ==
  ASSUME StoreType
  PROVE  /\ \A f, v : SetsStep(f, v) =>
              store' = [set |-> [store.set EXCEPT ![f] = v], material |-> store.material,
                        coils |-> store.coils, logs |-> store.logs, last |-> store.last]
         /\ LogStep =>
              store' = [set |-> store.set, material |-> store.material, coils |-> store.coils,
                        logs |-> First(StoreCap, <<store.last + 1>> \o store.logs),
                        last |-> store.last + 1]
         /\ \A bn : MaterialStep(bn) =>
              store' = [set |-> store.set, material |-> bn,
                        coils |-> UpdateCoilFromMaterial(store.coils, bn),
                        logs |-> store.logs, last |-> store.last]
         /\ \A bn, n : WindingStep(bn, n) =>
              store' = [set |-> store.set, material |-> store.material,
                        coils |-> UpdateWinding(store.coils, bn, n),
                        logs |-> store.logs, last |-> store.last]
BY DEF StoreType, Stores, SetsStep, LogStep, MaterialStep, WindingStep

LEMMA NewStoreTyped == NewStore \in Stores /\ OneEach(NewStore.coils)
<1>1. \A f \in Settings : Blank[f] \in Values(f)
  BY DEF Blank, Settings, Values, WorkCodes
<1>3. Blank \in SettingSets
  <2>1. Blank = [f \in Settings |-> Blank[f]]
    BY DEF Blank
  <2> QED BY <1>1, <2>1 DEF SettingSets
<1>2. <<>> \in Seq(Coils) /\ <<>> \in Logs(StoreCap)
  BY CapAssumption DEF Logs
<1> QED BY <1>2, <1>3 DEF NewStore, Stores, Materials, OneEach

LEMMA StoreTyped ==
  ASSUME StoreType, Move
  PROVE  StoreType'
<1>1. ASSUME NEW f \in Settings, NEW v \in Values(f), SetsStep(f, v) PROVE StoreType'
  <2>1. [store.set EXCEPT ![f] = v] \in SettingSets
    BY DEF StoreType, Stores, SettingSets
  <2> QED BY <1>1, <2>1, StoreAfter DEF StoreType, Stores
<1>2. ASSUME LogStep PROVE StoreType'
  <2>1. store.logs \in Seq(Nat) /\ store.last + 1 \in Nat /\ StoreCap \in Nat \ {0}
    BY CapAssumption DEF StoreType, Stores, Logs
  <2>2. First(StoreCap, <<store.last + 1>> \o store.logs) \in Logs(StoreCap)
    BY <2>1, OnTop
  <2> QED BY <1>2, <2>1, <2>2, StoreAfter DEF StoreType, Stores
<1>3. ASSUME NEW bn \in Bundles, MaterialStep(bn) PROVE StoreType'
  <2>1. 0 \in 0..MaxChanges
    BY BoundsAssumption
  <2>2. UpdateCoilFromMaterial(store.coils, bn) \in Seq(Coils)
        /\ OneEach(UpdateCoilFromMaterial(store.coils, bn))
    BY <2>1, CoilsLemma DEF StoreType, Stores
  <2> QED BY <1>3, <2>2, StoreAfter DEF StoreType, Stores, Materials
<1>4. ASSUME NEW bn \in Bundles, NEW n \in 0..MaxChanges, WindingStep(bn, n) PROVE StoreType'
  <2>1. UpdateWinding(store.coils, bn, n) \in Seq(Coils)
        /\ OneEach(UpdateWinding(store.coils, bn, n))
    BY CoilsLemma DEF StoreType, Stores
  <2> QED BY <1>4, <2>1, StoreAfter DEF StoreType, Stores
<1>5. Leaves => StoreType'
  BY NewStoreTyped DEF Leaves, StoreType
<1>6. ASSUME NEW p \in Pages, Joins(p) \/ Sees(p) \/ Follows(p) PROVE StoreType'
  BY <1>6 DEF Joins, Sees, Follows, StoreType
<1>7. (\E m \in Events : Strayed(m)) => StoreType'
  BY DEF Strayed, StoreType
<1> QED BY <1>1, <1>2, <1>3, <1>4, <1>5, <1>6, <1>7 DEF Move

LEMMA SnapshotTyped ==
  ASSUME StoreType
  PROVE  [type |-> "init_state", data |-> Snapshot] \in InitStates
<1>1. First(SnapLimit, store.logs) \in Logs(SnapLimit)
  BY FirstLemma, CapAssumption DEF StoreType, Stores, Logs
<1> QED BY <1>1 DEF StoreType, Stores, Snapshot, Snapshots, InitStates

(* A page handles its first message: what it shows by an answer is         *)
(* forgotten only with a message about it.                                 *)
LEMMA SeesLemma ==
  ASSUME PageType, NEW p \in Pages, Sees(p)
  PROVE  /\ queue[p] \in Seq(Messages) /\ queue[p] # <<>> /\ Head(queue[p]) \in Messages
         /\ queue' = [queue EXCEPT ![p] = Tail(queue[p])]
         /\ screen' = [screen EXCEPT ![p] = Shown(screen[p], Head(queue[p]))]
         /\ screen[p] \in Screens
         /\ \A x, f : \/ <<x, f>> \in overruled => <<x, f>> \in overruled'
                      \/ x = p /\ Head(queue[p]) \in About(f)
<1> DEFINE m == Head(queue[p])
<1>1. queue[p] \in Seq(Messages) /\ queue[p] # <<>> /\ m \in Messages
  BY DEF Sees, PageType
<1>2. /\ queue' = [queue EXCEPT ![p] = Tail(queue[p])]
      /\ screen' = [screen EXCEPT ![p] = Shown(screen[p], m)]
      /\ overruled' = IF m.type = "init_state" THEN {o \in overruled : o[1] # p}
                      ELSE overruled \ {<<p, m.type>>}
  BY DEF Sees
<1> HIDE DEF m
<1>3. ASSUME NEW x, NEW f, <<x, f>> \in overruled, <<x, f>> \notin overruled'
      PROVE  x = p /\ m \in About(f)
  <2>1. CASE m.type = "init_state"
    <3>1. <<x, f>>[1] = x
      OBVIOUS
    <3>2. <<x, f>>[1] = p
      BY <1>2, <1>3, <2>1
    <3> QED BY <1>1, <2>1, <3>1, <3>2 DEF About
  <2>2. CASE m.type # "init_state"
    <3>1. <<x, f>> = <<p, m.type>>
      BY <1>2, <1>3, <2>2
    <3>2. x = p /\ f = m.type
      BY <3>1
    <3> QED BY <1>1, <3>2 DEF About
  <2> QED BY <2>1, <2>2
<1> QED BY <1>1, <1>2, <1>3 DEF PageType, m

(* It follows an answer: nothing but the setting that was asked for may    *)
(* change, and then it is overruled.                                       *)
LEMMA FollowsLemma ==
  ASSUME PageType, RequestType, NEW p \in Pages, Follows(p)
  PROVE  /\ screen' \in [Pages -> Screens]
         /\ \A x \in Pages : /\ screen'[x].material = screen[x].material
                             /\ screen'[x].grid = screen[x].grid
                             /\ screen'[x].logs = screen[x].logs
         /\ overruled \subseteq overruled'
         /\ \A x \in Pages, f \in Settings :
              screen'[x].set[f] = screen[x].set[f] \/ <<x, f>> \in overruled'
<1>1. CASE UNCHANGED <<screen, overruled>>
  BY <1>1 DEF PageType
<1>2. CASE \E r \in asked[p] : /\ screen' = [screen EXCEPT ![p].set[r.field] = r.data]
                               /\ overruled' = overruled \cup {<<p, r.field>>}
  <2>1. PICK r \in asked[p] : /\ screen' = [screen EXCEPT ![p].set[r.field] = r.data]
                              /\ overruled' = overruled \cup {<<p, r.field>>}
    BY <1>2
  <2>2. r \in Requests
    BY <2>1 DEF RequestType
  <2>3. r.field \in Settings /\ r.data \in Values(r.field)
    BY <2>2 DEF Requests
  <2> DEFINE s == [screen[p].set EXCEPT ![r.field] = r.data]
  <2>4. screen[p] \in Screens /\ screen[p].set \in SettingSets
    BY DEF PageType, Screens
  <2>5. s \in SettingSets /\ \A f \in Settings : f # r.field => s[f] = screen[p].set[f]
    BY <2>3, <2>4 DEF SettingSets
  <2>6. [screen[p] EXCEPT !.set = s] = [set |-> s, material |-> screen[p].material,
                                       grid |-> screen[p].grid, logs |-> screen[p].logs]
    BY <2>4 DEF Screens
  <2>7. screen' = [screen EXCEPT ![p] = [screen[p] EXCEPT !.set = s]]
    BY <2>1
  <2> HIDE DEF s
  <2>8. screen' = [screen EXCEPT ![p] = [set |-> s, material |-> screen[p].material,
                                         grid |-> screen[p].grid, logs |-> screen[p].logs]]
    BY <2>6, <2>7
  <2>9. [set |-> s, material |-> screen[p].material,
         grid |-> screen[p].grid, logs |-> screen[p].logs] \in Screens
    BY <2>4, <2>5 DEF Screens
  <2> DEFINE t == [set |-> s, material |-> screen[p].material,
                   grid |-> screen[p].grid, logs |-> screen[p].logs]
  <2>10. /\ t.set = s /\ t.material = screen[p].material
         /\ t.grid = screen[p].grid /\ t.logs = screen[p].logs
    OBVIOUS
  <2> HIDE DEF t
  <2>11. /\ screen' \in [Pages -> Screens] /\ screen'[p] = t
         /\ \A x \in Pages : x # p => screen'[x] = screen[x]
    BY <2>8, <2>9 DEF PageType, t
  <2>12. overruled \subseteq overruled' /\ <<p, r.field>> \in overruled'
    BY <2>1
  <2>13. \A x \in Pages, f \in Settings :
           screen'[x].set[f] = screen[x].set[f] \/ <<x, f>> \in overruled'
    BY <2>5, <2>10, <2>11, <2>12
  <2> QED BY <2>10, <2>11, <2>12, <2>13
<1> QED BY <1>1, <1>2 DEF Follows

LEMMA PageTyped ==
  ASSUME PageType, RequestType, StoreType, Move
  PROVE  PageType'
<1>1. ASSUME NEW m, Reaches(m) PROVE PageType'
  BY <1>1 DEF Reaches, PageType
<1>2. Leaves => PageType'
  BY DEF Leaves, PageType
<1>3. ASSUME NEW p \in Pages, Joins(p) PROVE PageType'
  <2>1. <<[type |-> "init_state", data |-> Snapshot]>> \in Seq(Messages)
    BY SnapshotTyped DEF Messages
  <2> QED BY <1>3, <2>1 DEF Joins, PageType, delivery
<1>4. ASSUME NEW p \in Pages, Sees(p) PROVE PageType'
  <2>1. Tail(queue[p]) \in Seq(Messages) /\ Shown(screen[p], Head(queue[p])) \in Screens
    BY <1>4, SeesLemma, ShownLemma, HeadHandled
  <2>4. /\ queue' = [queue EXCEPT ![p] = Tail(queue[p])]
        /\ screen' = [screen EXCEPT ![p] = Shown(screen[p], Head(queue[p]))]
    BY <1>4, SeesLemma
  <2>2. queue' \in [Pages -> Seq(Messages)] /\ screen' \in [Pages -> Screens]
    BY <2>1, <2>4 DEF PageType
  <2>3. p \in open
    BY <1>4, SeesLemma DEF PageType
  <2> QED BY <1>4, <2>2, <2>3, SeesLemma DEF PageType, Sees, delivery
<1>5. ASSUME NEW p \in Pages, Follows(p) PROVE PageType'
  BY <1>5, FollowsLemma DEF PageType, Follows, delivery
<1>6. (\E m : Sent(m) \/ Strayed(m)) => PageType'
  BY <1>1 DEF Sent, Strayed
<1> QED BY <1>2, <1>3, <1>4, <1>5, <1>6 DEF Move, SetsStep, LogStep, MaterialStep, WindingStep

(* The requests of the pages.                                              *)
OneRequest(p) == asked' \in [Pages -> SUBSET Requests]
                 /\ (asked'[p] = {} \/ \E r \in Requests : asked'[p] = {r})
                 /\ \A x \in Pages \ {p} : asked'[x] = asked[x]

LEMMA RequestAt ==
  ASSUME NEW r \in Requests, NEW a \in {"sent", "answered", "failed"}
  PROVE  [r EXCEPT !.at = a] \in Requests
<1>1. PICK f \in Settings : r \in [field : {f}, data : Values(f), at : {"sent", "answered", "failed"}]
  BY DEF Requests
<1>2. [r EXCEPT !.at = a] \in [field : {f}, data : Values(f), at : {"sent", "answered", "failed"}]
  BY <1>1
<1> QED BY <1>2 DEF Requests

LEMMA ClickLemma ==
  ASSUME NEW f \in Requested, NEW s \in SettingSets, NEW line \in Lines
  PROVE  f \in Settings /\ Click(f, s, line) \in Values(f)
<1>1. f \in {"enabled", "paused", "work"} /\ f \in Settings
  BY RequestedAssumption DEF Settings
<1>2. CASE f = "work"
  <2>1. s["work"] \in [Lines -> WorkCodes]
    BY DEF SettingSets, Settings, Values
  <2>2. [s["work"] EXCEPT ![line] = IF @ = "01" THEN "99" ELSE "01"] \in [Lines -> WorkCodes]
    BY <2>1 DEF WorkCodes
  <2>3. Values(f) = [Lines -> WorkCodes]
    BY <1>2 DEF Values
  <2> QED BY <1>1, <1>2, <2>2, <2>3 DEF Click
<1>3. CASE f # "work"
  <2>1. Values(f) = BOOLEAN /\ Click(f, s, line) = ~s[f]
    BY <1>1, <1>3 DEF Values, Click
  <2> QED BY <1>1, <2>1
<1> QED BY <1>2, <1>3

LEMMA RequestTyped ==
  ASSUME PageType, RequestType, [Next]_vars
  PROVE  RequestType'
<1>1. asked' = asked => RequestType'
  BY DEF RequestType
<1>2. ASSUME NEW p \in Pages, OneRequest(p) PROVE RequestType'
  BY <1>2 DEF OneRequest, RequestType
<1>3. ASSUME NEW p \in Pages, NEW r \in Requests, asked' = [asked EXCEPT ![p] = {r}] PROVE RequestType'
  <2>1. OneRequest(p)
    BY <1>3 DEF OneRequest, RequestType
  <2> QED BY <1>2, <2>1
<1>4. ASSUME NEW p \in Pages, Handles(p) PROVE RequestType'
  <2>1. PICK r \in asked[p] : asked' = [asked EXCEPT ![p] = {[r EXCEPT !.at = "answered"]}]
    BY <1>4 DEF Handles
  <2>2. [r EXCEPT !.at = "answered"] \in Requests
    BY <2>1, RequestAt DEF RequestType
  <2> QED BY <1>3, <2>1, <2>2
<1>5. ASSUME NEW p \in Pages, RequestFails(p) PROVE RequestType'
  <2>1. PICK r \in asked[p] : asked' = [asked EXCEPT ![p] = {[r EXCEPT !.at = "failed"]}]
    BY <1>5 DEF RequestFails
  <2>2. [r EXCEPT !.at = "failed"] \in Requests
    BY <2>1, RequestAt DEF RequestType
  <2> QED BY <1>3, <2>1, <2>2
<1>6. ASSUME NEW p \in Pages, Follows(p) PROVE RequestType'
  <2>1. asked' = [asked EXCEPT ![p] = {}]
    BY <1>6 DEF Follows
  <2>2. OneRequest(p)
    BY <2>1 DEF OneRequest, RequestType
  <2> QED BY <1>2, <2>2
<1>7. ASSUME NEW p \in Pages, NEW f \in Requested, NEW line \in Lines, Asks(p, f, line) PROVE RequestType'
  <2> DEFINE r == [field |-> f, data |-> Click(f, screen[p].set, line), at |-> "sent"]
  <2>1. screen[p].set \in SettingSets
    BY DEF PageType, Screens
  <2>2. r \in Requests
    BY <2>1, ClickLemma DEF Requests
  <2>3. asked' = [asked EXCEPT ![p] = {r}]
    BY <1>7 DEF Asks
  <2> QED BY <1>3, <2>2, <2>3
<1>8. \A s : ConnectionChanges(s) => asked' = asked
  BY DEF ConnectionChanges
<1>9. PacketLogged \/ Crash \/ Start \/ vars' = vars => asked' = asked
  BY DEF PacketLogged, Crash, Start, vars
<1>10. \A bn : MaterialReceived(bn) \/ WindingSent(bn) => asked' = asked
  BY DEF MaterialReceived, WindingSent
<1>11. \A p : Joins(p) \/ ArrivesLate(p) \/ Closes(p) \/ Sees(p) => asked' = asked
  BY DEF Joins, ArrivesLate, Closes, Sees
<1>12. \A f : HandlesAnother(f) => asked' = asked
  BY DEF HandlesAnother
<1> QED BY <1>1, <1>4, <1>5, <1>6, <1>7, <1>8, <1>9, <1>10, <1>11, <1>12 DEF Next

(* The backend runs while pages are listed, and the changes are counted.   *)
LEMMA UpTyped ==
  ASSUME TypeInv, [Next]_vars
  PROVE  up' \in BOOLEAN /\ (open' # {} => up') /\ changes' \in 0..MaxChanges
<1>1. TypeInv /\ MaxChanges \in Nat
  BY BoundsAssumption
<1>2. ASSUME Changing
      PROVE  up' \in BOOLEAN /\ (open' # {} => up') /\ changes' \in 0..MaxChanges
  BY <1>1, <1>2 DEF Changing, Counted, TypeInv
<1>3. \A s : ConnectionChanges(s) => Changing
  BY DEF ConnectionChanges
<1>4. PacketLogged => Changing
  BY DEF PacketLogged
<1>5. \A bn : MaterialReceived(bn) \/ WindingSent(bn) => Changing
  BY DEF MaterialReceived, WindingSent
<1>6. \A p : Handles(p) => Changing
  BY DEF Handles, Sets
<1>7. \A f : HandlesAnother(f) => Changing
  BY DEF HandlesAnother, Sets
<1>8. ASSUME UNCHANGED changes, \/ UNCHANGED <<up, open>>
                                \/ up' = FALSE /\ open' = {}
                                \/ up' = TRUE
                                \/ UNCHANGED up /\ (up \/ open' = {})
      PROVE  up' \in BOOLEAN /\ (open' # {} => up') /\ changes' \in 0..MaxChanges
  BY <1>1, <1>8 DEF TypeInv
<1>9. \A p : Joins(p) => UNCHANGED <<changes, up>> /\ up
  BY DEF Joins, bounds
<1>10. \A p : Closes(p) => UNCHANGED <<changes, up>> /\ up
  BY DEF Closes, Outage, TypeInv
<1>11. \A p : ArrivesLate(p) \/ Sees(p) \/ RequestFails(p) \/ Follows(p) =>
                UNCHANGED <<changes, up, open>>
  BY DEF ArrivesLate, Sees, RequestFails, Follows, bounds
<1>12. \A p, f, line : Asks(p, f, line) => UNCHANGED <<changes, up, open>>
  BY DEF Asks, bounds
<1>13. Crash => UNCHANGED changes /\ up' = FALSE /\ open' = {}
  BY DEF Crash, Outage
<1>14. Start => UNCHANGED changes /\ up' = TRUE
  BY DEF Start, bounds
<1>15. vars' = vars => UNCHANGED <<changes, up, open>>
  BY DEF vars, bounds
<1> QED BY <1>2, <1>3, <1>4, <1>5, <1>6, <1>7, <1>8, <1>9, <1>10, <1>11, <1>12, <1>13, <1>14, <1>15 DEF Next

LEMMA Typed ==
  ASSUME TypeInv, [Next]_vars
  PROVE  TypeInv'
<1>1. StoreType' /\ PageType'
  BY StepMoves, StoreTyped, PageTyped DEF TypeInv
<1> QED BY <1>1, RequestTyped, UpTyped DEF TypeInv

-----------------------------------------------------------------------------
(* The parts of a screen, each along the moves.                            *)

LEMMA SentTo ==
  ASSUME PageType, NEW m, Sent(m), NEW p \in open', <<p, m.type>> \notin astray'
  PROVE  /\ queue[p] \in Seq(Messages) /\ queue'[p] = Append(queue[p], m)
         /\ screen'[p] = screen[p]
         /\ m.type = "packet_log" => p \in InStep("packet_log")
BY DEF PageType, Sent, Reaches

(* It is about another part. *)
LEMMA Reached ==
  ASSUME PageType, NEW m, Reaches(m), NEW part \in Parts, m.type # part, NEW p \in InStep(part)'
  PROVE  /\ p \in InStep(part) /\ queue[p] \in Seq(Messages)
         /\ queue'[p] = queue[p] \/ queue'[p] = Append(queue[p], m)
         /\ screen'[p] = screen[p] /\ overruled' = overruled
BY DEF PageType, Reaches, InStep

(* It comes late, and the page is in step. *)
LEMMA NotStrayed ==
  ASSUME PageType, NEW m, Strayed(m), NEW p \in open', <<p, m.type>> \notin astray'
  PROVE  /\ p \in InStep(m.type) /\ queue'[p] = queue[p]
         /\ screen'[p] = screen[p] /\ overruled' = overruled /\ store' = store
BY DEF PageType, Strayed, Reaches, InStep

LEMMA Left ==
  ASSUME PageType, Leaves, NEW part \in Parts, NEW p \in InStep(part)'
  PROVE  /\ p \in InStep(part) /\ p \in Pages
         /\ queue'[p] = queue[p] /\ screen'[p] = screen[p]
         /\ overruled' = overruled /\ store' = store
BY DEF PageType, Leaves, InStep

(* A page joins: it has the snapshot, and the others have what they had.   *)
LEMMA Joined ==
  ASSUME PageType, StoreType, NEW x \in Pages, Joins(x), NEW part, NEW p \in InStep(part)'
  PROVE  /\ p \in Pages /\ store' = store /\ screen' = screen /\ overruled' = overruled
         /\ \/ p = x /\ queue'[p] = <<[type |-> "init_state", data |-> Snapshot]>>
            \/ p # x /\ p \in InStep(part) /\ queue'[p] = queue[p]
BY DEF PageType, Joins, InStep, delivery

(* A page handles a message: the others are as they were.                  *)
LEMMA Seen ==
  ASSUME PageType, NEW x \in Pages, Sees(x), NEW part, NEW p \in InStep(part)'
  PROVE  /\ p \in Pages /\ p \in InStep(part) /\ store' = store
         /\ \/ /\ p = x /\ queue'[p] = Tail(queue[p])
               /\ screen'[p] = Shown(screen[p], Head(queue[p]))
               /\ \A f : \/ <<p, f>> \in overruled => <<p, f>> \in overruled'
                         \/ Head(queue[p]) \in About(f)
            \/ /\ p # x /\ queue'[p] = queue[p] /\ screen'[p] = screen[p]
               /\ \A f : <<p, f>> \in overruled => <<p, f>> \in overruled'
<1>1. /\ queue' = [queue EXCEPT ![x] = Tail(queue[x])]
      /\ screen' = [screen EXCEPT ![x] = Shown(screen[x], Head(queue[x]))]
  BY SeesLemma
<1>2. \A y, f : \/ <<y, f>> \in overruled => <<y, f>> \in overruled'
                \/ y = x /\ Head(queue[x]) \in About(f)
  BY SeesLemma
<1>3. p \in Pages /\ p \in InStep(part) /\ store' = store
  BY DEF Sees, PageType, InStep, delivery
<1>4. CASE p = x
  <2>1. queue'[p] = Tail(queue[p]) /\ screen'[p] = Shown(screen[p], Head(queue[p]))
    BY <1>1, <1>4 DEF PageType
  <2> QED BY <1>2, <1>3, <1>4, <2>1
<1>5. CASE p # x
  <2>1. queue'[p] = queue[p] /\ screen'[p] = screen[p]
    BY <1>1, <1>3, <1>5 DEF PageType
  <2> QED BY <1>2, <1>3, <1>5, <2>1
<1> QED BY <1>4, <1>5

(* The settings.                                                           *)
LEMMA SettingOther ==
  ASSUME TypeInv, SettingInv, NEW m \in Events, Reaches(m), NEW f \in Settings,
         m.type # f, store'.set[f] = store.set[f], NEW p \in InStep(f)'
  PROVE  SettingFollowed(p, f)'
<1>1. /\ p \in InStep(f) /\ queue[p] \in Seq(Messages)
      /\ queue'[p] = queue[p] \/ queue'[p] = Append(queue[p], m)
      /\ screen'[p] = screen[p] /\ overruled' = overruled
  BY Reached DEF TypeInv, Parts
<1>2. m \in Messages /\ m \notin About(f)
  BY EventTypes DEF About
<1>3. SettingFollowed(p, f)
  BY <1>1 DEF SettingInv
<1>4. /\ LastIn(Append(queue[p], m), About(f), Carries(f, store.set[f]))
      /\ NoneIn(Append(queue[p], m), About(f)) => NoneIn(queue[p], About(f))
  BY <1>1, <1>2, <1>3, OtherSent DEF SettingFollowed
<1>5. CASE queue'[p] = queue[p]
  BY <1>1, <1>3, <1>5 DEF SettingFollowed
<1>6. CASE queue'[p] = Append(queue[p], m)
  BY <1>1, <1>3, <1>4, <1>6 DEF SettingFollowed
<1> QED BY <1>1, <1>5, <1>6

LEMMA SettingKept ==
  ASSUME TypeInv, SettingInv, Move
  PROVE  SettingInv'
<1> SUFFICES ASSUME NEW f \in Settings, NEW p \in InStep(f)' PROVE SettingFollowed(p, f)'
  BY DEF SettingInv
<1>0. /\ StoreType /\ PageType /\ RequestType
      /\ f \in Parts /\ p \in open' /\ <<p, f>> \notin astray'
  BY DEF TypeInv, Parts, InStep
<1>1. ASSUME NEW g \in Settings, NEW v \in Values(g), SetsStep(g, v) PROVE SettingFollowed(p, f)'
  <2> DEFINE m == [type |-> g, data |-> v]
  <2>1. m \in Events /\ Sent(m) /\ m.type = g /\ m.data = v
    BY <1>1, SettingEvent DEF SetsStep
  <2>2. store'.set = [store.set EXCEPT ![g] = v] /\ DOMAIN store.set = Settings
    BY <1>0, <1>1, StoreAfter DEF StoreType, Stores, SettingSets
  <2> HIDE DEF m
  <2>3. CASE g = f
    <3>1. store'.set[f] = v
      BY <2>2, <2>3
    <3>2. m \in Messages /\ m \in About(f) /\ m \in Carries(f, store'.set[f])
      BY <2>1, <2>3, <3>1, EventTypes DEF About, Carries
    <3>3. queue[p] \in Seq(Messages) /\ queue'[p] = Append(queue[p], m)
      BY <1>0, <2>1, <2>3, SentTo
    <3> QED BY <3>2, <3>3, CurrentSent DEF SettingFollowed
  <2>4. CASE g # f
    <3>1. store'.set[f] = store.set[f]
      BY <2>2, <2>4
    <3> QED BY <2>1, <2>4, <3>1, SettingOther DEF Sent
  <2> QED BY <2>3, <2>4
<1>2. ASSUME NEW m, m.type \in {"packet_log", "material", "winding_status"},
             Reaches(m), store'.set = store.set, m \in Events
      PROVE  SettingFollowed(p, f)'
  BY <1>2, SettingOther DEF Settings
<1>3. CASE LogStep
  <2>1. [type |-> "packet_log", data |-> store.last + 1] \in Events
    BY <1>0 DEF Events, StoreType, Stores
  <2>2. store'.set = store.set
    BY <1>0, <1>3, StoreAfter
  <2> QED BY <1>2, <1>3, <2>1, <2>2 DEF LogStep, Sent
<1>4. ASSUME NEW bn \in Bundles, MaterialStep(bn) PROVE SettingFollowed(p, f)'
  <2>1. [type |-> "material", data |-> bn] \in Events
    BY DEF Events
  <2>2. store'.set = store.set
    BY <1>0, <1>4, StoreAfter
  <2> QED BY <1>2, <1>4, <2>1, <2>2 DEF MaterialStep, Sent
<1>5. ASSUME NEW bn \in Bundles, NEW n \in 0..MaxChanges, WindingStep(bn, n) PROVE SettingFollowed(p, f)'
  <2>1. [type |-> "winding_status", data |-> n] \in Events
    BY DEF Events
  <2>2. store'.set = store.set
    BY <1>0, <1>5, StoreAfter
  <2> QED BY <1>2, <1>5, <2>1, <2>2 DEF WindingStep, Sent
<1>6. CASE Leaves
  BY <1>0, <1>6, Left DEF SettingInv, SettingFollowed
<1>7. ASSUME NEW x \in Pages, Joins(x) PROVE SettingFollowed(p, f)'
  <2> DEFINE m == [type |-> "init_state", data |-> Snapshot]
  <2>1. m \in Messages /\ m.type = "init_state" /\ m.data.set = store.set
    BY <1>0, SnapshotTyped DEF Messages, Snapshot
  <2> HIDE DEF m
  <2>2. m \in About(f) /\ m \in Carries(f, store.set[f])
    BY <2>1 DEF About, Carries
  <2>3. LastIn(<<m>>, About(f), Carries(f, store.set[f])) /\ ~ NoneIn(<<m>>, About(f))
    BY <2>1, <2>2, FirstSent
  <2>4. CASE p = x
    BY <1>0, <1>7, <2>3, <2>4, Joined DEF SettingFollowed, m
  <2>5. CASE p # x
    BY <1>0, <1>7, <2>5, Joined DEF SettingInv, SettingFollowed
  <2> QED BY <2>4, <2>5
<1>8. ASSUME NEW x \in Pages, Sees(x) PROVE SettingFollowed(p, f)'
  <2>1. SettingFollowed(p, f) /\ store' = store
    BY <1>0, <1>8, Seen DEF SettingInv
  <2>2. CASE p = x
    <3> DEFINE q == queue[p]  m == Head(queue[p])  s == screen[p]
    <3>1. q \in Seq(Messages) /\ q # <<>> /\ m \in Messages /\ s \in Screens
      BY <1>0, <1>8, <2>2, SeesLemma
    <3>2. /\ queue'[p] = Tail(q) /\ screen'[p] = Shown(s, m)
          /\ \/ <<p, f>> \in overruled => <<p, f>> \in overruled'
             \/ m \in About(f)
      BY <1>0, <1>8, <2>2, Seen
    <3>3. Shown(s, m).set[f] =
              IF m \in About(f) THEN IF m.type = "init_state" THEN m.data.set[f] ELSE m.data
              ELSE s.set[f]
      BY <3>1, ShownLemma
    <3>4. /\ LastIn(q, About(f), Carries(f, store.set[f]))
          /\ NoneIn(q, About(f)) => <<p, f>> \in overruled \/ s.set[f] = store.set[f]
      BY <2>1 DEF SettingFollowed
    <3> HIDE DEF q, m, s
    <3>5. /\ LastIn(Tail(q), About(f), Carries(f, store.set[f]))
          /\ NoneIn(Tail(q), About(f)) =>
               IF m \in About(f) THEN m \in Carries(f, store.set[f]) ELSE NoneIn(q, About(f))
      BY <3>1, <3>4, LastHandled DEF q, m
    <3>6. ASSUME NoneIn(Tail(q), About(f))
          PROVE  <<p, f>> \in overruled' \/ Shown(s, m).set[f] = store.set[f]
      <4>1. CASE m \in About(f)
        BY <3>3, <3>5, <3>6, <4>1 DEF Carries
      <4>2. CASE m \notin About(f)
        BY <3>2, <3>3, <3>4, <3>5, <3>6, <4>2
      <4> QED BY <4>1, <4>2
    <3> QED BY <2>1, <3>2, <3>5, <3>6 DEF SettingFollowed
  <2>3. CASE p # x
    BY <1>0, <1>8, <2>1, <2>3, Seen DEF SettingFollowed
  <2> QED BY <2>2, <2>3
<1>9. ASSUME NEW x \in Pages, Follows(x) PROVE SettingFollowed(p, f)'
  <2>1. UNCHANGED <<store, open, queue, astray>> /\ p \in Pages
    BY <1>0, <1>9 DEF Follows, PageType, delivery
  <2>2. SettingFollowed(p, f)
    BY <1>0, <2>1 DEF SettingInv, InStep
  <2>3. /\ overruled \subseteq overruled'
        /\ screen'[p].set[f] = screen[p].set[f] \/ <<p, f>> \in overruled'
    BY <1>0, <1>9, <2>1, FollowsLemma
  <2> QED BY <2>1, <2>2, <2>3 DEF SettingFollowed
<1>10. ASSUME NEW m \in Events, Strayed(m) PROVE SettingFollowed(p, f)'
  <2>1. CASE m.type = f
    BY <1>0, <1>10, <2>1, NotStrayed DEF SettingInv, SettingFollowed
  <2>2. CASE m.type # f
    BY <1>10, <2>2, SettingOther DEF Strayed
  <2> QED BY <2>1, <2>2
<1> QED BY <1>1, <1>3, <1>4, <1>5, <1>6, <1>7, <1>8, <1>9, <1>10 DEF Move

(* The material.                                                            *)
LEMMA MaterialOther ==
  ASSUME TypeInv, MaterialInv, NEW m \in Events, Reaches(m), m.type # "material",
         store'.material = store.material, store'.material # NoMaterial, NEW p \in InStep("material")'
  PROVE  MaterialFollowed(p)'
<1>1. /\ p \in InStep("material") /\ queue[p] \in Seq(Messages)
      /\ queue'[p] = queue[p] \/ queue'[p] = Append(queue[p], m)
      /\ screen'[p] = screen[p]
  BY Reached DEF TypeInv, Parts
<1>2. m \in Messages /\ m \notin AboutMaterial
  BY EventTypes DEF AboutMaterial
<1>3. MaterialFollowed(p)
  BY <1>1 DEF MaterialInv
<1>4. /\ LastIn(Append(queue[p], m), AboutMaterial, CarriesMaterial(store.material))
      /\ NoneIn(Append(queue[p], m), AboutMaterial) => NoneIn(queue[p], AboutMaterial)
  BY <1>1, <1>2, <1>3, OtherSent DEF MaterialFollowed
<1>5. CASE queue'[p] = queue[p]
  BY <1>1, <1>3, <1>5 DEF MaterialFollowed
<1>6. CASE queue'[p] = Append(queue[p], m)
  BY <1>1, <1>3, <1>4, <1>6 DEF MaterialFollowed
<1> QED BY <1>1, <1>5, <1>6

LEMMA MaterialKept ==
  ASSUME TypeInv, MaterialInv, Move
  PROVE  MaterialInv'
<1> SUFFICES ASSUME store'.material # NoMaterial, NEW p \in InStep("material")'
             PROVE  MaterialFollowed(p)'
  BY DEF MaterialInv
<1>0. /\ StoreType /\ PageType /\ RequestType
      /\ "material" \in Parts /\ p \in open' /\ <<p, "material">> \notin astray'
  BY DEF TypeInv, Parts, InStep
<1>1. ASSUME NEW g \in Settings, NEW v \in Values(g), SetsStep(g, v) PROVE MaterialFollowed(p)'
  <2> DEFINE m == [type |-> g, data |-> v]
  <2>1. m \in Events /\ Reaches(m) /\ m.type # "material"
    BY <1>1, SettingEvent DEF SetsStep, Sent, Settings
  <2>2. store'.material = store.material
    BY <1>0, <1>1, StoreAfter
  <2> QED BY <2>1, <2>2, MaterialOther
<1>2. CASE LogStep
  <2> DEFINE m == [type |-> "packet_log", data |-> store.last + 1]
  <2>1. m \in Events /\ Reaches(m) /\ m.type # "material"
    BY <1>0, <1>2 DEF Events, StoreType, Stores, LogStep, Sent
  <2>2. store'.material = store.material
    BY <1>0, <1>2, StoreAfter
  <2> QED BY <2>1, <2>2, MaterialOther
<1>3. ASSUME NEW bn \in Bundles, MaterialStep(bn) PROVE MaterialFollowed(p)'
  <2> DEFINE m == [type |-> "material", data |-> bn]
  <2>1. m \in Events /\ Sent(m) /\ m.type = "material" /\ m.data = bn
    BY <1>3 DEF Events, MaterialStep, Sent
  <2>2. store'.material = bn
    BY <1>0, <1>3, StoreAfter
  <2> HIDE DEF m
  <2>3. m \in Messages /\ m \in AboutMaterial /\ m \in CarriesMaterial(bn)
    BY <2>1, EventTypes DEF AboutMaterial, CarriesMaterial
  <2>4. queue[p] \in Seq(Messages) /\ queue'[p] = Append(queue[p], m)
    BY <1>0, <2>1, SentTo
  <2> QED BY <2>2, <2>3, <2>4, CurrentSent DEF MaterialFollowed
<1>4. ASSUME NEW bn \in Bundles, NEW n \in 0..MaxChanges, WindingStep(bn, n) PROVE MaterialFollowed(p)'
  <2> DEFINE m == [type |-> "winding_status", data |-> n]
  <2>1. m \in Events /\ Reaches(m) /\ m.type # "material"
    BY <1>4 DEF Events, WindingStep, Sent
  <2>2. store'.material = store.material
    BY <1>0, <1>4, StoreAfter
  <2> QED BY <2>1, <2>2, MaterialOther
<1>5. CASE Leaves
  BY <1>0, <1>5, Left DEF MaterialInv, MaterialFollowed
<1>6. ASSUME NEW x \in Pages, Joins(x) PROVE MaterialFollowed(p)'
  <2> DEFINE m == [type |-> "init_state", data |-> Snapshot]
  <2>1. m \in Messages /\ m.type = "init_state" /\ m.data.material = store.material
    BY <1>0, SnapshotTyped DEF Messages, Snapshot
  <2>2. store' = store /\ store.material # NoMaterial
    BY <1>0, <1>6, Joined
  <2> HIDE DEF m
  <2>3. m \in AboutMaterial /\ m \in CarriesMaterial(store.material)
    BY <2>1, <2>2 DEF AboutMaterial, CarriesMaterial
  <2>4. LastIn(<<m>>, AboutMaterial, CarriesMaterial(store.material)) /\ ~ NoneIn(<<m>>, AboutMaterial)
    BY <2>1, <2>3, FirstSent
  <2>5. CASE p = x
    BY <1>0, <1>6, <2>4, <2>5, Joined DEF MaterialFollowed, m
  <2>6. CASE p # x
    BY <1>0, <1>6, <2>2, <2>6, Joined DEF MaterialInv, MaterialFollowed
  <2> QED BY <2>5, <2>6
<1>7. ASSUME NEW x \in Pages, Sees(x) PROVE MaterialFollowed(p)'
  <2>1. MaterialFollowed(p) /\ store' = store
    BY <1>0, <1>7, Seen DEF MaterialInv
  <2>2. CASE p = x
    <3> DEFINE q == queue[p]  m == Head(queue[p])  s == screen[p]
    <3>1. q \in Seq(Messages) /\ q # <<>> /\ m \in Messages /\ s \in Screens
      BY <1>0, <1>7, <2>2, SeesLemma
    <3>2. queue'[p] = Tail(q) /\ screen'[p] = Shown(s, m)
      BY <1>0, <1>7, <2>2, Seen
    <3>3. Shown(s, m).material =
              IF m \in AboutMaterial THEN IF m.type = "init_state" THEN m.data.material ELSE m.data
              ELSE s.material
      BY <3>1, ShownLemma
    <3>4. /\ LastIn(q, AboutMaterial, CarriesMaterial(store.material))
          /\ NoneIn(q, AboutMaterial) => s.material = store.material
      BY <2>1 DEF MaterialFollowed
    <3> HIDE DEF q, m, s
    <3>5. /\ LastIn(Tail(q), AboutMaterial, CarriesMaterial(store.material))
          /\ NoneIn(Tail(q), AboutMaterial) =>
               IF m \in AboutMaterial THEN m \in CarriesMaterial(store.material)
               ELSE NoneIn(q, AboutMaterial)
      BY <3>1, <3>4, LastHandled DEF q, m
    <3>6. ASSUME NoneIn(Tail(q), AboutMaterial) PROVE Shown(s, m).material = store.material
      <4>1. CASE m \in AboutMaterial
        BY <3>3, <3>5, <3>6, <4>1 DEF CarriesMaterial
      <4>2. CASE m \notin AboutMaterial
        BY <3>3, <3>4, <3>5, <3>6, <4>2
      <4> QED BY <4>1, <4>2
    <3> QED BY <2>1, <3>2, <3>5, <3>6 DEF MaterialFollowed
  <2>3. CASE p # x
    BY <1>0, <1>7, <2>1, <2>3, Seen DEF MaterialFollowed
  <2> QED BY <2>2, <2>3
<1>8. ASSUME NEW x \in Pages, Follows(x) PROVE MaterialFollowed(p)'
  <2>1. UNCHANGED <<store, open, queue, astray>> /\ p \in Pages
    BY <1>0, <1>8 DEF Follows, PageType, delivery
  <2>2. MaterialFollowed(p)
    BY <1>0, <2>1 DEF MaterialInv, InStep
  <2>3. screen'[p].material = screen[p].material
    BY <1>0, <1>8, <2>1, FollowsLemma
  <2> QED BY <2>1, <2>2, <2>3 DEF MaterialFollowed
<1>9. ASSUME NEW m \in Events, Strayed(m) PROVE MaterialFollowed(p)'
  <2>1. CASE m.type = "material"
    BY <1>0, <1>9, <2>1, NotStrayed DEF MaterialInv, MaterialFollowed
  <2>2. CASE m.type # "material"
    <3>1. Reaches(m) /\ store' = store
      BY <1>9 DEF Strayed
    <3> QED BY <2>2, <3>1, MaterialOther
  <2> QED BY <2>1, <2>2
<1> QED BY <1>1, <1>2, <1>3, <1>4, <1>5, <1>6, <1>7, <1>8, <1>9 DEF Move

LEMMA NewestLayers ==
  ASSUME NEW coils \in Seq(Coils), HasLayers(coils)
  PROVE  Newest(coils) \in Layers(coils)
<1>1. Len(coils) \in 1..Len(coils)
  BY DEF HasLayers
<1> QED BY <1>1 DEF Newest, Last, Layers

(* The layers.                                                              *)
LEMMA GridOther ==
  ASSUME TypeInv, GridInv, NEW m \in Events, Reaches(m), m.type # "winding_status",
         store'.coils = store.coils, HasLayers(store'.coils), NEW p \in InStep("winding_status")'
  PROVE  GridFollowed(p)'
<1>1. /\ p \in InStep("winding_status") /\ queue[p] \in Seq(Messages)
      /\ queue'[p] = queue[p] \/ queue'[p] = Append(queue[p], m)
      /\ screen'[p] = screen[p]
  BY Reached DEF TypeInv, Parts
<1>2. m \in Messages /\ m \notin AboutGrid
  BY EventTypes DEF AboutGrid
<1>3. GridFollowed(p)
  BY <1>1 DEF GridInv
<1>4. /\ LastIn(Append(queue[p], m), AboutGrid, CarriesGrid(Layers(store.coils)))
      /\ NoneIn(Append(queue[p], m), AboutGrid) => NoneIn(queue[p], AboutGrid)
  BY <1>1, <1>2, <1>3, OtherSent DEF GridFollowed
<1>5. CASE queue'[p] = queue[p]
  BY <1>1, <1>3, <1>5 DEF GridFollowed
<1>6. CASE queue'[p] = Append(queue[p], m)
  BY <1>1, <1>3, <1>4, <1>6 DEF GridFollowed
<1> QED BY <1>1, <1>5, <1>6

LEMMA GridKept ==
  ASSUME TypeInv, GridInv, Move
  PROVE  GridInv'
<1> SUFFICES ASSUME HasLayers(store'.coils), NEW p \in InStep("winding_status")'
             PROVE  GridFollowed(p)'
  BY DEF GridInv
<1>0. /\ StoreType /\ PageType /\ RequestType
      /\ "winding_status" \in Parts /\ p \in open' /\ <<p, "winding_status">> \notin astray'
  BY DEF TypeInv, Parts, InStep
<1>1. ASSUME NEW g \in Settings, NEW v \in Values(g), SetsStep(g, v) PROVE GridFollowed(p)'
  <2> DEFINE m == [type |-> g, data |-> v]
  <2>1. m \in Events /\ Reaches(m) /\ m.type # "winding_status"
    BY <1>1, SettingEvent DEF SetsStep, Sent, Settings
  <2>2. store'.coils = store.coils
    BY <1>0, <1>1, StoreAfter
  <2> QED BY <2>1, <2>2, GridOther
<1>2. CASE LogStep
  <2> DEFINE m == [type |-> "packet_log", data |-> store.last + 1]
  <2>1. m \in Events /\ Reaches(m) /\ m.type # "winding_status"
    BY <1>0, <1>2 DEF Events, StoreType, Stores, LogStep, Sent
  <2>2. store'.coils = store.coils
    BY <1>0, <1>2, StoreAfter
  <2> QED BY <2>1, <2>2, GridOther
<1>3. ASSUME NEW bn \in Bundles, MaterialStep(bn) PROVE GridFollowed(p)'
  <2> DEFINE m == [type |-> "material", data |-> bn]
  <2>1. m \in Events /\ Reaches(m) /\ m.type # "winding_status"
    BY <1>3 DEF Events, MaterialStep, Sent
  <2>2. store'.coils = UpdateCoilFromMaterial(store.coils, bn)
    BY <1>0, <1>3, StoreAfter
  <2>3. 0 \in 0..MaxChanges
    BY BoundsAssumption
  <2>4. store'.coils = store.coils
    BY <1>0, <2>2, <2>3, CoilsLemma DEF StoreType, Stores
  <2> QED BY <2>1, <2>4, GridOther
<1>4. ASSUME NEW bn \in Bundles, NEW n \in 0..MaxChanges, WindingStep(bn, n) PROVE GridFollowed(p)'
  <2> DEFINE m == [type |-> "winding_status", data |-> n]
  <2>1. m \in Events /\ Sent(m) /\ m.type = "winding_status" /\ m.data = n
    BY <1>4 DEF Events, WindingStep, Sent
  <2>2. n \in Layers(store'.coils)
    BY <1>0, <1>4, StoreAfter, CoilsLemma DEF StoreType, Stores
  <2> HIDE DEF m
  <2>3. m \in Messages /\ m \in AboutGrid /\ m \in CarriesGrid(Layers(store'.coils))
    BY <2>1, <2>2, EventTypes DEF AboutGrid, CarriesGrid
  <2>4. queue[p] \in Seq(Messages) /\ queue'[p] = Append(queue[p], m)
    BY <1>0, <2>1, SentTo
  <2> QED BY <2>3, <2>4, CurrentSent DEF GridFollowed
<1>5. CASE Leaves
  BY <1>0, <1>5, Left DEF GridInv, GridFollowed
<1>6. ASSUME NEW x \in Pages, Joins(x) PROVE GridFollowed(p)'
  <2> DEFINE m == [type |-> "init_state", data |-> Snapshot]
  <2>1. m \in Messages /\ m.type = "init_state" /\ m.data.coils = store.coils
    BY <1>0, SnapshotTyped DEF Messages, Snapshot
  <2>2. store' = store /\ HasLayers(store.coils)
    BY <1>0, <1>6, Joined
  <2> HIDE DEF m
  <2>3. m \in AboutGrid /\ m \in CarriesGrid(Layers(store.coils))
    <3>1. Newest(store.coils) \in Layers(store.coils)
      BY <1>0, <2>2, NewestLayers DEF StoreType, Stores
    <3> QED BY <2>1, <2>2, <3>1 DEF AboutGrid, CarriesGrid
  <2>4. LastIn(<<m>>, AboutGrid, CarriesGrid(Layers(store.coils))) /\ ~ NoneIn(<<m>>, AboutGrid)
    BY <2>1, <2>3, FirstSent
  <2>5. CASE p = x
    BY <1>0, <1>6, <2>4, <2>5, Joined DEF GridFollowed, m
  <2>6. CASE p # x
    BY <1>0, <1>6, <2>2, <2>6, Joined DEF GridInv, GridFollowed
  <2> QED BY <2>5, <2>6
<1>7. ASSUME NEW x \in Pages, Sees(x) PROVE GridFollowed(p)'
  <2>1. GridFollowed(p) /\ store' = store
    BY <1>0, <1>7, Seen DEF GridInv
  <2>2. CASE p = x
    <3> DEFINE q == queue[p]  m == Head(queue[p])  s == screen[p]
    <3>1. q \in Seq(Messages) /\ q # <<>> /\ m \in Messages /\ s \in Screens
      BY <1>0, <1>7, <2>2, SeesLemma
    <3>2. queue'[p] = Tail(q) /\ screen'[p] = Shown(s, m)
      BY <1>0, <1>7, <2>2, Seen
    <3>3. Shown(s, m).grid =
              IF m \in AboutGrid THEN IF m.type = "init_state" THEN Newest(m.data.coils) ELSE m.data
              ELSE s.grid
      BY <3>1, ShownLemma
    <3>4. /\ LastIn(q, AboutGrid, CarriesGrid(Layers(store.coils)))
          /\ NoneIn(q, AboutGrid) => s.grid \in Layers(store.coils)
      BY <2>1 DEF GridFollowed
    <3> HIDE DEF q, m, s
    <3>5. /\ LastIn(Tail(q), AboutGrid, CarriesGrid(Layers(store.coils)))
          /\ NoneIn(Tail(q), AboutGrid) =>
               IF m \in AboutGrid THEN m \in CarriesGrid(Layers(store.coils))
               ELSE NoneIn(q, AboutGrid)
      BY <3>1, <3>4, LastHandled DEF q, m
    <3>6. ASSUME NoneIn(Tail(q), AboutGrid) PROVE Shown(s, m).grid \in Layers(store.coils)
      <4>1. CASE m \in AboutGrid
        BY <3>3, <3>5, <3>6, <4>1 DEF CarriesGrid
      <4>2. CASE m \notin AboutGrid
        BY <3>3, <3>4, <3>5, <3>6, <4>2
      <4> QED BY <4>1, <4>2
    <3> QED BY <2>1, <3>2, <3>5, <3>6 DEF GridFollowed
  <2>3. CASE p # x
    BY <1>0, <1>7, <2>1, <2>3, Seen DEF GridFollowed
  <2> QED BY <2>2, <2>3
<1>8. ASSUME NEW x \in Pages, Follows(x) PROVE GridFollowed(p)'
  <2>1. UNCHANGED <<store, open, queue, astray>> /\ p \in Pages
    BY <1>0, <1>8 DEF Follows, PageType, delivery
  <2>2. GridFollowed(p)
    BY <1>0, <2>1 DEF GridInv, InStep
  <2>3. screen'[p].grid = screen[p].grid
    BY <1>0, <1>8, <2>1, FollowsLemma
  <2> QED BY <2>1, <2>2, <2>3 DEF GridFollowed
<1>9. ASSUME NEW m \in Events, Strayed(m) PROVE GridFollowed(p)'
  <2>1. CASE m.type = "winding_status"
    BY <1>0, <1>9, <2>1, NotStrayed DEF GridInv, GridFollowed
  <2>2. CASE m.type # "winding_status"
    <3>1. Reaches(m) /\ store' = store
      BY <1>9 DEF Strayed
    <3> QED BY <2>2, <3>1, GridOther
  <2> QED BY <2>1, <2>2
<1> QED BY <1>1, <1>2, <1>3, <1>4, <1>5, <1>6, <1>7, <1>8, <1>9 DEF Move

(* The log.                                                                *)
LEMMA NotLogged ==
  ASSUME NEW q \in Seq(Messages), NEW m \in Messages, m \notin AboutLog
  PROVE  /\ Consecutive(q) => Consecutive(Append(q, m))
         /\ \A n : Continues(q, n) => Continues(Append(q, m), n)
<1>1. /\ Len(Append(q, m)) = Len(q) + 1 /\ Append(q, m)[Len(q) + 1] = m
      /\ \A i \in 1..Len(q) : Append(q, m)[i] = q[i]
  OBVIOUS
<1>2. Len(q) \in Nat
  OBVIOUS
<1>3. ASSUME Consecutive(q) PROVE Consecutive(Append(q, m))
  <2> SUFFICES ASSUME NEW i \in 1..Len(q) + 1, NEW j \in 1..Len(q) + 1, i < j,
                      Append(q, m)[i] \in AboutLog, Append(q, m)[j] \in AboutLog,
                      \A k \in 1..Len(q) + 1 : i < k /\ k < j => Append(q, m)[k] \notin AboutLog
               PROVE  Number(Append(q, m)[j]) = Number(Append(q, m)[i]) + 1
    BY <1>1 DEF Consecutive
  <2>1. i \in 1..Len(q) /\ j \in 1..Len(q)
    BY <1>1, <1>2
  <2>2. \A k \in 1..Len(q) : i < k /\ k < j => q[k] \notin AboutLog
    BY <1>1, <1>2
  <2> QED BY <1>1, <1>3, <2>1, <2>2 DEF Consecutive
<1>4. ASSUME NEW n, Continues(q, n) PROVE Continues(Append(q, m), n)
  <2> SUFFICES ASSUME NEW j \in 1..Len(q) + 1, Append(q, m)[j] \in AboutLog \ InitStates,
                      \A k \in 1..Len(q) + 1 : k < j => Append(q, m)[k] \notin AboutLog
               PROVE  Number(Append(q, m)[j]) = n + 1
    BY <1>1 DEF Continues
  <2>1. j \in 1..Len(q)
    BY <1>1, <1>2
  <2>2. \A k \in 1..Len(q) : k < j => q[k] \notin AboutLog
    BY <1>1, <1>2
  <2> QED BY <1>1, <1>4, <2>1, <2>2 DEF Continues
<1> QED BY <1>3, <1>4

LEMMA Logged ==
  ASSUME NEW q \in Seq(Messages), NEW m \in Messages, m \in AboutLog, NEW l \in Nat, NEW n,
         Number(m) = l + 1, LastIn(q, AboutLog, CarriesLog(l)),
         NoneIn(q, AboutLog) => n = l, Consecutive(q), Continues(q, n)
  PROVE  Consecutive(Append(q, m)) /\ Continues(Append(q, m), n)
<1>1. /\ Len(Append(q, m)) = Len(q) + 1 /\ Append(q, m)[Len(q) + 1] = m
      /\ \A i \in 1..Len(q) : Append(q, m)[i] = q[i]
  OBVIOUS
<1>2. Len(q) \in Nat
  OBVIOUS
<1>3. Consecutive(Append(q, m))
  <2> SUFFICES ASSUME NEW i \in 1..Len(q) + 1, NEW j \in 1..Len(q) + 1, i < j,
                      Append(q, m)[i] \in AboutLog, Append(q, m)[j] \in AboutLog,
                      \A k \in 1..Len(q) + 1 : i < k /\ k < j => Append(q, m)[k] \notin AboutLog
               PROVE  Number(Append(q, m)[j]) = Number(Append(q, m)[i]) + 1
    BY <1>1 DEF Consecutive
  <2>1. i \in 1..Len(q) /\ q[i] \in AboutLog
    BY <1>1, <1>2
  <2>2. \A k \in 1..Len(q) : i < k /\ k < j => q[k] \notin AboutLog
    BY <1>1, <1>2
  <2>3. CASE j \in 1..Len(q)
    BY <1>1, <2>1, <2>2, <2>3 DEF Consecutive
  <2>4. CASE j = Len(q) + 1
    <3>1. \A k \in 1..Len(q) : i < k => q[k] \notin AboutLog
      BY <1>2, <2>2, <2>4
    <3>2. q[i] \in CarriesLog(l)
      BY <2>1, <3>1 DEF LastIn
    <3>3. Number(q[i]) = l
      BY <3>2 DEF CarriesLog
    <3> QED BY <1>1, <2>1, <2>4, <3>3
  <2> QED BY <1>2, <2>3, <2>4
<1>4. Continues(Append(q, m), n)
  <2> SUFFICES ASSUME NEW j \in 1..Len(q) + 1, Append(q, m)[j] \in AboutLog \ InitStates,
                      \A k \in 1..Len(q) + 1 : k < j => Append(q, m)[k] \notin AboutLog
               PROVE  Number(Append(q, m)[j]) = n + 1
    BY <1>1 DEF Continues
  <2>1. \A k \in 1..Len(q) : k < j => q[k] \notin AboutLog
    BY <1>1, <1>2
  <2>2. CASE j \in 1..Len(q)
    BY <1>1, <2>1, <2>2 DEF Continues
  <2>3. CASE j = Len(q) + 1
    <3>1. NoneIn(q, AboutLog)
      BY <1>2, <2>1, <2>3 DEF NoneIn
    <3> QED BY <1>1, <2>3, <3>1
  <2> QED BY <1>2, <2>2, <2>3
<1> QED BY <1>3, <1>4

LEMMA LogHandled ==
  ASSUME NEW q \in Seq(Messages), q # <<>>, Consecutive(q), NEW n, NEW nn, Continues(q, n),
         IF Head(q) \in AboutLog THEN nn = Number(Head(q)) ELSE nn = n
  PROVE  /\ Consecutive(Tail(q)) /\ Continues(Tail(q), nn)
         /\ Head(q) \in AboutLog \ InitStates => Number(Head(q)) = n + 1
<1>1. /\ Head(q) = q[1] /\ Len(q) \in Nat \ {0} /\ Len(Tail(q)) = Len(q) - 1
      /\ \A i \in 1..Len(Tail(q)) : Tail(q)[i] = q[i + 1]
  BY HeadHandled
<1>2. \A j \in 1..Len(q) : j > 1 => j - 1 \in 1..Len(Tail(q)) /\ q[j] = Tail(q)[j - 1]
  BY <1>1
<1>3. Consecutive(Tail(q))
  <2> SUFFICES ASSUME NEW i \in 1..Len(Tail(q)), NEW j \in 1..Len(Tail(q)), i < j,
                      Tail(q)[i] \in AboutLog, Tail(q)[j] \in AboutLog,
                      \A k \in 1..Len(Tail(q)) : i < k /\ k < j => Tail(q)[k] \notin AboutLog
               PROVE  Number(Tail(q)[j]) = Number(Tail(q)[i]) + 1
    BY DEF Consecutive
  <2>1. /\ i + 1 \in 1..Len(q) /\ j + 1 \in 1..Len(q) /\ i + 1 < j + 1
        /\ q[i + 1] \in AboutLog /\ q[j + 1] \in AboutLog
    BY <1>1
  <2>2. \A k \in 1..Len(q) : i + 1 < k /\ k < j + 1 => q[k] \notin AboutLog
    BY <1>1, <1>2
  <2>3. Number(q[j + 1]) = Number(q[i + 1]) + 1
    BY <2>1, <2>2 DEF Consecutive
  <2> QED BY <1>1, <2>3
<1>4. Continues(Tail(q), nn)
  <2> SUFFICES ASSUME NEW j \in 1..Len(Tail(q)), Tail(q)[j] \in AboutLog \ InitStates,
                      \A k \in 1..Len(Tail(q)) : k < j => Tail(q)[k] \notin AboutLog
               PROVE  Number(Tail(q)[j]) = nn + 1
    BY DEF Continues
  <2>1. /\ 1 \in 1..Len(q) /\ j + 1 \in 1..Len(q) /\ 1 < j + 1
        /\ q[j + 1] \in AboutLog \ InitStates /\ q[j + 1] = Tail(q)[j]
    BY <1>1
  <2>2. ASSUME NEW k \in 1..Len(q), 1 < k, k < j + 1 PROVE q[k] \notin AboutLog
    <3>1. k - 1 \in 1..Len(Tail(q)) /\ q[k] = Tail(q)[k - 1]
      BY <1>2, <2>2
    <3>2. k - 1 < j
      BY <1>1, <2>2
    <3> QED BY <3>1, <3>2
  <2>3. CASE q[1] \in AboutLog
    <3>1. Number(q[j + 1]) = Number(q[1]) + 1
      BY <2>1, <2>2, <2>3 DEF Consecutive
    <3> QED BY <1>1, <2>1, <2>3, <3>1
  <2>4. CASE q[1] \notin AboutLog
    <3>1. \A k \in 1..Len(q) : k < j + 1 => q[k] \notin AboutLog
      BY <1>1, <2>2, <2>4
    <3>2. Number(q[j + 1]) = n + 1
      BY <2>1, <3>1 DEF Continues
    <3> QED BY <1>1, <2>1, <2>4, <3>2
  <2> QED BY <2>3, <2>4
<1>5. ASSUME Head(q) \in AboutLog \ InitStates PROVE Number(Head(q)) = n + 1
  <2>1. 1 \in 1..Len(q) /\ \A k \in 1..Len(q) : ~ (k < 1)
    BY <1>1
  <2> QED BY <1>1, <1>5, <2>1 DEF Continues
<1> QED BY <1>3, <1>4, <1>5

(* A telegram on top of a log that lacks no other. *)
LEMMA ContiguousLemma ==
  ASSUME NEW l \in Seq(Nat), Contiguous(l)
  PROVE  LET top == First(ScreenCap, <<NewestIn(l) + 1>> \o l)
         IN  Contiguous(top) /\ NewestIn(top) = NewestIn(l) + 1
<1> DEFINE d == NewestIn(l) + 1
           top == First(ScreenCap, <<d>> \o l)
<1>1. NewestIn(l) \in Nat /\ d \in Nat /\ ScreenCap \in Nat \ {0} /\ Len(l) \in Nat
      /\ SnapLimit \in Nat /\ SnapLimit <= ScreenCap /\ StoreCap \in Nat
  BY CapAssumption DEF NewestIn
<1>2. /\ top \in Seq(Nat) /\ Len(top) = IF ScreenCap <= Len(l) + 1 THEN ScreenCap ELSE Len(l) + 1
      /\ top[1] = d /\ Len(top) > 0
      /\ \A i \in 1..Len(top) : i > 1 => i - 1 \in 1..Len(l) /\ top[i] = l[i - 1]
  <2> HIDE DEF d
  <2>1. top \in Logs(ScreenCap)
    BY <1>1, OnTop
  <2>2. /\ Len(top) = IF ScreenCap <= Len(l) + 1 THEN ScreenCap ELSE Len(l) + 1
        /\ top[1] = d /\ Len(top) > 0
        /\ \A i \in 1..Len(top) : i > 1 => i - 1 \in 1..Len(l) /\ top[i] = l[i - 1]
    BY <1>1, OnTop
  <2> QED BY <2>1, <2>2 DEF Logs
<1>3. d = NewestIn(l) + 1
  OBVIOUS
<1> HIDE DEF top, d
<1>4. NewestIn(top) = d
  BY <1>2 DEF NewestIn
<1>5. \A i \in 1..Len(top) : top[i] = d + 1 - i
  <2> SUFFICES ASSUME NEW i \in 1..Len(top) PROVE top[i] = d + 1 - i
    OBVIOUS
  <2>1. CASE i = 1
    BY <1>1, <1>2, <2>1
  <2>2. CASE i > 1
    <3>1. i - 1 \in 1..Len(l) /\ top[i] = l[i - 1]
      BY <1>2, <2>2
    <3>2. l[i - 1] = NewestIn(l) + 1 - (i - 1)
      BY <3>1 DEF Contiguous
    <3> QED BY <1>1, <1>3, <3>1, <3>2
  <2> QED BY <2>1, <2>2
<1>6. Len(top) >= SnapLimit \/ Len(top) >= StoreCap \/ Len(top) >= d
  BY <1>1, <1>2, <1>3 DEF Contiguous
<1>7. Contiguous(top)
  BY <1>4, <1>5, <1>6 DEF Contiguous
<1> QED BY <1>3, <1>4, <1>7 DEF top, d

(* The log of the store, and its beginning that a snapshot has. *)
LEMMA StoreLogKept ==
  ASSUME StoreType, StoreLog(store), Move
  PROVE  StoreLog(store')
<1>1. CASE store'.logs = store.logs /\ store'.last = store.last
  BY <1>1 DEF StoreLog
<1>2. CASE LogStep
  <2> DEFINE l == store.logs  n == store.last  top == First(StoreCap, <<n + 1>> \o l)
  <2>1. l \in Seq(Nat) /\ Len(l) \in Nat /\ n \in Nat /\ n + 1 \in Nat /\ StoreCap \in Nat \ {0}
    BY CapAssumption DEF StoreType, Stores, Logs
  <2>2. /\ Len(top) = IF StoreCap <= Len(l) + 1 THEN StoreCap ELSE Len(l) + 1
        /\ top[1] = n + 1
        /\ \A i \in 1..Len(top) : i > 1 => i - 1 \in 1..Len(l) /\ top[i] = l[i - 1]
    <3> HIDE DEF l, n
    <3> QED BY <2>1, OnTop
  <2>3. store'.logs = top /\ store'.last = n + 1
    BY <1>2, StoreAfter
  <2>4. /\ \A i \in 1..Len(l) : l[i] = n + 1 - i
        /\ Len(l) = n \/ (Len(l) = StoreCap /\ StoreCap <= n)
    BY DEF StoreLog
  <2> HIDE DEF l, n, top
  <2>5. ASSUME NEW i \in 1..Len(top) PROVE top[i] = n + 1 + 1 - i
    <3>1. CASE i = 1
      BY <2>1, <2>2, <3>1
    <3>2. CASE i > 1
      <4>1. i - 1 \in 1..Len(l) /\ top[i] = l[i - 1]
        BY <2>2, <3>2
      <4>2. l[i - 1] = n + 1 - (i - 1)
        BY <2>4, <4>1
      <4> QED BY <2>1, <4>1, <4>2
    <3> QED BY <3>1, <3>2
  <2>6. Len(top) = n + 1 \/ (Len(top) = StoreCap /\ StoreCap <= n + 1)
    BY <2>1, <2>2, <2>4
  <2> QED BY <2>3, <2>5, <2>6 DEF StoreLog
<1>3. CASE store' = NewStore
  <2>1. store'.logs = <<>> /\ store'.last = 0
    BY <1>3 DEF NewStore
  <2> QED BY <2>1 DEF StoreLog
<1>4. ASSUME NEW f, NEW v, SetsStep(f, v) PROVE StoreLog(store')
  BY <1>1, <1>4, StoreAfter
<1>5. ASSUME NEW bn, MaterialStep(bn) PROVE StoreLog(store')
  BY <1>1, <1>5, StoreAfter
<1>6. ASSUME NEW bn, NEW n, WindingStep(bn, n) PROVE StoreLog(store')
  BY <1>1, <1>6, StoreAfter
<1>7. CASE Leaves
  BY <1>1, <1>3, <1>7 DEF Leaves
<1>8. ASSUME NEW p, Joins(p) \/ Sees(p) \/ Follows(p) PROVE StoreLog(store')
  BY <1>1, <1>8 DEF Joins, Sees, Follows
<1>9. (\E m \in Events : Strayed(m)) => StoreLog(store')
  BY <1>1 DEF Strayed
<1> QED BY <1>2, <1>4, <1>5, <1>6, <1>7, <1>8, <1>9 DEF Move

LEMMA SnapshotContiguous ==
  ASSUME StoreType, StoreLog(store)
  PROVE  Contiguous(Snapshot.logs) /\ NewestIn(Snapshot.logs) = store.last
<1> DEFINE l == store.logs  n == store.last  d == First(SnapLimit, l)
<1>1. /\ l \in Seq(Nat) /\ Len(l) \in Nat /\ n \in Nat
      /\ StoreCap \in Nat \ {0} /\ SnapLimit \in Nat \ {0}
  BY CapAssumption DEF StoreType, Stores, Logs
<1>2. /\ d \in Logs(SnapLimit)
      /\ Len(d) = IF SnapLimit <= Len(l) THEN SnapLimit ELSE Len(l)
      /\ \A i \in 1..Len(d) : d[i] = l[i]
  <2> HIDE DEF l
  <2> QED BY <1>1, FirstLemma
<1>3. /\ \A i \in 1..Len(l) : l[i] = n + 1 - i
      /\ Len(l) = n \/ (Len(l) = StoreCap /\ StoreCap <= n)
  BY DEF StoreLog
<1>4. Snapshot.logs = d
  BY DEF Snapshot
<1> HIDE DEF l, n, d
<1>5. d \in Seq(Nat)
  BY <1>2 DEF Logs
<1>6. NewestIn(d) = n
  <2>1. CASE d = <<>>
    <3>1. Len(d) = 0
      BY <2>1
    <3>2. n = 0
      BY <1>1, <1>2, <1>3, <3>1
    <3> QED BY <2>1, <3>2 DEF NewestIn
  <2>2. CASE d # <<>>
    <3>1. 1 \in 1..Len(d) /\ 1 \in 1..Len(l)
      BY <1>1, <1>2, <1>5, <2>2
    <3>2. d[1] = n
      BY <1>1, <1>2, <1>3, <3>1
    <3> QED BY <2>2, <3>2 DEF NewestIn
  <2> QED BY <2>1, <2>2
<1>7. \A i \in 1..Len(d) : d[i] = n + 1 - i
  BY <1>1, <1>2, <1>3
<1>8. Len(d) >= SnapLimit \/ Len(d) >= StoreCap \/ Len(d) >= n
  BY <1>1, <1>2, <1>3
<1>9. Contiguous(d)
  BY <1>6, <1>7, <1>8 DEF Contiguous
<1> QED BY <1>4, <1>6, <1>9 DEF n

LEMMA SnapshotStaysFirst ==
  ASSUME TypeInv, LogInv, Move, NEW p \in Pages
  PROVE  SnapshotFirst(queue'[p])
<1>0. /\ StoreType /\ PageType /\ StoreLog(store) /\ SnapshotFirst(queue[p])
      /\ queue[p] \in Seq(Messages)
  BY DEF TypeInv, LogInv, PageType
<1>1. ASSUME NEW m \in Events, Reaches(m) PROVE SnapshotFirst(queue'[p])
  <2>1. CASE queue'[p] = queue[p]
    BY <1>0, <2>1
  <2>2. CASE queue'[p] = Append(queue[p], m)
    <3> DEFINE q == queue[p]
    <3>1. /\ Len(Append(q, m)) = Len(q) + 1 /\ Append(q, m)[Len(q) + 1] = m
          /\ \A i \in 1..Len(q) : Append(q, m)[i] = q[i]
          /\ Len(q) \in Nat
      BY <1>0
    <3>2. m \notin InitStates
      BY EventTypes
    <3> HIDE DEF q
    <3>3. SnapshotFirst(q)
      BY <1>0 DEF q
    <3>4. SnapshotFirst(Append(q, m))
      BY <3>1, <3>2, <3>3 DEF SnapshotFirst
    <3> QED BY <2>2, <3>4 DEF q
  <2> QED BY <1>1, <2>1, <2>2 DEF Reaches
<1>2. ASSUME NEW f \in Settings, NEW v \in Values(f), SetsStep(f, v) PROVE SnapshotFirst(queue'[p])
  BY <1>1, <1>2, SettingEvent DEF SetsStep, Sent
<1>3. CASE LogStep
  <2>1. [type |-> "packet_log", data |-> store.last + 1] \in Events
    BY <1>0 DEF Events, StoreType, Stores
  <2> QED BY <1>1, <1>3, <2>1 DEF LogStep, Sent
<1>4. ASSUME NEW bn \in Bundles, MaterialStep(bn) PROVE SnapshotFirst(queue'[p])
  <2>1. [type |-> "material", data |-> bn] \in Events
    BY DEF Events
  <2> QED BY <1>1, <1>4, <2>1 DEF MaterialStep, Sent
<1>5. ASSUME NEW bn \in Bundles, NEW n \in 0..MaxChanges, WindingStep(bn, n)
      PROVE  SnapshotFirst(queue'[p])
  <2>1. [type |-> "winding_status", data |-> n] \in Events
    BY DEF Events
  <2> QED BY <1>1, <1>5, <2>1 DEF WindingStep, Sent
<1>6. CASE queue'[p] = queue[p] \/ queue'[p] = <<>>
  BY <1>0, <1>6 DEF SnapshotFirst
<1>7. CASE Leaves
  BY <1>6, <1>7 DEF Leaves
<1>8. ASSUME NEW x \in Pages, Joins(x) PROVE SnapshotFirst(queue'[p])
  <2> DEFINE m == [type |-> "init_state", data |-> Snapshot]
  <2>1. Contiguous(m.data.logs)
    BY <1>0, SnapshotContiguous
  <2>2. queue'[p] = <<m>> \/ queue'[p] = queue[p]
    BY <1>0, <1>8 DEF Joins, PageType
  <2> HIDE DEF m
  <2>3. SnapshotFirst(<<m>>)
    BY <2>1 DEF SnapshotFirst
  <2> QED BY <1>0, <2>2, <2>3
<1>9. ASSUME NEW x \in Pages, Sees(x) PROVE SnapshotFirst(queue'[p])
  <2>1. queue' = [queue EXCEPT ![x] = Tail(queue[x])] /\ queue[x] # <<>>
    BY <1>0, <1>9, SeesLemma
  <2>2. CASE p = x
    <3> DEFINE q == queue[p]
    <3>1. q \in Seq(Messages) /\ q # <<>> /\ queue'[p] = Tail(q) /\ SnapshotFirst(q)
      BY <1>0, <2>1, <2>2 DEF PageType
    <3> HIDE DEF q
    <3>2. /\ Len(q) \in Nat \ {0} /\ Len(Tail(q)) = Len(q) - 1
          /\ \A i \in 1..Len(Tail(q)) : Tail(q)[i] = q[i + 1]
      BY <3>1, HeadHandled
    <3>3. ASSUME NEW i \in 1..Len(Tail(q)) PROVE Tail(q)[i] \notin InitStates
      <4>1. i + 1 \in 1..Len(q) /\ i + 1 # 1
        BY <3>2
      <4> QED BY <3>1, <3>2, <4>1 DEF SnapshotFirst
    <3> QED BY <3>1, <3>3 DEF SnapshotFirst
  <2>3. CASE p # x
    BY <1>0, <2>1, <2>3 DEF PageType
  <2> QED BY <1>0, <2>2, <2>3
<1>10. ASSUME NEW x \in Pages, Follows(x) PROVE SnapshotFirst(queue'[p])
  BY <1>6, <1>10 DEF Follows
<1>11. (\E m \in Events : Strayed(m)) => SnapshotFirst(queue'[p])
  BY <1>1 DEF Strayed
<1> QED BY <1>2, <1>3, <1>4, <1>5, <1>7, <1>8, <1>9, <1>10, <1>11 DEF Move

LEMMA SentBehind ==
  ASSUME NEW q \in Seq(Messages), NEW m \in Events, NEW l,
         q = <<>> \/ q[1] \notin InitStates => Contiguous(l)
  PROVE  Append(q, m) = <<>> \/ Append(q, m)[1] \notin InitStates => Contiguous(l)
<1>1. CASE q = <<>>
  BY <1>1
<1>2. CASE q # <<>>
  <2>1. Append(q, m)[1] = q[1] /\ Append(q, m) # <<>>
    BY <1>2
  <2> QED BY <2>1
<1> QED BY <1>1, <1>2

LEMMA LogOther ==
  ASSUME TypeInv, LogInv, NEW m \in Events, Reaches(m), m.type # "packet_log",
         store'.last = store.last, NEW p \in InStep("packet_log")'
  PROVE  LogFollowed(p)'
<1>1. /\ p \in InStep("packet_log") /\ queue[p] \in Seq(Messages)
      /\ queue'[p] = queue[p] \/ queue'[p] = Append(queue[p], m)
      /\ screen'[p] = screen[p]
  BY Reached DEF TypeInv, Parts
<1>2. m \in Messages /\ m \notin AboutLog
  BY EventTypes DEF AboutLog
<1>3. LogFollowed(p)
  BY <1>1 DEF LogInv
<1>4. /\ LastIn(Append(queue[p], m), AboutLog, CarriesLog(store.last))
      /\ NoneIn(Append(queue[p], m), AboutLog) => NoneIn(queue[p], AboutLog)
  BY <1>1, <1>2, <1>3, OtherSent DEF LogFollowed
<1>5. /\ Consecutive(Append(queue[p], m))
      /\ Continues(Append(queue[p], m), NewestIn(screen[p].logs))
  BY <1>1, <1>2, <1>3, NotLogged DEF LogFollowed
<1>6. Append(queue[p], m) = <<>> \/ Append(queue[p], m)[1] \notin InitStates => Contiguous(screen[p].logs)
  BY <1>1, <1>3, SentBehind DEF LogFollowed
<1>7. CASE queue'[p] = queue[p]
  BY <1>1, <1>3, <1>7 DEF LogFollowed
<1>8. CASE queue'[p] = Append(queue[p], m)
  BY <1>1, <1>3, <1>4, <1>5, <1>6, <1>8 DEF LogFollowed
<1> QED BY <1>1, <1>7, <1>8

(* What a page's log is after the first message. *)
LEMMA LogShown ==
  ASSUME NEW q \in Seq(Messages), q # <<>>, SnapshotFirst(q), NEW s \in Screens,
         Continues(q, NewestIn(s.logs)), q[1] \notin InitStates => Contiguous(s.logs)
  PROVE  LET m == Head(q)
             l == Shown(s, m).logs
         IN  /\ Contiguous(l)
             /\ IF m \in AboutLog THEN NewestIn(l) = Number(m) ELSE NewestIn(l) = NewestIn(s.logs)
<1> DEFINE m == Head(q)  l == Shown(s, m).logs
<1>1. m \in Messages /\ m = q[1] /\ Len(q) \in Nat \ {0} /\ 1 \in 1..Len(q)
  BY HeadHandled
<1>2. l = CASE m.type = "init_state" -> m.data.logs
            [] m.type = "packet_log" -> First(ScreenCap, <<m.data>> \o s.logs)
            [] OTHER -> s.logs
  BY Zenon, <1>1, ShownLemma
<1>3. /\ m.type = "init_state" => l = m.data.logs
      /\ m.type = "packet_log" => l = First(ScreenCap, <<m.data>> \o s.logs)
      /\ m.type \notin {"init_state", "packet_log"} => l = s.logs
  BY Zenon, <1>2
<1> HIDE DEF l, m
<1>4. CASE m \in InitStates
  <2>1. m.type = "init_state" /\ m \in AboutLog
    BY <1>1, <1>4 DEF InitStates, AboutLog
  <2>2. Contiguous(m.data.logs)
    BY <1>1, <1>4 DEF SnapshotFirst
  <2> QED BY <1>3, <2>1, <2>2 DEF Number, l, m
<1>5. CASE m \in AboutLog \ InitStates
  <2>1. m.type = "packet_log" /\ Number(m) = m.data
    <3>1. m \in Events
      BY <1>1, <1>5 DEF Messages
    <3> QED BY <1>5, <3>1, EventTypes DEF AboutLog, Number
  <2>2. Number(m) = NewestIn(s.logs) + 1
    <3>1. \A k \in 1..Len(q) : ~ (k < 1)
      OBVIOUS
    <3> QED BY <1>1, <1>5, <3>1 DEF Continues
  <2>3. s.logs \in Seq(Nat) /\ Contiguous(s.logs)
    BY <1>1, <1>5 DEF Screens, Logs
  <2>4. l = First(ScreenCap, <<NewestIn(s.logs) + 1>> \o s.logs)
    BY <1>3, <2>1, <2>2
  <2>5. Contiguous(l) /\ NewestIn(l) = NewestIn(s.logs) + 1
    BY <2>3, <2>4, ContiguousLemma
  <2> QED BY <1>5, <2>2, <2>5 DEF l, m
<1>6. CASE m \notin AboutLog
  <2>1. m.type \notin {"init_state", "packet_log"} /\ m \notin InitStates
    BY <1>1, <1>6 DEF AboutLog, InitStates
  <2>2. l = s.logs
    BY <1>3, <2>1
  <2> QED BY <1>1, <1>6, <2>1, <2>2 DEF l, m
<1> QED BY <1>4, <1>5, <1>6

LEMMA LogKept ==
  ASSUME TypeInv, LogInv, Move
  PROVE  LogInv'
<1>0. StoreType /\ PageType /\ RequestType /\ StoreLog(store) /\ "packet_log" \in Parts
  BY DEF TypeInv, LogInv, Parts
<1> SUFFICES ASSUME NEW p \in InStep("packet_log")' PROVE LogFollowed(p)'
  BY <1>0, StoreLogKept, SnapshotStaysFirst DEF LogInv
<1>9. p \in open' /\ <<p, "packet_log">> \notin astray'
  BY DEF InStep
<1>1. ASSUME NEW g \in Settings, NEW v \in Values(g), SetsStep(g, v) PROVE LogFollowed(p)'
  <2> DEFINE m == [type |-> g, data |-> v]
  <2>1. m \in Events /\ Reaches(m) /\ m.type # "packet_log"
    BY <1>1, SettingEvent DEF SetsStep, Sent, Settings
  <2>2. store'.last = store.last
    BY <1>0, <1>1, StoreAfter
  <2> QED BY <2>1, <2>2, LogOther
<1>2. CASE LogStep
  <2> DEFINE n == store.last + 1  m == [type |-> "packet_log", data |-> n]  q == queue[p]
  <2>1. /\ m \in Events /\ Sent(m) /\ m.type = "packet_log" /\ m.data = n
        /\ store.last \in Nat /\ n = store.last + 1
    BY <1>0, <1>2 DEF Events, StoreType, Stores, LogStep, Sent
  <2>2. store'.last = n
    BY <1>0, <1>2, StoreAfter
  <2> HIDE DEF m, n
  <2>3. m \in Messages /\ m \in AboutLog /\ m \in CarriesLog(n) /\ Number(m) = n
    BY <2>1, EventTypes DEF AboutLog, CarriesLog, Number
  <2>4. /\ p \in InStep("packet_log") /\ q \in Seq(Messages)
        /\ queue'[p] = Append(q, m) /\ screen'[p] = screen[p]
    BY <1>0, <1>9, <2>1, SentTo
  <2>5. LogFollowed(p)
    BY <2>4 DEF LogInv
  <2> DEFINE s == NewestIn(screen[p].logs)
  <2>6. /\ LastIn(q, AboutLog, CarriesLog(store.last))
        /\ NoneIn(q, AboutLog) => s = store.last
        /\ Consecutive(q) /\ Continues(q, s)
        /\ q = <<>> \/ q[1] \notin InitStates => Contiguous(screen[p].logs)
    BY <2>5 DEF LogFollowed
  <2> HIDE DEF q, s
  <2>7. Consecutive(Append(q, m)) /\ Continues(Append(q, m), s)
    BY <2>1, <2>3, <2>4, <2>6, Logged
  <2>8. LastIn(Append(q, m), AboutLog, CarriesLog(n)) /\ ~ NoneIn(Append(q, m), AboutLog)
    BY <2>3, <2>4, CurrentSent
  <2>9. Append(q, m) = <<>> \/ Append(q, m)[1] \notin InitStates => Contiguous(screen[p].logs)
    BY <2>1, <2>4, <2>6, SentBehind
  <2> QED BY <2>2, <2>4, <2>7, <2>8, <2>9 DEF LogFollowed, s
<1>3. ASSUME NEW bn \in Bundles, MaterialStep(bn) PROVE LogFollowed(p)'
  <2> DEFINE m == [type |-> "material", data |-> bn]
  <2>1. m \in Events /\ Reaches(m) /\ m.type # "packet_log"
    BY <1>3 DEF Events, MaterialStep, Sent
  <2>2. store'.last = store.last
    BY <1>0, <1>3, StoreAfter
  <2> QED BY <2>1, <2>2, LogOther
<1>4. ASSUME NEW bn \in Bundles, NEW n \in 0..MaxChanges, WindingStep(bn, n) PROVE LogFollowed(p)'
  <2> DEFINE m == [type |-> "winding_status", data |-> n]
  <2>1. m \in Events /\ Reaches(m) /\ m.type # "packet_log"
    BY <1>4 DEF Events, WindingStep, Sent
  <2>2. store'.last = store.last
    BY <1>0, <1>4, StoreAfter
  <2> QED BY <2>1, <2>2, LogOther
<1>5. CASE Leaves
  BY <1>0, <1>5, Left DEF LogInv, LogFollowed
<1>6. ASSUME NEW x \in Pages, Joins(x) PROVE LogFollowed(p)'
  <2> DEFINE m == [type |-> "init_state", data |-> Snapshot]
  <2>1. /\ m \in Messages /\ m \in InitStates /\ m.type = "init_state"
        /\ NewestIn(m.data.logs) = store.last
    BY <1>0, SnapshotTyped, SnapshotContiguous DEF Messages
  <2>2. store' = store
    BY <1>0, <1>6, Joined
  <2> HIDE DEF m
  <2>3. m \in AboutLog /\ m \in CarriesLog(store.last)
    BY <2>1 DEF AboutLog, CarriesLog, Number
  <2>4. LastIn(<<m>>, AboutLog, CarriesLog(store.last)) /\ ~ NoneIn(<<m>>, AboutLog)
    BY <2>1, <2>3, FirstSent
  <2>5. /\ Len(<<m>>) = 1 /\ <<m>>[1] = m /\ <<m>> # <<>>
    OBVIOUS
  <2>6. Consecutive(<<m>>) /\ \A n : Continues(<<m>>, n)
    BY <2>1, <2>5 DEF Consecutive, Continues
  <2>7. CASE p = x
    <3>1. queue'[p] = <<m>>
      BY <1>0, <1>6, <2>7, Joined DEF m
    <3> QED BY <2>1, <2>2, <2>4, <2>5, <2>6, <3>1 DEF LogFollowed
  <2>8. CASE p # x
    BY <1>0, <1>6, <2>2, <2>8, Joined DEF LogInv, LogFollowed
  <2> QED BY <2>7, <2>8
<1>7. ASSUME NEW x \in Pages, Sees(x) PROVE LogFollowed(p)'
  <2>1. LogFollowed(p) /\ store' = store /\ SnapshotFirst(queue[p])
    BY <1>0, <1>7, Seen DEF LogInv
  <2>2. CASE p = x
    <3> DEFINE q == queue[p]  m == Head(queue[p])  s == screen[p]  l == Shown(s, m).logs
    <3>1. q \in Seq(Messages) /\ q # <<>> /\ m \in Messages /\ s \in Screens /\ m = Head(q)
      BY <1>0, <1>7, <2>2, SeesLemma
    <3>2. queue'[p] = Tail(q) /\ screen'[p].logs = l
      BY <1>0, <1>7, <2>2, Seen
    <3>3. /\ LastIn(q, AboutLog, CarriesLog(store.last))
          /\ NoneIn(q, AboutLog) => NewestIn(s.logs) = store.last
          /\ Consecutive(q) /\ Continues(q, NewestIn(s.logs)) /\ SnapshotFirst(q)
          /\ q = <<>> \/ q[1] \notin InitStates => Contiguous(s.logs)
      BY <2>1 DEF LogFollowed
    <3>4. l = Shown(s, Head(q)).logs
      OBVIOUS
    <3> HIDE DEF q, m, s, l
    <3>5. /\ Contiguous(l)
          /\ IF m \in AboutLog THEN NewestIn(l) = Number(m) ELSE NewestIn(l) = NewestIn(s.logs)
      BY <3>1, <3>3, <3>4, LogShown
    <3>6. Consecutive(Tail(q)) /\ Continues(Tail(q), NewestIn(l))
      BY <3>1, <3>3, <3>5, LogHandled
    <3>7. /\ LastIn(Tail(q), AboutLog, CarriesLog(store.last))
          /\ NoneIn(Tail(q), AboutLog) =>
               IF m \in AboutLog THEN m \in CarriesLog(store.last) ELSE NoneIn(q, AboutLog)
      BY <3>1, <3>3, LastHandled
    <3>8. NoneIn(Tail(q), AboutLog) => NewestIn(l) = store.last
      BY <3>3, <3>5, <3>7 DEF CarriesLog
    <3> QED BY <2>1, <3>2, <3>5, <3>6, <3>7, <3>8 DEF LogFollowed
  <2>3. CASE p # x
    BY <1>0, <1>7, <2>1, <2>3, Seen DEF LogFollowed
  <2> QED BY <2>2, <2>3
<1>8. ASSUME NEW x \in Pages, Follows(x) PROVE LogFollowed(p)'
  <2>1. UNCHANGED <<store, open, queue, astray>> /\ p \in Pages
    BY <1>0, <1>8, <1>9 DEF Follows, PageType, delivery
  <2>2. LogFollowed(p)
    BY <1>9, <2>1 DEF LogInv, InStep
  <2>3. screen'[p].logs = screen[p].logs
    BY <1>0, <1>8, <2>1, FollowsLemma
  <2> QED BY <2>1, <2>2, <2>3 DEF LogFollowed
<1>10. ASSUME NEW m \in Events, Strayed(m) PROVE LogFollowed(p)'
  <2>1. CASE m.type = "packet_log"
    BY <1>0, <1>9, <1>10, <2>1, NotStrayed DEF LogInv, LogFollowed
  <2>2. CASE m.type # "packet_log"
    <3>1. Reaches(m) /\ store' = store
      BY <1>10 DEF Strayed
    <3> QED BY <2>2, <3>1, LogOther
  <2> QED BY <2>1, <2>2
<1> QED BY <1>1, <1>2, <1>3, <1>4, <1>5, <1>6, <1>7, <1>8, <1>10 DEF Move

-----------------------------------------------------------------------------
LEMMA InitIInv == Init => IInv
<1> SUFFICES ASSUME Init PROVE IInv
  OBVIOUS
<1>1. StoreType
  BY NewStoreTyped DEF Init, StoreType
<1>2. NewPage \in Screens
  <2>1. Blank \in SettingSets
    BY NewStoreTyped DEF NewStore, Stores
  <2>2. <<>> \in Logs(ScreenCap)
    BY CapAssumption DEF Logs
  <2> QED BY <2>1, <2>2 DEF NewPage, Screens, Materials
<1>3. PageType
  <2>1. <<>> \in Seq(Messages)
    OBVIOUS
  <2> QED BY <1>2, <2>1 DEF Init, PageType
<1>4. RequestType
  BY DEF Init, RequestType
<1>5. TypeInv
  BY <1>1, <1>3, <1>4, BoundsAssumption DEF Init, TypeInv
<1>6. SettingInv /\ MaterialInv /\ GridInv
  BY DEF Init, SettingInv, MaterialInv, GridInv, InStep
<1>7. store.logs = <<>> /\ store.last = 0
  BY DEF Init, NewStore
<1>8. StoreLog(store)
  BY <1>7 DEF StoreLog
<1>9. LogInv
  BY <1>8 DEF Init, LogInv, SnapshotFirst, InStep
<1> QED BY <1>5, <1>6, <1>9 DEF IInv

LEMMA NextIInv == IInv /\ [Next]_vars => IInv'
<1> SUFFICES ASSUME IInv, [Next]_vars PROVE IInv'
  OBVIOUS
<1>1. Move
  BY StepMoves DEF IInv
<1> QED BY <1>1, Typed, SettingKept, MaterialKept, GridKept, LogKept DEF IInv

LEMMA Invariance == Spec => []IInv
BY InitIInv, NextIInv, PTL DEF Spec

(* TypeOK: what the store holds and the pages show are settings, coils and *)
(* logs as the program has them, and a page that is not open has nothing   *)
(* under way.                                                              *)
THEOREM TypeCorrect == Spec => []TypeOK
<1>1. IInv => TypeOK
  <2> SUFFICES ASSUME IInv PROVE TypeOK
    OBVIOUS
  <2>1. StoreType /\ PageType /\ RequestType /\ up \in BOOLEAN /\ (open # {} => up)
    BY DEF IInv, TypeInv
  <2>2. /\ \A f \in Settings : store.set[f] \in Values(f)
        /\ store.material \in Bundles \cup {NoMaterial}
        /\ store.coils \in Seq(Coils) /\ Len(store.logs) <= StoreCap
    BY <2>1 DEF StoreType, Stores, SettingSets, Materials, Logs
  <2>3. IsInjective([i \in DOMAIN store.coils |-> store.coils[i].bundle])
    BY <2>1, <2>2 DEF StoreType, OneEach, IsInjective
  <2>4. ASSUME NEW p \in Pages
        PROVE  /\ \A f \in Settings : screen[p].set[f] \in Values(f)
               /\ Len(screen[p].logs) <= ScreenCap
    BY <2>1 DEF PageType, Screens, SettingSets, Logs
  <2>5. ASSUME NEW p \in Pages PROVE Cardinality(asked[p]) <= 1
    <3>1. CASE asked[p] = {}
      BY <3>1, FS_EmptySet
    <3>2. ASSUME NEW r, asked[p] = {r} PROVE Cardinality(asked[p]) = 1
      BY <3>2, FS_Singleton
    <3> QED BY <2>1, <3>1, <3>2 DEF RequestType
  <2>6. \A m \in late : m.type \in Parts
    BY <2>1, EventTypes DEF PageType
  <2> QED BY <2>1, <2>2, <2>3, <2>4, <2>5, <2>6 DEF TypeOK, PageType
<1> QED BY <1>1, Invariance, PTL

(* ScreenShowsStore: a page that has handled all it was sent shows the     *)
(* settings, the material and the layers of the store, each of them if it  *)
(* has had the latest event of that part, and none came late after it.     *)
THEOREM ScreenCorrect == Spec => []ScreenShowsStore
<1>1. IInv => ScreenShowsStore
  <2> SUFFICES ASSUME IInv, NEW p \in Pages, Served(p)
               PROVE  SettingsShown(p) /\ MaterialShown(p) /\ GridShown(p)
    BY DEF ScreenShowsStore
  <2>1. p \in open /\ queue[p] = <<>>
    BY DEF Served
  <2>2. \A K : NoneIn(queue[p], K)
    BY <2>1 DEF NoneIn
  <2>3. SettingsShown(p)
    <3> SUFFICES ASSUME NEW f \in Settings, <<p, f>> \notin overruled \cup astray
                 PROVE  screen[p].set[f] = store.set[f]
      BY DEF SettingsShown
    <3>1. SettingFollowed(p, f)
      BY <2>1 DEF IInv, SettingInv, InStep
    <3> QED BY <2>2, <3>1 DEF SettingFollowed
  <2>4. MaterialShown(p)
    BY <2>1, <2>2 DEF IInv, MaterialInv, MaterialFollowed, MaterialShown, InStep
  <2>5. GridShown(p)
    <3>1. DOMAIN store.coils = 1..Len(store.coils)
      BY DEF IInv, TypeInv, StoreType, Stores
    <3> QED BY <2>1, <2>2, <3>1 DEF IInv, GridInv, GridFollowed, GridShown, HasLayers, Layers,
                                     InStep
  <2> QED BY <2>3, <2>4, <2>5
<1> QED BY <1>1, Invariance, PTL

(* LogsAreTheNewest: its packet log is the newest telegrams, in order,     *)
(* none twice and none left out, as many as a snapshot has or more, if     *)
(* since its snapshot it neither missed a telegram nor got one late.       *)
THEOREM LogsCorrect == Spec => []LogsAreTheNewest
<1>1. IInv => LogsAreTheNewest
  <2> SUFFICES ASSUME IInv, NEW p \in Pages, Served(p), <<p, "packet_log">> \notin astray
               PROVE  /\ \A i \in DOMAIN screen[p].logs : screen[p].logs[i] = store.last + 1 - i
                      /\ \/ Len(screen[p].logs) >= SnapLimit
                         \/ Len(screen[p].logs) >= Len(store.logs)
    BY DEF LogsAreTheNewest
  <2>1. p \in InStep("packet_log") /\ queue[p] = <<>> /\ NoneIn(queue[p], AboutLog)
    BY DEF Served, NoneIn, InStep
  <2>2. NewestIn(screen[p].logs) = store.last /\ Contiguous(screen[p].logs) /\ StoreLog(store)
    BY <2>1 DEF IInv, LogInv, LogFollowed
  <2>3. /\ DOMAIN screen[p].logs = 1..Len(screen[p].logs)
        /\ Len(screen[p].logs) \in Nat /\ Len(store.logs) \in Nat /\ store.last \in Nat
        /\ StoreCap \in Nat /\ SnapLimit \in Nat
    BY CapAssumption DEF IInv, TypeInv, PageType, StoreType, Screens, Stores, Logs
  <2>4. Len(store.logs) <= store.last /\ Len(store.logs) <= StoreCap
    BY <2>2, <2>3 DEF IInv, TypeInv, StoreType, Stores, Logs, StoreLog
  <2> QED BY <2>2, <2>3, <2>4 DEF Contiguous
<1> QED BY <1>1, Invariance, PTL
=============================================================================
