--------------------------- MODULE BroadcastProofs ---------------------------
(***************************************************************************)
(* Broadcasts, for any number of browsers, slots and changes: the set is   *)
(* the browsers that are served, and one is behind only if a broadcast was *)
(* disturbed.  The argument is about the broadcasts under way that nothing *)
(* has disturbed: they iterate over the same table, wait in the line of    *)
(* the browser at their position, and none overtakes an earlier one, for   *)
(* it would have to pass it in a line.                                     *)
(***************************************************************************)
EXTENDS Broadcast, FiniteSetTheorems, SequenceTheorems, WellFoundedInduction, TLAPS

Unique ==
  \A i, j \in Slots : active_connections[i] = active_connections[j]
                      /\ active_connections[i] # NoSocket => i = j

(* The set has every open browser, and none that is yet to join or whose   *)
(* endpoint is over; whom a broadcast will discard is not open.            *)
SetInv ==
  /\ Unique
  /\ open \subseteq Members
  /\ \A w \in Members : endpoint[w] \notin {"none", "done"}
  /\ \A e \in Events : \A w \in bc[e].disconnected : w \notin open /\ endpoint[w] # "none"

Once(lines) ==
  \A w, x \in WebSockets : \A i \in 1..Len(lines[w]), j \in 1..Len(lines[x]) :
    lines[w][i] = lines[x][j] /\ lines[w][i] # Snapshot => w = x /\ i = j

Ordered(lines) ==
  \A w \in WebSockets : \A i, j \in 1..Len(lines[w]) :
    i < j /\ {lines[w][i], lines[w][j]} \subseteq Events \ disturbed => lines[w][i] < lines[w][j]

(* The lines `lines` in front of the browsers when the broadcasts in S are *)
(* parked: each of them once, and undisturbed ones in their order.         *)
Lined(lines, S) ==
  /\ lines \in [WebSockets -> Seq({Snapshot} \cup Events)]
  /\ \A w \in WebSockets : endpoint[w] = "none" => lines[w] = <<>>
  /\ \A w \in WebSockets : \A i \in 1..Len(lines[w]) : lines[w][i] # Snapshot => lines[w][i] \in S
  /\ Once(lines)
  /\ Ordered(lines)

(* A broadcast at the end of a line follows earlier ones only. *)
Follows(e, line) ==
  \A i \in 1..Len(line) : line[i] \in Events \ disturbed /\ e \notin disturbed => line[i] < e

Longer(lines, w, e) == [lines EXCEPT ![w] = Append(@, e)]

Parked(e, lines) ==
  /\ bc[e].size = Cardinality(Members)
  /\ bc[e].pos \in Slots
  /\ active_connections[bc[e].pos] # NoSocket
  /\ \E i \in 1..Len(lines[active_connections[bc[e].pos]]) :
       lines[active_connections[bc[e].pos]][i] = e

(* Browser w is still to come for a broadcast at pos. *)
Ahead(w, pos) == \E i \in Slots : i > pos /\ active_connections[i] = w

OrderInv ==
  \A e \in Sending \ disturbed :
    /\ Parked(e, senders)
    /\ \A v \in Events \ disturbed : e < v /\ v <= value => v \in Sending /\ bc[v].pos <= bc[e].pos

ViewInv ==
  value \notin disturbed =>
    \A w \in open : \/ view[w] = value \/ view[w] \in disturbed
                    \/ value \in Sending /\ Ahead(w, bc[value].pos)

IInv == /\ TypeOK
        /\ SetInv
        /\ Lined(senders, Sending)
        /\ \A e \in Events : e > value => e \notin Sending
        /\ OrderInv
        /\ ViewInv
(* Broadcast e in hand: its loop goes on after pos, no line has it, and    *)
(* val is the latest change.                                               *)
InHand(e, pos, size, gone, left, val) ==
  /\ e \in Events /\ pos \in 0 .. NSlots /\ size \in 0 .. NSlots /\ gone \in SUBSET WebSockets
  /\ val \in e .. MaxEvents
  /\ Lined(left, Sending \ {e})
  /\ \A u \in Events : u > val => u \notin Sending
  /\ \A w \in gone : w \notin open /\ endpoint[w] # "none"
  /\ e \notin disturbed =>
       /\ size = Cardinality(Members)
       /\ \A v \in Events \ disturbed : e < v /\ v <= val => v \in Sending /\ bc[v].pos <= pos
  /\ \A u \in Sending \ disturbed : u # e =>
       /\ Parked(u, left)
       /\ \A v \in Events \ disturbed : u < v /\ v <= val /\ v # e =>
            v \in Sending /\ bc[v].pos <= bc[u].pos
       /\ u < e /\ e \notin disturbed => pos < bc[u].pos
  /\ val \notin disturbed =>
       \A w \in open : \/ view[w] = val \/ view[w] \in disturbed
                       \/ val = e /\ Ahead(w, pos)
                       \/ val # e /\ val \in Sending /\ Ahead(w, bc[val].pos)

-----------------------------------------------------------------------------
(* The least of a set of positions.                                        *)
LEMMA MinLemma ==
  ASSUME NEW S \in SUBSET Nat, S # {}
  PROVE  Min(S) \in S /\ \A y \in S : Min(S) <= y
<1>1. PICK x \in S : \A y \in S : ~ (<<y, x>> \in OpToRel(<, Nat))
  BY NatLessThanWellFounded, WFMin
<1>2. ASSUME NEW y \in S PROVE ~ (y < x)
  <2>1. <<y, x>> \in OpToRel(<, Nat) <=> y < x
    BY Zenon DEF OpToRel
  <2> QED BY <1>1, <2>1
<1>3. \A y \in S : x <= y
  BY <1>2
<1> QED BY <1>3 DEF Min

(* Taking out an element that a sequence has once at most. *)
LEMMA RemoveLemma ==
  ASSUME NEW S, NEW s \in Seq(S), NEW e,
         \A i, j \in 1..Len(s) : s[i] = e /\ s[j] = e => i = j
  PROVE  \/ RemoveFirst(s, e) = s /\ \A i \in 1..Len(s) : s[i] # e
         \/ \E k \in 1..Len(s) :
              /\ s[k] = e
              /\ RemoveFirst(s, e) \in Seq(S)
              /\ Len(RemoveFirst(s, e)) = Len(s) - 1
              /\ \A i \in 1..Len(s) - 1 : RemoveFirst(s, e)[i] = IF i < k THEN s[i] ELSE s[i + 1]
<1>1. CASE \A i \in 1..Len(s) : s[i] # e
  BY <1>1 DEF RemoveFirst
<1>2. ASSUME NEW k \in 1..Len(s), s[k] = e
      PROVE  /\ RemoveFirst(s, e) \in Seq(S)
             /\ Len(RemoveFirst(s, e)) = Len(s) - 1
             /\ \A i \in 1..Len(s) - 1 : RemoveFirst(s, e)[i] = IF i < k THEN s[i] ELSE s[i + 1]
  <2>1. {i \in 1..Len(s) : s[i] = e} = {k}
    BY <1>2
  <2>2. Min({k}) = k
    BY DEF Min
  <2>3. RemoveFirst(s, e) = SubSeq(s, 1, k - 1) \o SubSeq(s, k + 1, Len(s))
    BY <1>2, <2>1, <2>2 DEF RemoveFirst, RemoveAt, SelectInSeq
  <2> DEFINE a == SubSeq(s, 1, k - 1)
             b == SubSeq(s, k + 1, Len(s))
  <2>4. /\ a \in Seq(S) /\ Len(a) = k - 1
        /\ \A i \in 1..k - 1 : a[i] = s[i]
    <3>1. \A i \in 1..k - 1 : s[i] \in S
      BY LenProperties
    <3> QED BY <3>1, SubSeqProperties
  <2>5. /\ b \in Seq(S) /\ Len(b) = Len(s) - k
        /\ \A i \in 1..Len(s) - k : b[i] = s[k + i]
    <3>1. Len(s) \in Nat /\ \A i \in k + 1..Len(s) : s[i] \in S
      BY LenProperties
    <3>2. /\ b \in Seq(S)
          /\ Len(b) = IF k + 1 <= Len(s) THEN Len(s) - (k + 1) + 1 ELSE 0
          /\ \A i \in 1..Len(s) - (k + 1) + 1 : b[i] = s[k + 1 + i - 1]
      BY <3>1, SubSeqProperties
    <3> QED BY <3>1, <3>2
  <2> HIDE DEF a, b
  <2>6. /\ a \o b \in Seq(S) /\ Len(a \o b) = Len(a) + Len(b)
        /\ \A i \in 1..Len(a) + Len(b) : (a \o b)[i] = IF i <= Len(a) THEN a[i] ELSE b[i - Len(a)]
    BY <2>4, <2>5, ConcatProperties
  <2>7. Len(s) \in Nat
    BY LenProperties
  <2>8. RemoveFirst(s, e) = a \o b
    BY <2>3 DEF a, b
  <2>9. Len(a) + Len(b) = Len(s) - 1
    BY <2>4, <2>5, <2>7
  <2>10. ASSUME NEW i \in 1..Len(s) - 1
         PROVE  (a \o b)[i] = IF i < k THEN s[i] ELSE s[i + 1]
    <3>1. CASE i < k
      BY <2>4, <2>6, <2>7, <2>9, <3>1
    <3>2. CASE ~ (i < k)
      <4>1. i - Len(a) \in 1..Len(s) - k /\ k + (i - Len(a)) = i + 1 /\ ~ (i <= Len(a))
        BY <2>4, <2>7, <3>2
      <4>2. (a \o b)[i] = b[i - Len(a)]
        BY <2>6, <2>9, <4>1
      <4> QED BY <2>5, <3>2, <4>1, <4>2
    <3> QED BY <3>1, <3>2
  <2> QED BY <2>6, <2>8, <2>9, <2>10
<1> QED BY <1>1, <1>2

(* The set has as many members as slots, or fewer. *)
LEMMA MembersLemma ==
  ASSUME TypeOK
  PROVE  Members \subseteq WebSockets /\ Cardinality(Members) \in 0 .. NSlots
<1> DEFINE T == {active_connections[i] : i \in Slots}
<1>1. active_connections \in Surjection(Slots, T)
  BY DEF TypeOK, Surjection
<1>2. IsFiniteSet(Slots) /\ Cardinality(Slots) = NSlots
  BY NSlotsAssumption, FS_Interval DEF Slots
<1>3. IsFiniteSet(T) /\ Cardinality(T) <= NSlots
  <2> HIDE DEF T
  <2> QED BY <1>1, <1>2, FS_Surjection
<1>4. Members \in SUBSET T
  BY DEF Members
<1>5. IsFiniteSet(Members) /\ Cardinality(Members) <= Cardinality(T)
  <2> HIDE DEF T
  <2> QED BY <1>3, <1>4, FS_Subset
<1>6. Cardinality(Members) \in Nat /\ Cardinality(T) \in Nat
  BY <1>3, <1>5, FS_CardinalityType
<1>7. Members \subseteq WebSockets
  BY DEF Members, TypeOK
<1> QED BY <1>3, <1>5, <1>6, <1>7, NSlotsAssumption

LEMMA DiscardLemma ==
  ASSUME TypeOK, Unique, NEW gone \in SUBSET WebSockets, NEW others \in SUBSET Events,
         Discard(gone, others)
  PROVE  /\ active_connections' \in [Slots -> WebSockets \cup {NoSocket}]
         /\ Unique'
         /\ Members' = Members \ gone
         /\ disturbed' \in SUBSET Events
         /\ \/ active_connections' = active_connections /\ disturbed' = disturbed
            \/ disturbed' = disturbed \cup others
<1>1. active_connections' = [i \in Slots |-> IF active_connections[i] \in gone
                                             THEN NoSocket ELSE active_connections[i]]
  BY DEF Discard
<1>2. active_connections' \in [Slots -> WebSockets \cup {NoSocket}]
  BY <1>1 DEF TypeOK
<1>3. Unique'
  BY <1>1 DEF Unique
<1>4. Members' = Members \ gone
  BY <1>1, NoSocketAssumption DEF Members
<1>5. disturbed' \in SUBSET Events
  BY DEF Discard, TypeOK
<1>6. CASE gone \cap Members = {}
  <2>1. \A i \in Slots : active_connections[i] \notin gone
    BY <1>6, NoSocketAssumption DEF Members
  <2>2. active_connections' = active_connections
    BY <1>1, <2>1 DEF TypeOK
  <2> QED BY <1>2, <1>3, <1>4, <1>5, <1>6, <2>2 DEF Discard
<1>7. CASE gone \cap Members # {}
  BY <1>2, <1>3, <1>4, <1>5, <1>7 DEF Discard
<1> QED BY <1>6, <1>7
-----------------------------------------------------------------------------
(* Lines that stay as they are.                                            *)
LEMMA SameLines ==
  ASSUME NEW left, NEW S, Lined(left, S), S \subseteq Sending', senders' = left,
         \A w \in WebSockets : endpoint'[w] = "none" => endpoint[w] = "none",
         disturbed \subseteq disturbed'
  PROVE  Lined(senders, Sending)'
<1>1. senders' \in [WebSockets -> Seq({Snapshot} \cup Events)]
  BY DEF Lined
<1>2. \A w \in WebSockets : endpoint'[w] = "none" => senders'[w] = <<>>
  BY DEF Lined
<1>3. \A w \in WebSockets : \A i \in 1..Len(senders'[w]) :
        senders'[w][i] # Snapshot => senders'[w][i] \in Sending'
  BY DEF Lined
<1>4. \A w, x \in WebSockets : \A i \in 1..Len(senders'[w]), j \in 1..Len(senders'[x]) :
        senders'[w][i] = senders'[x][j] /\ senders'[w][i] # Snapshot => w = x /\ i = j
  BY DEF Lined, Once
<1>5. \A w \in WebSockets : \A i, j \in 1..Len(senders'[w]) :
        i < j /\ {senders'[w][i], senders'[w][j]} \subseteq Events \ disturbed' =>
          senders'[w][i] < senders'[w][j]
  BY DEF Lined, Ordered
<1> QED BY <1>1, <1>2, <1>3, <1>4, <1>5 DEF Lined, Once, Ordered, Snapshot, Events

(* A broadcast that is parked at the end of the line of w. *)
LEMMA LongerLine ==
  ASSUME NEW e \in Events, NEW left, Lined(left, Sending \ {e}),
         NEW w \in WebSockets, endpoint[w] # "none", Sending' = Sending \cup {e},
         Follows(e, left[w]),
         senders' = Longer(left, w, e),
         UNCHANGED <<endpoint, disturbed>>
  PROVE  /\ Lined(senders, Sending)'
         /\ \A x \in WebSockets : \A i \in 1..Len(left[x]) :
              i \in 1..Len(senders'[x]) /\ senders'[x][i] = left[x][i]
         /\ Len(left[w]) + 1 \in 1..Len(senders'[w])
         /\ senders'[w][Len(left[w]) + 1] = e
<1> DEFINE T == {Snapshot} \cup Events
<1>1. left \in [WebSockets -> Seq(T)] /\ e \in T
  BY DEF Lined
<1>2. \A x \in WebSockets : left[x] \in Seq(T) /\ Len(left[x]) \in Nat
  BY <1>1, LenProperties
<1>0. senders' = [left EXCEPT ![w] = Append(@, e)]
  BY DEF Longer
<1>3. /\ senders'[w] \in Seq(T) /\ Len(senders'[w]) = Len(left[w]) + 1
      /\ \A i \in 1..Len(left[w]) : senders'[w][i] = left[w][i]
      /\ senders'[w][Len(left[w]) + 1] = e
  BY <1>0, <1>1, <1>2, AppendProperties
<1>4. \A x \in WebSockets : x # w => senders'[x] = left[x]
  BY <1>0, <1>1
<1>5. senders' \in [WebSockets -> Seq(T)]
  BY <1>0, <1>1, <1>3, <1>4
<1>6. \A x \in WebSockets : \A i \in 1..Len(left[x]) : left[x][i] # e
  <2>1. e # Snapshot
    BY DEF Events, Snapshot
  <2> QED BY <2>1 DEF Lined
<1>7. \A x \in WebSockets : \A i \in 1..Len(senders'[x]) :
        \/ i \in 1..Len(left[x]) /\ senders'[x][i] = left[x][i]
        \/ x = w /\ i = Len(left[w]) + 1 /\ senders'[x][i] = e
  BY <1>2, <1>3, <1>4
<1> HIDE DEF T
<1>8. \A x \in WebSockets : endpoint'[x] = "none" => senders'[x] = <<>>
  BY <1>4 DEF Lined
<1>9. \A x \in WebSockets : \A i \in 1..Len(senders'[x]) :
        senders'[x][i] # Snapshot => senders'[x][i] \in Sending'
  BY <1>7 DEF Lined
<1>10. \A x, y \in WebSockets : \A i \in 1..Len(senders'[x]), j \in 1..Len(senders'[y]) :
         senders'[x][i] = senders'[y][j] /\ senders'[x][i] # Snapshot => x = y /\ i = j
  <2> SUFFICES ASSUME NEW x \in WebSockets, NEW y \in WebSockets,
                      NEW i \in 1..Len(senders'[x]), NEW j \in 1..Len(senders'[y]),
                      senders'[x][i] = senders'[y][j], senders'[x][i] # Snapshot
               PROVE  x = y /\ i = j
    OBVIOUS
  <2>1. CASE i \in 1..Len(left[x]) /\ senders'[x][i] = left[x][i]
    <3>1. j \in 1..Len(left[y]) /\ senders'[y][j] = left[y][j]
      BY <1>6, <1>7, <2>1
    <3>2. left[x][i] = left[y][j] /\ left[x][i] # Snapshot
      BY <2>1, <3>1
    <3>3. Once(left)
      BY DEF Lined
    <3> QED BY <2>1, <3>1, <3>2, <3>3 DEF Once
  <2>2. CASE x = w /\ i = Len(left[w]) + 1 /\ senders'[x][i] = e
    <3>1. y = w /\ j = Len(left[w]) + 1
      BY <1>6, <1>7, <2>2
    <3> QED BY <2>2, <3>1
  <2> QED BY <1>7, <2>1, <2>2
<1>11. \A x \in WebSockets : \A i, j \in 1..Len(senders'[x]) :
         i < j /\ {senders'[x][i], senders'[x][j]} \subseteq Events \ disturbed' =>
           senders'[x][i] < senders'[x][j]
  <2> SUFFICES ASSUME NEW x \in WebSockets, NEW i \in 1..Len(senders'[x]), NEW j \in 1..Len(senders'[x]),
                      i < j, {senders'[x][i], senders'[x][j]} \subseteq Events \ disturbed
               PROVE  senders'[x][i] < senders'[x][j]
    OBVIOUS
  <2>1. CASE j \in 1..Len(left[x]) /\ senders'[x][j] = left[x][j]
    <3>1. i \in 1..Len(left[x]) /\ senders'[x][i] = left[x][i]
      BY <1>2, <1>3, <1>4, <2>1
    <3> QED BY <2>1, <3>1 DEF Lined, Ordered
  <2>2. CASE x = w /\ j = Len(left[w]) + 1 /\ senders'[x][j] = e
    <3>1. i \in 1..Len(left[w]) /\ senders'[x][i] = left[w][i]
      BY <1>2, <1>3, <2>2
    <3> QED BY <2>2, <3>1 DEF Follows
  <2> QED BY <1>7, <2>1, <2>2
<1>12. Lined(senders, Sending)'
  BY <1>5, <1>8, <1>9, <1>10, <1>11 DEF Lined, Once, Ordered, T, Snapshot, Events
<1>13. \A x \in WebSockets : \A i \in 1..Len(left[x]) :
         i \in 1..Len(senders'[x]) /\ senders'[x][i] = left[x][i]
  BY <1>2, <1>3, <1>4
<1> QED BY <1>2, <1>3, <1>12, <1>13
-----------------------------------------------------------------------------
(* A step of the loop of a broadcast in hand, and where it waits then.     *)

(* An undisturbed broadcast never finds the set of another size. *)
LEMMA RaisesStep ==
  ASSUME TypeOK, SetInv, NEW e, NEW pos, NEW size, NEW gone, NEW left, NEW val,
         InHand(e, pos, size, gone, left, val),
         Raises(e, size), Queued(e, left), value' = val, UNCHANGED sockets
  PROVE  IInv'
<1>1. /\ e \in Events /\ val \in e .. MaxEvents /\ e \in disturbed
      /\ bc' = [bc EXCEPT ![e] = Rest("raised")]
      /\ UNCHANGED <<active_connections, open, endpoint, view, disturbed>>
  BY DEF InHand, Raises, sockets
<1>2. /\ bc'[e].at = "raised" /\ bc'[e].disconnected = {}
      /\ \A u \in Events : u # e => bc'[u] = bc[u]
  BY <1>1 DEF TypeOK, Rest
<1>3. Sending' = Sending \ {e} /\ senders' = left
  BY <1>1, <1>2 DEF Sending, Queued, Events
<1>4. Members' = Members
  BY <1>1 DEF Members
<1>5. Lined(senders, Sending)'
  BY <1>1, <1>3, SameLines DEF InHand
<1>6. TypeOK'
  <2>1. bc' \in [Events -> [at : {"idle", "sending", "over", "raised", "cancelled"},
                            pos : 0 .. NSlots, size : 0 .. NSlots, disconnected : SUBSET WebSockets]]
    BY <1>1, NSlotsAssumption DEF TypeOK, Rest
  <2>2. value' \in 0 .. MaxEvents
    BY <1>1, MaxEventsAssumption DEF Events
  <2>3. senders' \in [WebSockets -> Seq({Snapshot} \cup Events)]
    BY <1>3 DEF InHand, Lined
  <2> QED BY <1>1, <2>1, <2>2, <2>3 DEF TypeOK, Events, Slots, Snapshot
<1>7. SetInv'
  BY <1>1, <1>2, <1>4 DEF SetInv, Unique, Events, Slots
<1>8. \A u \in Events : u > value' => u \notin Sending'
  BY <1>3 DEF InHand
<1>9. OrderInv'
  <2> SUFFICES ASSUME NEW u \in Sending', u \notin disturbed
               PROVE  /\ Parked(u, senders)'
                      /\ \A v \in Events \ disturbed : u < v /\ v <= value' =>
                           v \in Sending' /\ bc'[v].pos <= bc'[u].pos
    BY <1>1 DEF OrderInv, Events
  <2>1. u \in Sending \ disturbed /\ u # e /\ u \in Events
    BY <1>3 DEF Sending
  <2>2. Parked(u, left) /\ bc'[u] = bc[u]
    BY <1>2, <2>1 DEF InHand
  <2>3. Parked(u, senders)'
    BY <1>1, <1>3, <1>4, <2>2 DEF Parked, Slots
  <2> QED BY <1>1, <1>2, <1>3, <2>1, <2>3 DEF InHand
<1>10. ViewInv'
  <2>1. val # e => (val \in Sending => val \in Sending' /\ bc'[val] = bc[val])
    BY <1>2, <1>3 DEF Sending
  <2> QED BY <1>1, <2>1 DEF InHand, ViewInv, Ahead, Slots
<1> QED BY <1>5, <1>6, <1>7, <1>8, <1>9, <1>10 DEF IInv, Events

(* A broadcast that ends has met every member: none is ahead of it.        *)
LEMMA EndsStep ==
  ASSUME TypeOK, SetInv, NEW e, NEW pos, NEW size, NEW gone, NEW left, NEW val,
         InHand(e, pos, size, gone, left, val),
         Ends(e, pos, size, gone), Queued(e, left), value' = val, UNCHANGED sockets
  PROVE  IInv'
<1>1. /\ e \in Events /\ val \in e .. MaxEvents /\ gone \in SUBSET WebSockets
      /\ bc' = [bc EXCEPT ![e] = Rest("over")]
      /\ UNCHANGED <<open, endpoint, view>>
      /\ \A i \in Slots : i > pos => active_connections[i] = NoSocket
      /\ Discard(gone, Sending \ {e})
  BY DEF InHand, Ends, sockets
<1>2. /\ bc'[e].at = "over" /\ bc'[e].disconnected = {}
      /\ \A u \in Events : u # e => bc'[u] = bc[u]
  BY <1>1 DEF TypeOK, Rest
<1>3. Sending' = Sending \ {e} /\ senders' = left
  BY <1>1, <1>2 DEF Sending, Queued, Events
<1>4. Sending \ {e} \in SUBSET Events
  BY DEF Sending
<1>5. /\ active_connections' \in [Slots -> WebSockets \cup {NoSocket}]
      /\ Unique'
      /\ Members' = Members \ gone
      /\ disturbed' \in SUBSET Events
      /\ \/ active_connections' = active_connections /\ disturbed' = disturbed
         \/ disturbed' = disturbed \cup (Sending \ {e})
  <2> HIDE DEF Sending
  <2> QED BY <1>1, <1>4, DiscardLemma DEF SetInv
<1>6. disturbed \subseteq disturbed'
  BY <1>5
<1>7. Lined(senders, Sending)'
  BY <1>1, <1>3, <1>6, SameLines DEF InHand
<1>8. TypeOK'
  <2>1. bc' \in [Events -> [at : {"idle", "sending", "over", "raised", "cancelled"},
                            pos : 0 .. NSlots, size : 0 .. NSlots, disconnected : SUBSET WebSockets]]
    BY <1>1, NSlotsAssumption DEF TypeOK, Rest
  <2>2. value' \in 0 .. MaxEvents
    BY <1>1, MaxEventsAssumption DEF Events
  <2>3. senders' \in [WebSockets -> Seq({Snapshot} \cup Events)]
    BY <1>3 DEF InHand, Lined
  <2> QED BY <1>1, <1>5, <2>1, <2>2, <2>3 DEF TypeOK, Events, Slots, Snapshot
<1>9. SetInv'
  <2>1. open \cap gone = {}
    BY DEF InHand
  <2> QED BY <1>1, <1>2, <1>5, <2>1 DEF SetInv, Events
<1>10. \A u \in Events : u > value' => u \notin Sending'
  BY <1>3 DEF InHand
<1>11. OrderInv'
  <2> SUFFICES ASSUME NEW u \in Sending', u \notin disturbed'
               PROVE  /\ Parked(u, senders)'
                      /\ \A v \in Events \ disturbed' : u < v /\ v <= value' =>
                           v \in Sending' /\ bc'[v].pos <= bc'[u].pos
    BY DEF OrderInv, Events
  <2>1. u \in Sending \ disturbed /\ u # e /\ u \in Events
    BY <1>3, <1>6 DEF Sending
  <2>2. active_connections' = active_connections /\ disturbed' = disturbed /\ Members' = Members
    BY <1>3, <1>5 DEF Members
  <2>3. Parked(u, left) /\ bc'[u] = bc[u]
    BY <1>2, <2>1 DEF InHand
  <2>4. Parked(u, senders)'
    BY <1>3, <2>2, <2>3 DEF Parked, Slots
  <2>5. u < e => e \in disturbed
    <3>1. bc[u].pos \in Slots /\ active_connections[bc[u].pos] # NoSocket
      BY <2>3 DEF Parked
    <3> QED BY <1>1, <2>1, <3>1 DEF InHand
  <2> QED BY <1>2, <1>3, <2>1, <2>2, <2>4, <2>5 DEF InHand
<1>12. ViewInv'
  <2> SUFFICES ASSUME val \notin disturbed', NEW w \in open
               PROVE  \/ view[w] = val \/ view[w] \in disturbed'
                      \/ val \in Sending' /\ Ahead(w, bc[val].pos)' /\ bc'[val] = bc[val]
    BY <1>1 DEF ViewInv, Ahead, Slots
  <2>1. \/ view[w] = val \/ view[w] \in disturbed
        \/ val = e /\ Ahead(w, pos)
        \/ val # e /\ val \in Sending /\ Ahead(w, bc[val].pos)
    BY <1>6 DEF InHand
  <2>2. ~ Ahead(w, pos)
    <3>1. w # NoSocket
      BY NoSocketAssumption DEF TypeOK
    <3> QED BY <1>1, <3>1 DEF Ahead
  <2>3. CASE val # e /\ val \in Sending /\ Ahead(w, bc[val].pos)
    <3>1. active_connections' = active_connections
      BY <1>5, <2>3
    <3> QED BY <1>2, <1>3, <2>3, <3>1 DEF Ahead, Slots, Sending
  <2> QED BY <1>6, <2>1, <2>2, <2>3
<1> QED BY <1>7, <1>8, <1>9, <1>10, <1>11, <1>12 DEF IInv, Events
(* A broadcast that goes on waits in the line of the next member.  It does *)
(* not pass an earlier one, which is at a member that is still ahead.      *)
LEMMA SendsStep ==
  ASSUME TypeOK, SetInv, NEW e, NEW pos, NEW size, NEW gone, NEW left, NEW val,
         InHand(e, pos, size, gone, left, val),
         Sends(e, pos, size, gone), Queued(e, left), value' = val, UNCHANGED sockets
  PROVE  IInv'
<1> DEFINE rest == {i \in Slots : i > pos /\ active_connections[i] # NoSocket}
<1>0. PICK p, w : p = Min(rest) /\ w = active_connections[p]
  OBVIOUS
<1>1. /\ e \in Events /\ val \in e .. MaxEvents /\ gone \in SUBSET WebSockets
      /\ pos \in 0 .. NSlots /\ size \in 0 .. NSlots
      /\ bc' = [bc EXCEPT ![e] = [at |-> "sending", pos |-> p, size |-> size, disconnected |-> gone]]
      /\ view' = IF w \in open THEN [view EXCEPT ![w] = e] ELSE view
      /\ Cardinality(Members) = size /\ rest # {}
      /\ UNCHANGED <<active_connections, open, endpoint, disturbed>>
  BY <1>0 DEF InHand, Sends, sockets
<1>2. p \in rest /\ \A i \in rest : p <= i
  <2>1. rest \in SUBSET Nat
    BY NSlotsAssumption DEF Slots
  <2> HIDE DEF rest
  <2> QED BY <1>0, <1>1, <2>1, MinLemma
<1>3. p \in Slots /\ pos < p /\ \A i \in Slots : i > pos /\ active_connections[i] # NoSocket => p <= i
  BY <1>1, <1>2 DEF Slots
<1>4. w \in WebSockets /\ w # NoSocket /\ w \in Members /\ endpoint[w] # "none"
  BY <1>0, <1>2, <1>3 DEF TypeOK, SetInv, Members
<1>5. /\ bc'[e] = [at |-> "sending", pos |-> p, size |-> size, disconnected |-> gone]
      /\ \A u \in Events : u # e => bc'[u] = bc[u]
  BY <1>1 DEF TypeOK
<1>6. Sending' = Sending \cup {e} /\ Sending \subseteq Events
  BY <1>1, <1>5 DEF Sending, Events
<1>7. Members' = Members
  BY <1>1 DEF Members
<1>8. senders' = Longer(left, w, e)
  <2>1. bc'[e].at = "sending" /\ bc'[e].pos = p
    BY <1>5
  <2> QED BY <1>0, <1>1, <2>1 DEF Queued, Longer
<1> HIDE DEF rest
<1>9. w = active_connections[p]
  BY <1>0
<1>10. ASSUME NEW i \in 1..Len(left[w]), left[w][i] \in Events \ disturbed, e \notin disturbed
       PROVE  left[w][i] < e
  <2> DEFINE u == left[w][i]
  <2>1. u \in (Sending \ {e}) \ disturbed
    <3>1. u # Snapshot
      BY <1>10 DEF Events, Snapshot
    <3> QED BY <1>4, <1>10, <3>1 DEF InHand, Lined
  <2>2. CASE u > e
    <3>1. u <= val
      <4>1. ~ (u > val) /\ u \in Events
        BY <1>6, <2>1 DEF InHand
      <4> HIDE DEF u
      <4> QED BY <1>1, <4>1, MaxEventsAssumption DEF Events
    <3>2. bc[u].pos <= pos
      BY <1>10, <2>1, <2>2, <3>1, <1>6 DEF InHand
    <3>3. Parked(u, left)
      BY <2>1 DEF InHand
    <3> DEFINE x == active_connections[bc[u].pos]
    <3>4. bc[u].pos \in Slots /\ x \in WebSockets
      BY <3>3 DEF Parked, TypeOK
    <3>5. PICK j \in 1..Len(left[x]) : left[x][j] = u
      BY <3>3 DEF Parked
    <3>6. x = w
      <4>1. u # Snapshot
        BY <1>10 DEF Events, Snapshot
      <4> QED BY <1>4, <3>4, <3>5, <4>1 DEF InHand, Lined, Once
    <3>7. bc[u].pos = p
      BY <1>3, <1>4, <1>9, <3>4, <3>6 DEF SetInv, Unique
    <3> QED BY <1>1, <1>3, <3>2, <3>7, NSlotsAssumption DEF Slots
  <2>3. CASE ~ (u > e)
    BY <1>1, <1>10, <2>1, <2>3, <1>6 DEF Events
  <2> QED BY <2>2, <2>3
<1>11. /\ Lined(senders, Sending)'
       /\ \A x \in WebSockets : \A i \in 1..Len(left[x]) :
            i \in 1..Len(senders'[x]) /\ senders'[x][i] = left[x][i]
       /\ Len(left[w]) + 1 \in 1..Len(senders'[w])
       /\ senders'[w][Len(left[w]) + 1] = e
  <2>1. Lined(left, Sending \ {e})
    BY DEF InHand
  <2>2. UNCHANGED <<endpoint, disturbed>>
    BY <1>1
  <2>3. Follows(e, left[w])
    BY <1>10 DEF Follows
  <2>4. e \in Events /\ w \in WebSockets /\ endpoint[w] # "none" /\ Sending' = Sending \cup {e}
    BY <1>1, <1>4, <1>6
  <2> QED BY <1>8, <2>1, <2>2, <2>3, <2>4, LongerLine
<1>12. TypeOK'
  <2>1. bc' \in [Events -> [at : {"idle", "sending", "over", "raised", "cancelled"},
                            pos : 0 .. NSlots, size : 0 .. NSlots, disconnected : SUBSET WebSockets]]
    BY <1>1, <1>3, NSlotsAssumption DEF TypeOK, Slots
  <2>2. value' \in 0 .. MaxEvents
    BY <1>1, MaxEventsAssumption DEF Events
  <2>3. senders' \in [WebSockets -> Seq({Snapshot} \cup Events)]
    BY <1>11 DEF Lined, Snapshot, Events
  <2>4. view' \in [WebSockets -> 0 .. MaxEvents]
    BY <1>1, MaxEventsAssumption DEF TypeOK, Events
  <2> QED BY <1>1, <2>1, <2>2, <2>3, <2>4 DEF TypeOK, Events, Slots, Snapshot
<1>13. SetInv'
  <2>1. \A x \in bc'[e].disconnected : x \notin open /\ endpoint[x] # "none"
    BY <1>5 DEF InHand
  <2> QED BY <1>1, <1>5, <1>7, <2>1 DEF SetInv, Unique, Events, Slots
<1>14. \A u \in Events : u > value' => u \notin Sending'
  BY <1>1, <1>6 DEF InHand, Events
<1>15. OrderInv'
  <2> SUFFICES ASSUME NEW u \in Sending', u \notin disturbed
               PROVE  /\ Parked(u, senders)'
                      /\ \A v \in Events \ disturbed : u < v /\ v <= value' =>
                           v \in Sending' /\ bc'[v].pos <= bc'[u].pos
    BY <1>1 DEF OrderInv, Events
  <2>1. CASE u = e
    <3>1. Parked(e, senders)'
      BY <1>1, <1>3, <1>4, <1>5, <1>7, <1>9, <1>11 DEF Parked, Slots
    <3>2. ASSUME NEW v \in Events \ disturbed, e < v, v <= value'
          PROVE  v \in Sending' /\ bc'[v].pos <= bc'[e].pos
      <4>1. v \in Sending /\ bc[v].pos <= pos /\ v # e
        BY <2>1, <3>2 DEF InHand, Events
      <4>2. bc[v].pos \in 0 .. NSlots
        BY DEF TypeOK
      <4> QED BY <1>1, <1>3, <1>5, <1>6, <4>1, <4>2, NSlotsAssumption DEF Slots
    <3> QED BY <2>1, <3>1, <3>2
  <2>2. CASE u # e
    <3>1. u \in Sending \ disturbed /\ u \in Events /\ bc'[u] = bc[u]
      BY <1>5, <1>6, <2>2
    <3>2. Parked(u, left)
      BY <2>2, <3>1 DEF InHand
    <3> DEFINE x == active_connections[bc[u].pos]
    <3>3. bc[u].pos \in Slots /\ x # NoSocket /\ x \in WebSockets
      BY <3>2 DEF Parked, TypeOK
    <3>4. Parked(u, senders)'
      <4>1. PICK i \in 1..Len(left[x]) : left[x][i] = u
        BY <3>2 DEF Parked
      <4>2. i \in 1..Len(senders'[x]) /\ senders'[x][i] = u
        BY <1>11, <3>3, <4>1
      <4> QED BY <1>1, <1>7, <3>1, <3>2, <4>2 DEF Parked, Slots
    <3>5. ASSUME NEW v \in Events \ disturbed, u < v, v <= value'
          PROVE  v \in Sending' /\ bc'[v].pos <= bc'[u].pos
      <4>1. CASE v = e
        <5>1. pos < bc[u].pos
          BY <2>2, <3>1, <3>5, <4>1 DEF InHand
        <5> QED BY <1>3, <1>5, <1>6, <3>1, <3>3, <4>1, <5>1
      <4>2. CASE v # e
        BY <1>5, <1>6, <2>2, <3>1, <3>5, <4>2 DEF InHand
      <4> QED BY <4>1, <4>2
    <3> QED BY <3>4, <3>5
  <2> QED BY <2>1, <2>2
<1>16. ViewInv'
  <2> SUFFICES ASSUME val \notin disturbed, NEW x \in open
               PROVE  \/ view'[x] = val \/ view'[x] \in disturbed
                      \/ val \in Sending' /\ Ahead(x, bc'[val].pos)
    BY <1>1 DEF ViewInv, Ahead, Slots
  <2>1. x \in WebSockets /\ x # NoSocket
    BY NoSocketAssumption DEF TypeOK
  <2>2. CASE x = w
    <3>1. view'[x] = e
      BY <1>1, <2>1, <2>2 DEF TypeOK
    <3>2. CASE e # val /\ e \notin disturbed
      <4>1. e < val /\ val \in Events
        BY <1>1, <3>2, MaxEventsAssumption DEF Events
      <4>2. val \in Sending /\ bc[val].pos <= pos
        <5>1. val <= val /\ val \in Events \ disturbed
          BY <4>1, MaxEventsAssumption DEF Events
        <5> QED BY <3>2, <4>1, <5>1 DEF InHand
      <4>3. bc[val].pos \in 0 .. NSlots
        BY <4>1 DEF TypeOK
      <4>4. p > bc[val].pos
        BY <1>1, <1>3, <4>2, <4>3, NSlotsAssumption DEF Slots
      <4> QED BY <1>3, <1>5, <1>6, <1>9, <2>2, <3>2, <4>1, <4>2, <4>4 DEF Ahead
    <3> QED BY <3>1, <3>2
  <2>3. CASE x # w
    <3>1. view'[x] = view[x]
      BY <1>1, <2>1, <2>3 DEF TypeOK
    <3>2. \/ view[x] = val \/ view[x] \in disturbed
          \/ val = e /\ Ahead(x, pos)
          \/ val # e /\ val \in Sending /\ Ahead(x, bc[val].pos)
      BY DEF InHand
    <3>3. CASE val = e /\ Ahead(x, pos)
      <4>1. PICK i \in Slots : i > pos /\ active_connections[i] = x
        BY <3>3 DEF Ahead
      <4>2. p <= i /\ p # i
        BY <1>3, <1>9, <2>1, <2>3, <4>1
      <4>3. i > p
        BY <1>3, <4>2, NSlotsAssumption DEF Slots
      <4> QED BY <1>5, <1>6, <3>3, <4>1, <4>3 DEF Ahead
    <3>4. CASE val # e /\ val \in Sending /\ Ahead(x, bc[val].pos)
      BY <1>5, <1>6, <3>4
    <3> QED BY <3>1, <3>2, <3>3, <3>4
  <2> QED BY <2>2, <2>3
<1> QED BY <1>11, <1>12, <1>13, <1>14, <1>15, <1>16 DEF IInv, Events

LEMMA LoopStep ==
  ASSUME TypeOK, SetInv, NEW e, NEW pos, NEW size, NEW gone, NEW left, NEW val,
         InHand(e, pos, size, gone, left, val),
         Loop(e, pos, size, gone), Queued(e, left), value' = val, UNCHANGED sockets
  PROVE  IInv'
BY RaisesStep, EndsStep, SendsStep DEF Loop
-----------------------------------------------------------------------------
(* The head of a line is taken off. *)
LEMMA PoppedLemma ==
  ASSUME NEW S, Lined(senders, S), NEW w \in WebSockets, senders[w] # <<>>
  PROVE  /\ Lined(Popped(w), S \ {Head(senders[w])})
         /\ \A x \in WebSockets : \A i \in 1..Len(senders[x]) :
              \/ x = w /\ i = 1
              \/ \E j \in 1..Len(Popped(w)[x]) : Popped(w)[x][j] = senders[x][i]
<1> DEFINE T == {Snapshot} \cup Events
           left == Popped(w)
           h == Head(senders[w])
<1>1. senders \in [WebSockets -> Seq(T)]
  BY DEF Lined
<1>2. \A x \in WebSockets : senders[x] \in Seq(T) /\ Len(senders[x]) \in Nat
  BY <1>1, LenProperties
<1>3. /\ Tail(senders[w]) \in Seq(T) /\ Len(Tail(senders[w])) = Len(senders[w]) - 1
      /\ \A i \in 1..Len(Tail(senders[w])) : Tail(senders[w])[i] = senders[w][i + 1]
      /\ Len(senders[w]) \in Nat \ {0}
  BY <1>2, HeadTailProperties, EmptySeq
<1>4. h = senders[w][1]
  BY <1>2
<1>5. /\ left \in [WebSockets -> Seq(T)]
      /\ left[w] = Tail(senders[w])
      /\ \A x \in WebSockets : x # w => left[x] = senders[x]
  BY <1>1, <1>3 DEF Popped
<1> HIDE DEF left, h, T
<1>6. \A x \in WebSockets : \A i \in 1..Len(left[x]) :
        \E j \in 1..Len(senders[x]) : /\ left[x][i] = senders[x][j]
                                      /\ j = IF x = w THEN i + 1 ELSE i
  <2> SUFFICES ASSUME NEW x \in WebSockets, NEW i \in 1..Len(left[x])
               PROVE  \E j \in 1..Len(senders[x]) : /\ left[x][i] = senders[x][j]
                                                    /\ j = IF x = w THEN i + 1 ELSE i
    OBVIOUS
  <2>1. CASE x = w
    <3>1. i + 1 \in 1..Len(senders[w]) /\ left[w][i] = senders[w][i + 1]
      BY <1>3, <1>5, <2>1
    <3> QED BY <2>1, <3>1
  <2>2. CASE x # w
    BY <1>5, <2>2
  <2> QED BY <2>1, <2>2
<1>7. \A x \in WebSockets : endpoint[x] = "none" => left[x] = <<>>
  BY <1>5 DEF Lined
<1>8. Once(senders) /\ Ordered(senders)
  BY DEF Lined
<1>9. \A x \in WebSockets : \A i \in 1..Len(left[x]) : left[x][i] # Snapshot => left[x][i] \in S \ {h}
  <2> SUFFICES ASSUME NEW x \in WebSockets, NEW i \in 1..Len(left[x]), left[x][i] # Snapshot
               PROVE  left[x][i] \in S /\ left[x][i] # h
    OBVIOUS
  <2>1. PICK j \in 1..Len(senders[x]) : left[x][i] = senders[x][j] /\ j = IF x = w THEN i + 1 ELSE i
    BY <1>6
  <2>2. left[x][i] \in S
    BY <2>1 DEF Lined
  <2>3. left[x][i] # h
    <3>1. 1 \in 1..Len(senders[w]) /\ i \in Nat /\ i # 0
      BY <1>3
    <3>2. ~ (x = w /\ j = 1)
      BY <2>1, <3>1
    <3> QED BY <1>4, <1>8, <2>1, <3>1, <3>2 DEF Once
  <2> QED BY <2>2, <2>3
<1>10. Once(left)
  <2> SUFFICES ASSUME NEW x \in WebSockets, NEW y \in WebSockets,
                      NEW i \in 1..Len(left[x]), NEW j \in 1..Len(left[y]),
                      left[x][i] = left[y][j], left[x][i] # Snapshot
               PROVE  x = y /\ i = j
    BY DEF Once
  <2>1. PICK k \in 1..Len(senders[x]) : left[x][i] = senders[x][k] /\ k = IF x = w THEN i + 1 ELSE i
    BY <1>6
  <2>2. PICK l \in 1..Len(senders[y]) : left[y][j] = senders[y][l] /\ l = IF y = w THEN j + 1 ELSE j
    BY <1>6
  <2>3. senders[x][k] = senders[y][l] /\ senders[x][k] # Snapshot
    BY <2>1, <2>2
  <2>4. x = y /\ k = l
    BY <1>8, <2>3 DEF Once
  <2> QED BY <2>1, <2>2, <2>4
<1>11. Ordered(left)
  <2> SUFFICES ASSUME NEW x \in WebSockets, NEW i \in 1..Len(left[x]), NEW j \in 1..Len(left[x]),
                      i < j, {left[x][i], left[x][j]} \subseteq Events \ disturbed
               PROVE  left[x][i] < left[x][j]
    BY DEF Ordered
  <2>1. PICK k \in 1..Len(senders[x]) : left[x][i] = senders[x][k] /\ k = IF x = w THEN i + 1 ELSE i
    BY <1>6
  <2>2. PICK l \in 1..Len(senders[x]) : left[x][j] = senders[x][l] /\ l = IF x = w THEN j + 1 ELSE j
    BY <1>6
  <2>3. k < l
    BY <2>1, <2>2
  <2> QED BY <1>8, <2>1, <2>2, <2>3 DEF Ordered
<1>12. Lined(left, S \ {h})
  BY <1>5, <1>7, <1>9, <1>10, <1>11 DEF Lined, T
<1>13. \A x \in WebSockets : \A i \in 1..Len(senders[x]) :
         \/ x = w /\ i = 1
         \/ \E j \in 1..Len(left[x]) : left[x][j] = senders[x][i]
  <2> SUFFICES ASSUME NEW x \in WebSockets, NEW i \in 1..Len(senders[x]), ~ (x = w /\ i = 1)
               PROVE  \E j \in 1..Len(left[x]) : left[x][j] = senders[x][i]
    OBVIOUS
  <2>1. CASE x = w
    <3>1. i - 1 \in 1..Len(left[w]) /\ left[w][i - 1] = senders[w][(i - 1) + 1]
      BY <1>3, <1>5, <2>1
    <3>2. (i - 1) + 1 = i
      OBVIOUS
    <3> QED BY <2>1, <3>1, <3>2
  <2>2. CASE x # w
    BY <1>5, <2>2
  <2> QED BY <2>1, <2>2
<1> QED BY <1>12, <1>13 DEF left, h

-----------------------------------------------------------------------------
(* The actions of a broadcast.                                             *)

LEMMA ChangeStep ==
  ASSUME IInv, NEW e \in Events, Change(e)
  PROVE  IInv'
<1>1. value \in 0 .. MaxEvents /\ e = value + 1 /\ e > value /\ e \notin Sending
  BY MaxEventsAssumption DEF IInv, TypeOK, Change, Events
<1>2. Lined(senders, Sending \ {e})
  <2>1. Sending \ {e} = Sending
    BY <1>1
  <2> QED BY <2>1 DEF IInv
<1>3. Cardinality(Members) \in 0 .. NSlots
  BY MembersLemma DEF IInv
<1>4. \A u \in Events : u # e /\ ~ (u < e) => u > e
  BY MaxEventsAssumption DEF Events
<1>5. \A u \in Sending : u < e /\ u <= value /\ u \in Events
  BY <1>1, MaxEventsAssumption DEF IInv, Sending, Events
<1>6. \A u \in Sending \ disturbed :
        /\ Parked(u, senders)
        /\ \A v \in Events \ disturbed : u < v /\ v <= e /\ v # e =>
             v \in Sending /\ bc[v].pos <= bc[u].pos
        /\ 0 < bc[u].pos
  <2> SUFFICES ASSUME NEW u \in Sending \ disturbed
               PROVE  /\ Parked(u, senders)
                      /\ \A v \in Events \ disturbed : u < v /\ v <= e /\ v # e =>
                           v \in Sending /\ bc[v].pos <= bc[u].pos
                      /\ 0 < bc[u].pos
    OBVIOUS
  <2>1. Parked(u, senders)
    BY DEF IInv, OrderInv
  <2>2. \A v \in Events : v <= e /\ v # e => v <= value
    BY <1>1, MaxEventsAssumption DEF Events
  <2>3. 0 < bc[u].pos
    BY <2>1, NSlotsAssumption DEF Parked, Slots
  <2> QED BY <2>1, <2>2, <2>3 DEF IInv, OrderInv
<1>7. \A x \in open : Ahead(x, 0)
  <2> SUFFICES ASSUME NEW x \in open PROVE \E i \in Slots : i > 0 /\ active_connections[i] = x
    BY DEF Ahead
  <2>1. x \in Members
    BY DEF IInv, SetInv
  <2>2. \A i \in Slots : i > 0
    BY NSlotsAssumption DEF Slots
  <2> QED BY <2>1, <2>2 DEF Members
<1>8. \A v \in Events : e < v /\ v <= e => FALSE
  BY MaxEventsAssumption DEF Events
<1>9. \A u \in Events : u > e => u \notin Sending
  BY <1>1, MaxEventsAssumption DEF IInv, Events
<1>10. e \in e .. MaxEvents /\ 0 \in 0 .. NSlots
  BY MaxEventsAssumption, NSlotsAssumption DEF Events
<1>11. InHand(e, 0, Cardinality(Members), {}, senders, e)
  BY <1>2, <1>3, <1>6, <1>7, <1>8, <1>9, <1>10 DEF InHand
<1> QED BY <1>11, LoopStep DEF Change, IInv

LEMMA SendOverStep ==
  ASSUME IInv, NEW w \in WebSockets, SendOver(w)
  PROVE  IInv'
<1> DEFINE left == Popped(w)
<1>0. PICK e : e = Head(senders[w])
  OBVIOUS
<1>1. senders[w] # <<>> /\ e # Snapshot /\ UNCHANGED <<value, sockets>>
  BY <1>0 DEF SendOver
<1>2. PICK failed \in SUBSET ({w} \ open) :
        /\ Loop(e, bc[e].pos, bc[e].size, bc[e].disconnected \cup failed)
        /\ Queued(e, left)
  BY <1>0 DEF SendOver
<1> DEFINE gone == bc[e].disconnected \cup failed
<1>3. /\ Lined(left, Sending \ {e})
      /\ \A x \in WebSockets : \A i \in 1..Len(senders[x]) :
           (x = w /\ i = 1) \/ \E j \in 1..Len(left[x]) : left[x][j] = senders[x][i]
  BY <1>0, <1>1, PoppedLemma DEF IInv
<1> HIDE DEF left
<1>4. 1 \in 1..Len(senders[w]) /\ senders[w][1] = e
  <2>1. senders[w] \in Seq({Snapshot} \cup Events)
    BY DEF IInv, TypeOK
  <2>2. Len(senders[w]) \in Nat \ {0}
    BY <1>1, <2>1, EmptySeq
  <2> QED BY <1>0, <2>1, <2>2
<1>5. e \in Sending /\ e \in Events
  <2>1. e \in Sending
    BY <1>1, <1>4 DEF IInv, Lined
  <2> QED BY <2>1 DEF Sending
<1>6. value \in e .. MaxEvents
  BY <1>5, MaxEventsAssumption DEF IInv, TypeOK, Events
<1>7. bc[e].pos \in 0 .. NSlots /\ bc[e].size \in 0 .. NSlots /\ gone \in SUBSET WebSockets
  BY <1>5 DEF IInv, TypeOK
<1>8. \A x \in gone : x \notin open /\ endpoint[x] # "none"
  <2>1. endpoint[w] # "none"
    BY <1>1 DEF IInv, Lined
  <2> QED BY <1>5, <2>1 DEF IInv, SetInv
<1>9. e \notin disturbed =>
        /\ bc[e].size = Cardinality(Members)
        /\ active_connections[bc[e].pos] = w
        /\ \A v \in Events \ disturbed : e < v /\ v <= value => v \in Sending /\ bc[v].pos <= bc[e].pos
  <2> SUFFICES ASSUME e \notin disturbed
               PROVE  /\ bc[e].size = Cardinality(Members)
                      /\ active_connections[bc[e].pos] = w
                      /\ \A v \in Events \ disturbed : e < v /\ v <= value =>
                           v \in Sending /\ bc[v].pos <= bc[e].pos
    OBVIOUS
  <2>1. Parked(e, senders)
    BY <1>5 DEF IInv, OrderInv
  <2> DEFINE x == active_connections[bc[e].pos]
  <2>2. x \in WebSockets /\ \E i \in 1..Len(senders[x]) : senders[x][i] = e
    BY <2>1 DEF Parked, IInv, TypeOK
  <2>3. x = w
    BY <1>1, <1>4, <2>2 DEF IInv, Lined, Once
  <2> QED BY <1>5, <2>1, <2>3 DEF Parked, IInv, OrderInv
<1>10. ASSUME NEW u \in Sending \ disturbed, u # e
       PROVE  /\ Parked(u, left)
              /\ \A v \in Events \ disturbed : u < v /\ v <= value /\ v # e =>
                   v \in Sending /\ bc[v].pos <= bc[u].pos
              /\ u < e /\ e \notin disturbed => bc[e].pos < bc[u].pos
  <2>1. Parked(u, senders) /\ u \in Events
    BY DEF IInv, OrderInv, Sending
  <2> DEFINE x == active_connections[bc[u].pos]
  <2>2. x \in WebSockets /\ bc[u].pos \in Slots
    BY <2>1 DEF Parked, IInv, TypeOK
  <2>3. PICK i \in 1..Len(senders[x]) : senders[x][i] = u
    BY <2>1 DEF Parked
  <2>4. ~ (x = w /\ i = 1)
    BY <1>4, <1>10, <2>3
  <2>5. Parked(u, left)
    <3>1. \E j \in 1..Len(left[x]) : left[x][j] = u
      BY <1>3, <2>2, <2>3, <2>4
    <3> QED BY <2>1, <3>1 DEF Parked
  <2>6. ASSUME u < e, e \notin disturbed
        PROVE  bc[e].pos < bc[u].pos
    <3>1. bc[e].pos <= bc[u].pos
      <4>1. e <= value
        BY <1>5, <1>6, MaxEventsAssumption DEF Events
      <4> QED BY <1>5, <2>6, <4>1 DEF IInv, OrderInv
    <3>2. bc[e].pos # bc[u].pos
      <4> SUFFICES ASSUME bc[e].pos = bc[u].pos PROVE FALSE
        OBVIOUS
      <4>1. x = w
        BY <1>9, <2>6
      <4>2. i \in 1..Len(senders[w]) /\ senders[w][i] = u /\ 1 < i
        <5>1. i \in Nat /\ i # 0 /\ i # 1
          BY <2>4, <4>1
        <5> QED BY <2>3, <4>1, <5>1
      <4>3. {e, u} \subseteq Events \ disturbed
        BY <1>5, <2>1, <2>6
      <4>4. e < u
        BY <1>4, <4>2, <4>3 DEF IInv, Lined, Ordered
      <4> QED BY <1>5, <2>1, <2>6, <4>4, MaxEventsAssumption DEF Events
    <3> QED BY <1>7, <2>2, <3>1, <3>2, NSlotsAssumption DEF Slots
  <2> QED BY <2>5, <2>6 DEF IInv, OrderInv
<1>11. value \notin disturbed =>
         \A x \in open : \/ view[x] = value \/ view[x] \in disturbed
                         \/ value = e /\ Ahead(x, bc[e].pos)
                         \/ value # e /\ value \in Sending /\ Ahead(x, bc[value].pos)
  BY DEF IInv, ViewInv
<1>12. InHand(e, bc[e].pos, bc[e].size, gone, left, value)
  <2> HIDE DEF gone
  <2> QED BY <1>3, <1>5, <1>6, <1>7, <1>8, <1>9, <1>10, <1>11 DEF InHand, IInv
<1>13. UNCHANGED sockets /\ value' = value
  BY <1>1
<1> QED BY <1>2, <1>12, <1>13, LoopStep DEF IInv
(* A cancelled broadcast leaves its line, and nobody else moves. *)
LEMMA CancelStep ==
  ASSUME IInv, NEW e \in Events, CancelDelivered(e)
  PROVE  IInv'
<1> DEFINE T == {Snapshot} \cup Events
<1>1. /\ e \in Sending
      /\ bc' = [bc EXCEPT ![e] = Rest("cancelled")]
      /\ senders' = [w \in WebSockets |-> RemoveFirst(senders[w], e)]
      /\ disturbed' = disturbed \cup {e}
      /\ UNCHANGED <<value, active_connections, open, endpoint, view>>
  BY DEF CancelDelivered, sockets
<1>2. /\ bc'[e].at = "cancelled" /\ bc'[e].disconnected = {}
      /\ \A u \in Events : u # e => bc'[u] = bc[u]
  BY <1>1 DEF IInv, TypeOK, Rest
<1>3. Sending' = Sending \ {e}
  BY <1>1, <1>2 DEF Sending, Events
<1>4. Members' = Members
  BY <1>1 DEF Members
<1>5. senders \in [WebSockets -> Seq(T)] /\ Once(senders) /\ Ordered(senders) /\ e # Snapshot
  BY DEF IInv, Lined, Events, Snapshot
<1>6. ASSUME NEW w \in WebSockets
      PROVE  /\ senders'[w] \in Seq(T) /\ Len(senders[w]) \in Nat /\ Len(senders'[w]) \in Nat
             /\ \/ senders'[w] = senders[w] /\ \A i \in 1..Len(senders[w]) : senders[w][i] # e
                \/ \E k \in 1..Len(senders[w]) :
                     /\ senders[w][k] = e
                     /\ Len(senders'[w]) = Len(senders[w]) - 1
                     /\ \A i \in 1..Len(senders[w]) - 1 :
                          senders'[w][i] = IF i < k THEN senders[w][i] ELSE senders[w][i + 1]
  <2>1. senders[w] \in Seq(T) /\ senders'[w] = RemoveFirst(senders[w], e)
    BY <1>1, <1>5
  <2>2. \A i, j \in 1..Len(senders[w]) : senders[w][i] = e /\ senders[w][j] = e => i = j
    BY <1>5 DEF Once
  <2> HIDE DEF T
  <2>3. \/ RemoveFirst(senders[w], e) = senders[w] /\ \A i \in 1..Len(senders[w]) : senders[w][i] # e
        \/ \E k \in 1..Len(senders[w]) :
             /\ senders[w][k] = e
             /\ RemoveFirst(senders[w], e) \in Seq(T)
             /\ Len(RemoveFirst(senders[w], e)) = Len(senders[w]) - 1
             /\ \A i \in 1..Len(senders[w]) - 1 :
                  RemoveFirst(senders[w], e)[i] = IF i < k THEN senders[w][i] ELSE senders[w][i + 1]
    BY <2>1, <2>2, RemoveLemma
  <2>4. senders'[w] \in Seq(T)
    BY <2>1, <2>3
  <2>5. Len(senders[w]) \in Nat /\ Len(senders'[w]) \in Nat
    BY <2>1, <2>4, LenProperties
  <2> QED BY <2>1, <2>3, <2>4, <2>5
<1>7. ASSUME NEW w \in WebSockets
      PROVE  \E k \in Nat :
               /\ \A i \in 1..Len(senders'[w]) :
                    /\ (IF i < k THEN i ELSE i + 1) \in 1..Len(senders[w])
                    /\ senders'[w][i] = senders[w][IF i < k THEN i ELSE i + 1]
                    /\ senders'[w][i] # e
               /\ \A i \in 1..Len(senders[w]) : senders[w][i] # e =>
                    \E j \in 1..Len(senders'[w]) : senders'[w][j] = senders[w][i]
  <2>1. CASE senders'[w] = senders[w] /\ \A i \in 1..Len(senders[w]) : senders[w][i] # e
    <3>1. \A i \in 1..Len(senders[w]) : i < Len(senders[w]) + 1 /\ i \in Nat
      BY <1>6
    <3>2. Len(senders[w]) + 1 \in Nat
      BY <1>6
    <3> QED BY <2>1, <3>1, <3>2
  <2>2. ASSUME NEW k \in 1..Len(senders[w]), senders[w][k] = e,
               Len(senders'[w]) = Len(senders[w]) - 1,
               \A i \in 1..Len(senders[w]) - 1 :
                 senders'[w][i] = IF i < k THEN senders[w][i] ELSE senders[w][i + 1]
        PROVE  /\ k \in Nat
               /\ \A i \in 1..Len(senders'[w]) :
                    /\ (IF i < k THEN i ELSE i + 1) \in 1..Len(senders[w])
                    /\ senders'[w][i] = senders[w][IF i < k THEN i ELSE i + 1]
                    /\ senders'[w][i] # e
               /\ \A i \in 1..Len(senders[w]) : senders[w][i] # e =>
                    \E j \in 1..Len(senders'[w]) : senders'[w][j] = senders[w][i]
    <3>1. Len(senders[w]) \in Nat
      BY <1>6
    <3>2. ASSUME NEW i \in 1..Len(senders'[w])
          PROVE  /\ (IF i < k THEN i ELSE i + 1) \in 1..Len(senders[w])
                 /\ senders'[w][i] = senders[w][IF i < k THEN i ELSE i + 1]
                 /\ (IF i < k THEN i ELSE i + 1) # k
      BY <2>2, <3>1
    <3>3. ASSUME NEW i \in 1..Len(senders'[w]) PROVE senders'[w][i] # e
      BY <1>5, <2>2, <3>2 DEF Once
    <3>4. ASSUME NEW i \in 1..Len(senders[w]), senders[w][i] # e
          PROVE  \E j \in 1..Len(senders'[w]) : senders'[w][j] = senders[w][i]
      <4>1. CASE i < k
        BY <2>2, <3>1, <4>1
      <4>2. CASE i > k
        <5>1. i - 1 \in 1..Len(senders[w]) - 1 /\ ~ (i - 1 < k) /\ (i - 1) + 1 = i
          BY <3>1, <4>2
        <5>2. senders'[w][i - 1] = senders[w][(i - 1) + 1]
          BY <2>2, <5>1
        <5> QED BY <2>2, <5>1, <5>2
      <4>3. i # k
        BY <2>2, <3>4
      <4> QED BY <3>1, <4>1, <4>2, <4>3
    <3> QED BY <3>1, <3>2, <3>3, <3>4
  <2>3. CASE \E k \in 1..Len(senders[w]) :
               /\ senders[w][k] = e
               /\ Len(senders'[w]) = Len(senders[w]) - 1
               /\ \A i \in 1..Len(senders[w]) - 1 :
                    senders'[w][i] = IF i < k THEN senders[w][i] ELSE senders[w][i + 1]
    <3>1. PICK k \in 1..Len(senders[w]) :
               /\ senders[w][k] = e
               /\ Len(senders'[w]) = Len(senders[w]) - 1
               /\ \A i \in 1..Len(senders[w]) - 1 :
                    senders'[w][i] = IF i < k THEN senders[w][i] ELSE senders[w][i + 1]
      BY <2>3
    <3> WITNESS k \in Nat
    <3> QED BY <2>2, <3>1
  <2> QED BY <1>6, <2>1, <2>3
<1>8. Lined(senders, Sending)'
  <2>1. senders' \in [WebSockets -> Seq(T)]
    BY <1>1, <1>6
  <2>2. \A w \in WebSockets : endpoint'[w] = "none" => senders'[w] = <<>>
    <3> SUFFICES ASSUME NEW w \in WebSockets, endpoint[w] = "none" PROVE senders'[w] = <<>>
      BY <1>1
    <3>1. senders[w] = <<>>
      BY DEF IInv, Lined
    <3>2. \A i \in 1..Len(senders[w]) : FALSE
      BY <3>1
    <3> QED BY <1>6, <3>1, <3>2
  <2>3. \A w \in WebSockets : \A i \in 1..Len(senders'[w]) :
          senders'[w][i] # Snapshot => senders'[w][i] \in Sending'
    <3> SUFFICES ASSUME NEW w \in WebSockets, NEW i \in 1..Len(senders'[w]), senders'[w][i] # Snapshot
                 PROVE  senders'[w][i] \in Sending \ {e}
      BY <1>3
    <3>1. PICK j \in 1..Len(senders[w]) : senders'[w][i] = senders[w][j] /\ senders'[w][i] # e
      BY <1>7
    <3> QED BY <3>1 DEF IInv, Lined
  <2>4. Once(senders')
    <3> SUFFICES ASSUME NEW w \in WebSockets, NEW x \in WebSockets,
                        NEW i \in 1..Len(senders'[w]), NEW j \in 1..Len(senders'[x]),
                        senders'[w][i] = senders'[x][j], senders'[w][i] # Snapshot
                 PROVE  w = x /\ i = j
      BY DEF Once
    <3>1. PICK k \in Nat : \A n \in 1..Len(senders'[w]) :
            /\ (IF n < k THEN n ELSE n + 1) \in 1..Len(senders[w])
            /\ senders'[w][n] = senders[w][IF n < k THEN n ELSE n + 1]
      BY <1>7
    <3>2. PICK l \in Nat : \A n \in 1..Len(senders'[x]) :
            /\ (IF n < l THEN n ELSE n + 1) \in 1..Len(senders[x])
            /\ senders'[x][n] = senders[x][IF n < l THEN n ELSE n + 1]
      BY <1>7
    <3>3. w = x /\ (IF i < k THEN i ELSE i + 1) = (IF j < l THEN j ELSE j + 1)
      <4>1. PICK a \in 1..Len(senders[w]) :
              a = (IF i < k THEN i ELSE i + 1) /\ senders'[w][i] = senders[w][a]
        BY <3>1
      <4>2. PICK b \in 1..Len(senders[x]) :
              b = (IF j < l THEN j ELSE j + 1) /\ senders'[x][j] = senders[x][b]
        BY <3>2
      <4>3. senders[w][a] = senders[x][b] /\ senders[w][a] # Snapshot
        BY <4>1, <4>2
      <4>4. w = x /\ a = b
        BY <1>5, <4>3 DEF Once
      <4> QED BY <4>1, <4>2, <4>4
    <3>4. (IF i < k THEN i ELSE i + 1) = (IF j < k THEN j ELSE j + 1)
      <4>1. senders'[w][j] = senders[w][IF j < k THEN j ELSE j + 1]
        BY <3>1, <3>3
      <4> QED BY <1>5, <3>1, <3>3, <4>1 DEF Once
    <3> QED BY <3>3, <3>4
  <2>5. Ordered(senders)'
    <3> SUFFICES ASSUME NEW w \in WebSockets,
                        NEW i \in 1..Len(senders'[w]), NEW j \in 1..Len(senders'[w]), i < j,
                        {senders'[w][i], senders'[w][j]} \subseteq Events \ disturbed
                 PROVE  senders'[w][i] < senders'[w][j]
      BY <1>1 DEF Ordered, Events
    <3>1. PICK k \in Nat : \A n \in 1..Len(senders'[w]) :
            /\ (IF n < k THEN n ELSE n + 1) \in 1..Len(senders[w])
            /\ senders'[w][n] = senders[w][IF n < k THEN n ELSE n + 1]
      BY <1>7
    <3>2. (IF i < k THEN i ELSE i + 1) < (IF j < k THEN j ELSE j + 1)
      OBVIOUS
    <3> QED BY <1>5, <3>1, <3>2 DEF Ordered
  <2> QED BY <2>1, <2>2, <2>3, <2>4, <2>5 DEF Lined, Once, Snapshot, Events
<1>9. TypeOK'
  <2>1. bc' \in [Events -> [at : {"idle", "sending", "over", "raised", "cancelled"},
                            pos : 0 .. NSlots, size : 0 .. NSlots, disconnected : SUBSET WebSockets]]
    BY <1>1, NSlotsAssumption DEF IInv, TypeOK, Rest
  <2>2. senders' \in [WebSockets -> Seq({Snapshot} \cup Events)]
    BY <1>8 DEF Lined, Snapshot, Events
  <2> QED BY <1>1, <2>1, <2>2 DEF IInv, TypeOK, Events, Slots, Snapshot
<1>10. SetInv'
  BY <1>1, <1>2, <1>4 DEF IInv, SetInv, Unique, Events, Slots
<1>11. \A u \in Events : u > value' => u \notin Sending'
  BY <1>1, <1>3 DEF IInv
<1>12. OrderInv'
  <2> SUFFICES ASSUME NEW u \in Sending', u \notin disturbed'
               PROVE  /\ Parked(u, senders)'
                      /\ \A v \in Events \ disturbed' : u < v /\ v <= value' =>
                           v \in Sending' /\ bc'[v].pos <= bc'[u].pos
    BY DEF OrderInv, Events
  <2>1. u \in Sending \ disturbed /\ u # e /\ u \in Events /\ bc'[u] = bc[u]
    BY <1>1, <1>2, <1>3 DEF Sending
  <2>2. Parked(u, senders)
    BY <2>1 DEF IInv, OrderInv
  <2> DEFINE x == active_connections[bc[u].pos]
  <2>3. x \in WebSockets
    BY <2>2 DEF Parked, IInv, TypeOK
  <2>4. \E j \in 1..Len(senders'[x]) : senders'[x][j] = u
    BY <1>7, <2>1, <2>2, <2>3 DEF Parked
  <2>5. Parked(u, senders)'
    BY <1>1, <1>4, <2>1, <2>2, <2>4 DEF Parked, Slots
  <2> QED BY <1>1, <1>2, <1>3, <2>1, <2>5 DEF IInv, OrderInv
<1>13. ViewInv'
  <2>1. value \notin disturbed' =>
          value \notin disturbed /\ value # e /\ (value \in Sending => bc'[value] = bc[value])
    BY <1>1, <1>2 DEF Sending
  <2> QED BY <1>1, <1>3, <2>1 DEF IInv, ViewInv, Ahead, Slots
<1> QED BY <1>8, <1>9, <1>10, <1>11, <1>12, <1>13 DEF IInv, Events

-----------------------------------------------------------------------------
(* The actions of a browser and its endpoint.                              *)

(* Browsers that are not open are discarded, and nobody else moves. *)
LEMMA Leaving ==
  ASSUME IInv, NEW gone \in SUBSET WebSockets, gone \cap open = {}, Discard(gone, Sending),
         UNCHANGED <<value, open, bc, view>>,
         endpoint' \in [WebSockets -> {"none", "snapshot", "receiving", "done"}],
         \A x \in WebSockets : endpoint'[x] = "none" <=> endpoint[x] = "none",
         \A x \in WebSockets \ gone : endpoint'[x] = "done" => endpoint[x] = "done",
         \A x \in WebSockets : \A i \in 1..Len(senders[x]) : senders[x][i] \in Events =>
           \E j \in 1..Len(senders'[x]) : senders'[x][j] = senders[x][i],
         disturbed \subseteq disturbed' => Lined(senders, Sending)'
  PROVE  IInv'
<1>1. TypeOK /\ SetInv /\ Sending \in SUBSET Events
  BY DEF IInv, Sending
<1>2. /\ active_connections' \in [Slots -> WebSockets \cup {NoSocket}]
      /\ Unique'
      /\ Members' = Members \ gone
      /\ disturbed' \in SUBSET Events
      /\ \/ active_connections' = active_connections /\ disturbed' = disturbed
         \/ disturbed' = disturbed \cup Sending
  <2> HIDE DEF Sending
  <2> QED BY <1>1, DiscardLemma DEF SetInv
<1>3. disturbed \subseteq disturbed' /\ Sending' = Sending /\ Lined(senders, Sending)'
  BY <1>2 DEF Sending, Events
<1>4. TypeOK'
  BY <1>1, <1>2, <1>3 DEF TypeOK, Lined, Events, Slots, Snapshot
<1>5. SetInv'
  <2>1. \A x \in Members' : x \in Members /\ x \in WebSockets \ gone
    BY <1>1, <1>2, MembersLemma
  <2>2. \A x \in Members' : endpoint'[x] \notin {"none", "done"}
    BY <1>1, <2>1 DEF SetInv
  <2>3. open \subseteq Members'
    BY <1>1, <1>2 DEF SetInv
  <2>4. \A e \in Events : \A x \in bc[e].disconnected : x \in WebSockets
    BY <1>1 DEF TypeOK
  <2>5. \A e \in Events : \A x \in bc'[e].disconnected : x \notin open' /\ endpoint'[x] # "none"
    BY <1>1, <2>4 DEF SetInv
  <2> QED BY <1>2, <2>2, <2>3, <2>5 DEF SetInv, Events
<1>6. \A u \in Events : u > value' => u \notin Sending'
  BY <1>3 DEF IInv
<1>7. OrderInv'
  <2> SUFFICES ASSUME NEW u \in Sending, u \notin disturbed'
               PROVE  /\ Parked(u, senders)'
                      /\ \A v \in Events \ disturbed' : u < v /\ v <= value =>
                           v \in Sending /\ bc[v].pos <= bc[u].pos
    BY <1>3 DEF OrderInv, Events
  <2>1. active_connections' = active_connections /\ disturbed' = disturbed /\ Members' = Members
    BY <1>2 DEF Members
  <2>2. Parked(u, senders) /\ u \in Events
    BY <1>1, <2>1 DEF IInv, OrderInv
  <2> DEFINE x == active_connections[bc[u].pos]
  <2>3. x \in WebSockets
    BY <1>1, <2>2 DEF Parked, TypeOK
  <2>4. \E j \in 1..Len(senders'[x]) : senders'[x][j] = u
    BY <2>2, <2>3 DEF Parked
  <2>5. Parked(u, senders)'
    BY <2>1, <2>2, <2>4 DEF Parked, Slots
  <2> QED BY <2>1, <2>5 DEF IInv, OrderInv
<1>8. ViewInv'
  <2> SUFFICES ASSUME value \notin disturbed', NEW x \in open
               PROVE  \/ view[x] = value \/ view[x] \in disturbed'
                      \/ value \in Sending /\ active_connections' = active_connections
                           /\ Ahead(x, bc[value].pos)
    BY <1>3 DEF ViewInv, Ahead, Slots
  <2>1. \/ view[x] = value \/ view[x] \in disturbed
        \/ value \in Sending /\ Ahead(x, bc[value].pos)
    BY <1>3 DEF IInv, ViewInv
  <2> QED BY <1>2, <1>3, <2>1
<1> QED BY <1>3, <1>4, <1>5, <1>6, <1>7, <1>8 DEF IInv, Events

LEMMA SnapshotSentStep ==
  ASSUME IInv, NEW w \in WebSockets, SnapshotSent(w)
  PROVE  IInv'
<1>1. /\ senders[w] # <<>> /\ Head(senders[w]) = Snapshot
      /\ endpoint' = [endpoint EXCEPT ![w] = "receiving"]
      /\ senders' = Popped(w)
      /\ UNCHANGED <<value, open, bc, view>>
  BY DEF SnapshotSent
<1>2. PICK failed \in SUBSET ({w} \ open) : Discard(failed, Sending)
  BY DEF SnapshotSent
<1>3. /\ Lined(Popped(w), Sending \ {Snapshot})
      /\ \A x \in WebSockets : \A i \in 1..Len(senders[x]) :
           (x = w /\ i = 1) \/ \E j \in 1..Len(Popped(w)[x]) : Popped(w)[x][j] = senders[x][i]
  BY <1>1, PoppedLemma DEF IInv
<1>4. endpoint \in [WebSockets -> {"none", "snapshot", "receiving", "done"}] /\ endpoint[w] # "none"
  BY <1>1 DEF IInv, TypeOK, Lined
<1>5. /\ endpoint' \in [WebSockets -> {"none", "snapshot", "receiving", "done"}]
      /\ \A x \in WebSockets : endpoint'[x] = "none" <=> endpoint[x] = "none"
      /\ \A x \in WebSockets \ failed : endpoint'[x] = "done" => endpoint[x] = "done"
  BY <1>1, <1>4
<1>6. \A x \in WebSockets : \A i \in 1..Len(senders[x]) : senders[x][i] \in Events =>
        \E j \in 1..Len(senders'[x]) : senders'[x][j] = senders[x][i]
  <2> SUFFICES ASSUME NEW x \in WebSockets, NEW i \in 1..Len(senders[x]), senders[x][i] \in Events
               PROVE  \E j \in 1..Len(senders'[x]) : senders'[x][j] = senders[x][i]
    OBVIOUS
  <2>1. senders[w] \in Seq({Snapshot} \cup Events)
    BY DEF IInv, TypeOK
  <2>2. senders[w][1] = Snapshot
    BY <1>1, <2>1
  <2>3. ~ (x = w /\ i = 1)
    BY <2>2 DEF Events, Snapshot
  <2> QED BY <1>1, <1>3, <2>3
<1>7. disturbed \subseteq disturbed' => Lined(senders, Sending)'
  <2>1. Sending' = Sending
    BY <1>1 DEF Sending, Events
  <2>2. \A x \in WebSockets : endpoint'[x] = "none" => endpoint[x] = "none"
    BY <1>5
  <2>3. Sending \ {Snapshot} \subseteq Sending'
    BY <2>1
  <2> HIDE DEF Sending
  <2> QED BY <1>1, <1>3, <2>2, <2>3, SameLines
<1>8. failed \in SUBSET WebSockets /\ failed \cap open = {}
  OBVIOUS
<1> QED BY <1>1, <1>2, <1>5, <1>6, <1>7, <1>8, Leaving

LEMMA ReceiveEndsStep ==
  ASSUME IInv, NEW w \in WebSockets, ReceiveEnds(w)
  PROVE  IInv'
<1>1. /\ endpoint[w] = "receiving" /\ w \notin open
      /\ endpoint' = [endpoint EXCEPT ![w] = "done"]
      /\ Discard({w}, Sending)
      /\ UNCHANGED <<value, open, senders, bc, view>>
  BY DEF ReceiveEnds
<1>2. endpoint \in [WebSockets -> {"none", "snapshot", "receiving", "done"}]
  BY DEF IInv, TypeOK
<1>3. /\ endpoint' \in [WebSockets -> {"none", "snapshot", "receiving", "done"}]
      /\ \A x \in WebSockets : endpoint'[x] = "none" <=> endpoint[x] = "none"
      /\ \A x \in WebSockets \ {w} : endpoint'[x] = "done" => endpoint[x] = "done"
  BY <1>1, <1>2
<1>4. disturbed \subseteq disturbed' => Lined(senders, Sending)'
  <2>1. Sending' = Sending
    BY <1>1 DEF Sending, Events
  <2>2. \A x \in WebSockets : endpoint'[x] = "none" => endpoint[x] = "none"
    BY <1>3
  <2>3. Sending \subseteq Sending' /\ Lined(senders, Sending)
    BY <2>1 DEF IInv
  <2> HIDE DEF Sending
  <2> QED BY <1>1, <2>2, <2>3, SameLines
<1>5. \A x \in WebSockets : \A i \in 1..Len(senders[x]) : senders[x][i] \in Events =>
        \E j \in 1..Len(senders'[x]) : senders'[x][j] = senders[x][i]
  BY <1>1
<1>6. {w} \in SUBSET WebSockets /\ {w} \cap open = {}
  BY <1>1
<1> QED BY <1>1, <1>3, <1>4, <1>5, <1>6, Leaving

(* In a table every browser of S has one place and there is nobody else.   *)
LEMMA PlacementLemma ==
  ASSUME NEW S, NoSocket \notin S, NEW t \in Placements(S)
  PROVE  /\ t \in [Slots -> S \cup {NoSocket}]
         /\ \A i, j \in Slots : t[i] = t[j] /\ t[i] # NoSocket => i = j
         /\ {t[i] : i \in Slots} \ {NoSocket} = S
<1>1. t \in [Slots -> S \cup {NoSocket}] /\ \A w \in S : Cardinality({i \in Slots : t[i] = w}) = 1
  BY DEF Placements
<1>2. ASSUME NEW w \in S
      PROVE  \E i \in Slots : {j \in Slots : t[j] = w} = {i}
  <2> DEFINE P == {i \in Slots : t[i] = w}
  <2>1. IsFiniteSet(Slots) /\ P \in SUBSET Slots
    BY NSlotsAssumption, FS_Interval DEF Slots
  <2>2. IsFiniteSet(P) /\ Cardinality(P) = 1
    <3>1. Cardinality(P) = 1
      BY <1>1
    <3> HIDE DEF P
    <3> QED BY <2>1, <3>1, FS_Subset
  <2>3. \E i : P = {i}
    <3> HIDE DEF P
    <3> QED BY <2>2, FS_Singleton
  <2> QED BY <2>1, <2>3
<1>3. \A i, j \in Slots : t[i] = t[j] /\ t[i] # NoSocket => i = j
  <2> SUFFICES ASSUME NEW i \in Slots, NEW j \in Slots, t[i] = t[j], t[i] # NoSocket
               PROVE  i = j
    OBVIOUS
  <2>1. t[i] \in S
    BY <1>1
  <2>2. PICK k \in Slots : {l \in Slots : t[l] = t[i]} = {k}
    BY <1>2, <2>1
  <2> QED BY <2>2
<1>4. \A w \in S : \E i \in Slots : t[i] = w
  BY <1>2
<1>5. {t[i] : i \in Slots} \ {NoSocket} = S
  BY <1>1, <1>4
<1> QED BY <1>1, <1>3, <1>5

(* A browser that joins disturbs every broadcast under way. *)
LEMMA JoinStep ==
  ASSUME IInv, NEW w \in WebSockets, Join(w)
  PROVE  IInv'
<1>1. /\ endpoint[w] = "none"
      /\ open' = open \cup {w}
      /\ active_connections' \in Placements(Members \cup {w})
      /\ disturbed' = disturbed \cup Sending
      /\ view' = [view EXCEPT ![w] = value]
      /\ endpoint' = [endpoint EXCEPT ![w] = "snapshot"]
      /\ senders' = [senders EXCEPT ![w] = <<Snapshot>>]
      /\ UNCHANGED <<value, bc>>
  BY DEF Join
<1>2. Members \subseteq WebSockets /\ NoSocket \notin Members \cup {w}
  BY MembersLemma, NoSocketAssumption DEF IInv
<1>3. /\ active_connections' \in [Slots -> (Members \cup {w}) \cup {NoSocket}]
      /\ \A i, j \in Slots : active_connections'[i] = active_connections'[j]
                              /\ active_connections'[i] # NoSocket => i = j
      /\ {active_connections'[i] : i \in Slots} \ {NoSocket} = Members \cup {w}
  <2> HIDE DEF Members
  <2> QED BY <1>1, <1>2, PlacementLemma
<1>4. Members' = Members \cup {w} /\ Unique'
  BY <1>3 DEF Members, Unique, Slots
<1>5. active_connections' \in [Slots -> WebSockets \cup {NoSocket}]
  <2> HIDE DEF Members
  <2> QED BY <1>2, <1>3
<1>6. Sending' = Sending /\ Sending \subseteq Events
  BY <1>1 DEF Sending, Events
<1>7. /\ senders \in [WebSockets -> Seq({Snapshot} \cup Events)]
      /\ senders[w] = <<>> /\ Once(senders) /\ Ordered(senders)
  BY <1>1 DEF IInv, Lined
<1>8. /\ senders'[w] = <<Snapshot>>
      /\ \A x \in WebSockets : x # w => senders'[x] = senders[x]
      /\ \A i \in 1..Len(senders'[w]) : senders'[w][i] = Snapshot /\ i = 1
  BY <1>1, <1>7
<1>9. Lined(senders, Sending)'
  <2>1. senders' \in [WebSockets -> Seq({Snapshot} \cup Events)]
    <3>1. <<Snapshot>> \in Seq({Snapshot} \cup Events)
      OBVIOUS
    <3> QED BY <1>1, <1>7, <3>1
  <2>2. \A x \in WebSockets : endpoint'[x] = "none" => senders'[x] = <<>>
    BY <1>1, <1>8 DEF IInv, TypeOK, Lined
  <2>3. \A x \in WebSockets : \A i \in 1..Len(senders'[x]) :
          senders'[x][i] # Snapshot => senders'[x][i] \in Sending'
    BY <1>6, <1>8 DEF IInv, Lined
  <2>4. Once(senders')
    <3> SUFFICES ASSUME NEW x \in WebSockets, NEW y \in WebSockets,
                        NEW i \in 1..Len(senders'[x]), NEW j \in 1..Len(senders'[y]),
                        senders'[x][i] = senders'[y][j], senders'[x][i] # Snapshot
                 PROVE  x = y /\ i = j
      BY DEF Once
    <3>1. x # w /\ y # w
      BY <1>8
    <3>2. senders'[x] = senders[x] /\ senders'[y] = senders[y]
      BY <1>8, <3>1
    <3> QED BY <1>7, <3>2 DEF Once
  <2>5. Ordered(senders)'
    <3> SUFFICES ASSUME NEW x \in WebSockets, NEW i \in 1..Len(senders'[x]), NEW j \in 1..Len(senders'[x]),
                        i < j, {senders'[x][i], senders'[x][j]} \subseteq Events \ disturbed'
                 PROVE  senders'[x][i] < senders'[x][j]
      BY DEF Ordered, Events
    <3>1. x # w
      BY <1>8
    <3>2. senders'[x] = senders[x]
      BY <1>8, <3>1
    <3>3. {senders[x][i], senders[x][j]} \subseteq Events \ disturbed
      BY <1>1, <3>2
    <3> QED BY <1>7, <3>2, <3>3 DEF Ordered
  <2> QED BY <2>1, <2>2, <2>3, <2>4, <2>5 DEF Lined, Once, Snapshot, Events
<1>10. TypeOK'
  <2>1. senders' \in [WebSockets -> Seq({Snapshot} \cup Events)]
    BY <1>9 DEF Lined, Snapshot, Events
  <2> QED BY <1>1, <1>5, <1>6, <2>1 DEF IInv, TypeOK, Events, Slots, Snapshot
<1>11. SetInv'
  <2>1. \A x \in Members' : endpoint'[x] \notin {"none", "done"}
    BY <1>1, <1>2, <1>4 DEF IInv, SetInv, TypeOK
  <2>2. \A e \in Events : \A x \in bc[e].disconnected : x \in WebSockets /\ x # w
    BY <1>1 DEF IInv, SetInv, TypeOK
  <2>3. \A e \in Events : \A x \in bc'[e].disconnected : x \notin open' /\ endpoint'[x] # "none"
    BY <1>1, <2>2 DEF IInv, SetInv, TypeOK
  <2>4. open' \subseteq Members'
    BY <1>1, <1>4 DEF IInv, SetInv
  <2> QED BY <1>4, <2>1, <2>3, <2>4 DEF SetInv, Events
<1>12. \A u \in Events : u > value' => u \notin Sending'
  BY <1>1, <1>6 DEF IInv
<1>13. OrderInv'
  BY <1>1, <1>6 DEF OrderInv
<1>14. ViewInv'
  BY <1>1, <1>6 DEF IInv, ViewInv, TypeOK
<1> QED BY <1>9, <1>10, <1>11, <1>12, <1>13, <1>14 DEF IInv, Events

LEMMA CloseStep ==
  ASSUME IInv, NEW w \in WebSockets, Close(w)
  PROVE  IInv'
<1>1. /\ open' = open \ {w}
      /\ UNCHANGED <<value, active_connections, endpoint, senders, bc, view, disturbed>>
  BY DEF Close
<1>2. Sending' = Sending /\ Members' = Members
  BY <1>1 DEF Sending, Members, Events
<1>3. TypeOK'
  BY <1>1 DEF IInv, TypeOK, Events, Slots, Snapshot
<1>4. SetInv'
  BY <1>1, <1>2 DEF IInv, SetInv, Unique, Events, Slots
<1>5. Lined(senders, Sending)'
  BY <1>1, <1>2 DEF IInv, Lined, Once, Ordered, Events, Snapshot
<1>6. OrderInv'
  BY <1>1, <1>2 DEF IInv, OrderInv, Parked, Events, Slots
<1>7. ViewInv'
  BY <1>1, <1>2 DEF IInv, ViewInv, Ahead, Slots
<1> QED BY <1>1, <1>2, <1>3, <1>4, <1>5, <1>6, <1>7 DEF IInv, Events

-----------------------------------------------------------------------------
LEMMA InitIInv == Init => IInv
<1> SUFFICES ASSUME Init PROVE IInv
  OBVIOUS
<1>1. \A e \in Events : bc[e].at = "idle" /\ bc[e].disconnected = {}
  BY DEF Init, Rest
<1>2. Sending = {} /\ Members = {}
  BY <1>1 DEF Sending, Members, Init
<1>3. TypeOK
  BY NSlotsAssumption, MaxEventsAssumption DEF Init, TypeOK, Rest
<1>4. SetInv
  BY <1>1, <1>2 DEF Init, SetInv, Unique
<1>5. Lined(senders, Sending)
  BY DEF Init, Lined, Once, Ordered
<1>6. OrderInv /\ ViewInv
  BY <1>2 DEF Init, OrderInv, ViewInv
<1> QED BY <1>2, <1>3, <1>4, <1>5, <1>6 DEF IInv

LEMMA NextIInv == IInv /\ [Next]_vars => IInv'
<1> SUFFICES ASSUME IInv, [Next]_vars PROVE IInv'
  OBVIOUS
<1>1. CASE UNCHANGED vars
  <2>1. Sending' = Sending /\ Members' = Members
    BY <1>1 DEF vars, sockets, Sending, Members, Events
  <2>2. TypeOK'
    BY <1>1 DEF vars, sockets, IInv, TypeOK, Events, Slots, Snapshot
  <2>3. SetInv'
    BY <1>1, <2>1 DEF vars, sockets, IInv, SetInv, Unique, Events, Slots
  <2>4. Lined(senders, Sending)'
    BY <1>1, <2>1 DEF vars, sockets, IInv, Lined, Once, Ordered, Events, Snapshot
  <2>5. OrderInv' /\ ViewInv'
    BY <1>1, <2>1 DEF vars, sockets, IInv, OrderInv, ViewInv, Parked, Ahead, Events, Slots
  <2> QED BY <1>1, <2>1, <2>2, <2>3, <2>4, <2>5 DEF vars, IInv, Events
<1>2. CASE Next
  BY <1>2, ChangeStep, CancelStep, SendOverStep, SnapshotSentStep, ReceiveEndsStep, JoinStep, CloseStep
     DEF Next
<1> QED BY <1>1, <1>2

LEMMA Invariance == Spec => []IInv
BY InitIInv, NextIInv, PTL DEF Spec

(* TypeOK holds in every state: the set fits its table, a broadcast is at  *)
(* a slot of it, and the lines hold broadcasts and the endpoint.           *)
THEOREM TypeCorrect == Spec => []TypeOK
<1>1. IInv => TypeOK
  BY DEF IInv
<1> QED BY <1>1, Invariance, PTL

(* SetIsServed: however broadcasts, their cancelling, failures and the     *)
(* joining and leaving of any number of browsers interleave, an open one   *)
(* is in active_connections, once, and one whose endpoint is over is not.  *)
THEOREM SetCorrect == Spec => []SetIsServed
<1>1. IInv => SetIsServed
  <2> SUFFICES ASSUME IInv PROVE SetIsServed
    OBVIOUS
  <2>1. \A w \in Members : endpoint[w] # "done"
    BY DEF IInv, SetInv
  <2>2. ASSUME NEW w \in open
        PROVE  Cardinality({i \in Slots : active_connections[i] = w}) = 1
    <3>1. w \in Members /\ w # NoSocket
      BY DEF IInv, SetInv, Members
    <3>2. PICK i \in Slots : active_connections[i] = w
      BY <3>1 DEF Members
    <3>3. {j \in Slots : active_connections[j] = w} = {i}
      BY <3>1, <3>2 DEF IInv, SetInv, Unique
    <3> QED BY <3>3, FS_Singleton
  <2> QED BY <2>1, <2>2 DEF SetIsServed
<1> QED BY <1>1, Invariance, PTL

(* BehindOnlyIfDisturbed: when no broadcast is under way, an open browser  *)
(* that does not have the latest value was let down by a broadcast that    *)
(* was cancelled or during which the set changed, of the latest change or  *)
(* of the one that the browser was sent last.                              *)
THEOREM DisturbanceCorrect == Spec => []BehindOnlyIfDisturbed
<1>1. IInv => BehindOnlyIfDisturbed
  BY DEF IInv, ViewInv, BehindOnlyIfDisturbed, Quiet
<1> QED BY <1>1, Invariance, PTL

-----------------------------------------------------------------------------
(* What a browser is sent while it is connected.                           *)

(* Browser w had event e, or another broadcast's since that was disturbed, *)
(* or e is still to come.                                                  *)
Had(w, e) ==
  \/ view[w] = e
  \/ view[w] \in disturbed
  \/ e \in Sending /\ Ahead(w, bc[e].pos)

GapInv ==
  \A e \in Sending \ disturbed : e - 1 \notin disturbed =>
    \A w \in open : Ahead(w, bc[e].pos) => Had(w, e - 1)

(* A step of the loop of broadcast e: none is ahead of the one before e at *)
(* the position it moves to, and the later ones are behind.                *)
LEMMA LoopInOrder ==
  ASSUME IInv, IInv', GapInv, UNCHANGED sockets,
         NEW e \in Events, NEW pos \in 0 .. NSlots, NEW size, NEW gone \in SUBSET WebSockets,
         Loop(e, pos, size, gone),
         e \notin disturbed => size = Cardinality(Members),
         \/ e \in Sending /\ pos = bc[e].pos /\ value' = value
         \/ e = value + 1 /\ value' = e,
         \A x \in open : Ahead(x, pos) /\ {e, e - 1} \cap disturbed = {} => Had(x, e - 1)
  PROVE  GapInv' /\ EventsInOrder
<1>1. /\ UNCHANGED open /\ open \subseteq WebSockets
      /\ view \in [WebSockets -> 0 .. MaxEvents]
      /\ Sending \subseteq Events /\ disturbed \subseteq Events
      /\ bc \in [Events -> [at : {"idle", "sending", "over", "raised", "cancelled"},
                            pos : 0 .. NSlots, size : 0 .. NSlots, disconnected : SUBSET WebSockets]]
      /\ \A u \in Events : u \in Nat
  <2>1. \A u \in Events : u \in Nat
    BY MaxEventsAssumption DEF Events
  <2>2. Sending \subseteq Events
    BY DEF Sending
  <2> HIDE DEF Sending, Events
  <2> QED BY <2>1, <2>2 DEF sockets, IInv, TypeOK
<1>2. /\ \A u \in Sending : u <= value
      /\ \A u \in Sending' : u \in Events /\ u <= value'
  BY MaxEventsAssumption DEF IInv, TypeOK, Sending, Events
<1>3. \A u \in Sending : e < u => e \in Sending /\ pos = bc[e].pos /\ value' = value
  BY <1>1, <1>2, MaxEventsAssumption DEF IInv, TypeOK
<1>4. CASE Raises(e, size)
  <2>1. /\ e \in disturbed /\ UNCHANGED <<active_connections, view, disturbed>>
        /\ bc' = [bc EXCEPT ![e] = Rest("raised")]
    BY <1>4 DEF Raises
  <2>2. bc'[e].at # "sending" /\ \A u \in Events : u # e => bc'[u] = bc[u]
    BY <1>1, <2>1 DEF Rest
  <2>3. Sending' = Sending \ {e}
    BY <2>2 DEF Sending, Events
  <2>4. ASSUME NEW u \in Sending' \ disturbed', u - 1 \notin disturbed',
               NEW x \in open', Ahead(x, bc[u].pos)'
        PROVE  Had(x, u - 1)'
    <3>1. u \in Sending \ disturbed /\ bc'[u] = bc[u] /\ u - 1 # e
      BY <1>1, <2>1, <2>2, <2>3, <2>4
    <3>2. Had(x, u - 1)
      BY <1>1, <2>1, <2>4, <3>1 DEF GapInv, Ahead, Slots
    <3>3. u - 1 \in Sending => u - 1 \in Sending' /\ bc'[u - 1] = bc[u - 1]
      BY <1>1, <2>2, <2>3, <3>1
    <3> QED BY <2>1, <3>2, <3>3 DEF Had, Ahead, Slots
  <2>7. EventsInOrder
    BY <2>1 DEF EventsInOrder
  <2>8. GapInv'
    BY <2>4 DEF GapInv
  <2> QED BY <2>7, <2>8
<1>5. CASE Ends(e, pos, size, gone)
  <2>1. /\ \A i \in Slots : i > pos => active_connections[i] = NoSocket
        /\ bc' = [bc EXCEPT ![e] = Rest("over")]
        /\ Discard(gone, Sending \ {e})
        /\ UNCHANGED view
    BY <1>5 DEF Ends
  <2>2. bc'[e].at # "sending" /\ \A u \in Events : u # e => bc'[u] = bc[u]
    BY <1>1, <2>1 DEF Rest
  <2>3. Sending' = Sending \ {e}
    BY <2>2 DEF Sending, Events
  <2>4. \/ active_connections' = active_connections /\ disturbed' = disturbed
        \/ disturbed' = disturbed \cup (Sending \ {e})
    <3>1. Sending \ {e} \in SUBSET Events
      BY <1>1
    <3> HIDE DEF Sending
    <3> QED BY <2>1, <3>1, DiscardLemma DEF IInv, SetInv
  <2>5. \A x \in open : ~ Ahead(x, pos)
    BY <1>1, <2>1, NoSocketAssumption DEF Ahead
  <2>6. ASSUME NEW u \in Sending' \ disturbed', u - 1 \notin disturbed',
               NEW x \in open', Ahead(x, bc[u].pos)'
        PROVE  Had(x, u - 1)'
    <3>1. active_connections' = active_connections /\ disturbed' = disturbed
      <4>1. u \in Sending \ {e} /\ u \notin disturbed'
        BY <2>3, <2>6
      <4> HIDE DEF Sending
      <4> QED BY <2>4, <4>1
    <3>2. u \in Sending \ disturbed /\ bc'[u] = bc[u] /\ u \in Events
      BY <1>1, <2>2, <2>3, <2>6, <3>1
    <3>3. Had(x, u - 1)
      BY <1>1, <2>6, <3>1, <3>2 DEF GapInv, Ahead, Slots
    <3>4. u - 1 = e => e \in Sending /\ pos = bc[e].pos
      BY <1>1, <1>3, <3>2
    <3>5. ~ (u - 1 = e /\ Ahead(x, bc[e].pos))
      BY <1>1, <2>5, <3>4
    <3>6. u - 1 \in Sending /\ u - 1 # e => u - 1 \in Sending' /\ bc'[u - 1] = bc[u - 1]
      BY <1>1, <2>2, <2>3
    <3> QED BY <2>1, <3>1, <3>3, <3>5, <3>6 DEF Had, Ahead, Slots
  <2>7. EventsInOrder
    BY <2>1 DEF EventsInOrder
  <2>8. GapInv'
    BY <2>6 DEF GapInv
  <2> QED BY <2>7, <2>8
<1>6. CASE Sends(e, pos, size, gone)
  <2> DEFINE rest == {i \in Slots : i > pos /\ active_connections[i] # NoSocket}
  <2>1. PICK p, w : p = Min(rest) /\ w = active_connections[p]
    OBVIOUS
  <2>2. /\ rest # {}
        /\ bc' = [bc EXCEPT ![e] = [at |-> "sending", pos |-> p, size |-> size, disconnected |-> gone]]
        /\ view' = IF w \in open THEN [view EXCEPT ![w] = e] ELSE view
        /\ UNCHANGED <<active_connections, disturbed>>
    BY <1>6, <2>1 DEF Sends
  <2>3. p \in rest /\ \A i \in rest : p <= i
    <3>1. rest \in SUBSET Nat
      BY NSlotsAssumption DEF Slots
    <3> HIDE DEF rest
    <3> QED BY <2>1, <2>2, <3>1, MinLemma
  <2>4. /\ p \in Slots /\ pos < p /\ w = active_connections[p] /\ w # NoSocket
        /\ \A i \in Slots : i > pos /\ active_connections[i] # NoSocket => p <= i
    BY <2>1, <2>3
  <2> HIDE DEF rest
  <2>5. /\ bc'[e].at = "sending" /\ bc'[e].pos = p
        /\ \A u \in Events : u # e => bc'[u] = bc[u]
    BY <1>1, <2>2
  <2>6. Sending' = Sending \cup {e}
    BY <2>5 DEF Sending, Events
  <2>7. \A i \in Slots : active_connections[i] = w => i = p
    BY <2>4 DEF IInv, SetInv, Unique
  <2>8. Slots \subseteq Nat /\ \A u \in Events : bc[u].pos \in Nat
    BY <1>1, NSlotsAssumption DEF Slots
  <2>9. \A x \in open : x = w \/ view'[x] = view[x]
    BY <1>1, <2>2
  <2>10. e \notin disturbed =>
           \A v \in Events \ disturbed : e < v /\ v <= value' => v \in Sending' /\ bc'[v].pos <= p
    BY <2>2, <2>5, <2>6 DEF IInv, OrderInv, Events
  \* An earlier broadcast that is not disturbed has been past w.
  <2>11. ASSUME NEW u \in Sending \ disturbed, u < e, e \notin disturbed
         PROVE  ~ Ahead(w, bc[u].pos)
    <3>1. u \in Sending' /\ bc'[u] = bc[u] /\ u \in Events
      BY <1>1, <2>5, <2>6, <2>11
    <3>2. e \in Sending' /\ e <= value'
      BY <1>2, <2>6
    <3>3. bc'[e].pos <= bc'[u].pos
      BY <2>2, <2>11, <3>1, <3>2 DEF IInv, OrderInv, Events
    <3> QED BY <2>5, <2>7, <2>8, <3>1, <3>3 DEF Ahead
  <2>12. w \in open /\ {e, e - 1} \cap disturbed = {} => view[w] = e - 1 \/ view[w] \in disturbed
    <3> SUFFICES ASSUME w \in open, e \notin disturbed, e - 1 \notin disturbed
                 PROVE  view[w] = e - 1 \/ view[w] \in disturbed
      OBVIOUS
    <3>1. Ahead(w, pos)
      BY <2>4 DEF Ahead
    <3>2. Had(w, e - 1)
      BY <3>1
    <3>3. e - 1 < e
      BY <1>1
    <3> QED BY <2>11, <3>2, <3>3 DEF Had
  <2>13. EventsInOrder
    <3> SUFFICES ASSUME NEW x \in open, view'[x] # view[x],
                        {view[x], view'[x], view'[x] - 1} \cap disturbed = {}
                 PROVE  view'[x] = view[x] + 1
      BY DEF EventsInOrder
    <3>1. x = w /\ view'[x] = e
      BY <1>1, <2>2, <2>9
    <3>2. view[x] = e - 1
      BY <2>12, <3>1
    <3> QED BY <1>1, <3>1, <3>2
  <2>14. ASSUME NEW u \in Sending' \ disturbed', u - 1 \notin disturbed',
                NEW x \in open', Ahead(x, bc[u].pos)'
         PROVE  Had(x, u - 1)'
    <3>1. /\ u \in Events /\ u \notin disturbed /\ u - 1 \notin disturbed /\ x \in open /\ x \in WebSockets
          /\ Ahead(x, bc'[u].pos)
      BY <1>1, <1>2, <2>2, <2>14 DEF Ahead, Slots
    <3>2. CASE u = e
      <4>1. Ahead(x, pos) /\ x # w
        BY <2>4, <2>5, <2>7, <2>8, <3>1, <3>2 DEF Ahead
      <4>2. Had(x, e - 1)
        BY <3>1, <3>2, <4>1
      <4>3. e - 1 \in Sending => e - 1 \in Sending' /\ bc'[e - 1] = bc[e - 1]
        BY <1>1, <2>5, <2>6
      <4> QED BY <2>2, <2>9, <3>1, <3>2, <4>1, <4>2, <4>3 DEF Had, Ahead, Slots
    <3>3. CASE u # e
      <4>1. u \in Sending \ disturbed /\ bc'[u] = bc[u]
        BY <2>5, <2>6, <3>1, <3>3
      <4>2. Had(x, u - 1)
        BY <3>1, <4>1 DEF GapInv
      <4>3. CASE x # w
        <5>1. ASSUME u - 1 \in Sending, Ahead(x, bc[u - 1].pos)
              PROVE  u - 1 \in Sending' /\ Ahead(x, bc'[u - 1].pos)
          <6>1. CASE u - 1 # e
            BY <1>1, <2>5, <2>6, <5>1, <6>1
          <6>2. CASE u - 1 = e
            <7>1. pos = bc[e].pos
              BY <1>1, <1>3, <3>1, <4>1, <6>2
            <7>2. PICK i \in Slots : i > pos /\ active_connections[i] = x
              BY <5>1, <6>2, <7>1 DEF Ahead
            <7>3. i > p
              <8>1. p <= i /\ p # i
                BY <1>1, <2>4, <3>1, <4>3, <7>2, NoSocketAssumption
              <8> QED BY <2>4, <2>8, <8>1
            <7> QED BY <2>5, <2>6, <6>2, <7>2, <7>3 DEF Ahead
          <6> QED BY <6>1, <6>2
        <5> QED BY <2>2, <2>9, <3>1, <4>2, <4>3, <5>1 DEF Had, Ahead, Slots
      <4>4. CASE x = w
        <5>1. view'[x] = e
          BY <1>1, <2>2, <3>1, <4>4
        <5>2. CASE e \in disturbed
          BY <2>2, <5>1, <5>2 DEF Had
        <5>3. CASE e \notin disturbed /\ u < e
          BY <2>11, <3>1, <4>1, <4>4, <5>3
        <5>4. CASE e \notin disturbed /\ u - 1 = e
          BY <5>1, <5>4 DEF Had
        <5>5. CASE e \notin disturbed /\ e < u - 1
          <6>1. e \in Sending /\ pos = bc[e].pos /\ e < u /\ u <= value
            BY <1>1, <1>2, <1>3, <3>1, <4>1, <5>5
          <6>2. u - 1 \in Events /\ u - 1 <= value /\ u - 1 # e
            BY <1>1, <3>1, <5>5, <6>1, MaxEventsAssumption DEF Events, IInv, TypeOK
          <6>3. u - 1 \in Sending /\ bc[u - 1].pos <= pos
            BY <3>1, <5>5, <6>1, <6>2 DEF IInv, OrderInv
          <6>4. u - 1 \in Sending' /\ bc'[u - 1] = bc[u - 1]
            BY <2>5, <2>6, <6>2, <6>3
          <6>5. bc[u - 1].pos < p
            BY <2>4, <2>8, <6>1, <6>2, <6>3
          <6>6. Ahead(w, bc[u - 1].pos)'
            BY <2>2, <2>4, <6>4, <6>5 DEF Ahead, Slots
          <6> QED BY <4>4, <6>4, <6>6 DEF Had
        <5>6. u < e \/ u - 1 = e \/ e < u - 1
          BY <1>1, <3>1, <3>3
        <5> QED BY <5>2, <5>3, <5>4, <5>5, <5>6
      <4> QED BY <4>3, <4>4
    <3> QED BY <3>2, <3>3
  <2>15. GapInv'
    BY <2>14 DEF GapInv
  <2> QED BY <2>13, <2>15
<1> QED BY <1>4, <1>5, <1>6 DEF Loop

(* A step that moves no broadcast on: undisturbed ones stay where they     *)
(* are, and so does the set if there is one.                               *)
LEMMA RestInOrder ==
  ASSUME GapInv,
         Sending' \ disturbed' \subseteq Sending \ disturbed, disturbed \subseteq disturbed',
         \A u \in Sending \ disturbed' : u \in Sending' /\ bc'[u] = bc[u],
         Sending' \ disturbed' # {} =>
           UNCHANGED <<active_connections, view>> /\ open' \subseteq open
  PROVE  GapInv'
<1> SUFFICES ASSUME NEW u \in Sending' \ disturbed', u - 1 \notin disturbed',
                    NEW x \in open', Ahead(x, bc[u].pos)'
             PROVE  Had(x, u - 1)'
  BY DEF GapInv
<1> HIDE DEF Sending
<1>1. UNCHANGED <<active_connections, view>> /\ open' \subseteq open
  OBVIOUS
<1>2. u \in Sending \ disturbed /\ u - 1 \notin disturbed /\ bc'[u] = bc[u]
  OBVIOUS
<1>3. Ahead(x, bc[u].pos)
  BY <1>1, <1>2 DEF Ahead, Slots
<1>4. Had(x, u - 1)
  BY <1>1, <1>2, <1>3 DEF GapInv
<1>5. u - 1 \in Sending => u - 1 \in Sending' /\ bc'[u - 1] = bc[u - 1]
  OBVIOUS
<1> QED BY <1>1, <1>4, <1>5 DEF Had, Ahead, Slots

LEMMA ChangeInOrder ==
  ASSUME IInv, IInv', GapInv, NEW e \in Events, Change(e)
  PROVE  GapInv' /\ EventsInOrder
<1>1. /\ e = value + 1 /\ value' = e /\ value = e - 1 /\ UNCHANGED sockets
      /\ Loop(e, 0, Cardinality(Members), {})
  BY MaxEventsAssumption DEF Change, IInv, TypeOK, Events
<1>2. \A x \in open : Ahead(x, 0) /\ {e, e - 1} \cap disturbed = {} => Had(x, e - 1)
  BY <1>1 DEF IInv, ViewInv, Had
<1>3. 0 \in 0 .. NSlots
  BY NSlotsAssumption
<1> QED BY <1>1, <1>2, <1>3, LoopInOrder

LEMMA SendOverInOrder ==
  ASSUME IInv, IInv', GapInv, NEW w \in WebSockets, SendOver(w)
  PROVE  GapInv' /\ EventsInOrder
<1>1. PICK e : e = Head(senders[w])
  OBVIOUS
<1>2. senders[w] # <<>> /\ e # Snapshot /\ value' = value /\ UNCHANGED sockets
  BY <1>1 DEF SendOver
<1>3. PICK failed \in SUBSET ({w} \ open) :
        Loop(e, bc[e].pos, bc[e].size, bc[e].disconnected \cup failed)
  BY <1>1 DEF SendOver
<1>4. e \in Sending /\ e \in Events
  <2>1. senders[w] \in Seq({Snapshot} \cup Events)
    BY DEF IInv, TypeOK
  <2>2. 1 \in 1..Len(senders[w]) /\ senders[w][1] = e
    BY <1>1, <1>2, <2>1, EmptySeq
  <2>3. e \in Sending
    BY <1>2, <2>2 DEF IInv, Lined
  <2> QED BY <2>3 DEF Sending
<1>5. bc[e].pos \in 0 .. NSlots /\ bc[e].disconnected \cup failed \in SUBSET WebSockets
  BY <1>4 DEF IInv, TypeOK
<1>6. e \notin disturbed => bc[e].size = Cardinality(Members)
  BY <1>4 DEF IInv, OrderInv, Parked
<1>7. \A x \in open : Ahead(x, bc[e].pos) /\ {e, e - 1} \cap disturbed = {} => Had(x, e - 1)
  BY <1>4 DEF GapInv
<1> QED BY <1>2, <1>3, <1>4, <1>5, <1>6, <1>7, LoopInOrder

(* Where nothing is sent, a browser gets no value. *)
LEMMA OthersInOrder ==
  ASSUME IInv, GapInv,
         \/ \E e \in Events : CancelDelivered(e)
         \/ \E w \in WebSockets : SnapshotSent(w) \/ ReceiveEnds(w) \/ Join(w) \/ Close(w)
         \/ UNCHANGED vars
  PROVE  GapInv' /\ EventsInOrder
<1>1. ASSUME UNCHANGED view PROVE EventsInOrder
  BY <1>1 DEF EventsInOrder
<1>2. ASSUME UNCHANGED bc PROVE Sending' = Sending
  BY <1>2 DEF Sending, Events
<1>3. ASSUME NEW e \in Events, CancelDelivered(e) PROVE GapInv' /\ EventsInOrder
  <2>1. /\ bc' = [bc EXCEPT ![e] = Rest("cancelled")]
        /\ disturbed' = disturbed \cup {e}
        /\ UNCHANGED <<active_connections, open, view>>
    BY <1>3 DEF CancelDelivered, sockets
  <2>2. bc'[e].at # "sending" /\ \A u \in Events : u # e => bc'[u] = bc[u]
    BY <2>1 DEF IInv, TypeOK, Rest
  <2>3. Sending' = Sending \ {e} /\ Sending \subseteq Events
    BY <2>2 DEF Sending, Events
  <2>4. \A u \in Sending \ disturbed' : u \in Sending' /\ bc'[u] = bc[u]
    BY <2>1, <2>2, <2>3
  <2>5. Sending' \ disturbed' \subseteq Sending \ disturbed
    BY <2>1, <2>3
  <2> HIDE DEF Sending
  <2> QED BY <1>1, <2>1, <2>4, <2>5, RestInOrder
<1>4. ASSUME NEW gone \in SUBSET WebSockets, Discard(gone, Sending), UNCHANGED <<open, bc, view>>
      PROVE  GapInv' /\ EventsInOrder
  <2>1. Sending' = Sending /\ Sending \in SUBSET Events
    BY <1>2, <1>4 DEF Sending
  <2> HIDE DEF Sending
  <2>2. \/ active_connections' = active_connections /\ disturbed' = disturbed
        \/ disturbed' = disturbed \cup Sending
    BY <1>4, <2>1, DiscardLemma DEF IInv, SetInv
  <2> QED BY <1>1, <1>4, <2>1, <2>2, RestInOrder
<1>5. ASSUME NEW w \in WebSockets, Join(w) PROVE GapInv' /\ EventsInOrder
  <2>1. /\ endpoint[w] = "none" /\ UNCHANGED bc
        /\ disturbed' = disturbed \cup Sending
        /\ view' = [view EXCEPT ![w] = value]
    BY <1>5 DEF Join
  <2>2. Sending' = Sending
    BY <1>2, <2>1
  <2>3. GapInv'
    <3> HIDE DEF Sending
    <3> QED BY <2>1, <2>2, RestInOrder
  <2>4. w \notin open
    BY <2>1 DEF IInv, SetInv
  <2>5. \A x \in open : view'[x] = view[x]
    BY <2>1, <2>4 DEF IInv, TypeOK
  <2> QED BY <2>3, <2>5 DEF EventsInOrder
<1>6. ASSUME UNCHANGED <<active_connections, bc, view, disturbed>>, open' \subseteq open
      PROVE  GapInv' /\ EventsInOrder
  <2>1. Sending' = Sending
    BY <1>2, <1>6
  <2> HIDE DEF Sending
  <2> QED BY <1>1, <1>6, <2>1, RestInOrder
<1>7. ASSUME NEW w \in WebSockets, SnapshotSent(w) PROVE GapInv' /\ EventsInOrder
  <2>1. PICK failed \in SUBSET ({w} \ open) : Discard(failed, Sending)
    BY <1>7 DEF SnapshotSent
  <2>2. UNCHANGED <<open, bc, view>> /\ failed \in SUBSET WebSockets
    BY <1>7 DEF SnapshotSent
  <2> HIDE DEF Sending
  <2> QED BY <1>4, <2>1, <2>2
<1>8. ASSUME NEW w \in WebSockets, ReceiveEnds(w) PROVE GapInv' /\ EventsInOrder
  BY <1>4, <1>8 DEF ReceiveEnds
<1>9. ASSUME NEW w \in WebSockets, Close(w) PROVE GapInv' /\ EventsInOrder
  BY <1>6, <1>9 DEF Close
<1>10. ASSUME UNCHANGED vars PROVE GapInv' /\ EventsInOrder
  BY <1>6, <1>10 DEF vars, sockets
<1> QED BY <1>3, <1>5, <1>7, <1>8, <1>9, <1>10

LEMMA NextInOrder == IInv /\ IInv' /\ GapInv /\ [Next]_vars => GapInv' /\ EventsInOrder
BY ChangeInOrder, SendOverInOrder, OthersInOrder DEF Next

(* InOrder: however changes, joins, losses and failures interleave, and    *)
(* though any number of broadcasts are under way at once, the value that   *)
(* an open browser is sent is the change after the one it was sent last,   *)
(* unless this broadcast, the one before it or the browser's last one was  *)
(* cancelled or saw the set change.                                        *)
THEOREM OrderCorrect == Spec => InOrder
<1>1. Init => GapInv
  BY DEF Init, GapInv, Sending, Rest
<1>2. IInv /\ IInv' /\ GapInv /\ [Next]_vars => GapInv' /\ [EventsInOrder]_vars
  BY NextInOrder
<1> QED BY <1>1, <1>2, Invariance, PTL DEF Spec, InOrder
=============================================================================
