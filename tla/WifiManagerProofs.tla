-------------------------- MODULE WifiManagerProofs --------------------------
(***************************************************************************)
(* Proofs about WifiManager, for any number of calls and of events: what   *)
(* the watchers hear as long as no two calls collide in WatchState, the    *)
(* exit and the types whether they do or not.                              *)
(***************************************************************************)
EXTENDS WifiManager, TLAPS

Places == {"idle", "watch", "store", "select", "wait", "unwatch", "done"}
Slots == Watchers \cup {Nil}
Array == Seq(Slots)

Holds(s, w) == \E i \in 1 .. s.len : arrays[s.array][i] = w
Listens(w) == w = Main \/ pc[w] \in {"select", "wait"}

(* A slice lies within its array, and is never empty.                      *)
SliceFits(s) ==
  /\ s \in Slices /\ s.array \in 1 .. Len(arrays)
  /\ s.len \in 1 .. Len(arrays[s.array])

(* The types that matter to the slice.                                     *)
SliceTypes ==
  /\ arrays \in Seq(Array) /\ SliceFits(stateChange)
  /\ pc \in [Attempts -> Places] /\ mine \in [Attempts -> Slices]

(* A slice being joined is the present one with one element more, and only *)
(* one call is joining.                                                    *)
OneJoins ==
  \A a \in Attempts : pc[a] = "store" =>
    /\ SliceFits(mine[a])
    /\ mine[a].len = stateChange.len + 1
    /\ arrays[mine[a].array][mine[a].len] = a
    /\ \A i \in 1 .. stateChange.len :
         arrays[mine[a].array][i] = arrays[stateChange.array][i]
    /\ \A b \in Attempts : pc[b] = "store" => b = a

(* Who is in the slice is being served, or on its way out.                 *)
Members ==
  \A a \in Attempts : Holds(stateChange, a) => pc[a] \in {"select", "wait", "unwatch"}

SliceInv == SliceTypes /\ OneJoins /\ Members

-----------------------------------------------------------------------------
(* No watcher has two slots in an array; one that has not come to the      *)
(* append has none, one that has not stored the slice has one only.        *)
Distinct ==
  \A k \in 1 .. Len(arrays) : \A i, j \in 1 .. Len(arrays[k]) :
    arrays[k][i] = arrays[k][j] /\ arrays[k][i] # Nil => i = j

Fresh ==
  \A a \in Attempts, k \in 1 .. Len(arrays) : \A i \in 1 .. Len(arrays[k]) :
    arrays[k][i] = a =>
      /\ pc[a] \notin {"idle", "watch"}
      /\ pc[a] = "store" => k = mine[a].array /\ i = mine[a].len

(* Who listens is in the slice.                                            *)
Sits == \A w \in Watchers : Listens(w) => Holds(stateChange, w)

(* An emission runs over a slice no longer than the present one.           *)
EmissionFits ==
  emit.state # "none" =>
    /\ emit \in [state : States, array : Nat, len : Nat, next : Nat]
    /\ emit.array \in 1 .. Len(arrays)
    /\ emit.len <= Len(arrays[emit.array]) /\ emit.next \in 1 .. emit.len
    /\ emit.array = stateChange.array => emit.len <= stateChange.len
    /\ \A a \in Attempts :
         pc[a] = "store" /\ emit.array = mine[a].array => emit.len < mine[a].len

Pending(w) ==
  emit.state # "none" /\ \E i \in emit.next .. emit.len : arrays[emit.array][i] = w

(* What a listener has still to read is in its channel, but for the state  *)
(* being emitted; nothing is there before a call listens.                  *)
Hears ==
  \A w \in Watchers :
    /\ Listens(w) => due[w] = IF Pending(w) THEN Append(chan[w], emit.state) ELSE chan[w]
    /\ w # Main /\ pc[w] \in {"idle", "watch", "store"} => due[w] = <<>> /\ chan[w] = <<>>

HearTypes ==
  /\ chan \in [Watchers -> Seq(States)] /\ due \in [Watchers -> Seq(States)]
  /\ events \in Seq(States)

PlaceInv == Distinct /\ Fresh /\ Sits
HearInv == HearTypes /\ PlaceInv /\ EmissionFits /\ Hears

(* All of it holds until two calls collide.                                *)
WatchInv == collided \in BOOLEAN /\ (~collided => SliceInv /\ HearInv)

-----------------------------------------------------------------------------
(* What writing one slot, adding an array and blanking slots do to the     *)
(* arrays.                                                                 *)
LEMMA Written ==
  ASSUME NEW T, NEW q \in Seq(T), NEW k \in 1 .. Len(q), NEW v \in T
  PROVE  /\ [q EXCEPT ![k] = v] \in Seq(T) /\ Len([q EXCEPT ![k] = v]) = Len(q)
         /\ \A n \in 1 .. Len(q) : [q EXCEPT ![k] = v][n] = IF n = k THEN v ELSE q[n]
  OBVIOUS

LEMMA Added ==
  ASSUME NEW T, NEW q \in Seq(T), NEW v \in T
  PROVE  /\ Append(q, v) \in Seq(T) /\ Len(Append(q, v)) = Len(q) + 1
         /\ Append(q, v)[Len(q) + 1] = v
         /\ \A n \in 1 .. Len(q) : Append(q, v)[n] = q[n]
  OBVIOUS

LEMMA Element ==
  ASSUME NEW T, NEW q \in Seq(T), NEW k \in 1 .. Len(q)
  PROVE  q[k] \in T
  OBVIOUS

LEMMA Blanked ==
  ASSUME NEW T, NEW q \in Seq(T), NEW l \in Nat, NEW v, NEW nil \in T, NEW r,
         r = [i \in DOMAIN q |-> IF q[i] = v /\ i <= l THEN nil ELSE q[i]]
  PROVE  /\ r \in Seq(T) /\ Len(r) = Len(q)
         /\ \A n \in 1 .. Len(q) : r[n] = IF q[n] = v /\ n <= l THEN nil ELSE q[n]
  OBVIOUS

LEMMA SlotWritten ==
  ASSUME SliceTypes, NEW k \in 1 .. Len(arrays), NEW i \in 1 .. Len(arrays[k]),
         NEW v \in Slots, arrays' = [arrays EXCEPT ![k][i] = v]
  PROVE  /\ arrays' \in Seq(Array) /\ Len(arrays') = Len(arrays)
         /\ \A n \in 1 .. Len(arrays) : Len(arrays'[n]) = Len(arrays[n])
         /\ \A n \in 1 .. Len(arrays) : \A j \in 1 .. Len(arrays[n]) :
              arrays'[n][j] = IF n = k /\ j = i THEN v ELSE arrays[n][j]
<1> DEFINE old == arrays[k]
<1> DEFINE b == [old EXCEPT ![i] = v]
<1>1. old \in Seq(Slots) /\ i \in 1 .. Len(old)
  BY Element DEF SliceTypes, Array
<1>2. arrays' = [arrays EXCEPT ![k] = b]
  OBVIOUS
<1> HIDE DEF old
<1>3. /\ b \in Seq(Slots) /\ Len(b) = Len(old)
      /\ \A j \in 1 .. Len(old) : b[j] = IF j = i THEN v ELSE old[j]
  BY <1>1, Written
<1>4. b \in Array
  BY <1>3 DEF Array
<1> HIDE DEF b
<1>5. arrays \in Seq(Array) /\ k \in 1 .. Len(arrays)
  BY DEF SliceTypes
<1>6. /\ arrays' \in Seq(Array) /\ Len(arrays') = Len(arrays)
      /\ \A n \in 1 .. Len(arrays) : arrays'[n] = IF n = k THEN b ELSE arrays[n]
  BY ONLY <1>2, <1>4, <1>5, Written
<1> QED
  BY <1>3, <1>6 DEF old

LEMMA SlotsBlanked ==
  ASSUME SliceTypes, NEW a \in Attempts, Unwatches(a)
  PROVE  /\ arrays' \in Seq(Array) /\ Len(arrays') = Len(arrays)
         /\ \A n \in 1 .. Len(arrays) : Len(arrays'[n]) = Len(arrays[n])
         /\ \A n \in 1 .. Len(arrays) : \A j \in 1 .. Len(arrays[n]) :
              arrays'[n][j] = IF n = stateChange.array /\ arrays[n][j] = a /\ j <= stateChange.len
                              THEN Nil ELSE arrays[n][j]
<1> DEFINE k == stateChange.array
<1> DEFINE l == stateChange.len
<1> DEFINE old == arrays[k]
<1> DEFINE b == [i \in DOMAIN old |-> IF old[i] = a /\ i <= l THEN Nil ELSE old[i]]
<1>1. /\ old \in Seq(Slots) /\ Nil \in Slots /\ l \in Nat
      /\ arrays \in Seq(Array) /\ k \in 1 .. Len(arrays)
  BY Element DEF SliceTypes, SliceFits, Slices, Array, Slots
<1>2. arrays' = [arrays EXCEPT ![k] = b]
  BY DEF Unwatches
<1> HIDE DEF old, l, k
<1>3. /\ b \in Seq(Slots) /\ Len(b) = Len(old)
      /\ \A j \in 1 .. Len(old) : b[j] = IF old[j] = a /\ j <= l THEN Nil ELSE old[j]
  BY ONLY <1>1, Blanked
<1>4. b \in Array
  BY <1>3 DEF Array
<1> HIDE DEF b
<1>5. /\ arrays' \in Seq(Array) /\ Len(arrays') = Len(arrays)
      /\ \A n \in 1 .. Len(arrays) : arrays'[n] = IF n = k THEN b ELSE arrays[n]
  BY ONLY <1>1, <1>2, <1>4, Written
<1> QED
  BY <1>3, <1>5 DEF old, k, l

(* What append leaves: the new slice is the old one and the new watcher;   *)
(* the arrays there were keep their slots, but for the one written.        *)
AppendedTo(a) ==
  LET s == stateChange
      m == mine'[a]
  IN /\ mine' \in [Attempts -> Slices] /\ arrays' \in Seq(Array)
     /\ \A b \in Attempts : b # a => mine'[b] = mine[b]
     /\ Len(arrays) \in Nat /\ Len(arrays') \in Nat /\ Len(arrays') >= Len(arrays)
     /\ Len(arrays') <= Len(arrays) + 1
     /\ m.array \in 1 .. Len(arrays') /\ m.len = s.len + 1
     /\ m.len \in 1 .. Len(arrays'[m.array])
     /\ IF m.array <= Len(arrays) THEN m.array = s.array /\ Len(arrays') = Len(arrays)
                                   ELSE m.array = Len(arrays')
     /\ \A n \in 1 .. Len(arrays) : Len(arrays'[n]) = Len(arrays[n])
     /\ \A n \in 1 .. Len(arrays) : \A j \in 1 .. Len(arrays[n]) :
          arrays'[n][j] = IF n = m.array /\ j = m.len THEN a ELSE arrays[n][j]
     /\ m.array > Len(arrays) => \A j \in 1 .. Len(arrays'[m.array]) :
          arrays'[m.array][j] = IF j <= s.len THEN arrays[s.array][j]
                                ELSE IF j = m.len THEN a ELSE Nil

LEMMA AppendAdds ==
  ASSUME SliceTypes, NEW a \in Attempts, Appended(a)
  PROVE  AppendedTo(a)
<1> DEFINE s == stateChange
<1> DEFINE old == arrays[s.array]
<1>1. /\ Len(arrays) \in Nat /\ s.array \in 1 .. Len(arrays)
      /\ Len(old) \in Nat /\ s.len \in 1 .. Len(old) /\ s \in Slices
      /\ old \in Seq(Slots) /\ arrays \in Seq(Array)
  BY Element DEF SliceTypes, SliceFits, Array
<1>2. s.array \in Nat /\ s.len \in Nat /\ a \in Slots /\ Nil \in Slots
  BY <1>1 DEF Slots, Watchers
<1>3. CASE s.len < Len(old)
  <2>1. /\ arrays' = [arrays EXCEPT ![s.array][s.len + 1] = a]
        /\ mine' = [mine EXCEPT ![a] = [array |-> s.array, len |-> s.len + 1]]
    BY <1>3 DEF Appended
  <2>2. s.len + 1 \in 1 .. Len(old)
    BY <1>1, <1>2, <1>3
  <2>3. /\ arrays' \in Seq(Array) /\ Len(arrays') = Len(arrays)
        /\ \A n \in 1 .. Len(arrays) : Len(arrays'[n]) = Len(arrays[n])
        /\ \A n \in 1 .. Len(arrays) : \A j \in 1 .. Len(arrays[n]) :
             arrays'[n][j] = IF n = s.array /\ j = s.len + 1 THEN a ELSE arrays[n][j]
    <3> DEFINE k == s.array
    <3> DEFINE i == s.len + 1
    <3>1. k \in 1 .. Len(arrays) /\ i \in 1 .. Len(arrays[k])
      BY <1>1, <2>2
    <3>2. arrays' = [arrays EXCEPT ![k][i] = a] /\ a \in Slots
      BY <1>2, <2>1
    <3> HIDE DEF k, i
    <3>3. /\ arrays' \in Seq(Array) /\ Len(arrays') = Len(arrays)
          /\ \A n \in 1 .. Len(arrays) : Len(arrays'[n]) = Len(arrays[n])
          /\ \A n \in 1 .. Len(arrays) : \A j \in 1 .. Len(arrays[n]) :
               arrays'[n][j] = IF n = k /\ j = i THEN a ELSE arrays[n][j]
      BY ONLY SliceTypes, <3>1, <3>2, SlotWritten
    <3> QED
      BY ONLY <3>3 DEF k, i
  <2>4. /\ mine' \in [Attempts -> Slices] /\ mine'[a] = [array |-> s.array, len |-> s.len + 1]
        /\ \A b \in Attempts : b # a => mine'[b] = mine[b]
    BY <1>2, <2>1 DEF SliceTypes, Slices
  <2>5. mine'[a].array = s.array /\ mine'[a].len = s.len + 1
    BY <2>4
  <2>6. /\ Len(arrays') \in Nat /\ mine'[a].array \in 1 .. Len(arrays')
        /\ mine'[a].array <= Len(arrays)
        /\ mine'[a].len \in 1 .. Len(arrays'[mine'[a].array])
    BY <1>1, <2>2, <2>3, <2>5
  <2>7. \A n \in 1 .. Len(arrays) : \A j \in 1 .. Len(arrays[n]) :
          arrays'[n][j] = IF n = mine'[a].array /\ j = mine'[a].len THEN a
                          ELSE arrays[n][j]
    BY <2>3, <2>5
  <2>8. ~(mine'[a].array > Len(arrays))
    BY <1>1, <2>5, <2>6
  <2> HIDE DEF old
  <2> QED
    BY <1>1, <2>3, <2>4, <2>5, <2>6, <2>7, <2>8 DEF AppendedTo
<1>4. CASE ~(s.len < Len(old))
  <2> DEFINE grown == [i \in 1 .. 2 * Len(old) |->
                         IF i <= s.len THEN old[i] ELSE IF i = s.len + 1 THEN a ELSE Nil]
  <2>1. /\ arrays' = Append(arrays, grown)
        /\ mine' = [mine EXCEPT ![a] = [array |-> Len(arrays) + 1, len |-> s.len + 1]]
    BY <1>4 DEF Appended
  <2>2. 2 * Len(old) \in Nat /\ s.len + 1 \in 1 .. 2 * Len(old)
    BY <1>1, <1>2, <1>4
  <2>3. \A i \in 1 .. s.len : old[i] \in Slots
    BY <1>1, <1>2, Element
  <2>4. grown \in [1 .. 2 * Len(old) -> Slots]
    BY <1>2, <2>2, <2>3
  <2>5. \A i \in 1 .. 2 * Len(old) :
          grown[i] = IF i <= s.len THEN old[i] ELSE IF i = s.len + 1 THEN a ELSE Nil
    OBVIOUS
  <2> HIDE DEF grown
  <2>6. grown \in Array /\ Len(grown) = 2 * Len(old)
    BY <2>2, <2>4 DEF Array
  <2>7. /\ arrays' \in Seq(Array) /\ Len(arrays') = Len(arrays) + 1
        /\ arrays'[Len(arrays) + 1] = grown
        /\ \A n \in 1 .. Len(arrays) : arrays'[n] = arrays[n]
    BY ONLY <1>1, <2>1, <2>6, Added
  <2>8. /\ mine' \in [Attempts -> Slices]
        /\ mine'[a] = [array |-> Len(arrays) + 1, len |-> s.len + 1]
        /\ \A b \in Attempts : b # a => mine'[b] = mine[b]
    BY <1>1, <1>2, <2>1 DEF SliceTypes, Slices
  <2>9. mine'[a].array = Len(arrays) + 1 /\ mine'[a].len = s.len + 1
    BY <2>8
  <2>10. /\ Len(arrays'[mine'[a].array]) = 2 * Len(old)
         /\ \A j \in 1 .. 2 * Len(old) :
              arrays'[mine'[a].array][j] = IF j <= s.len THEN old[j]
                                           ELSE IF j = mine'[a].len THEN a ELSE Nil
    <3>1. arrays'[mine'[a].array] = grown /\ mine'[a].len = s.len + 1
      BY <2>7, <2>9
    <3> HIDE DEF old, s
    <3> QED
      BY <2>5, <2>6, <3>1
  <2>11. \A n \in 1 .. Len(arrays) : n # mine'[a].array
    BY <1>1, <2>9
  <2>12. \A n \in 1 .. Len(arrays) : \A j \in 1 .. Len(arrays[n]) :
           arrays'[n][j] = IF n = mine'[a].array /\ j = mine'[a].len THEN a
                           ELSE arrays[n][j]
    BY <2>7, <2>11
  <2>13. /\ Len(arrays') \in Nat /\ mine'[a].array = Len(arrays')
         /\ mine'[a].array \in 1 .. Len(arrays') /\ ~(mine'[a].array <= Len(arrays))
    BY <1>1, <2>7, <2>9
  <2>14. mine'[a].len \in 1 .. Len(arrays'[mine'[a].array])
    BY <2>2, <2>9, <2>10
  <2>15. \A n \in 1 .. Len(arrays) : Len(arrays'[n]) = Len(arrays[n])
    BY <2>7
  <2>16. \A j \in 1 .. Len(arrays'[mine'[a].array]) :
           arrays'[mine'[a].array][j] = IF j <= s.len THEN arrays[s.array][j]
                                        ELSE IF j = mine'[a].len THEN a ELSE Nil
    BY <2>10
  <2>17. Len(arrays') >= Len(arrays) /\ Len(arrays') <= Len(arrays) + 1
    BY <1>1, <2>7
  <2> HIDE DEF old
  <2> QED
    BY <1>1, <2>7, <2>8, <2>9, <2>12, <2>13, <2>14, <2>15, <2>16, <2>17
       DEF AppendedTo
<1> QED
  BY <1>3, <1>4

-----------------------------------------------------------------------------
(* The slice.  A call moves, the others stay where they are.               *)
LEMMA Moves ==
  ASSUME SliceTypes, NEW a \in Attempts, NEW from, NEW to \in Places, Goes(a, from, to)
  PROVE  /\ pc[a] = from /\ pc'[a] = to /\ pc' \in [Attempts -> Places]
         /\ \A b \in Attempts : b # a => pc'[b] = pc[b]
  BY DEF Goes, SliceTypes

LEMMA BeginsSlice ==
  ASSUME SliceInv, NEW a \in Attempts, Begins(a)
  PROVE  SliceInv'
<1>1. UNCHANGED <<arrays, stateChange, mine>>
  BY DEF Begins, sliceVars
<1>2. /\ pc[a] = "idle" /\ pc'[a] = "watch" /\ pc' \in [Attempts -> Places]
      /\ \A b \in Attempts : b # a => pc'[b] = pc[b]
  BY Moves DEF Begins, SliceInv, Places
<1>3. SliceTypes'
  BY <1>1, <1>2 DEF SliceInv, SliceTypes, SliceFits
<1>4. OneJoins'
  BY <1>1, <1>2 DEF SliceInv, OneJoins, SliceFits
<1>5. Members'
  BY <1>1, <1>2 DEF SliceInv, Members, Holds
<1> QED
  BY <1>3, <1>4, <1>5 DEF SliceInv

(* A call is served: it selects its network, or reads its channel.         *)
Serves(a) ==
  /\ pc[a] \in {"select", "wait"}
  /\ pc' = [pc EXCEPT ![a] = "wait"] \/ pc' = [pc EXCEPT ![a] = "unwatch"]
  /\ UNCHANGED <<arrays, stateChange, mine>>

LEMMA ServesSlice ==
  ASSUME SliceInv, NEW a \in Attempts, Serves(a)
  PROVE  SliceInv'
<1>1. UNCHANGED <<arrays, stateChange, mine>>
  BY DEF Serves
<1>2. /\ pc[a] \in {"select", "wait"} /\ pc'[a] \in {"wait", "unwatch"}
      /\ pc' \in [Attempts -> Places]
      /\ \A b \in Attempts : b # a => pc'[b] = pc[b]
  BY DEF Serves, SliceInv, SliceTypes, Places
<1>3. SliceTypes'
  BY <1>1, <1>2 DEF SliceInv, SliceTypes, SliceFits
<1>4. OneJoins'
  BY <1>1, <1>2 DEF SliceInv, OneJoins, SliceFits
<1>5. Members'
  BY <1>1, <1>2 DEF SliceInv, Members, Holds
<1> QED
  BY <1>3, <1>4, <1>5 DEF SliceInv

LEMMA WatchesSlice ==
  ASSUME SliceInv, NEW a \in Attempts, Watches(a), ~collided'
  PROVE  SliceInv'
<1>1. /\ pc[a] = "watch" /\ pc'[a] = "store" /\ pc' \in [Attempts -> Places]
      /\ \A b \in Attempts : b # a => pc'[b] = pc[b]
  BY Moves DEF Watches, SliceInv, Places
<1>2. AppendedTo(a) /\ stateChange' = stateChange
  BY AppendAdds DEF Watches, SliceInv
<1>3. \A b \in Attempts : pc'[b] = "store" => b = a
  BY <1>1 DEF Watches, Collides
<1>4. stateChange \in Slices /\ stateChange.array \in 1 .. Len(arrays)
      /\ stateChange.len \in 1 .. Len(arrays[stateChange.array])
  BY DEF SliceInv, SliceTypes, SliceFits
<1>5. \A i \in 1 .. stateChange.len :
        /\ arrays'[stateChange.array][i] = arrays[stateChange.array][i]
        /\ arrays'[mine'[a].array][i] = arrays[stateChange.array][i]
  <2> TAKE i \in 1 .. stateChange.len
  <2>1. i \in 1 .. Len(arrays[stateChange.array]) /\ i # stateChange.len + 1 /\ i <= stateChange.len
    BY <1>4 DEF SliceInv, SliceTypes, SliceFits, Slices
  <2>2. arrays'[stateChange.array][i] = arrays[stateChange.array][i]
    BY <1>2, <1>4, <2>1 DEF AppendedTo
  <2>3. arrays'[mine'[a].array][i] = arrays[stateChange.array][i]
    <3>1. CASE mine'[a].array <= Len(arrays)
      BY <1>2, <2>2, <3>1 DEF AppendedTo
    <3>2. CASE mine'[a].array > Len(arrays)
      <4>1. i \in 1 .. Len(arrays'[mine'[a].array])
        BY <1>2, <1>4, <2>1 DEF AppendedTo, Slices
      <4> QED
        BY <1>2, <2>1, <3>2, <4>1 DEF AppendedTo
    <3> QED
      BY <1>2, <3>1, <3>2 DEF AppendedTo
  <2> QED
    BY <2>2, <2>3
<1>6. arrays'[mine'[a].array][mine'[a].len] = a
  BY <1>2, <1>4 DEF AppendedTo, Slices
<1>7. SliceFits(stateChange)' /\ SliceFits(mine[a])'
  BY <1>2, <1>4 DEF AppendedTo, SliceFits, Slices
<1>8. SliceTypes'
  BY <1>1, <1>2, <1>7 DEF AppendedTo, SliceTypes
<1>9. OneJoins'
  BY <1>2, <1>3, <1>5, <1>6, <1>7 DEF AppendedTo, OneJoins
<1>10. Members'
  BY <1>1, <1>2, <1>5 DEF SliceInv, Members, Holds
<1> QED
  BY <1>8, <1>9, <1>10 DEF SliceInv

LEMMA StoresSlice ==
  ASSUME SliceInv, NEW a \in Attempts, Stores(a)
  PROVE  SliceInv'
<1>1. /\ pc[a] = "store" /\ pc'[a] = "select" /\ pc' \in [Attempts -> Places]
      /\ \A b \in Attempts : b # a => pc'[b] = pc[b]
  BY Moves DEF Stores, SliceInv, Places
<1>2. stateChange' = mine[a] /\ UNCHANGED <<arrays, mine>>
  BY DEF Stores
<1>3. \A b \in Attempts : pc'[b] # "store"
  BY <1>1 DEF SliceInv, OneJoins
<1>4. SliceTypes'
  BY <1>1, <1>2 DEF SliceInv, SliceTypes, OneJoins, SliceFits
<1>5. \A i \in 1 .. mine[a].len :
        arrays[mine[a].array][i] = a \/ Holds(stateChange, arrays[mine[a].array][i])
  <2> TAKE i \in 1 .. mine[a].len
  <2>1. stateChange.len \in Nat /\ mine[a].len = stateChange.len + 1
    BY <1>1 DEF SliceInv, SliceTypes, SliceFits, Slices, OneJoins
  <2>2. i = mine[a].len \/ i \in 1 .. stateChange.len
    BY <2>1
  <2> QED
    BY <1>1, <2>2 DEF SliceInv, OneJoins, Holds
<1>6. Members'
  BY <1>1, <1>2, <1>5 DEF SliceInv, Members, Holds
<1> QED
  BY <1>3, <1>4, <1>6 DEF SliceInv, OneJoins

LEMMA UnwatchesSlice ==
  ASSUME SliceInv, NEW a \in Attempts, Unwatches(a), ~collided'
  PROVE  SliceInv'
<1> DEFINE s == stateChange
<1>1. /\ pc[a] = "unwatch" /\ pc'[a] = "done" /\ pc' \in [Attempts -> Places]
      /\ \A b \in Attempts : b # a => pc'[b] = pc[b]
  BY Moves DEF Unwatches, SliceInv, Places
<1>2. s \in Slices /\ s.array \in 1 .. Len(arrays) /\ s.len \in 1 .. Len(arrays[s.array])
  BY DEF SliceInv, SliceTypes, SliceFits
<1>3. UNCHANGED <<stateChange, mine>> /\ s.len \in Nat
  BY <1>2 DEF Unwatches, Slices
<1>4. /\ arrays' \in Seq(Array) /\ Len(arrays') = Len(arrays)
      /\ \A n \in 1 .. Len(arrays) : Len(arrays'[n]) = Len(arrays[n])
      /\ \A n \in 1 .. Len(arrays) : \A j \in 1 .. Len(arrays[n]) :
           arrays'[n][j] = IF n = s.array /\ arrays[n][j] = a /\ j <= s.len THEN Nil
                           ELSE arrays[n][j]
  BY SlotsBlanked DEF SliceInv
<1>5. \A b \in Attempts : pc'[b] # "store"
  BY <1>1 DEF Unwatches, Collides
<1>6. SliceTypes'
  BY <1>1, <1>2, <1>3, <1>4 DEF SliceInv, SliceTypes, SliceFits
<1>7. \A i \in 1 .. s.len :
        arrays'[s.array][i] = IF arrays[s.array][i] = a THEN Nil ELSE arrays[s.array][i]
  <2> TAKE i \in 1 .. s.len
  <2>1. i \in 1 .. Len(arrays[s.array]) /\ i <= s.len
    BY <1>2, <1>3
  <2> HIDE DEF s
  <2> QED
    BY <1>2, <1>4, <2>1
<1>8. a # Nil /\ \A b \in Attempts : b # Nil
  BY WifiAssumption
<1>9. \A i \in 1 .. s.len : arrays'[s.array][i] # a
  BY <1>7, <1>8
<1>10. \A b \in Attempts, i \in 1 .. s.len :
        arrays'[s.array][i] = b => arrays[s.array][i] = b
  BY <1>7, <1>8
<1>11. Members'
  BY <1>1, <1>3, <1>9, <1>10 DEF SliceInv, Members, Holds
<1> QED
  BY <1>5, <1>6, <1>11 DEF SliceInv, OneJoins

(* What leaves the slice and the calls alone leaves the invariant alone.   *)
LEMMA OthersSlice ==
  ASSUME SliceInv, UNCHANGED <<arrays, stateChange, mine, pc>>
  PROVE  SliceInv'
<1>1. SliceTypes'
  BY DEF SliceInv, SliceTypes, SliceFits
<1>2. OneJoins'
  BY DEF SliceInv, OneJoins, SliceFits
<1>3. Members'
  BY DEF SliceInv, Members, Holds
<1> QED
  BY <1>1, <1>2, <1>3 DEF SliceInv

LEMMA InitSlice == Init => SliceInv
<1> SUFFICES ASSUME Init PROVE SliceInv
  OBVIOUS
<1>1. <<Main>> \in Array /\ Len(<<Main>>) = 1 /\ <<Main>>[1] = Main
  BY DEF Array, Slots, Watchers
<1>2. arrays \in Seq(Array) /\ Len(arrays) = 1 /\ arrays[1] = <<Main>>
  BY <1>1 DEF Init
<1>3. /\ stateChange = [array |-> 1, len |-> 1] /\ stateChange \in Slices
      /\ stateChange.array = 1 /\ stateChange.len = 1
  BY DEF Init, Slices
<1>4. mine \in [Attempts -> Slices] /\ pc \in [Attempts -> Places]
  BY DEF Init, Slices, Places
<1>5. \A a \in Attempts : pc[a] = "idle"
  BY DEF Init
<1>6. SliceTypes
  <2>1. arrays[stateChange.array] = <<Main>>
    BY <1>2, <1>3
  <2>2. SliceFits(stateChange)
    BY <1>1, <1>2, <1>3, <2>1 DEF SliceFits
  <2> QED
    BY <1>2, <1>4, <2>2 DEF SliceTypes
<1>7. Members
  BY <1>1, <1>2, <1>3, WifiAssumption DEF Members, Holds
<1> QED
  BY <1>5, <1>6, <1>7 DEF SliceInv, OneJoins

(* The steps, sorted by what they do to the slice and to the calls.        *)
LEMMA StepKinds ==
  ASSUME [Next]_vars
  PROVE  \/ \E a \in Attempts : Begins(a) \/ Watches(a) \/ Stores(a) \/ Serves(a) \/ Unwatches(a)
         \/ UNCHANGED <<arrays, stateChange, mine, pc>>
<1> USE DEF sliceVars
<1>1. ASSUME NEW a \in Attempts,
             Selects(a) \/ ReadsConnected(a) \/ ReadsInvalidKey(a) \/ ReadsDisconnected(a)
      PROVE  Serves(a)
  BY <1>1 DEF Selects, ReadsConnected, ReadsInvalidKey, ReadsDisconnected, Goes, Serves
<1>2. ASSUME EventTaken \/ Emits \/ MainConnected \/ MainRegisters \/ MainOther
             \/ AppAcknowledges \/ CallsBack \/ Associates \/ KeyRefused \/ LinkLost
      PROVE  UNCHANGED <<arrays, stateChange, mine, pc>>
  BY <1>2 DEF EventTaken, Emits, MainConnected, MainRegisters, MainOther, AppAcknowledges,
     CallsBack, Associates, KeyRefused, LinkLost, Event
<1>3. CASE UNCHANGED vars
  BY <1>3 DEF vars
<1> QED
  BY <1>1, <1>2, <1>3 DEF Next

LEMMA NextSlice == SliceInv /\ [Next]_vars /\ ~collided' => SliceInv'
  BY StepKinds, BeginsSlice, WatchesSlice, StoresSlice, ServesSlice, UnwatchesSlice, OthersSlice

(* Once two calls have collided, they have.                                *)
LEMMA CollisionStays ==
  collided \in BOOLEAN /\ [Next]_vars => collided' \in BOOLEAN /\ (collided => collided')
<1> SUFFICES ASSUME collided \in BOOLEAN, [Next]_vars
             PROVE  collided' \in BOOLEAN /\ (collided => collided')
  OBVIOUS
<1> USE DEF sliceVars
<1>1. ASSUME NEW a \in Attempts, Watches(a) \/ Unwatches(a)
      PROVE  collided' \in BOOLEAN /\ (collided => collided')
  BY <1>1 DEF Watches, Unwatches, Collides
<1>2. ASSUME NEW a \in Attempts,
             \/ Begins(a) \/ Stores(a) \/ Selects(a)
             \/ ReadsConnected(a) \/ ReadsInvalidKey(a) \/ ReadsDisconnected(a)
      PROVE  collided' = collided
  BY <1>2 DEF Begins, Stores, Selects, ReadsConnected, ReadsInvalidKey, ReadsDisconnected
<1>3. ASSUME EventTaken \/ Emits \/ MainConnected \/ MainRegisters \/ MainOther
             \/ AppAcknowledges \/ CallsBack \/ Associates \/ KeyRefused \/ LinkLost
      PROVE  collided' = collided
  BY <1>3 DEF EventTaken, Emits, MainConnected, MainRegisters, MainOther, AppAcknowledges,
     CallsBack, Associates, KeyRefused, LinkLost, Event
<1>4. CASE UNCHANGED vars
  BY <1>4 DEF vars
<1> QED
  BY <1>1, <1>2, <1>3, <1>4 DEF Next

(* However many clients give credentials, a channel that nobody reads any  *)
(* more is never left in stateChange, as long as no two calls collide.     *)
THEOREM NoOrphans == Spec => []NoOrphanWatcher
<1> DEFINE Inv == collided \in BOOLEAN /\ (~collided => SliceInv)
<1>1. Init => Inv
  BY InitSlice DEF Init
<1>2. Inv /\ [Next]_vars => Inv'
  BY NextSlice, CollisionStays
<1>3. Inv => NoOrphanWatcher
  BY DEF SliceInv, Members, Holds, NoOrphanWatcher, Elements
<1> QED
  BY <1>1, <1>2, <1>3, PTL DEF Spec

-----------------------------------------------------------------------------
(* The acknowledgement.  From a call's start on, ackPending is set unless  *)
(* the app has acknowledged, be it too early, or a call has failed.        *)
Awaited ==
  acked # "no" \/ ackPending \/ (\E a \in Attempts : result[a] = "failure")
                \/ \A a \in Attempts : pc[a] = "idle" /\ result[a] = "none"

AckInv ==
  /\ pc \in [Attempts -> Places]
  /\ result \in [Attempts -> {"none", "success", "failure"}]
  /\ \A a \in Attempts : pc[a] \notin {"unwatch", "done"} => result[a] = "none"
  /\ ackPending \in BOOLEAN /\ acked \in {"no", "early", "yes"}
  /\ acker = "callback" => acked # "no"
  /\ Awaited
  /\ ExitAfterAck

LEMMA NextAck == AckInv /\ [Next]_vars => AckInv'
<1> SUFFICES ASSUME AckInv, [Next]_vars PROVE AckInv'
  OBVIOUS
<1> USE DEF AckInv, Awaited, ExitAfterAck, Goes, Running, Places, ackVars
<1>1. ASSUME NEW a \in Attempts, Begins(a) PROVE AckInv'
  BY <1>1 DEF Begins
<1>2. ASSUME NEW a \in Attempts, Watches(a) \/ Stores(a) \/ Selects(a) \/ Unwatches(a)
      PROVE  AckInv'
  <2>1. UNCHANGED <<ackPending, onAck, main, acker, acked, result>> /\ main # "exited"
    BY <1>2 DEF Watches, Stores, Selects, Unwatches
  <2>2. pc[a] # "idle" /\ pc' \in [Attempts -> Places]
    BY <1>2 DEF Watches, Stores, Selects, Unwatches
  <2>3. \A b \in Attempts : pc'[b] \notin {"unwatch", "done"} => pc[b] \notin {"unwatch", "done"}
    BY <1>2 DEF Watches, Stores, Selects, Unwatches
  <2> QED
    BY <2>1, <2>2, <2>3
<1>3. ASSUME NEW a \in Attempts, ReadsConnected(a) \/ ReadsDisconnected(a)
      PROVE  AckInv'
  <2>1. UNCHANGED <<ackPending, onAck, main, acker, acked>> /\ main # "exited"
    BY <1>3 DEF ReadsConnected, ReadsDisconnected
  <2>2. /\ pc[a] # "idle" /\ pc' \in [Attempts -> Places]
        /\ result' \in [Attempts -> {"none", "success", "failure"}]
    BY <1>3 DEF ReadsConnected, ReadsDisconnected
  <2>3. \A b \in Attempts : result[b] = "failure" => result'[b] = "failure"
    BY <1>3 DEF ReadsConnected, ReadsDisconnected
  <2>4. \A b \in Attempts : pc'[b] \notin {"unwatch", "done"} => result'[b] = "none"
    BY <1>3 DEF ReadsConnected, ReadsDisconnected
  <2> QED
    BY <2>1, <2>2, <2>3, <2>4
<1>4. ASSUME NEW a \in Attempts, ReadsInvalidKey(a) PROVE AckInv'
  BY <1>4 DEF ReadsInvalidKey
<1>5. ASSUME MainConnected \/ MainRegisters \/ MainOther PROVE AckInv'
  BY <1>5 DEF MainConnected, MainRegisters, MainOther
<1>6. CASE AppAcknowledges
  <2>1. acked' \in {"no", "early", "yes"} /\ (acked # "no" \/ ackPending => acked' # "no")
    BY <1>6 DEF AppAcknowledges
  <2>2. /\ UNCHANGED <<pc, result, main>> /\ ackPending' = FALSE
        /\ acker' = IF ackPending THEN "callback" ELSE "idle"
    BY <1>6 DEF AppAcknowledges
  <2> QED
    BY <1>6, <2>1, <2>2 DEF AppAcknowledges
<1>9. CASE CallsBack
  BY <1>9 DEF CallsBack
<1>7. ASSUME EventTaken \/ Emits \/ Associates \/ KeyRefused \/ LinkLost PROVE AckInv'
  BY <1>7 DEF EventTaken, Emits, Associates, KeyRefused, LinkLost, Event
<1>8. CASE UNCHANGED vars
  BY <1>8 DEF vars
<1> QED
  BY <1>1, <1>2, <1>3, <1>4, <1>5, <1>6, <1>7, <1>8, <1>9 DEF Next

(* However many clients give credentials, in factory-reset mode the        *)
(* process does not exit after a success before the app has acknowledged,  *)
(* unless another call has failed or a client has acknowledged too early.  *)
THEOREM ExitsAfterAck == Spec => []ExitAfterAck
<1>1. Init => AckInv
  BY DEF Init, AckInv, Awaited, ExitAfterAck, Places
<1>2. AckInv => ExitAfterAck
  BY DEF AckInv
<1> QED
  BY <1>1, <1>2, NextAck, PTL DEF Spec

-----------------------------------------------------------------------------
(* Where the watchers are in the arrays.                                   *)
LEMMA BeginsPlace ==
  ASSUME SliceInv, PlaceInv, NEW a \in Attempts, Begins(a)
  PROVE  PlaceInv'
<1>1. UNCHANGED <<arrays, stateChange, mine>>
  BY DEF Begins, sliceVars
<1>2. /\ pc[a] = "idle" /\ pc'[a] = "watch"
      /\ \A b \in Attempts : b # a => pc'[b] = pc[b]
  BY Moves DEF Begins, SliceInv, Places
<1>3. Distinct'
  BY <1>1 DEF PlaceInv, Distinct
<1>4. Fresh'
  BY <1>1, <1>2 DEF PlaceInv, Fresh
<1>5. Sits'
  BY <1>1, <1>2 DEF PlaceInv, Sits, Listens, Holds, Watchers
<1> QED
  BY <1>3, <1>4, <1>5 DEF PlaceInv

LEMMA ServesPlace ==
  ASSUME SliceInv, PlaceInv, NEW a \in Attempts, Serves(a)
  PROVE  PlaceInv'
<1>1. UNCHANGED <<arrays, stateChange, mine>>
  BY DEF Serves
<1>2. /\ pc[a] \in {"select", "wait"} /\ pc'[a] \in {"wait", "unwatch"}
      /\ \A b \in Attempts : b # a => pc'[b] = pc[b]
  BY DEF Serves, SliceInv, SliceTypes, Places
<1>3. Distinct'
  BY <1>1 DEF PlaceInv, Distinct
<1>4. Fresh'
  BY <1>1, <1>2 DEF PlaceInv, Fresh
<1>5. Sits'
  BY <1>1, <1>2 DEF PlaceInv, Sits, Listens, Holds, Watchers
<1> QED
  BY <1>3, <1>4, <1>5 DEF PlaceInv

LEMMA WatchesPlace ==
  ASSUME SliceInv, PlaceInv, NEW a \in Attempts, Watches(a), ~collided'
  PROVE  PlaceInv'
<1> DEFINE s == stateChange
<1> DEFINE m == mine'[a]
<1>1. /\ pc[a] = "watch" /\ pc'[a] = "store"
      /\ \A b \in Attempts : b # a => pc'[b] = pc[b]
  BY Moves DEF Watches, SliceInv, Places
<1>2. AppendedTo(a) /\ stateChange' = stateChange
  BY AppendAdds DEF Watches, SliceInv
<1>3. /\ s \in Slices /\ s.array \in 1 .. Len(arrays) /\ s.len \in 1 .. Len(arrays[s.array])
      /\ Len(arrays[s.array]) \in Nat
  BY Element DEF SliceInv, SliceTypes, SliceFits, Array
<1>4. \A b \in Attempts : pc[b] # "store"
  BY <1>1 DEF Watches, Collides
<1>5. \A n \in 1 .. Len(arrays) : \A j \in 1 .. Len(arrays[n]) : arrays[n][j] # a
  BY <1>1 DEF PlaceInv, Fresh
<1>6. a # Nil
  BY WifiAssumption
  (* A slot of the new arrays holds the new watcher, nothing, or what the  *)
  (* same slot held in the array it was, or was copied from.               *)
<1> DEFINE from(n) == IF n \in 1 .. Len(arrays) THEN n ELSE s.array
<1>7. ASSUME NEW n \in 1 .. Len(arrays'), NEW j \in 1 .. Len(arrays'[n])
      PROVE  \/ n = m.array /\ j = m.len /\ arrays'[n][j] = a
             \/ arrays'[n][j] = Nil
             \/ /\ from(n) \in 1 .. Len(arrays) /\ j \in 1 .. Len(arrays[from(n)])
                /\ arrays'[n][j] = arrays[from(n)][j]
  <2>1. CASE n \in 1 .. Len(arrays)
    BY <1>2, <2>1 DEF AppendedTo
  <2>2. CASE n \notin 1 .. Len(arrays)
    <3>1. m.array > Len(arrays) /\ n = m.array
      BY <1>2, <2>2 DEF AppendedTo
    <3>2. arrays'[n][j] = IF j <= s.len THEN arrays[s.array][j]
                          ELSE IF j = m.len THEN a ELSE Nil
      BY <1>2, <3>1 DEF AppendedTo
    <3>3. j <= s.len => j \in 1 .. Len(arrays[s.array])
      BY <1>3 DEF Slices
    <3> QED
      BY <1>3, <2>2, <3>1, <3>2, <3>3
  <2> QED
    BY <2>1, <2>2
<1> HIDE DEF from
<1>8. Distinct'
  <2> SUFFICES ASSUME NEW n \in 1 .. Len(arrays'), NEW i \in 1 .. Len(arrays'[n]),
                      NEW j \in 1 .. Len(arrays'[n]),
                      arrays'[n][i] = arrays'[n][j], arrays'[n][i] # Nil
               PROVE  i = j
    BY DEF Distinct
  <2>1. CASE arrays'[n][i] = a
    BY <1>5, <1>7, <2>1, <1>6
  <2>2. CASE arrays'[n][i] # a
    <3>1. /\ from(n) \in 1 .. Len(arrays)
          /\ i \in 1 .. Len(arrays[from(n)]) /\ j \in 1 .. Len(arrays[from(n)])
          /\ arrays[from(n)][i] = arrays[from(n)][j] /\ arrays[from(n)][i] # Nil
      BY <1>7, <2>2
    <3> QED
      BY <3>1 DEF PlaceInv, Distinct
  <2> QED
    BY <2>1, <2>2
<1>9. Fresh'
  <2> SUFFICES ASSUME NEW b \in Attempts, NEW n \in 1 .. Len(arrays'),
                      NEW j \in 1 .. Len(arrays'[n]), arrays'[n][j] = b
               PROVE  /\ pc'[b] \notin {"idle", "watch"}
                      /\ pc'[b] = "store" => n = mine'[b].array /\ j = mine'[b].len
    BY DEF Fresh
  <2>1. b # Nil
    BY WifiAssumption
  <2>2. CASE b = a
    <3>1. n = m.array /\ j = m.len
      BY <1>5, <1>7, <2>1, <2>2
    <3> QED
      BY <1>1, <2>2, <3>1
  <2>3. CASE b # a
    <3>1. /\ from(n) \in 1 .. Len(arrays) /\ j \in 1 .. Len(arrays[from(n)])
          /\ arrays[from(n)][j] = b
      BY <1>7, <2>1, <2>3
    <3> QED
      BY <1>1, <1>4, <2>3, <3>1 DEF PlaceInv, Fresh
  <2> QED
    BY <2>2, <2>3
<1>10. \A i \in 1 .. s.len : arrays'[s.array][i] = arrays[s.array][i]
  <2> TAKE i \in 1 .. s.len
  <2>1. i \in 1 .. Len(arrays[s.array]) /\ i # s.len + 1
    BY <1>3 DEF Slices
  <2> QED
    BY <1>2, <1>3, <2>1 DEF AppendedTo
<1>11. Sits'
  BY <1>1, <1>2, <1>10 DEF PlaceInv, Sits, Listens, Holds, Watchers
<1> QED
  BY <1>8, <1>9, <1>11 DEF PlaceInv

LEMMA StoresPlace ==
  ASSUME SliceInv, PlaceInv, NEW a \in Attempts, Stores(a)
  PROVE  PlaceInv'
<1>1. /\ pc[a] = "store" /\ pc'[a] = "select"
      /\ \A b \in Attempts : b # a => pc'[b] = pc[b]
  BY Moves DEF Stores, SliceInv, Places
<1>2. stateChange' = mine[a] /\ UNCHANGED <<arrays, mine>>
  BY DEF Stores
<1>3. Distinct'
  BY <1>2 DEF PlaceInv, Distinct
<1>4. Fresh'
  BY <1>1, <1>2 DEF PlaceInv, Fresh
<1>5. /\ mine[a].len \in Nat /\ mine[a].len = stateChange.len + 1 /\ stateChange.len \in Nat
      /\ arrays[mine[a].array][mine[a].len] = a
      /\ \A i \in 1 .. stateChange.len :
           arrays[mine[a].array][i] = arrays[stateChange.array][i]
  BY <1>1 DEF SliceInv, OneJoins, SliceTypes, SliceFits, Slices
<1>6. \A w \in Watchers : Holds(stateChange, w) \/ w = a => Holds(mine[a], w)
  BY <1>5 DEF Holds
<1>7. Sits'
  BY <1>1, <1>2, <1>6 DEF PlaceInv, Sits, Listens, Holds, Watchers
<1> QED
  BY <1>3, <1>4, <1>7 DEF PlaceInv

LEMMA UnwatchesPlace ==
  ASSUME SliceInv, PlaceInv, NEW a \in Attempts, Unwatches(a)
  PROVE  PlaceInv'
<1>1. /\ pc[a] = "unwatch" /\ pc'[a] = "done"
      /\ \A b \in Attempts : b # a => pc'[b] = pc[b]
  BY Moves DEF Unwatches, SliceInv, Places
<1>2. /\ Len(arrays') = Len(arrays)
      /\ \A n \in 1 .. Len(arrays) : Len(arrays'[n]) = Len(arrays[n])
      /\ \A n \in 1 .. Len(arrays) : \A j \in 1 .. Len(arrays[n]) :
           /\ arrays'[n][j] = arrays[n][j] \/ arrays'[n][j] = Nil
           /\ arrays[n][j] # a => arrays'[n][j] = arrays[n][j]
  BY SlotsBlanked DEF SliceInv
<1>3. UNCHANGED <<stateChange, mine>>
  BY DEF Unwatches
<1>4. /\ stateChange.array \in 1 .. Len(arrays)
      /\ \A i \in 1 .. stateChange.len : i \in 1 .. Len(arrays[stateChange.array])
  BY Element DEF SliceInv, SliceTypes, SliceFits, Slices, Array
<1>5. Distinct'
  BY <1>2 DEF PlaceInv, Distinct
<1>6. Fresh'
  BY <1>1, <1>2, <1>3, WifiAssumption DEF PlaceInv, Fresh
<1>7. \A w \in Watchers : w # a /\ Holds(stateChange, w) => Holds(stateChange, w)'
  BY <1>2, <1>3, <1>4 DEF Holds
<1>8. Sits'
  BY <1>1, <1>3, <1>7, WifiAssumption DEF PlaceInv, Sits, Listens, Watchers
<1> QED
  BY <1>5, <1>6, <1>8 DEF PlaceInv

LEMMA OthersPlace ==
  ASSUME PlaceInv, UNCHANGED <<arrays, stateChange, mine, pc>>
  PROVE  PlaceInv'
<1>1. Distinct'
  BY DEF PlaceInv, Distinct
<1>2. Fresh'
  BY DEF PlaceInv, Fresh
<1>3. Sits'
  BY DEF PlaceInv, Sits, Listens, Holds
<1> QED
  BY <1>1, <1>2, <1>3 DEF PlaceInv

-----------------------------------------------------------------------------
(* The emission, while the calls come and go.                              *)
StillFits == UNCHANGED emit /\ EmissionFits'

LEMMA SameSliceFits ==
  ASSUME EmissionFits, UNCHANGED <<arrays, stateChange, mine, emit>>,
         \A a \in Attempts : pc'[a] = "store" => pc[a] = "store"
  PROVE  StillFits
  BY DEF EmissionFits, StillFits

LEMMA WatchesFits ==
  ASSUME SliceInv, EmissionFits, NEW a \in Attempts, Watches(a), ~collided'
  PROVE  /\ StillFits
         /\ emit.state # "none" => \A i \in emit.next .. emit.len :
              arrays'[emit.array][i] = arrays[emit.array][i]
<1>1. /\ pc[a] = "watch" /\ pc'[a] = "store"
      /\ \A b \in Attempts : b # a => pc'[b] = pc[b]
  BY Moves DEF Watches, SliceInv, Places
<1>2. AppendedTo(a) /\ stateChange' = stateChange /\ emit' = emit
  BY AppendAdds DEF Watches, SliceInv
<1>3. /\ stateChange \in Slices /\ stateChange.array \in 1 .. Len(arrays)
      /\ stateChange.len \in Nat /\ stateChange.array \in Nat
  BY DEF SliceInv, SliceTypes, SliceFits, Slices
<1>4. \A b \in Attempts : pc[b] # "store"
  BY <1>1 DEF Watches, Collides
<1>5. CASE emit.state = "none"
  BY <1>2, <1>5 DEF StillFits, EmissionFits
<1>6. CASE emit.state # "none"
  <2>1. /\ emit \in [state : States, array : Nat, len : Nat, next : Nat]
        /\ emit.array \in 1 .. Len(arrays)
        /\ emit.len \in Nat /\ emit.next \in Nat /\ emit.next \in 1 .. emit.len
        /\ emit.len <= Len(arrays[emit.array])
        /\ emit.array = stateChange.array => emit.len <= stateChange.len
    BY <1>6 DEF EmissionFits
  <2>2. Len(arrays[emit.array]) \in Nat
    BY <2>1, Element DEF SliceInv, SliceTypes, Array
  <2>3. emit.array = mine'[a].array => emit.len < mine'[a].len
    BY <1>2, <1>3, <2>1 DEF AppendedTo
  <2>4. /\ emit.array \in 1 .. Len(arrays') /\ Len(arrays'[emit.array]) = Len(arrays[emit.array])
    BY <1>2, <2>1 DEF AppendedTo
  <2>5. StillFits
    BY <1>1, <1>2, <1>4, <2>1, <2>3, <2>4 DEF StillFits, EmissionFits
  <2>6. ASSUME NEW i \in emit.next .. emit.len
        PROVE  arrays'[emit.array][i] = arrays[emit.array][i]
    <3>1. i \in 1 .. Len(arrays[emit.array]) /\ i <= emit.len
      BY <2>1, <2>2
    <3>2. ~(emit.array = mine'[a].array /\ i = mine'[a].len)
      BY <2>1, <2>3, <3>1
    <3> QED
      BY <1>2, <2>1, <3>1, <3>2 DEF AppendedTo
  <2> QED
    BY <2>5, <2>6
<1> QED
  BY <1>5, <1>6

LEMMA StoresFits ==
  ASSUME SliceInv, EmissionFits, NEW a \in Attempts, Stores(a)
  PROVE  StillFits
<1>1. /\ pc[a] = "store" /\ pc'[a] = "select"
      /\ \A b \in Attempts : b # a => pc'[b] = pc[b]
  BY Moves DEF Stores, SliceInv, Places
<1>2. stateChange' = mine[a] /\ UNCHANGED <<arrays, mine, emit>>
  BY DEF Stores
<1>3. \A b \in Attempts : pc'[b] # "store"
  BY <1>1 DEF SliceInv, OneJoins
<1>4. mine[a].len \in Nat
  BY DEF SliceInv, SliceTypes, Slices
<1> QED
  BY <1>1, <1>2, <1>3, <1>4 DEF EmissionFits, StillFits

LEMMA UnwatchesFits ==
  ASSUME SliceInv, EmissionFits, NEW a \in Attempts, Unwatches(a)
  PROVE  /\ StillFits
         /\ \A w \in Watchers \ {a} : Pending(w)' <=> Pending(w)
<1>1. /\ pc[a] = "unwatch" /\ pc'[a] = "done"
      /\ \A b \in Attempts : b # a => pc'[b] = pc[b]
  BY Moves DEF Unwatches, SliceInv, Places
<1>2. /\ Len(arrays') = Len(arrays)
      /\ \A n \in 1 .. Len(arrays) : Len(arrays'[n]) = Len(arrays[n])
      /\ \A n \in 1 .. Len(arrays) : \A j \in 1 .. Len(arrays[n]) :
           \/ arrays'[n][j] = arrays[n][j]
           \/ arrays[n][j] = a /\ arrays'[n][j] = Nil
  BY SlotsBlanked DEF SliceInv
<1>3. UNCHANGED <<stateChange, mine, emit>>
  BY DEF Unwatches
<1>4. StillFits
  BY <1>1, <1>2, <1>3 DEF EmissionFits, StillFits
<1>5. ASSUME NEW w \in Watchers \ {a} PROVE Pending(w)' <=> Pending(w)
  <2>1. CASE emit.state = "none"
    BY <1>3, <2>1 DEF Pending
  <2>2. CASE emit.state # "none"
    <3>1. emit.array \in 1 .. Len(arrays) /\ Len(arrays[emit.array]) \in Nat
      BY <2>2, Element DEF EmissionFits, SliceInv, SliceTypes, Array
    <3>2. \A i \in emit.next .. emit.len : i \in 1 .. Len(arrays[emit.array])
      BY <2>2, <3>1 DEF EmissionFits
    <3>3. w # Nil
      BY WifiAssumption DEF Watchers
    <3>4. \A i \in emit.next .. emit.len :
            arrays'[emit.array][i] = w <=> arrays[emit.array][i] = w
      BY <1>2, <3>1, <3>2, <3>3
    <3> QED
      BY <1>3, <3>4 DEF Pending
  <2> QED
    BY <2>1, <2>2
<1> QED
  BY <1>4, <1>5

-----------------------------------------------------------------------------
(* What the listeners hear.                                                *)
LEMMA SamePending ==
  ASSUME UNCHANGED <<arrays, emit>>
  PROVE  \A w \in Watchers : Pending(w)' <=> Pending(w)
  BY DEF Pending

LEMMA TailOfAppend ==
  ASSUME NEW T, NEW q \in Seq(T), q # <<>>, NEW e \in T
  PROVE  /\ Tail(Append(q, e)) = Append(Tail(q), e)
         /\ Tail(q) \in Seq(T)
  OBVIOUS

LEMMA QuietHears ==
  ASSUME Hears, UNCHANGED <<emit, chan, due>>,
         \A w \in Watchers : Listens(w)' =>
           \/ Listens(w) /\ (Pending(w)' <=> Pending(w))
           \/ due[w] = <<>> /\ chan[w] = <<>> /\ ~Pending(w)',
         \A a \in Attempts :
           pc'[a] \in {"idle", "watch", "store"} => pc[a] \in {"idle", "watch", "store"}
  PROVE  Hears'
<1> SUFFICES ASSUME NEW w \in Watchers
             PROVE  /\ Listens(w)' => due'[w] = IF Pending(w)' THEN Append(chan'[w], emit'.state)
                                                ELSE chan'[w]
                    /\ w # Main /\ pc'[w] \in {"idle", "watch", "store"}
                         => due'[w] = <<>> /\ chan'[w] = <<>>
  BY DEF Hears
<1>1. ASSUME Listens(w)'
      PROVE  due'[w] = IF Pending(w)' THEN Append(chan'[w], emit'.state) ELSE chan'[w]
  <2>1. CASE Listens(w) /\ (Pending(w)' <=> Pending(w))
    <3>1. due[w] = IF Pending(w) THEN Append(chan[w], emit.state) ELSE chan[w]
      BY <2>1 DEF Hears
    <3> QED
      BY <2>1, <3>1
  <2>2. CASE due[w] = <<>> /\ chan[w] = <<>> /\ ~Pending(w)'
    BY <2>2
  <2> QED
    BY <1>1, <2>1, <2>2
<1>2. ASSUME w # Main, pc'[w] \in {"idle", "watch", "store"}
      PROVE  due'[w] = <<>> /\ chan'[w] = <<>>
  BY <1>2 DEF Hears, Watchers
<1> QED
  BY <1>1, <1>2

LEMMA ReadsHears ==
  ASSUME HearTypes, Hears, EmissionFits, NEW w \in Watchers, Listens(w), Reads(w),
         UNCHANGED <<arrays, emit>>,
         \A a \in Attempts : pc'[a] = pc[a] \/ (a = w /\ pc'[a] \in {"wait", "unwatch"})
  PROVE  /\ Hears'
         /\ chan' \in [Watchers -> Seq(States)] /\ due' \in [Watchers -> Seq(States)]
<1>1. chan[w] \in Seq(States) /\ due[w] \in Seq(States) /\ chan[w] # <<>>
  BY DEF HearTypes, Reads
<1>2. due[w] = IF Pending(w) THEN Append(chan[w], emit.state) ELSE chan[w]
  BY DEF Hears
<1>3. Pending(w) => emit.state \in States
  BY DEF Pending, EmissionFits
<1>4. due[w] # <<>>
  BY <1>1, <1>2, <1>3
<1>5. /\ chan'[w] = Tail(chan[w]) /\ due'[w] = Tail(due[w])
      /\ \A v \in Watchers : v # w => chan'[v] = chan[v] /\ due'[v] = due[v]
  BY <1>4 DEF HearTypes, Reads
<1>6. due'[w] = IF Pending(w) THEN Append(chan'[w], emit.state) ELSE chan'[w]
  <2>1. CASE Pending(w)
    <3>1. Tail(Append(chan[w], emit.state)) = Append(Tail(chan[w]), emit.state)
      BY <1>1, <1>3, <2>1, TailOfAppend
    <3> QED
      BY <1>2, <1>5, <2>1, <3>1
  <2>2. CASE ~Pending(w)
    BY <1>2, <1>5, <2>2
  <2> QED
    BY <2>1, <2>2
<1>7. Tail(chan[w]) \in Seq(States) /\ Tail(due[w]) \in Seq(States)
  BY <1>1, <1>4
<1>8. chan' \in [Watchers -> Seq(States)] /\ due' \in [Watchers -> Seq(States)]
  BY <1>5, <1>7 DEF HearTypes, Reads
<1>9. ASSUME NEW v \in Watchers, Listens(v)'
      PROVE  due'[v] = IF Pending(v)' THEN Append(chan'[v], emit'.state) ELSE chan'[v]
  <2>1. Pending(v)' <=> Pending(v)
    BY SamePending
  <2>2. CASE v = w
    BY <1>6, <2>1, <2>2
  <2>3. CASE v # w
    <3>1. Listens(v)
      BY <1>9, <2>3 DEF Listens, Watchers
    <3>2. due[v] = IF Pending(v) THEN Append(chan[v], emit.state) ELSE chan[v]
      BY <3>1 DEF Hears
    <3> QED
      BY <1>5, <2>1, <2>3, <3>2
  <2> QED
    BY <2>2, <2>3
<1>10. ASSUME NEW v \in Watchers, v # Main, pc'[v] \in {"idle", "watch", "store"}
       PROVE  due'[v] = <<>> /\ chan'[v] = <<>>
  <2>1. pc[v] \in {"idle", "watch", "store"} /\ v # w
    BY <1>10 DEF Watchers, Listens
  <2> QED
    BY <1>5, <1>10, <2>1 DEF Hears
<1>11. Hears'
  BY <1>9, <1>10 DEF Hears
<1> QED
  BY <1>8, <1>11

LEMMA TakenHears ==
  ASSUME SliceInv, HearInv, EventTaken
  PROVE  HearInv'
<1>1. /\ emit.state = "none" /\ events # <<>> /\ events' = Tail(events)
      /\ emit' = [state |-> Head(events), array |-> stateChange.array,
                  len |-> stateChange.len, next |-> 1]
      /\ UNCHANGED <<arrays, stateChange, mine, pc, chan>>
      /\ \A w \in Watchers :
           due'[w] = IF w = Main \/ pc[w] \in {"select", "wait"} THEN Append(due[w], Head(events))
                     ELSE due[w]
  BY DEF EventTaken, sliceVars
<1>2. Head(events) \in States /\ events' \in Seq(States)
  BY <1>1 DEF HearInv, HearTypes
<1>3. \A w \in Watchers : Append(due[w], Head(events)) \in Seq(States)
  BY <1>2 DEF HearInv, HearTypes
<1>4. due' \in [Watchers -> Seq(States)]
  BY <1>3 DEF EventTaken, HearInv, HearTypes
<1>5. HearTypes'
  BY <1>1, <1>2, <1>4 DEF HearInv, HearTypes
<1>6. PlaceInv'
  BY <1>1, OthersPlace DEF HearInv
<1>7. /\ stateChange \in Slices /\ stateChange.array \in Nat /\ stateChange.len \in Nat
      /\ stateChange.array \in 1 .. Len(arrays)
      /\ stateChange.len \in 1 .. Len(arrays[stateChange.array])
      /\ Len(arrays[stateChange.array]) \in Nat
  BY Element DEF SliceInv, SliceTypes, SliceFits, Slices, Array
<1>8. \A a \in Attempts : pc[a] = "store" => stateChange.len < mine[a].len
  BY <1>7 DEF SliceInv, OneJoins
<1>9. /\ emit'.state = Head(events) /\ emit'.array = stateChange.array
      /\ emit'.len = stateChange.len /\ emit'.next = 1 /\ emit'.state # "none"
  BY <1>1, <1>2 DEF States
<1>10. EmissionFits'
  BY <1>1, <1>2, <1>7, <1>8, <1>9 DEF EmissionFits
<1>11. ASSUME NEW w \in Watchers, Listens(w)'
       PROVE  due'[w] = IF Pending(w)' THEN Append(chan'[w], emit'.state) ELSE chan'[w]
  <2>1. Listens(w) /\ ~Pending(w)
    BY <1>1, <1>11 DEF Listens, Pending
  <2>2. due[w] = chan[w]
    BY <2>1 DEF HearInv, Hears
  <2>3. Pending(w)'
    BY <1>1, <1>9, <2>1 DEF HearInv, PlaceInv, Sits, Holds, Pending
  <2> QED
    BY <1>1, <1>9, <2>1, <2>2, <2>3 DEF Listens
<1>12. ASSUME NEW w \in Watchers, w # Main, pc'[w] \in {"idle", "watch", "store"}
       PROVE  due'[w] = <<>> /\ chan'[w] = <<>>
  BY <1>1, <1>12 DEF HearInv, Hears
<1>13. Hears'
  BY <1>11, <1>12 DEF Hears
<1> QED
  BY <1>5, <1>6, <1>10, <1>13 DEF HearInv

LEMMA EmitsHears ==
  ASSUME SliceInv, HearInv, Emits
  PROVE  HearInv'
<1>1. /\ emit.state # "none"
      /\ emit' = IF emit.next = emit.len THEN Idle ELSE [emit EXCEPT !.next = @ + 1]
      /\ UNCHANGED <<arrays, stateChange, mine, pc, events, due>>
  BY DEF Emits, sliceVars, wpaVars
<1>2. /\ emit \in [state : States, array : Nat, len : Nat, next : Nat]
      /\ emit.array \in 1 .. Len(arrays) /\ emit.state \in States
      /\ emit.len \in Nat /\ emit.next \in Nat /\ emit.next \in 1 .. emit.len
      /\ emit.len <= Len(arrays[emit.array])
      /\ emit.array = stateChange.array => emit.len <= stateChange.len
      /\ \A a \in Attempts :
           pc[a] = "store" /\ emit.array = mine[a].array => emit.len < mine[a].len
  BY <1>1 DEF HearInv, EmissionFits
<1>3. arrays[emit.array] \in Seq(Slots) /\ Len(arrays[emit.array]) \in Nat
  BY <1>2, Element DEF SliceInv, SliceTypes, Array
<1>4. \A i \in emit.next .. emit.len : i \in 1 .. Len(arrays[emit.array])
  BY <1>2, <1>3
<1>5. PICK x \in Slots : x = arrays[emit.array][emit.next]
  BY <1>2, <1>3, Element
<1>6. /\ chan' \in [Watchers -> Seq(States)]
      /\ x # Nil => chan'[x] = Append(chan[x], emit.state)
      /\ \A w \in Watchers : w # x => chan'[w] = chan[w]
  <2> USE DEF Emits
  <2>1. CASE x = Nil
    BY <1>5, <2>1 DEF HearInv, HearTypes
  <2>2. CASE x # Nil
    <3>1. x \in Watchers /\ Append(chan[x], emit.state) \in Seq(States)
      BY <1>2, <1>5, <2>2 DEF HearInv, HearTypes, Slots
    <3> QED
      BY <1>5, <2>2, <3>1 DEF HearInv, HearTypes
  <2> QED
    BY <2>1, <2>2
<1>7. HearTypes'
  BY <1>1, <1>6 DEF HearInv, HearTypes
<1>8. PlaceInv'
  BY <1>1, OthersPlace DEF HearInv
  (* Who is still to hear of the state once x has.                         *)
<1>9. /\ EmissionFits'
      /\ \A w \in Watchers : w # x => (Pending(w)' <=> Pending(w))
      /\ x # Nil => Pending(x) /\ ~Pending(x)'
  <2>1. x # Nil => Pending(x)
    BY <1>1, <1>2, <1>5 DEF Pending
  <2>2. \A i \in emit.next + 1 .. emit.len : x # Nil => arrays[emit.array][i] # x
    <3> SUFFICES ASSUME NEW i \in emit.next + 1 .. emit.len, x # Nil, arrays[emit.array][i] = x
                 PROVE  FALSE
      OBVIOUS
    <3>1. i \in 1 .. Len(arrays[emit.array]) /\ i # emit.next
      BY <1>2, <1>3
    <3> QED
      BY <1>2, <1>5, <3>1 DEF HearInv, PlaceInv, Distinct
  <2>3. CASE emit.next = emit.len
    <3>1. emit' = Idle /\ emit'.state = "none"
      BY <1>1, <2>3 DEF Idle
    <3>2. \A w \in Watchers : Pending(w) => w = x
      BY <1>2, <1>5, <2>3 DEF Pending
    <3> QED
      BY <2>1, <3>1, <3>2 DEF Pending, EmissionFits
  <2>4. CASE emit.next # emit.len
    <3>1. /\ emit' = [emit EXCEPT !.next = @ + 1]
          /\ emit' \in [state : States, array : Nat, len : Nat, next : Nat]
          /\ emit'.next = emit.next + 1 /\ emit'.state = emit.state
          /\ emit'.array = emit.array /\ emit'.len = emit.len
      BY <1>1, <1>2, <2>4
    <3>2. emit'.next \in 1 .. emit'.len
      BY <1>2, <2>4, <3>1
    <3>3. EmissionFits'
      BY <1>1, <1>2, <3>1, <3>2 DEF EmissionFits
    <3>4. ASSUME NEW w \in Watchers, w # x PROVE Pending(w)' <=> Pending(w)
      <4>1. \A i \in emit.next .. emit.len : i = emit.next \/ i \in emit.next + 1 .. emit.len
        BY <1>2
      <4>2. \A i \in emit.next + 1 .. emit.len : i \in emit.next .. emit.len
        BY <1>2
      <4> QED
        BY <1>1, <1>5, <3>1, <3>4, <4>1, <4>2 DEF Pending
    <3>5. x # Nil => ~Pending(x)'
      BY <1>1, <2>2, <3>1 DEF Pending
    <3> QED
      BY <2>1, <3>3, <3>4, <3>5
  <2> QED
    BY <2>3, <2>4
<1>10. ASSUME NEW w \in Watchers, Listens(w)'
       PROVE  due'[w] = IF Pending(w)' THEN Append(chan'[w], emit'.state) ELSE chan'[w]
  <2>1. due[w] = IF Pending(w) THEN Append(chan[w], emit.state) ELSE chan[w]
    BY <1>1, <1>10 DEF Listens, HearInv, Hears
  <2>2. w # Nil
    BY WifiAssumption DEF Watchers
  <2>3. CASE w = x
    BY <1>1, <1>6, <1>9, <2>1, <2>2, <2>3
  <2>4. CASE w # x
    <3>1. Pending(w)' => emit'.state = emit.state
      BY <1>1, <1>2 DEF Pending, Idle
    <3> QED
      BY <1>1, <1>6, <1>9, <2>1, <2>4, <3>1
  <2> QED
    BY <2>3, <2>4
<1>11. ASSUME NEW w \in Watchers, w # Main, pc'[w] \in {"idle", "watch", "store"}
       PROVE  due'[w] = <<>> /\ chan'[w] = <<>>
  <2>1. due[w] = <<>> /\ chan[w] = <<>>
    BY <1>1, <1>11 DEF HearInv, Hears
  <2>2. w # x
    BY <1>1, <1>2, <1>4, <1>5, <1>11 DEF HearInv, PlaceInv, Fresh, Watchers
  <2> QED
    BY <1>1, <1>6, <2>1, <2>2
<1>12. Hears'
  BY <1>10, <1>11 DEF Hears
<1> QED
  BY <1>7, <1>8, <1>9, <1>12 DEF HearInv

(* The first state is in the main loop's channel.                          *)
LEMMA InitialChannels ==
  ASSUME Init
  PROVE  HearTypes /\ due = chan /\ \A w \in Attempts : chan[w] = <<>>
<1>1. <<"disconnected">> \in Seq(States) /\ <<>> \in Seq(States)
  BY DEF States
<1>2. chan \in [Watchers -> Seq(States)] /\ due = chan
  BY <1>1 DEF Init
<1>3. events \in Seq(States)
  BY <1>1 DEF Init
<1>4. \A w \in Attempts : chan[w] = <<>>
  BY WifiAssumption DEF Init, Watchers
<1> QED
  BY <1>2, <1>3, <1>4 DEF HearTypes

LEMMA InitHear == Init => HearInv
<1> SUFFICES ASSUME Init PROVE HearInv
  OBVIOUS
<1>1. arrays = << <<Main>> >> /\ Len(arrays) = 1 /\ arrays[1] = <<Main>> /\ Len(arrays[1]) = 1
  BY DEF Init
<1>2. stateChange.array = 1 /\ stateChange.len = 1 /\ emit.state = "none"
  BY DEF Init, Idle
<1>3. HearTypes
  BY InitialChannels
<1>4. Distinct /\ Fresh
  BY <1>1, WifiAssumption DEF Distinct, Fresh
<1>5. \A w \in Watchers : Listens(w) => w = Main
  BY DEF Init, Listens, Watchers
<1>6. Sits
  BY <1>1, <1>2, <1>5 DEF Sits, Holds
<1>7. EmissionFits /\ \A w \in Watchers : ~Pending(w)
  BY <1>2 DEF EmissionFits, Pending
<1>8. Hears
  <2>1. \A w \in Watchers : w # Main => due[w] = <<>> /\ chan[w] = <<>>
    BY InitialChannels DEF Watchers
  <2> QED
    BY <1>7, <2>1, InitialChannels DEF Hears
<1> QED
  BY <1>3, <1>4, <1>6, <1>7, <1>8 DEF HearInv, PlaceInv

(* The calls: each leaves the others' places and what is due to them.      *)
LEMMA CallsHear ==
  ASSUME SliceInv, HearInv, NEW a \in Attempts, ~collided',
         \/ Begins(a) \/ Watches(a) \/ Stores(a) \/ Selects(a) \/ Unwatches(a)
  PROVE  HearInv'
<1> USE DEF HearInv
<1>1. CASE Begins(a)
  <2>1. /\ UNCHANGED <<arrays, stateChange, mine, emit, chan, due, events>>
        /\ pc[a] = "idle" /\ pc'[a] = "watch"
        /\ \A b \in Attempts : b # a => pc'[b] = pc[b]
    BY <1>1, Moves DEF Begins, SliceInv, Places, sliceVars, wpaVars
  <2>2. HearTypes' /\ PlaceInv'
    BY <1>1, <2>1, BeginsPlace DEF HearTypes
  <2>3. EmissionFits'
    BY <2>1, SameSliceFits DEF StillFits
  <2>4. \A w \in Watchers : Listens(w)' => Listens(w)
    BY <2>1 DEF Listens, Watchers
  <2>5. Hears'
    BY <2>1, <2>4, SamePending, QuietHears
  <2> QED
    BY <2>2, <2>3, <2>5
<1>2. CASE Watches(a)
  <2>1. /\ UNCHANGED <<stateChange, emit, chan, due, events>>
        /\ pc[a] = "watch" /\ pc'[a] = "store"
        /\ \A b \in Attempts : b # a => pc'[b] = pc[b]
    BY <1>2, Moves DEF Watches, SliceInv, Places, wpaVars
  <2>2. HearTypes' /\ PlaceInv'
    BY <1>2, <2>1, WatchesPlace DEF HearTypes
  <2>3. /\ EmissionFits'
        /\ emit.state # "none" => \A i \in emit.next .. emit.len :
             arrays'[emit.array][i] = arrays[emit.array][i]
    BY <1>2, WatchesFits DEF StillFits
  <2>4. \A w \in Watchers : Pending(w)' <=> Pending(w)
    BY <2>1, <2>3 DEF Pending
  <2>5. \A w \in Watchers : Listens(w)' => Listens(w)
    BY <2>1 DEF Listens, Watchers
  <2>6. Hears'
    BY <2>1, <2>4, <2>5, QuietHears
  <2> QED
    BY <2>2, <2>3, <2>6
<1>3. CASE Stores(a)
  <2>1. /\ UNCHANGED <<arrays, mine, emit, chan, due, events>>
        /\ pc[a] = "store" /\ pc'[a] = "select"
        /\ \A b \in Attempts : b # a => pc'[b] = pc[b]
    BY <1>3, Moves DEF Stores, SliceInv, Places, wpaVars
  <2>2. HearTypes' /\ PlaceInv'
    BY <1>3, <2>1, StoresPlace DEF HearTypes
  <2>3. EmissionFits'
    BY <1>3, StoresFits DEF StillFits
  <2>4. due[a] = <<>> /\ chan[a] = <<>>
    BY <2>1, WifiAssumption DEF Hears, Watchers
  <2>5. ~Pending(a)
    <3> SUFFICES ASSUME emit.state # "none", NEW i \in emit.next .. emit.len,
                        arrays[emit.array][i] = a
                 PROVE  FALSE
      BY DEF Pending
    <3>1. /\ emit.array \in 1 .. Len(arrays) /\ i \in 1 .. Len(arrays[emit.array])
          /\ emit.array = mine[a].array => i < mine[a].len
      <4>1. emit.array \in 1 .. Len(arrays) /\ Len(arrays[emit.array]) \in Nat
        BY Element DEF EmissionFits, SliceInv, SliceTypes, Array
      <4>2. mine[a].len \in Nat
        BY DEF SliceInv, SliceTypes, Slices
      <4> QED
        BY <2>1, <4>1, <4>2 DEF EmissionFits
    <3>2. emit.array = mine[a].array /\ i = mine[a].len /\ mine[a].len \in Nat
      BY <2>1, <3>1 DEF PlaceInv, Fresh, SliceInv, SliceTypes, Slices
    <3> QED
      BY <3>1, <3>2
  <2>6. \A w \in Watchers : Listens(w)' => Listens(w) \/ w = a
    BY <2>1 DEF Listens, Watchers
  <2>7. Hears'
    BY <2>1, <2>4, <2>5, <2>6, SamePending, QuietHears
  <2> QED
    BY <2>2, <2>3, <2>7
<1>4. CASE Selects(a)
  <2>1. /\ UNCHANGED <<arrays, stateChange, mine, emit, chan, due>>
        /\ pc[a] = "select" /\ pc'[a] = "wait" /\ Serves(a)
        /\ \A b \in Attempts : b # a => pc'[b] = pc[b]
    BY <1>4, Moves DEF Selects, SliceInv, Places, sliceVars, Serves, Goes
  <2>2. events' \in Seq(States)
    <3>1. events' = events \/ events' = Append(events, "disconnected")
      BY <1>4 DEF Selects
    <3>2. events \in Seq(States) /\ "disconnected" \in States
      BY DEF HearTypes, States
    <3> HIDE DEF States
    <3>3. Append(events, "disconnected") \in Seq(States)
      BY ONLY <3>2, Added
    <3> QED
      BY <3>1, <3>2, <3>3
  <2>3. HearTypes' /\ PlaceInv'
    BY <2>1, <2>2, ServesPlace DEF HearTypes
  <2>4. EmissionFits'
    BY <2>1, SameSliceFits DEF StillFits
  <2>5. \A w \in Watchers : Listens(w)' => Listens(w)
    BY <2>1 DEF Listens, Watchers
  <2>6. Hears'
    BY <2>1, <2>5, SamePending, QuietHears
  <2> QED
    BY <2>3, <2>4, <2>6
<1>5. CASE Unwatches(a)
  <2>1. /\ UNCHANGED <<stateChange, mine, emit, chan, due, events>>
        /\ pc[a] = "unwatch" /\ pc'[a] = "done"
        /\ \A b \in Attempts : b # a => pc'[b] = pc[b]
    BY <1>5, Moves DEF Unwatches, SliceInv, Places, wpaVars
  <2>2. HearTypes' /\ PlaceInv'
    BY <1>5, <2>1, UnwatchesPlace DEF HearTypes
  <2>3. EmissionFits' /\ \A w \in Watchers \ {a} : Pending(w)' <=> Pending(w)
    BY <1>5, UnwatchesFits DEF StillFits
  <2>4. \A w \in Watchers : Listens(w)' => Listens(w) /\ w # a
    BY <2>1, WifiAssumption DEF Listens, Watchers
  <2>5. Hears'
    BY <2>1, <2>3, <2>4, QuietHears
  <2> QED
    BY <2>2, <2>3, <2>5
<1> QED
  BY <1>1, <1>2, <1>3, <1>4, <1>5

LEMMA ReadersHear ==
  ASSUME SliceInv, HearInv,
         \/ \E a \in Attempts : ReadsConnected(a) \/ ReadsInvalidKey(a) \/ ReadsDisconnected(a)
         \/ MainConnected \/ MainOther
  PROVE  HearInv'
<1> USE DEF HearInv
<1>1. ASSUME NEW a \in Attempts,
             ReadsConnected(a) \/ ReadsInvalidKey(a) \/ ReadsDisconnected(a)
      PROVE  HearInv'
  <2>1. Serves(a) /\ Reads(a) /\ UNCHANGED <<emit, events>> /\ pc[a] = "wait"
    BY <1>1 DEF ReadsConnected, ReadsInvalidKey, ReadsDisconnected, Goes, Serves, sliceVars, wpaVars
  <2>2. /\ UNCHANGED <<arrays, stateChange, mine>> /\ pc'[a] \in {"wait", "unwatch"}
        /\ \A b \in Attempts : b # a => pc'[b] = pc[b]
    BY <2>1 DEF Serves, SliceInv, SliceTypes
  <2>3. a \in Watchers /\ Listens(a)
    BY <2>1 DEF Listens, Watchers
  <2>4. /\ Hears'
        /\ chan' \in [Watchers -> Seq(States)] /\ due' \in [Watchers -> Seq(States)]
    <3>1. HearTypes /\ Hears /\ EmissionFits /\ UNCHANGED <<arrays, emit>>
      BY <2>1, <2>2
    <3>2. \A b \in Attempts : pc'[b] = pc[b] \/ (b = a /\ pc'[b] \in {"wait", "unwatch"})
      BY <2>2
    <3> QED
      BY <2>1, <2>3, <3>1, <3>2, ReadsHears
  <2>5. EmissionFits'
    BY <2>1, <2>2, SameSliceFits DEF StillFits
  <2> QED
    BY <2>1, <2>4, <2>5, ServesPlace DEF HearTypes
<1>2. ASSUME MainConnected \/ MainOther PROVE HearInv'
  <2>1. Reads(Main) /\ UNCHANGED <<arrays, stateChange, mine, pc, emit, events>>
    BY <1>2 DEF MainConnected, MainOther, sliceVars, wpaVars
  <2>2. Main \in Watchers /\ Listens(Main)
    BY DEF Listens, Watchers
  <2>3. /\ Hears'
        /\ chan' \in [Watchers -> Seq(States)] /\ due' \in [Watchers -> Seq(States)]
    <3>1. HearTypes /\ Hears /\ EmissionFits /\ UNCHANGED <<arrays, emit>>
      BY <2>1
    <3>2. \A b \in Attempts : pc'[b] = pc[b] \/ (b = Main /\ pc'[b] \in {"wait", "unwatch"})
      BY <2>1
    <3> QED
      BY <2>1, <2>2, <3>1, <3>2, ReadsHears
  <2>4. EmissionFits'
    BY <2>1, SameSliceFits DEF StillFits
  <2> QED
    BY <2>1, <2>3, <2>4, OthersPlace DEF HearTypes
<1> QED
  BY <1>1, <1>2

LEMMA OthersHear ==
  ASSUME HearInv, UNCHANGED <<arrays, stateChange, mine, pc, emit, chan, due>>,
         events' \in Seq(States)
  PROVE  HearInv'
<1> USE DEF HearInv
<1>1. HearTypes' /\ PlaceInv' /\ EmissionFits'
  BY OthersPlace, SameSliceFits DEF HearTypes, StillFits
<1>2. \A w \in Watchers : Listens(w)' => Listens(w)
  BY DEF Listens
<1>3. Hears'
  BY <1>2, SamePending, QuietHears
<1> QED
  BY <1>1, <1>3

LEMMA NextHear == SliceInv /\ HearInv /\ [Next]_vars /\ ~collided' => HearInv'
<1> SUFFICES ASSUME SliceInv, HearInv, [Next]_vars, ~collided' PROVE HearInv'
  OBVIOUS
<1>1. events \in Seq(States)
  BY DEF HearInv, HearTypes
<1>2. CASE MainRegisters \/ AppAcknowledges \/ CallsBack
  BY <1>1, <1>2, OthersHear DEF MainRegisters, AppAcknowledges, CallsBack, sliceVars, wpaVars
<1>3. CASE Associates \/ KeyRefused \/ LinkLost
  <2>1. PICK e \in States : Event(e)
    BY <1>3 DEF Associates, KeyRefused, LinkLost, States
  <2>2. events' \in Seq(States)
    BY <1>1, <2>1 DEF Event
  <2> QED
    BY <2>1, <2>2, OthersHear DEF Event, sliceVars
<1>4. CASE UNCHANGED vars
  BY <1>1, <1>4, OthersHear DEF vars, sliceVars, wpaVars
<1> QED
  BY <1>2, <1>3, <1>4, CallsHear, ReadersHear, TakenHears, EmitsHears DEF Next

(* However many clients give credentials and whatever happens to the link, *)
(* the main loop and every call that listens hear each state, once and in  *)
(* order, as long as no two calls collide in WatchState.                   *)
THEOREM AllWatchersHear == Spec => []WatchersHearAll
<1>1. Init => WatchInv
  BY InitSlice, InitHear DEF Init, WatchInv
<1>2. WatchInv /\ [Next]_vars => WatchInv'
  BY NextSlice, NextHear, CollisionStays DEF WatchInv
<1>3. WatchInv => WatchersHearAll
  <2> SUFFICES ASSUME WatchInv, ~collided, emit.state = "none", NEW w \in Watchers,
                      w = Main \/ pc[w] \in {"select", "wait"}
               PROVE  chan[w] = due[w]
    BY DEF WatchersHearAll
  <2>1. Listens(w) /\ ~Pending(w)
    BY DEF Listens, Pending
  <2> QED
    BY <2>1 DEF WatchInv, HearInv, Hears
<1> QED
  BY <1>1, <1>2, <1>3, PTL DEF Spec

-----------------------------------------------------------------------------
(* The types hold even when calls collide: a slice that another call has   *)
(* overtaken still lies within an array, for arrays never shrink.          *)
JoinFits == \A a \in Attempts : pc[a] = "store" => SliceFits(mine[a])

EmitShape ==
  \/ emit = Idle
  \/ /\ emit \in [state : States, array : Nat, len : Nat, next : Nat]
     /\ emit.array \in 1 .. Len(arrays)
     /\ emit.len <= Len(arrays[emit.array]) /\ emit.next \in 1 .. emit.len

OtherTypes ==
  /\ ackPending \in BOOLEAN /\ onAck \in BOOLEAN /\ acked \in {"no", "early", "yes"}
  /\ main \in {"receive", "register", "exited"} /\ acker \in {"idle", "callback"}
  /\ result \in [Attempts -> {"none", "success", "failure"}]
  /\ selected \in Attempts \cup {Old} /\ link \in Attempts \cup {Old, Nil}
  /\ nature \in [Attempts \cup {Old} -> {"good", "bad_key", "absent"}]
  /\ emitted \in 0 .. MaxEvents /\ collided \in BOOLEAN

Shape == SliceTypes /\ JoinFits /\ EmitShape /\ HearTypes /\ OtherTypes

LEMMA ShapeTypes == Shape => TypeOK
<1> SUFFICES ASSUME Shape PROVE TypeOK
  OBVIOUS
<1>1. /\ arrays \in Seq(Seq(Watchers \cup {Nil}))
      /\ stateChange \in Slices /\ stateChange.array \in DOMAIN arrays
      /\ stateChange.len <= Len(arrays[stateChange.array])
  BY DEF Shape, SliceTypes, SliceFits, Array, Slots
<1>2. emit.state \in States \cup {"none"} /\ emit.next \in 1 .. emit.len + 1
  <2>1. CASE emit = Idle
    BY <2>1 DEF Idle
  <2>2. CASE emit # Idle
    BY <2>2 DEF Shape, EmitShape
  <2> QED
    BY <2>1, <2>2
<1>3. /\ pc \in [Attempts -> {"idle", "watch", "store", "select", "wait", "unwatch", "done"}]
      /\ mine \in [Attempts -> Slices]
  BY DEF Shape, SliceTypes, Places
<1> QED
  BY <1>1, <1>2, <1>3 DEF Shape, HearTypes, OtherTypes, TypeOK

LEMMA InitShape == Init => Shape
<1> SUFFICES ASSUME Init PROVE Shape
  OBVIOUS
<1>1. SliceTypes /\ JoinFits
  BY InitSlice DEF Init, SliceInv, OneJoins, JoinFits
<1>2. EmitShape /\ HearTypes
  BY InitialChannels DEF Init, EmitShape
<1>3. OtherTypes
  <2>1. emitted \in 0 .. MaxEvents
    BY WifiAssumption DEF Init
  <2>2. result \in [Attempts -> {"none", "success", "failure"}]
    BY DEF Init
  <2>3. selected \in Attempts \cup {Old} /\ link \in Attempts \cup {Old, Nil}
    BY DEF Init
  <2>4. /\ ackPending \in BOOLEAN /\ onAck \in BOOLEAN /\ acked \in {"no", "early", "yes"}
        /\ collided \in BOOLEAN
    BY DEF Init
  <2>5. /\ main \in {"receive", "register", "exited"} /\ acker \in {"idle", "callback"}
        /\ nature \in [Attempts \cup {Old} -> {"good", "bad_key", "absent"}]
    BY DEF Init
  <2> QED
    BY <2>1, <2>2, <2>3, <2>4, <2>5 DEF OtherTypes
<1> QED
  BY <1>1, <1>2, <1>3 DEF Shape

(* Arrays are added and their slots are written, no more.                  *)
Grown ==
  /\ Len(arrays) \in Nat /\ Len(arrays') \in Nat /\ Len(arrays') >= Len(arrays)
  /\ \A n \in 1 .. Len(arrays) : Len(arrays'[n]) = Len(arrays[n])

LEMMA FitsGrown ==
  ASSUME Grown, NEW s, SliceFits(s)
  PROVE  /\ s \in Slices /\ s.array \in 1 .. Len(arrays')
         /\ s.len \in 1 .. Len(arrays'[s.array])
  BY DEF Grown, SliceFits

LEMMA CallsShape ==
  ASSUME SliceTypes, JoinFits, NEW a \in Attempts,
         Begins(a) \/ Watches(a) \/ Stores(a) \/ Serves(a) \/ Unwatches(a)
  PROVE  SliceTypes' /\ JoinFits' /\ Grown
<1>0. Len(arrays) \in Nat
  BY DEF SliceTypes
<1>1. CASE Begins(a) \/ Serves(a)
  <2>1. UNCHANGED <<arrays, stateChange, mine>>
    BY <1>1 DEF Begins, Serves, sliceVars
  <2>2. /\ pc' \in [Attempts -> Places]
        /\ \A b \in Attempts : pc'[b] = "store" => pc[b] = "store"
    BY <1>1 DEF Begins, Serves, Goes, SliceTypes, Places
  <2> QED
    BY <1>0, <2>1, <2>2 DEF SliceTypes, SliceFits, JoinFits, Grown
<1>2. CASE Watches(a)
  <2>1. /\ pc'[a] = "store" /\ pc' \in [Attempts -> Places]
        /\ \A b \in Attempts : b # a => pc'[b] = pc[b]
    BY <1>2, Moves DEF Watches, Places
  <2>2. AppendedTo(a)
    BY <1>2, AppendAdds DEF Watches
  <2>3. Grown
    BY <2>2 DEF AppendedTo, Grown
  <2>4. stateChange' = stateChange
    BY <1>2 DEF Watches
  <2>5. /\ stateChange \in Slices /\ stateChange.array \in 1 .. Len(arrays')
        /\ stateChange.len \in 1 .. Len(arrays'[stateChange.array])
    BY <2>3, FitsGrown DEF SliceTypes
  <2>6. SliceTypes'
    BY <2>1, <2>2, <2>4, <2>5 DEF SliceTypes, SliceFits, AppendedTo
  <2>7. ASSUME NEW b \in Attempts, pc'[b] = "store"
        PROVE  /\ mine'[b] \in Slices /\ mine'[b].array \in 1 .. Len(arrays')
               /\ mine'[b].len \in 1 .. Len(arrays'[mine'[b].array])
    <3>1. CASE b = a
      BY <2>2, <3>1 DEF AppendedTo
    <3>2. CASE b # a
      <4>1. SliceFits(mine[b]) /\ mine'[b] = mine[b]
        BY <2>1, <2>2, <2>7, <3>2 DEF JoinFits, AppendedTo
      <4> QED
        BY <2>3, <4>1, FitsGrown
    <3> QED
      BY <3>1, <3>2
  <2> QED
    BY <2>3, <2>6, <2>7 DEF JoinFits, SliceFits
<1>3. CASE Stores(a)
  <2>1. /\ pc[a] = "store" /\ pc' \in [Attempts -> Places]
        /\ \A b \in Attempts : pc'[b] = "store" => pc[b] = "store"
    BY <1>3 DEF Stores, Goes, SliceTypes, Places
  <2>2. stateChange' = mine[a] /\ UNCHANGED <<arrays, mine>>
    BY <1>3 DEF Stores
  <2>3. SliceFits(mine[a])
    BY <2>1 DEF JoinFits
  <2> QED
    BY <1>0, <2>1, <2>2, <2>3 DEF SliceTypes, SliceFits, JoinFits, Grown
<1>4. CASE Unwatches(a)
  <2>1. /\ pc' \in [Attempts -> Places]
        /\ \A b \in Attempts : pc'[b] = "store" => pc[b] = "store"
    BY <1>4 DEF Unwatches, Goes, SliceTypes, Places
  <2>2. /\ arrays' \in Seq(Array) /\ Len(arrays') = Len(arrays)
        /\ \A n \in 1 .. Len(arrays) : Len(arrays'[n]) = Len(arrays[n])
    BY <1>4, SlotsBlanked
  <2>3. Grown
    BY <1>0, <2>2 DEF Grown
  <2>4. UNCHANGED <<stateChange, mine>>
    BY <1>4 DEF Unwatches
  <2>5. /\ stateChange \in Slices /\ stateChange.array \in 1 .. Len(arrays')
        /\ stateChange.len \in 1 .. Len(arrays'[stateChange.array])
    BY <2>3, FitsGrown DEF SliceTypes
  <2>6. SliceTypes'
    BY <2>1, <2>2, <2>4, <2>5 DEF SliceTypes, SliceFits
  <2>7. ASSUME NEW b \in Attempts, pc'[b] = "store"
        PROVE  /\ mine[b] \in Slices /\ mine[b].array \in 1 .. Len(arrays')
               /\ mine[b].len \in 1 .. Len(arrays'[mine[b].array])
    BY <2>1, <2>3, <2>7, FitsGrown DEF JoinFits
  <2> QED
    BY <2>3, <2>4, <2>6, <2>7 DEF JoinFits, SliceFits
<1> QED
  BY <1>1, <1>2, <1>3, <1>4

LEMMA NextShapeSlice ==
  SliceTypes /\ JoinFits /\ [Next]_vars => SliceTypes' /\ JoinFits' /\ Grown
<1> SUFFICES ASSUME SliceTypes, JoinFits, [Next]_vars PROVE SliceTypes' /\ JoinFits' /\ Grown
  OBVIOUS
<1>1. CASE UNCHANGED <<arrays, stateChange, mine, pc>>
  BY <1>1 DEF SliceTypes, SliceFits, JoinFits, Grown
<1> QED
  BY <1>1, StepKinds, CallsShape

LEMMA NextEmitShape ==
  SliceTypes /\ Grown /\ HearTypes /\ EmitShape /\ [Next]_vars => EmitShape'
<1> SUFFICES ASSUME SliceTypes, Grown, HearTypes, EmitShape, [Next]_vars PROVE EmitShape'
  OBVIOUS
<1>1. CASE EventTaken
  <2>1. events \in Seq(States) /\ events # <<>>
    BY <1>1 DEF EventTaken, HearTypes
  <2>2. Head(events) \in States
    BY <2>1
  <2>3. SliceFits(stateChange) /\ UNCHANGED arrays
    BY <1>1 DEF EventTaken, sliceVars, SliceTypes
  <2>4. emit' = [state |-> Head(events), array |-> stateChange.array,
                 len |-> stateChange.len, next |-> 1]
    BY <1>1 DEF EventTaken
  <2>5. /\ stateChange.array \in Nat /\ stateChange.len \in Nat /\ 1 \in 1 .. stateChange.len
        /\ stateChange.array \in 1 .. Len(arrays)
        /\ stateChange.len <= Len(arrays[stateChange.array])
    BY <2>3 DEF SliceFits, Slices
  <2>6. /\ emit' \in [state : States, array : Nat, len : Nat, next : Nat]
        /\ emit'.array = stateChange.array /\ emit'.len = stateChange.len /\ emit'.next = 1
    BY <2>2, <2>4, <2>5
  <2> QED
    BY <2>3, <2>5, <2>6 DEF EmitShape
<1>2. CASE Emits
  <2>1. /\ emit # Idle /\ UNCHANGED arrays
        /\ emit' = IF emit.next = emit.len THEN Idle ELSE [emit EXCEPT !.next = @ + 1]
    BY <1>2 DEF Emits, Idle, sliceVars
  <2>2. /\ emit \in [state : States, array : Nat, len : Nat, next : Nat]
        /\ emit.array \in 1 .. Len(arrays)
        /\ emit.len <= Len(arrays[emit.array]) /\ emit.next \in 1 .. emit.len
    BY <2>1 DEF EmitShape
  <2>3. CASE emit.next = emit.len
    BY <2>1, <2>3 DEF EmitShape, Idle
  <2>4. CASE emit.next # emit.len
    <3>1. emit' = [emit EXCEPT !.next = @ + 1]
      BY <2>1, <2>4
    <3>2. /\ emit' \in [state : States, array : Nat, len : Nat, next : Nat]
          /\ emit'.array = emit.array /\ emit'.len = emit.len /\ emit'.next = emit.next + 1
      BY <2>2, <3>1
    <3>3. emit.next + 1 \in 1 .. emit.len
      BY <2>2, <2>4
    <3> QED
      BY <2>1, <2>2, <3>2, <3>3 DEF EmitShape
  <2> QED
    BY <2>3, <2>4
<1>3. CASE UNCHANGED emit
  <2>1. CASE emit = Idle
    BY <1>3, <2>1 DEF EmitShape, Idle
  <2>2. CASE emit # Idle
    <3>1. /\ emit \in [state : States, array : Nat, len : Nat, next : Nat]
          /\ emit.array \in 1 .. Len(arrays)
          /\ emit.len <= Len(arrays[emit.array]) /\ emit.next \in 1 .. emit.len
      BY <2>2 DEF EmitShape
    <3>2. emit.array \in 1 .. Len(arrays') /\ Len(arrays'[emit.array]) = Len(arrays[emit.array])
      BY <3>1 DEF Grown
    <3> QED
      BY <1>3, <3>1, <3>2 DEF EmitShape
  <2> QED
    BY <2>1, <2>2
<1>4. ASSUME NEW a \in Attempts,
             \/ Begins(a) \/ Watches(a) \/ Stores(a) \/ Selects(a) \/ Unwatches(a)
             \/ ReadsConnected(a) \/ ReadsInvalidKey(a) \/ ReadsDisconnected(a)
      PROVE  UNCHANGED emit
  BY <1>4 DEF Begins, Watches, Stores, Selects, Unwatches, ReadsConnected, ReadsInvalidKey,
     ReadsDisconnected
<1>5. ASSUME MainConnected \/ MainRegisters \/ MainOther \/ AppAcknowledges \/ CallsBack
             \/ Associates \/ KeyRefused \/ LinkLost \/ UNCHANGED vars
      PROVE  UNCHANGED emit
  BY <1>5 DEF MainConnected, MainRegisters, MainOther, AppAcknowledges, CallsBack, Associates,
     KeyRefused, LinkLost, Event, vars
<1> QED
  BY <1>1, <1>2, <1>3, <1>4, <1>5 DEF Next

(* What comes out of the channels and what goes in are states.             *)
LEMMA ReadsTypes ==
  ASSUME HearTypes, NEW w \in Watchers, Reads(w)
  PROVE  chan' \in [Watchers -> Seq(States)] /\ due' \in [Watchers -> Seq(States)]
<1>1. ASSUME NEW q \in Seq(States), q # <<>> PROVE Tail(q) \in Seq(States)
  BY <1>1
<1>2. chan[w] \in Seq(States) /\ due[w] \in Seq(States) /\ chan[w] # <<>>
  BY DEF Reads, HearTypes
<1>3. Tail(chan[w]) \in Seq(States)
  BY <1>1, <1>2
<1>4. (IF due[w] = <<>> THEN due[w] ELSE Tail(due[w])) \in Seq(States)
  BY <1>1, <1>2
<1> QED
  BY <1>3, <1>4 DEF Reads, HearTypes

LEMMA NextHearTypes == SliceTypes /\ EmitShape /\ HearTypes /\ [Next]_vars => HearTypes'
<1> SUFFICES ASSUME SliceTypes, EmitShape, HearTypes, [Next]_vars PROVE HearTypes'
  OBVIOUS
<1>1. ASSUME NEW q \in Seq(States), NEW e \in States PROVE Append(q, e) \in Seq(States)
  BY <1>1
<1>2. ASSUME NEW w \in Watchers, Reads(w), UNCHANGED events PROVE HearTypes'
  BY <1>2, ReadsTypes DEF HearTypes
<1>3. CASE EventTaken
  <2>1. events \in Seq(States) /\ events # <<>> /\ events' = Tail(events) /\ chan' = chan
    BY <1>3 DEF EventTaken, HearTypes
  <2>2. Head(events) \in States /\ Tail(events) \in Seq(States)
    BY <2>1
  <2>3. \A w \in Watchers : Append(due[w], Head(events)) \in Seq(States)
    BY <1>1, <2>2 DEF HearTypes
  <2>4. due' \in [Watchers -> Seq(States)]
    BY <1>3, <2>3 DEF EventTaken, HearTypes
  <2> QED
    BY <2>1, <2>2, <2>4 DEF HearTypes
<1>4. CASE Emits
  <2> DEFINE w == arrays[emit.array][emit.next]
  <2>1. emit # Idle
    BY <1>4 DEF Emits, Idle
  <2>2. /\ emit.state \in States /\ emit.array \in 1 .. Len(arrays)
        /\ emit.next \in 1 .. Len(arrays[emit.array])
    BY <2>1 DEF EmitShape
  <2>3. w \in Watchers \cup {Nil}
    BY <2>2, Element DEF SliceTypes, Array, Slots
  <2>4. /\ chan' = IF w = Nil THEN chan ELSE [chan EXCEPT ![w] = Append(@, emit.state)]
        /\ UNCHANGED <<due, events>>
    BY <1>4 DEF Emits, wpaVars
  <2>5. w # Nil => Append(chan[w], emit.state) \in Seq(States)
    BY <1>1, <2>2, <2>3 DEF HearTypes
  <2> HIDE DEF w
  <2> QED
    BY <2>3, <2>4, <2>5 DEF HearTypes
<1>5. ASSUME NEW s \in States, Event(s) PROVE HearTypes'
  BY <1>1, <1>5 DEF Event, HearTypes
<1>6. CASE Associates \/ KeyRefused \/ LinkLost
  BY <1>5, <1>6 DEF Associates, KeyRefused, LinkLost, States
<1>7. CASE \E a \in Attempts : ReadsConnected(a) \/ ReadsInvalidKey(a) \/ ReadsDisconnected(a)
  BY <1>2, <1>7 DEF ReadsConnected, ReadsInvalidKey, ReadsDisconnected, wpaVars, Watchers
<1>8. CASE MainConnected \/ MainOther
  BY <1>2, <1>8 DEF MainConnected, MainOther, wpaVars, Watchers
<1>9. CASE \E a \in Attempts : Selects(a)
  <2>1. "disconnected" \in States
    BY DEF States
  <2> QED
    BY <1>1, <1>9, <2>1 DEF Selects, HearTypes
<1>10. CASE UNCHANGED <<chan, due, events>>
  BY <1>10 DEF HearTypes
<1>11. ASSUME NEW a \in Attempts, Begins(a) \/ Watches(a) \/ Stores(a) \/ Unwatches(a)
       PROVE  UNCHANGED <<chan, due, events>>
  BY <1>11 DEF Begins, Watches, Stores, Unwatches, wpaVars
<1>12. ASSUME MainRegisters \/ AppAcknowledges \/ CallsBack \/ UNCHANGED vars
       PROVE  UNCHANGED <<chan, due, events>>
  BY <1>12 DEF MainRegisters, AppAcknowledges, CallsBack, vars, wpaVars
<1> QED
  BY <1>3, <1>4, <1>6, <1>7, <1>8, <1>9, <1>10, <1>11, <1>12 DEF Next

(* The rest is written by a few actions each.                              *)
LEMMA NextOtherTypes == OtherTypes /\ [Next]_vars => OtherTypes'
<1> SUFFICES ASSUME OtherTypes, [Next]_vars PROVE OtherTypes'
  OBVIOUS
<1> USE DEF OtherTypes
<1>1. ASSUME NEW a \in Attempts, Begins(a) PROVE OtherTypes'
  BY <1>1 DEF Begins, sliceVars, wpaVars
<1>2. ASSUME NEW a \in Attempts, Watches(a) \/ Unwatches(a) PROVE OtherTypes'
  <2>1. collided' \in BOOLEAN
    BY <1>2 DEF Watches, Unwatches, Collides
  <2>2. UNCHANGED <<ackVars, result, wpaVars>>
    BY <1>2 DEF Watches, Unwatches
  <2> QED
    BY <2>1, <2>2 DEF ackVars, wpaVars
<1>3. ASSUME NEW a \in Attempts, Stores(a) PROVE OtherTypes'
  BY <1>3 DEF Stores, ackVars, wpaVars
<1>4. ASSUME NEW a \in Attempts, Selects(a) PROVE OtherTypes'
  <2>1. selected' = a /\ UNCHANGED <<sliceVars, ackVars, result, nature>>
    BY <1>4 DEF Selects
  <2>2. link' \in Attempts \cup {Old, Nil}
    BY <1>4 DEF Selects
  <2>3. emitted' \in 0 .. MaxEvents
    BY <1>4, WifiAssumption DEF Selects
  <2> QED
    BY <2>1, <2>2, <2>3 DEF sliceVars, ackVars
<1>5. ASSUME NEW a \in Attempts, ReadsConnected(a) \/ ReadsInvalidKey(a) \/ ReadsDisconnected(a)
      PROVE  OtherTypes'
  <2>1. result' \in [Attempts -> {"none", "success", "failure"}]
    BY <1>5 DEF ReadsConnected, ReadsInvalidKey, ReadsDisconnected
  <2>2. ackPending' \in BOOLEAN
    BY <1>5 DEF ReadsConnected, ReadsInvalidKey, ReadsDisconnected, ackVars
  <2>3. UNCHANGED <<sliceVars, onAck, main, acker, acked, wpaVars>>
    BY <1>5 DEF ReadsConnected, ReadsInvalidKey, ReadsDisconnected, ackVars
  <2> QED
    BY <2>1, <2>2, <2>3 DEF sliceVars, wpaVars
<1>6. CASE EventTaken \/ Emits
  <2>1. UNCHANGED <<sliceVars, ackVars, result, selected, nature, link, emitted>>
    BY <1>6 DEF EventTaken, Emits, wpaVars
  <2> QED
    BY <2>1 DEF sliceVars, ackVars
<1>7. CASE MainConnected \/ MainRegisters \/ MainOther \/ AppAcknowledges \/ CallsBack
  <2>1. UNCHANGED <<sliceVars, result, wpaVars>>
    BY <1>7 DEF MainConnected, MainRegisters, MainOther, AppAcknowledges, CallsBack
  <2>2. ackPending' \in BOOLEAN /\ onAck' \in BOOLEAN /\ acked' \in {"no", "early", "yes"}
    BY <1>7 DEF MainConnected, MainRegisters, MainOther, AppAcknowledges, CallsBack, ackVars
  <2>3. main' \in {"receive", "register", "exited"} /\ acker' \in {"idle", "callback"}
    BY <1>7 DEF MainConnected, MainRegisters, MainOther, AppAcknowledges, CallsBack, ackVars
  <2> QED
    BY <2>1, <2>2, <2>3 DEF sliceVars, wpaVars
<1>8. ASSUME NEW s \in States, Event(s), link' \in Attempts \cup {Old, Nil} PROVE OtherTypes'
  <2>1. emitted' \in 0 .. MaxEvents
    BY <1>8, WifiAssumption DEF Event
  <2>2. UNCHANGED <<sliceVars, ackVars, result, selected, nature>>
    BY <1>8 DEF Event
  <2> QED
    BY <1>8, <2>1, <2>2 DEF sliceVars, ackVars
<1>9. CASE Associates \/ KeyRefused \/ LinkLost
  <2>1. link' \in Attempts \cup {Old, Nil}
    BY <1>9 DEF Associates, KeyRefused, LinkLost
  <2> QED
    BY <1>8, <1>9, <2>1 DEF Associates, KeyRefused, LinkLost, States
<1>10. CASE UNCHANGED vars
  BY <1>10 DEF vars, sliceVars, ackVars, wpaVars
<1> QED
  BY <1>1, <1>2, <1>3, <1>4, <1>5, <1>6, <1>7, <1>9, <1>10 DEF Next

(* Every variable keeps its type, and the slice lies within its array,     *)
(* however the calls of SetCredentials interleave (WifiManager.go:33-48):  *)
(* two that meet in WatchState may lose a channel, but leave no slice that *)
(* reaches beyond its array.                                               *)
THEOREM TypesCorrect == Spec => []TypeOK
<1>1. Init => Shape
  BY InitShape
<1>2. Shape /\ [Next]_vars => Shape'
  BY NextShapeSlice, NextEmitShape, NextHearTypes, NextOtherTypes DEF Shape
<1> QED
  BY <1>1, <1>2, ShapeTypes, PTL DEF Spec

=============================================================================
