--------------------------- MODULE TrunkVlansProofs ---------------------------
(***************************************************************************)
(* That splitVlanIds is right for every `trunk' option: the loop invariant *)
(* TrunkIInv of TrunkVlans is inductive.                                   *)
(***************************************************************************)
EXTENDS TrunkVlans, TLAPS

USE MaxVlanIdAssumption, NilAssumption, TrunkAssumption

\* The shape of the item that is being looked at.
LEMMA ItemType ==
  ASSUME TrunkScanned, n <= Len(trunk)
  PROVE  /\ n \in 1 .. Len(trunk) /\ Len(trunk) \in Nat
         /\ item \in Item
         /\ item.minID \in Int \cup {Nil}
         /\ item.maxID \in Int \cup {Nil}
         /\ item.id \in Int \cup {Nil}
<1>1. n \in 1 .. Len(trunk) /\ Len(trunk) \in Nat
  BY DEF TrunkScanned
<1>2. item \in Item
  BY <1>1 DEF TrunkScanned, item
<1> QED
  BY <1>1, <1>2 DEF Item

\* One more item adds what it means.
LEMMA MeantStep ==
  ASSUME NEW k \in Nat, k >= 1
  PROVE  MeantUpTo(k) = MeantUpTo(k - 1) \cup Meant(trunk[k])
<1>1. 1 .. k = (1 .. k - 1) \cup {k}
  OBVIOUS
<1> QED
  BY <1>1, Zenon DEF MeantUpTo

LEMMA MeantNone == MeantUpTo(0) = {}
BY DEF MeantUpTo

LEMMA MeantIds == \A k \in Nat : MeantUpTo(k) \subseteq 1 .. MaxVlanId
BY DEF MeantUpTo, Meant

\* A range that passed its checks has ids for ends, in order.
LEMMA GoodRange ==
  ASSUME TrunkScanned, n <= Len(trunk), ~BadRange(item)
  PROVE  /\ item.minID # Nil => item.minID \in 1 .. MaxVlanId
         /\ item.maxID # Nil => item.maxID \in 1 .. MaxVlanId
         /\ item.minID # Nil /\ item.maxID # Nil => item.minID <= item.maxID
         /\ Value(item.minID) > 0 /\ Value(item.maxID) > 0
              <=> item.minID # Nil /\ item.maxID # Nil
  BY ItemType DEF BadRange, OutOfRange, Value

\* A range that failed them is out of order.
LEMMA BadRangeOutOfOrder ==
  ASSUME TrunkScanned, n <= Len(trunk), BadRange(item)
  PROVE  ~InOrder(item)
  BY ItemType DEF BadRange, OutOfRange, Value, InOrder, Given

THEOREM TrunkInitial == TrunkInit => TrunkIInv
<1> SUFFICES ASSUME TrunkInit PROVE TrunkIInv
  OBVIOUS
<1>1. trunk \in Seq(Item) /\ Len(trunk) \in Nat
  BY DEF TrunkInit
<1> QED
  BY <1>1, MeantNone DEF TrunkInit, TrunkIInv, TrunkScanned, TrunkLoop, TrunkExact

THEOREM TrunkStep == TrunkIInv /\ [TrunkNext]_trunkVars => TrunkIInv'
<1> SUFFICES ASSUME TrunkIInv, [TrunkNext]_trunkVars PROVE TrunkIInv'
  OBVIOUS
<1> USE DEF TrunkIInv
<1>0. Len(trunk) \in Nat /\ n \in Nat /\ n >= 1
  BY DEF TrunkScanned
<1>1. CASE ReadRange
  <2>1. /\ n <= Len(trunk) /\ ~BadRange(item) /\ trunk' = trunk /\ n' = n
        /\ vlans' = vlans /\ item' = item /\ at' \in {"range", "id"}
        /\ vlans = MeantUpTo(n - 1) /\ v' = Value(item.minID)
    BY <1>1 DEF ReadRange, TrunkLoop, item
  <2>2. TrunkScanned'
    BY <2>1, ItemType DEF TrunkScanned, Value
  <2>3. \A k : MeantUpTo(k)' = MeantUpTo(k)
    BY <2>1 DEF MeantUpTo
  <2>4. at' = "range" <=> item.minID # Nil /\ item.maxID # Nil
    BY <1>1, <2>1, GoodRange DEF ReadRange
  <2>5. (\A j \in 1 .. n - 1 : InOrder(trunk[j])) /\ ~BadRange(item)'
    BY <1>1, <2>1 DEF TrunkLoop, ReadRange, BadRange
  <2>6. at' = "range" =>
          /\ item.minID <= v' /\ v' <= item.maxID + 1
          /\ item.minID .. v' - 1 = {}
    BY <2>1, <2>4, GoodRange DEF Value
  <2>7. at' = "id" => {x \in Meant(item) : item.minID # Nil /\ item.maxID # Nil
                         /\ item.minID <= x /\ x <= item.maxID} = {}
    BY <2>4, <2>1
  <2>8. TrunkLoop'
    BY <2>1, <2>3, <2>4, <2>5, <2>6, <2>7 DEF TrunkLoop
  <2> QED
    BY <2>1, <2>2, <2>8 DEF TrunkExact
<1>2. CASE AddRange
  <2>1. /\ at = "range" /\ n <= Len(trunk) /\ ~BadRange(item)
        /\ item.minID # Nil /\ item.maxID # Nil
        /\ item.minID <= v /\ v <= item.maxID + 1
        /\ vlans = MeantUpTo(n - 1) \cup (item.minID .. v - 1)
        /\ trunk' = trunk /\ n' = n /\ item' = item /\ v \in Int
        /\ \A j \in 1 .. n - 1 : InOrder(trunk[j])
    BY <1>2 DEF AddRange, TrunkLoop, TrunkScanned, item
  <2>2. item.minID \in 1 .. MaxVlanId /\ item.maxID \in 1 .. MaxVlanId
    BY <2>1, GoodRange
  <2>3. (\A k : MeantUpTo(k)' = MeantUpTo(k)) /\ BadRange(item)' = BadRange(item)
    BY <2>1 DEF MeantUpTo, BadRange
  <2>4. CASE v <= item.maxID
    <3>1. at' = "range" /\ v' = v + 1 /\ vlans' = vlans \cup {v}
      BY <1>2, <2>1, <2>4 DEF AddRange
    <3>2. TrunkScanned'
      BY <2>1, <2>2, <2>4, <3>1 DEF TrunkScanned
    <3>3. item.minID .. v' - 1 = (item.minID .. v - 1) \cup {v}
      BY <2>1, <2>2, <3>1
    <3>4. vlans' = MeantUpTo(n - 1) \cup (item.minID .. v' - 1)
      BY <2>1, <3>1, <3>3, Zenon
    <3>5. item.minID <= v' /\ v' <= item.maxID + 1
      BY <2>1, <2>2, <2>4, <3>1
    <3>6. TrunkLoop'
      BY <2>1, <2>3, <3>1, <3>4, <3>5 DEF TrunkLoop
    <3> QED
      BY <3>1, <3>2, <3>6 DEF TrunkExact
  <2>5. CASE ~(v <= item.maxID)
    <3>1. at' = "id" /\ v' = v /\ vlans' = vlans
      BY <1>2, <2>1, <2>5 DEF AddRange
    <3>2. TrunkScanned'
      BY <2>1, <3>1 DEF TrunkScanned
    <3>3. item.minID .. v - 1 = {x \in Meant(item) : item.minID # Nil /\ item.maxID # Nil
                                   /\ item.minID <= x /\ x <= item.maxID}
      BY <2>1, <2>2, <2>5 DEF Meant
    <3>4. TrunkLoop'
      BY <2>1, <2>3, <3>1, <3>3 DEF TrunkLoop
    <3> QED
      BY <3>1, <3>2, <3>4 DEF TrunkExact
  <2> QED
    BY <2>4, <2>5
<1>3. CASE ReadId
  <2>1. /\ at = "id" /\ at' = "item" /\ n <= Len(trunk) /\ ~BadRange(item)
        /\ trunk' = trunk /\ n' = n + 1 /\ v' = v
        /\ ~(item.id # Nil /\ OutOfRange(item.id))
        /\ \A j \in 1 .. n - 1 : InOrder(trunk[j])
    BY <1>3 DEF ReadId, TrunkLoop
  <2>2. item.id # Nil => item.id \in 1 .. MaxVlanId
    BY <2>1, ItemType DEF OutOfRange
  <2>3. InOrder(item)
    BY <2>1, <2>2, GoodRange DEF InOrder, Given
  <2>4. \A j \in 1 .. n' - 1 : InOrder(trunk'[j])
    <3>1. \A j \in 1 .. n' - 1 : j \in 1 .. n - 1 \/ j = n
      BY <1>0, <2>1
    <3> QED
      BY <2>1, <2>3, <3>1 DEF item
  <2>5. vlans' = MeantUpTo(n - 1) \cup Meant(item)
    <3>1. vlans = MeantUpTo(n - 1)
                    \cup {x \in Meant(item) : item.minID # Nil /\ item.maxID # Nil
                                              /\ item.minID <= x /\ x <= item.maxID}
      BY <2>1 DEF TrunkLoop
    <3>2. vlans' = vlans \cup (IF item.id # Nil THEN {item.id} ELSE {})
      BY <1>3 DEF ReadId
    <3>3. Meant(item) = {x \in Meant(item) : item.minID # Nil /\ item.maxID # Nil
                                             /\ item.minID <= x /\ x <= item.maxID}
                          \cup (IF item.id # Nil THEN {item.id} ELSE {})
      BY <2>2 DEF Meant
    <3> QED
      BY <3>1, <3>2, <3>3, Zenon
  <2>6. MeantUpTo(n) = MeantUpTo(n - 1) \cup Meant(item)
    BY <1>0, MeantStep DEF item
  <2>7. vlans' = MeantUpTo(n - 1)'
    <3>1. n' - 1 = n
      BY <1>0, <2>1
    <3>2. MeantUpTo(n - 1)' = MeantUpTo(n)
      BY <2>1, <3>1 DEF MeantUpTo
    <3> QED
      BY <2>5, <2>6, <3>2
  <2>8. TrunkScanned'
    <3>1. vlans' \subseteq 1 .. MaxVlanId
      BY <2>5, <1>0, MeantIds DEF Meant
    <3> QED
      BY <2>1, <3>1 DEF TrunkScanned
  <2>9. TrunkLoop'
    BY <2>1, <2>4, <2>7 DEF TrunkLoop
  <2> QED
    BY <2>1, <2>8, <2>9 DEF TrunkExact
<1>4. CASE RejectItem
  <2>1. /\ at' = "error" /\ n <= Len(trunk) /\ at \in {"item", "id"}
        /\ UNCHANGED <<trunk, n, v, vlans>>
        /\ BadRange(item) \/ (item.id # Nil /\ OutOfRange(item.id))
    BY <1>4 DEF RejectItem, TrunkLoop
  <2>2. ~InOrder(item)
    BY <2>1, BadRangeOutOfOrder, ItemType DEF InOrder, Given, OutOfRange
  <2>3. ~AllInOrder'
    BY <2>1, <2>2, ItemType DEF AllInOrder, item
  <2>4. TrunkScanned'
    BY <2>1 DEF TrunkScanned
  <2> QED
    BY <2>1, <2>3, <2>4 DEF TrunkLoop, TrunkExact
<1>5. CASE FinishTrunk
  <2>1. /\ n = Len(trunk) + 1 /\ vlans = MeantUpTo(n - 1)
        /\ \A j \in 1 .. n - 1 : InOrder(trunk[j])
        /\ at' = IF vlans = {} THEN "error" ELSE "ok"
        /\ UNCHANGED <<trunk, n, v, vlans>>
    BY <1>5 DEF FinishTrunk, TrunkLoop, TrunkScanned
  <2>2. AllInOrder /\ vlans = AllMeant
    BY <1>0, <2>1 DEF AllInOrder, AllMeant
  <2>3. (AllInOrder <=> AllInOrder') /\ AllMeant' = AllMeant
    BY <2>1 DEF AllInOrder, AllMeant, MeantUpTo
  <2>4. TrunkScanned'
    BY <2>1 DEF TrunkScanned
  <2>5. TrunkLoop'
    BY <2>1 DEF TrunkLoop
  <2> QED
    BY <2>1, <2>2, <2>3, <2>4, <2>5 DEF TrunkExact
<1>6. CASE UNCHANGED trunkVars
  <2>1. UNCHANGED <<trunk, at, n, v, vlans>> /\ item' = item
    BY <1>6 DEF trunkVars, item
  <2>2. (\A k : MeantUpTo(k)' = MeantUpTo(k)) /\ AllInOrder' = AllInOrder
    BY <2>1 DEF MeantUpTo, AllInOrder
  <2>3. AllMeant' = AllMeant
    BY <2>1, <2>2 DEF AllMeant
  <2>4. TrunkScanned' /\ TrunkExact'
    BY <2>1, <2>2, <2>3 DEF TrunkScanned, TrunkExact
  <2>5. TrunkLoop'
    BY <2>1, <2>2 DEF TrunkLoop, BadRange
  <2> QED
    BY <2>4, <2>5
<1> QED
  BY <1>1, <1>2, <1>3, <1>4, <1>5, <1>6 DEF TrunkNext

\* Item by item, what splitVlanIds has collected is what the items so far
\* mean, and none of them was out of order.
THEOREM TrunkInductive == TrunkSpec => []TrunkIInv
  BY TrunkInitial, TrunkStep, PTL DEF TrunkSpec

\* splitVlanIds accepts a trunk exactly if every item is in order and some
\* VLAN is meant, and returns exactly the VLANs meant (vlan.go:26-67), for
\* every option and every largest id.
THEOREM TrunkCorrect == TrunkSpec => []TrunkExact
<1>1. TrunkIInv => TrunkExact
  BY DEF TrunkIInv
<1> QED
  BY TrunkInductive, <1>1, PTL
=============================================================================
