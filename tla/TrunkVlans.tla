------------------------------ MODULE TrunkVlans ------------------------------
(***************************************************************************)
(* splitVlanIds of pkg/config/vlan.go: the `trunk' option, a list of items *)
(* with optional minID, maxID and id, becomes a set of VLAN ids.  The      *)
(* loops of the function are steps; the sort that makes a list of the set  *)
(* is left out, since its readers visit every id.                          *)
(***************************************************************************)
EXTENDS Integers, Sequences

CONSTANTS
  MaxVlanId,  \* 4094 in the code, which reserves 0 and 4095
  Trunks,     \* the values the option may have
  Nil         \* a field that is not given

Item == [minID : Int \cup {Nil}, maxID : Int \cup {Nil}, id : Int \cup {Nil}]

ASSUME MaxVlanIdAssumption == MaxVlanId \in Nat
ASSUME NilAssumption == Nil \notin Int
ASSUME TrunkAssumption == Trunks \subseteq Seq(Item)

VARIABLES
  trunk,  \* the option
  at,     \* the part of the loop body to be run next, or the result
  n,      \* the item being looked at
  v,      \* the id the loop over minID .. maxID has come to
  vlans   \* the ids found so far

trunkVars == <<trunk, at, n, v, vlans>>

TrunkInit ==
  /\ trunk \in Trunks
  /\ at = "item" /\ n = 1 /\ v = 0 /\ vlans = {}

item == trunk[n]

\* A field that is not given reads as 0.
Value(x) == IF x = Nil THEN 0 ELSE x

\* vlanIDIsOutOfRange.
OutOfRangeZero(x) == x < 0 \/ x > MaxVlanId  \* mutant: lets VLAN 0 pass
OutOfRange(x) == x < 1 \/ x > MaxVlanId

BadRange(it) ==
  \/ it.minID # Nil /\ OutOfRange(it.minID)
  \/ it.maxID # Nil /\ (OutOfRange(it.maxID) \/ it.maxID < Value(it.minID))

\* The checks of minID and maxID; the range counts only with both of them.
ReadRange ==
  /\ at = "item" /\ n <= Len(trunk) /\ ~BadRange(item)
  /\ at' = IF Value(item.minID) > 0 /\ Value(item.maxID) > 0 THEN "range" ELSE "id"
  /\ v' = Value(item.minID)
  /\ UNCHANGED <<trunk, n, vlans>>

\* One turn of the loop from minID to maxID, or its end.
AddRangeHalfOpen ==  \* mutant: maxID is left out
  /\ at = "range"
  /\ IF v < item.maxID
     THEN vlans' = vlans \cup {v} /\ v' = v + 1 /\ UNCHANGED at
     ELSE at' = "id" /\ UNCHANGED <<v, vlans>>
  /\ UNCHANGED <<trunk, n>>
AddRange ==
  /\ at = "range"
  /\ IF v <= item.maxID
     THEN vlans' = vlans \cup {v} /\ v' = v + 1 /\ UNCHANGED at
     ELSE at' = "id" /\ UNCHANGED <<v, vlans>>
  /\ UNCHANGED <<trunk, n>>

ReadId ==
  /\ at = "id" /\ ~(item.id # Nil /\ OutOfRange(item.id))
  /\ at' = "item" /\ n' = n + 1
  /\ vlans' = IF item.id # Nil THEN vlans \cup {item.id} ELSE vlans
  /\ UNCHANGED <<trunk, v>>

\* The first bad value ends the function with an error.
RejectItem ==
  /\ \/ at = "item" /\ n <= Len(trunk) /\ BadRange(item)
     \/ at = "id" /\ item.id # Nil /\ OutOfRange(item.id)
  /\ at' = "error"
  /\ UNCHANGED <<trunk, n, v, vlans>>

\* All items are read; a trunk without a VLAN is an error.
FinishTrunk ==
  /\ at = "item" /\ n > Len(trunk)
  /\ at' = IF vlans = {} THEN "error" ELSE "ok"
  /\ UNCHANGED <<trunk, n, v, vlans>>

TrunkNext == ReadRange \/ AddRange \/ ReadId \/ RejectItem \/ FinishTrunk

TrunkSpec == TrunkInit /\ [][TrunkNext]_trunkVars

(***************************************************************************)
(* Properties.                                                             *)
(***************************************************************************)
\* What an item means (docs/configuration-reference.md:17-20): its id, and
\* all ids from minID to maxID.
Meant(it) ==
  {x \in 1 .. MaxVlanId :
     \/ x = it.id
     \/ it.minID # Nil /\ it.maxID # Nil /\ it.minID <= x /\ x <= it.maxID}

Given(it) == {it.minID, it.maxID, it.id} \ {Nil}

\* An item is in order if all it gives are ids, and not in reverse.
InOrder(it) ==
  /\ Given(it) \subseteq 1 .. MaxVlanId
  /\ it.minID # Nil /\ it.maxID # Nil => it.minID <= it.maxID

MeantUpTo(k) == UNION {Meant(trunk[j]) : j \in 1 .. k}
AllMeant == MeantUpTo(Len(trunk))
AllInOrder == \A j \in 1 .. Len(trunk) : InOrder(trunk[j])

\* A trunk is accepted exactly if all its items are in order and some VLAN is
\* meant, and it then has the VLANs its items mean: no boundary, single id,
\* overlap or half-given range adds or loses one.
TrunkExact ==
  /\ at = "ok" => AllInOrder /\ vlans = AllMeant /\ vlans # {}
  /\ at = "error" => ~AllInOrder \/ AllMeant = {}

\* Why TrunkExact holds: what has been read so far is exact.
TrunkScanned ==
  /\ trunk \in Seq(Item)
  /\ at \in {"item", "range", "id", "ok", "error"}
  /\ n \in 1 .. Len(trunk) + 1
  /\ v \in Int
  /\ vlans \subseteq 1 .. MaxVlanId

TrunkLoop ==
  /\ at # "error" => \A j \in 1 .. n - 1 : InOrder(trunk[j])
  /\ at = "item" => vlans = MeantUpTo(n - 1)
  /\ at \in {"range", "id"} => n <= Len(trunk) /\ ~BadRange(item)
  /\ at = "range" =>
       /\ item.minID # Nil /\ item.maxID # Nil
       /\ item.minID <= v /\ v <= item.maxID + 1
       /\ vlans = MeantUpTo(n - 1) \cup (item.minID .. v - 1)
  /\ at = "id" =>
       vlans = MeantUpTo(n - 1)
                 \cup {x \in Meant(item) : item.minID # Nil /\ item.maxID # Nil
                                           /\ item.minID <= x /\ x <= item.maxID}

TrunkIInv == TrunkScanned /\ TrunkLoop /\ TrunkExact
=============================================================================
