--------------------------- MODULE ParseConfProofs ---------------------------
(***************************************************************************)
(* Proofs about ParseConf, for any inputs: any VF links, any options, and  *)
(* any tree of links between the PF and its bridge.  What splitVlanIds     *)
(* does is taken from TrunkVlansProofs.                                    *)
(***************************************************************************)
EXTENDS ParseConf, TrunkVlansProofs

(***************************************************************************)
(* The links above a link.                                                 *)
(***************************************************************************)
\* The links above l are there, l is one of them if it is there, they are
\* closed under masters, and they are in every such set.
LEMMA AboveIsLeast ==
  ASSUME NEW links, NEW l
  PROVE  LET A == LinksAbove(links, l)
         IN  /\ A \subseteq DOMAIN links /\ (l \in DOMAIN links => l \in A)
             /\ \A k \in A : links[k].master \in A \/ links[k].master \notin DOMAIN links
             /\ \A S \in SUBSET DOMAIN links :
                  /\ l \in DOMAIN links => l \in S
                  /\ \A k \in S : links[k].master \in S \/ links[k].master \notin DOMAIN links
                  => A \subseteq S
<1> DEFINE Closed(S) ==
      \A k \in S : links[k].master \in S \/ links[k].master \notin DOMAIN links
<1> DEFINE A == LinksAbove(links, l)
<1>1. \A k : k \in A <=>
        /\ k \in DOMAIN links
        /\ \A S \in SUBSET DOMAIN links : (l \in DOMAIN links => l \in S) /\ Closed(S) => k \in S
  BY DEF LinksAbove
<1> HIDE DEF A
<1>2. A \subseteq DOMAIN links /\ (l \in DOMAIN links => l \in A)
  BY <1>1
<1>3. ASSUME NEW k \in A, links[k].master \in DOMAIN links
      PROVE  links[k].master \in A
  BY <1>1, <1>3
<1> QED
  BY <1>1, <1>2, <1>3 DEF A

\* Above a link that is there is the link itself and what is above its
\* master; above one that is not there is nothing.
LEMMA AboveUnfolds ==
  ASSUME NEW links, NEW l
  PROVE  LinksAbove(links, l) = IF l \in DOMAIN links
                                THEN {l} \cup LinksAbove(links, links[l].master) ELSE {}
<1>1. CASE l \in DOMAIN links
  <2> DEFINE m == links[l].master  A == LinksAbove(links, l)  B == LinksAbove(links, m)
  <2>1. /\ A \subseteq DOMAIN links /\ l \in A
        /\ \A k \in A : links[k].master \in A \/ links[k].master \notin DOMAIN links
        /\ \A S \in SUBSET DOMAIN links :
             /\ l \in S
             /\ \A k \in S : links[k].master \in S \/ links[k].master \notin DOMAIN links
             => A \subseteq S
    BY <1>1, AboveIsLeast
  <2>2. /\ B \subseteq DOMAIN links /\ (m \in DOMAIN links => m \in B)
        /\ \A k \in B : links[k].master \in B \/ links[k].master \notin DOMAIN links
        /\ \A S \in SUBSET DOMAIN links :
             /\ m \in DOMAIN links => m \in S
             /\ \A k \in S : links[k].master \in S \/ links[k].master \notin DOMAIN links
             => B \subseteq S
    BY AboveIsLeast
  <2> HIDE DEF A, B
  <2>3. A \subseteq {l} \cup B
    <3> DEFINE S == {l} \cup B
    <3>1. S \in SUBSET DOMAIN links /\ l \in S
      BY <1>1, <2>2
    <3>2. \A k \in S : links[k].master \in S \/ links[k].master \notin DOMAIN links
      BY <2>2
    <3> HIDE DEF S
    <3>3. A \subseteq S
      BY <2>1, <3>1, <3>2
    <3> QED
      BY <3>3 DEF S
  <2>4. B \subseteq A
    BY <2>1, <2>2
  <2>5. A = {l} \cup B
    BY <2>1, <2>3, <2>4
  <2> QED
    BY <1>1, <2>5 DEF A, B
<1>2. CASE l \notin DOMAIN links
  <2> DEFINE A == LinksAbove(links, l)
  <2>1. \A S \in SUBSET DOMAIN links :
          /\ l \in DOMAIN links => l \in S
          /\ \A k \in S : links[k].master \in S \/ links[k].master \notin DOMAIN links
          => A \subseteq S
    BY AboveIsLeast
  <2> HIDE DEF A
  <2>2. A \subseteq {}
    <3> DEFINE S == {}
    <3>1. S \in SUBSET DOMAIN links /\ S = {}
      OBVIOUS
    <3>2. \A k \in S : links[k].master \in S \/ links[k].master \notin DOMAIN links
      OBVIOUS
    <3> HIDE DEF S
    <3>3. A \subseteq S
      BY <1>2, <2>1, <3>1, <3>2
    <3> QED
      BY <3>1, <3>3
  <2> QED
    BY <1>2, <2>2 DEF A
<1> QED
  BY <1>1, <1>2

(***************************************************************************)
(* The inductive invariant.                                                *)
(***************************************************************************)
\* ParseConf does not change its input, and Known is known of it.
KnownOfInput == in \in Input /\ Known

\* What the inputs are assumed to be, of the one that is parsed.
LEMMA InputFacts ==
  ASSUME in \in Input
  PROVE  /\ in.trunk \in Trunks /\ in.vlan \in Int
         /\ NumVfs \in Int /\ NumVfs >= -1 /\ DOMAIN in.virtfn \subseteq Nat
         /\ Nil \notin DOMAIN in.links
         /\ in.pf \in DOMAIN in.links => in.links[in.pf].kind # "bridge"
         /\ \A b \in DOMAIN in.links : in.links[b].kind = "bridge" =>
              \A l \in Above(b) \ {b} : in.links[l].kind # "bridge"
<1>1. /\ in.trunk \in Trunks /\ in.vlan \in Int /\ in.numVfs \in Nat \cup {Nil}
      /\ DOMAIN in.virtfn \subseteq Nat /\ Nil \notin DOMAIN in.links
      /\ in.pf \in DOMAIN in.links => in.links[in.pf].kind # "bridge"
      /\ \A b \in DOMAIN in.links : in.links[b].kind = "bridge" =>
           \A l \in LinksAbove(in.links, b) \ {b} : in.links[l].kind # "bridge"
  BY InputAssumption, Zenon
<1>2. NumVfs \in Int /\ NumVfs >= -1
  BY <1>1 DEF NumVfs
<1> QED
  BY <1>1, <1>2, Zenon DEF Above

LEMMA BridgeFacts ==
  ASSUME in \in Input
  PROVE  /\ Len(AllowedBridges) \in Nat /\ Len(AllowedBridges) >= 1
         /\ DOMAIN AllowedBridges = 1 .. Len(AllowedBridges)
         /\ Allowed = {AllowedBridges[k] : k \in DOMAIN AllowedBridges}
<1>1. in.bridge \in Seq({in.bridge[k] : k \in DOMAIN in.bridge})
  BY InputAssumption, Zenon
<1>2. CASE in.bridge = <<>>
  BY <1>2 DEF AllowedBridges, Allowed
<1>3. CASE in.bridge # <<>>
  <2> DEFINE b == in.bridge
  <2>1. b \in Seq({b[k] : k \in DOMAIN b}) /\ b # <<>> /\ AllowedBridges = b
    BY <1>1, <1>3 DEF AllowedBridges
  <2> HIDE DEF b
  <2>2. Len(b) \in Nat /\ DOMAIN b = 1 .. Len(b) /\ Len(b) >= 1
    BY <2>1
  <2> QED
    BY <2>1, <2>2 DEF Allowed
<1> QED
  BY <1>2, <1>3

\* What is said of the input only does not change.
LEMMA InputSame ==
  ASSUME in' = in
  PROVE  /\ NumVfs' = NumVfs /\ Allowed' = Allowed /\ AllowedBridges' = AllowedBridges
         /\ \A i : Virtfn(i)' = Virtfn(i)
         /\ \A l : Above(l)' = Above(l)
         /\ UplinkBridge' = UplinkBridge
         /\ GoodVf' = GoodVf /\ GoodBridge' = GoodBridge /\ GoodDriver' = GoodDriver
         /\ HasName' = HasName /\ GoodArgs' = GoodArgs
<1>1. NumVfs' = NumVfs /\ AllowedBridges' = AllowedBridges /\ HasName' = HasName
  BY DEF NumVfs, AllowedBridges, HasName
<1>2. Allowed' = Allowed
  BY <1>1 DEF Allowed
<1>3. \A i : Virtfn(i)' = Virtfn(i)
  BY DEF Virtfn
<1>4. \A l : Above(l)' = Above(l)
  BY DEF Above
<1>5. UplinkBridge' = UplinkBridge
  BY <1>4 DEF UplinkBridge
<1>6. GoodVf' = GoodVf
  BY <1>1 DEF GoodVf, VfOfPf
<1>7. GoodBridge' = GoodBridge
  BY <1>1, <1>2, <1>5, Zenon DEF GoodBridge
<1>8. GoodDriver' = GoodDriver /\ GoodArgs' = GoodArgs
  BY <1>1, Zenon DEF GoodDriver, GoodArgs
<1> QED
  BY <1>1, <1>2, <1>3, <1>4, <1>5, <1>6, <1>7, <1>8, Zenon

\* What is known of the trunk does not change while splitVlanIds does not run.
LEMMA TrunkSame ==
  ASSUME in' = in, trunkVars' = trunkVars
  PROVE  /\ trunk' = trunk /\ at' = at /\ vlans' = vlans
         /\ GoodVlans' = GoodVlans
         /\ TrunkIInv => TrunkIInv'
<1>1. trunk' = trunk /\ at' = at /\ vlans' = vlans
  BY DEF trunkVars
<1>2. GoodVlans' = GoodVlans
  BY <1>1 DEF GoodVlans, AllInOrder, AllMeant, MeantUpTo
<1>3. TrunkIInv => TrunkIInv'
  BY TrunkStep
<1> QED
  BY <1>1, <1>2, <1>3, Zenon

LEMMA KnownAtFirst == Init => KnownOfInput
<1> SUFFICES ASSUME Init PROVE KnownOfInput
  OBVIOUS
<1>1. in \in Input /\ pc = "uplink" /\ out = NoOut /\ vf = 0 /\ master = Nil /\ trunk = in.trunk
      /\ at = "item" /\ vlans = {} /\ TrunkIInv
  BY TrunkInitial DEF Init, TrunkInit
<1>2. TypeOK
  BY <1>1, InputFacts DEF TypeOK, NoOut, Field
<1>3. VfKnown /\ BridgeKnown /\ NameKnown
  BY <1>1 DEF VfKnown, BridgeKnown, NameKnown, NoOut, PastVf, PastBridge, PastName
<1>4. VlansKnown /\ MacKnown /\ UplinkKnown /\ AcceptsExactly
  BY <1>1 DEF VlansKnown, MacKnown, UplinkKnown, AcceptsExactly, PastTrunk
<1> QED
  BY <1>1, <1>2, <1>3, <1>4 DEF KnownOfInput, Known

(***************************************************************************)
(* It is kept by every call.                                               *)
(***************************************************************************)
\* A call that fails leaves all it found as it is; that it was right to fail
\* is then all there is to show.
LEMMA KnownAfterFailure ==
  ASSUME KnownOfInput, pc' = "failed", UNCHANGED <<in, out, vf, master>>,
         trunk' = trunk, TrunkIInv',
         ~(GoodVf' /\ GoodBridge' /\ GoodDriver' /\ GoodVlans' /\ GoodArgs')
  PROVE  KnownOfInput'
<1>1. TypeOK'
  BY InputSame DEF TypeOK, KnownOfInput, Known
<1>2. VfKnown' /\ BridgeKnown' /\ NameKnown' /\ MacKnown' /\ UplinkKnown'
  BY DEF VfKnown, BridgeKnown, NameKnown, MacKnown, UplinkKnown, PastVf, PastBridge, PastName
<1>3. VlansKnown'
  BY DEF VlansKnown, PastTrunk, KnownOfInput, Known
<1>4. AcceptsExactly'
  BY DEF AcceptsExactly
<1> QED
  BY <1>1, <1>2, <1>3, <1>4 DEF KnownOfInput, Known

\* Before splitVlanIds and after it, it does nothing.
LEMMA VlansKnownApart ==
  ASSUME KnownOfInput, in' = in, trunkVars' = trunkVars, pc' # "failed",
         pc' \notin {"trunk", "mac", "bond", "done"} =>
           pc \in {"uplink", "virtfn", "bridge", "walk", "name", "vlan"},
         pc' = "trunk" => pc = "vlan" /\ in.trunk # <<>>,
         pc' = "mac" => pc = "vlan" /\ in.trunk = <<>>,
         pc' \in {"bond", "done"} => pc \in {"mac", "bond"},
         pc' \in {"trunk", "mac"} => in.vlan \in 0 .. MaxVlanId
  PROVE  VlansKnown'
<1>1. VlansKnown /\ TypeOK
  BY DEF KnownOfInput, Known
<1>2. TrunkIInv' /\ trunk' = trunk /\ at' = at /\ vlans' = vlans
  BY <1>1, TrunkSame DEF VlansKnown
<1> QED
  BY <1>1, <1>2 DEF VlansKnown, PastTrunk, TypeOK

LEMMA KnownAfterGetUplink ==
  ASSUME KnownOfInput, GetUplink
  PROVE  KnownOfInput'
<1>1. /\ in' = in /\ in \in Input /\ trunkVars' = trunkVars /\ vf' = vf /\ master' = master
      /\ pc = "uplink" /\ out = NoOut /\ vf = 0 /\ TypeOK /\ VlansKnown
  BY DEF GetUplink, Quiet, At, KnownOfInput, Known, VfKnown
<1>2. CASE in.deviceID = Nil \/ in.pf = Nil
  <2>1. pc' = "failed" /\ out' = out /\ ~GoodVf
    BY <1>2 DEF GetUplink, Fail, Goto, GoodVf
  <2> QED
    BY <1>1, <2>1, InputSame, TrunkSame, KnownAfterFailure DEF VlansKnown
<1>3. CASE ~(in.deviceID = Nil \/ in.pf = Nil)
  <2>1. pc' = "virtfn" /\ out' = [NoOut EXCEPT !.PFName = in.pf]
    BY <1>1, <1>3 DEF GetUplink, Goto, Sets
  <2>2. out'.PFName = in.pf /\ DOMAIN out' = DOMAIN NoOut /\ out'.VFID = Nil
        /\ out'.ActualBridge = Nil /\ out'.IsUserspaceDriver = FALSE
    BY <2>1 DEF NoOut
  <2>3. TypeOK'
    BY <1>1, <2>1, <2>2, InputSame DEF TypeOK, Field, NoOut
  <2>4. VfKnown'
    BY <1>1, <1>3, <2>1, <2>2 DEF VfKnown, PastVf
  <2>5. VlansKnown'
    BY <1>1, <2>1, VlansKnownApart
  <2> QED
    BY <1>1, <2>1, <2>2, <2>3, <2>4, <2>5
       DEF KnownOfInput, Known, BridgeKnown, NameKnown, MacKnown, UplinkKnown, AcceptsExactly,
           PastBridge, PastName
<1> QED
  BY <1>2, <1>3

\* GetVfid: all links below the one it looks at are another VF's, or no
\* VF's; after the last one there is none left.
LEMMA KnownAfterGetVfid ==
  ASSUME KnownOfInput, GetVfid
  PROVE  KnownOfInput'
<1>1. /\ in' = in /\ in \in Input /\ trunkVars' = trunkVars /\ master' = master
      /\ pc = "virtfn" /\ TypeOK /\ VlansKnown /\ vf \in Nat
      /\ in.deviceID # Nil /\ in.pf # Nil /\ out.PFName = in.pf /\ ~out.IsUserspaceDriver
      /\ \A i \in 0 .. vf - 1 : Virtfn(i) # in.deviceID
  BY DEF GetVfid, At, KnownOfInput, Known, VfKnown, NameKnown, PastName, TypeOK
<1>0. NumVfs \in Int /\ NumVfs >= -1 /\ DOMAIN in.virtfn \subseteq Nat
  BY <1>1, InputFacts
<1>2. CASE vf > NumVfs
  <2>1. pc' = "failed" /\ out' = out /\ vf' = vf
    BY <1>2 DEF GetVfid, Fail, Goto
  <2>2. \A i \in DOMAIN in.virtfn : i <= NumVfs => i \in 0 .. vf - 1 /\ Virtfn(i) = in.virtfn[i]
    BY <1>0, <1>1, <1>2 DEF Virtfn
  <2>3. ~GoodVf
    BY <1>1, <2>2 DEF GoodVf, VfOfPf
  <2> QED
    BY <1>1, <2>1, <2>3, InputSame, TrunkSame, KnownAfterFailure DEF VlansKnown
<1>3. CASE ~(vf > NumVfs) /\ Virtfn(vf) = in.deviceID
  <2>1. pc' = "bridge" /\ out' = [out EXCEPT !.VFID = vf] /\ vf' = vf
    BY <1>3 DEF GetVfid, Goto, Sets
  <2>2. vf \in DOMAIN in.virtfn /\ in.virtfn[vf] = in.deviceID /\ vf <= NumVfs
    BY <1>0, <1>1, <1>3 DEF Virtfn
  <2>3. /\ DOMAIN out' = DOMAIN NoOut /\ out'.VFID = vf /\ out'.PFName = out.PFName
        /\ out'.ActualBridge = out.ActualBridge /\ out'.IsUserspaceDriver = out.IsUserspaceDriver
    BY <1>1, <2>1 DEF TypeOK, NoOut
  <2>4. TypeOK'
    BY <1>1, <2>1, <2>3, InputSame DEF TypeOK, Field
  <2>5. VfKnown'
    BY <1>1, <2>1, <2>2, <2>3, InputSame DEF VfKnown, PastVf
  <2>6. VlansKnown'
    BY <1>1, <2>1, VlansKnownApart
  <2> QED
    BY <1>1, <2>1, <2>3, <2>4, <2>5, <2>6
       DEF KnownOfInput, Known, BridgeKnown, NameKnown, MacKnown, UplinkKnown, AcceptsExactly,
           PastBridge, PastName
<1>4. CASE ~(vf > NumVfs) /\ Virtfn(vf) # in.deviceID
  <2>1. pc' = pc /\ out' = out /\ vf' = vf + 1
    BY <1>4 DEF GetVfid
  <2>2. vf' \in 0 .. NumVfs + 2
    BY <1>0, <1>1, <1>4, <2>1
  <2>3. TypeOK'
    BY <1>1, <2>1, <2>2, InputSame DEF TypeOK
  <2>4. \A i \in 0 .. vf' - 1 : i \in 0 .. vf - 1 \/ i = vf
    BY <1>1, <2>1
  <2>5. VfKnown'
    BY <1>1, <1>4, <2>1, <2>4, InputSame DEF VfKnown, PastVf
  <2>6. VlansKnown'
    BY <1>1, <2>1, VlansKnownApart
  <2> QED
    BY <1>1, <2>1, <2>3, <2>5, <2>6
       DEF KnownOfInput, Known, BridgeKnown, NameKnown, MacKnown, UplinkKnown, AcceptsExactly,
           PastBridge, PastName
<1> QED
  BY <1>2, <1>3, <1>4

\* One bridge is taken as it is; with several the walk starts at the PF.
LEMMA KnownAfterHandleBridge ==
  ASSUME KnownOfInput, HandleBridge
  PROVE  KnownOfInput'
<1>1. /\ in' = in /\ in \in Input /\ trunkVars' = trunkVars /\ vf' = vf
      /\ pc = "bridge" /\ TypeOK /\ VlansKnown /\ VfKnown /\ NameKnown
      /\ out.PFName = in.pf /\ ~out.IsUserspaceDriver
  BY DEF HandleBridge, At, KnownOfInput, Known, VfKnown, NameKnown, PastName, PastVf
<1>0. Len(AllowedBridges) \in Nat /\ Len(AllowedBridges) >= 1
      /\ Allowed = {AllowedBridges[k] : k \in 1 .. Len(AllowedBridges)}
  BY <1>1, BridgeFacts
<1>2. CASE Blank \in Allowed
  <2>1. pc' = "failed" /\ out' = out /\ master' = master /\ ~GoodBridge
    BY <1>2 DEF HandleBridge, Fail, Goto, GoodBridge
  <2> QED
    BY <1>1, <2>1, InputSame, TrunkSame, KnownAfterFailure DEF VlansKnown
<1>3. CASE Blank \notin Allowed /\ Len(AllowedBridges) = 1
  <2>1. /\ pc' = "name" /\ out' = [out EXCEPT !.ActualBridge = AllowedBridges[1]]
        /\ master' = master
    BY <1>3 DEF HandleBridge, Goto, Sets
  <2>2. AllowedBridges[1] \in Allowed /\ GoodBridge /\ ~(Len(AllowedBridges) > 1)
    BY <1>0, <1>3 DEF GoodBridge
  <2>3. /\ DOMAIN out' = DOMAIN NoOut /\ out'.VFID = out.VFID /\ out'.PFName = out.PFName
        /\ out'.ActualBridge = AllowedBridges[1]
        /\ out'.IsUserspaceDriver = out.IsUserspaceDriver
    BY <1>1, <2>1 DEF TypeOK, NoOut
  <2>4. TypeOK'
    BY <1>1, <2>1, <2>2, <2>3, InputSame DEF TypeOK, Field
  <2>5. VfKnown'
    BY <1>1, <2>1, <2>3, InputSame DEF VfKnown, PastVf
  <2>6. BridgeKnown'
    BY <1>1, <2>1, <2>2, <2>3, InputSame DEF BridgeKnown, PastBridge
  <2>7. VlansKnown'
    BY <1>1, <2>1, VlansKnownApart
  <2> QED
    BY <1>1, <2>1, <2>3, <2>4, <2>5, <2>6, <2>7
       DEF KnownOfInput, Known, NameKnown, MacKnown, UplinkKnown, AcceptsExactly, PastName
<1>4. CASE Blank \notin Allowed /\ Len(AllowedBridges) # 1
  <2>1. pc' = "walk" /\ master' = in.pf /\ out' = out
    BY <1>1, <1>4 DEF HandleBridge, Goto
  <2>2. Len(AllowedBridges) > 1
    <3> DEFINE length == Len(AllowedBridges)
    <3>1. length \in Nat /\ length >= 1 /\ length # 1
      BY <1>0, <1>4
    <3> HIDE DEF length
    <3>2. length > 1
      BY <3>1
    <3> QED
      BY <3>2 DEF length
  <2>3. TypeOK'
    BY <1>1, <2>1, InputSame DEF TypeOK, Field
  <2>4. VfKnown'
    BY <1>1, <2>1, InputSame DEF VfKnown, PastVf
  <2>5. UplinkBridge' = {l \in Above(master)' : in'.links[l].kind = "bridge"}
    BY <1>1, <2>1 DEF UplinkBridge, Above
  <2>6. BridgeKnown'
    BY <1>1, <1>4, <2>1, <2>2, <2>5, InputSame DEF BridgeKnown, PastBridge
  <2>7. VlansKnown'
    BY <1>1, <2>1, VlansKnownApart
  <2> QED
    BY <1>1, <2>1, <2>3, <2>4, <2>6, <2>7
       DEF KnownOfInput, Known, NameKnown, MacKnown, UplinkKnown, AcceptsExactly, PastName
<1> QED
  BY <1>2, <1>3, <1>4

\* Above the link the walk has come to are the same bridges as above the PF.
LEMMA KnownAfterFindBridge ==
  ASSUME KnownOfInput, FindBridge
  PROVE  KnownOfInput'
<1>1. /\ in' = in /\ in \in Input /\ trunkVars' = trunkVars /\ vf' = vf
      /\ pc = "walk" /\ TypeOK /\ VlansKnown /\ VfKnown /\ NameKnown
      /\ Blank \notin Allowed /\ Len(AllowedBridges) > 1
      /\ UplinkBridge = {l \in Above(master) : in.links[l].kind = "bridge"}
      /\ ~out.IsUserspaceDriver
  BY DEF FindBridge, At, KnownOfInput, Known, BridgeKnown, NameKnown, PastName
<1>0. Above(master) = IF master \in DOMAIN in.links
                      THEN {master} \cup Above(in.links[master].master) ELSE {}
  BY AboveUnfolds DEF Above
<1>2. CASE master \notin DOMAIN in.links
  <2>1. pc' = "failed" /\ out' = out /\ master' = master
    BY <1>2 DEF FindBridge, Fail, Goto
  <2>2. ~GoodBridge
    BY <1>0, <1>1, <1>2 DEF GoodBridge
  <2> QED
    BY <1>1, <2>1, <2>2, InputSame, TrunkSame, KnownAfterFailure DEF VlansKnown
<1>3. CASE master \in DOMAIN in.links /\ in.links[master].kind # "bridge"
  <2>1. pc' = pc /\ out' = out /\ master' = in.links[master].master
    BY <1>3 DEF FindBridge
  <2>2. UplinkBridge = {l \in Above(master') : in.links[l].kind = "bridge"}
    BY <1>0, <1>1, <1>3, <2>1
  <2>3. UplinkBridge' = {l \in Above(master)' : in'.links[l].kind = "bridge"}
    BY <1>1, <2>2, InputSame DEF Above
  <2>4. TypeOK'
    BY <1>1, <1>3, <2>1, InputSame DEF TypeOK, Field
  <2>5. VfKnown'
    BY <1>1, <2>1, InputSame DEF VfKnown, PastVf
  <2>6. BridgeKnown'
    BY <1>1, <2>1, <2>3, InputSame DEF BridgeKnown, PastBridge
  <2>7. VlansKnown'
    BY <1>1, <2>1, VlansKnownApart
  <2> QED
    BY <1>1, <2>1, <2>4, <2>5, <2>6, <2>7
       DEF KnownOfInput, Known, NameKnown, MacKnown, UplinkKnown, AcceptsExactly, PastName
<1>4. CASE master \in DOMAIN in.links /\ in.links[master].kind = "bridge"
  <2>1. UplinkBridge = {master}
    <3>1. \A l \in Above(master) \ {master} : in.links[l].kind # "bridge"
      BY <1>1, <1>4, InputFacts
    <3>2. master \in Above(master)
      BY <1>0, <1>4
    <3> QED
      BY <1>1, <1>4, <3>1, <3>2
  <2>2. CASE master \in Allowed
    <3>1. pc' = "name" /\ out' = [out EXCEPT !.ActualBridge = master] /\ master' = master
      BY <1>4, <2>2 DEF FindBridge, Goto, Sets
    <3>2. GoodBridge
      BY <1>1, <2>1, <2>2 DEF GoodBridge
    <3>3. /\ DOMAIN out' = DOMAIN NoOut /\ out'.VFID = out.VFID /\ out'.PFName = out.PFName
          /\ out'.ActualBridge = master
          /\ out'.IsUserspaceDriver = out.IsUserspaceDriver
      BY <1>1, <3>1 DEF TypeOK, NoOut
    <3>4. TypeOK'
      BY <1>1, <2>2, <3>1, <3>3, InputSame DEF TypeOK, Field
    <3>5. VfKnown'
      BY <1>1, <3>1, <3>3, InputSame DEF VfKnown, PastVf
    <3>6. BridgeKnown'
      BY <1>1, <2>1, <2>2, <3>1, <3>2, <3>3, InputSame DEF BridgeKnown, PastBridge
    <3>7. VlansKnown'
      BY <1>1, <3>1, VlansKnownApart
    <3> QED
      BY <1>1, <3>1, <3>3, <3>4, <3>5, <3>6, <3>7
         DEF KnownOfInput, Known, NameKnown, MacKnown, UplinkKnown, AcceptsExactly, PastName
  <2>3. CASE master \notin Allowed
    <3>1. pc' = "failed" /\ out' = out /\ master' = master
      BY <1>4, <2>3 DEF FindBridge, Fail, Goto
    <3>2. ~GoodBridge
      BY <1>1, <2>1, <2>3 DEF GoodBridge
    <3> QED
      BY <1>1, <3>1, <3>2, InputSame, TrunkSame, KnownAfterFailure DEF VlansKnown
  <2> QED
    BY <2>2, <2>3
<1> QED
  BY <1>2, <1>3, <1>4

\* The net device, or else the driver.
LEMMA KnownAfterGetName ==
  ASSUME KnownOfInput, GetName
  PROVE  KnownOfInput'
<1>1. /\ in' = in /\ in \in Input /\ trunkVars' = trunkVars /\ vf' = vf /\ master' = master
      /\ pc = "name" /\ TypeOK /\ VlansKnown /\ VfKnown /\ BridgeKnown
      /\ ~out.IsUserspaceDriver
  BY DEF GetName, Quiet, At, KnownOfInput, Known, NameKnown, PastName
<1>2. CASE ~GoodDriver
  <2>1. pc' = "failed" /\ out' = out
    BY <1>2 DEF GetName, GoodDriver, HasName, Fail, Goto
  <2> QED
    BY <1>1, <1>2, <2>1, InputSame, TrunkSame, KnownAfterFailure DEF VlansKnown
<1>3. CASE GoodDriver
  <2>1. /\ pc' = "vlan"
        /\ out' = IF HasName THEN [out EXCEPT !.HostIFName = in.names[1]]
                  ELSE [out EXCEPT !.IsUserspaceDriver = TRUE]
    BY <1>3 DEF GetName, GoodDriver, HasName, Goto, Sets
  <2>2. DOMAIN out = DOMAIN NoOut
    BY <1>1 DEF TypeOK
  <2>3. /\ DOMAIN out' = DOMAIN NoOut /\ out'.VFID = out.VFID /\ out'.PFName = out.PFName
        /\ out'.ActualBridge = out.ActualBridge
    BY <2>1, <2>2 DEF NoOut
  <2>4. /\ out'.IsUserspaceDriver \in BOOLEAN /\ (out'.IsUserspaceDriver <=> ~HasName)
        /\ HasName => out'.HostIFName = in.names[1]
    <3>1. CASE HasName
      <4>1. out'.IsUserspaceDriver = out.IsUserspaceDriver
        BY <2>1, <2>2, <3>1 DEF NoOut
      <4>2. out'.HostIFName = in.names[1]
        BY <2>1, <2>2, <3>1 DEF NoOut
      <4>3. out.IsUserspaceDriver = FALSE
        BY <1>1 DEF TypeOK
      <4> QED
        BY <3>1, <4>1, <4>2, <4>3
    <3>2. CASE ~HasName
      <4>1. out'.IsUserspaceDriver = TRUE
        BY <2>1, <2>2, <3>2 DEF NoOut
      <4> QED
        BY <3>2, <4>1
    <3> QED
      BY <3>1, <3>2
  <2>5. TypeOK'
    BY <1>1, <2>1, <2>3, <2>4, InputSame DEF TypeOK
  <2>6. VfKnown'
    BY <1>1, <2>1, <2>3, InputSame DEF VfKnown, PastVf
  <2>7. BridgeKnown'
    BY <1>1, <2>1, <2>3, InputSame DEF BridgeKnown, PastBridge
  <2>8. NameKnown'
    BY <1>1, <1>3, <2>1, <2>4, InputSame DEF NameKnown, PastName
  <2>9. VlansKnown'
    BY <1>1, <2>1, VlansKnownApart
  <2> QED
    BY <1>1, <2>1, <2>5, <2>6, <2>7, <2>8, <2>9
       DEF KnownOfInput, Known, MacKnown, UplinkKnown, AcceptsExactly
<1> QED
  BY <1>2, <1>3

\* A call that changes neither the output nor what has been looked up.
LEMMA KnownSame ==
  ASSUME KnownOfInput, UNCHANGED <<in, out, vf, master>>, pc \in PastName, pc' \in PastName,
         pc' \notin {"bond", "done"}, VlansKnown'
  PROVE  KnownOfInput'
<1>1. TypeOK /\ VfKnown /\ BridgeKnown /\ NameKnown
  BY DEF KnownOfInput, Known
<1>2. TypeOK'
  BY <1>1, InputSame DEF TypeOK, PastName
<1>3. VfKnown'
  BY <1>1, InputSame DEF VfKnown, PastVf, PastName
<1>4. BridgeKnown'
  BY <1>1, InputSame DEF BridgeKnown, PastBridge, PastName
<1>5. NameKnown'
  BY <1>1, InputSame DEF NameKnown, PastName
<1>6. MacKnown' /\ UplinkKnown' /\ AcceptsExactly'
  BY DEF MacKnown, UplinkKnown, AcceptsExactly, PastName
<1> QED
  BY <1>2, <1>3, <1>4, <1>5, <1>6 DEF KnownOfInput, Known

LEMMA KnownAfterCheckVlan ==
  ASSUME KnownOfInput, CheckVlan
  PROVE  KnownOfInput'
<1>1. /\ UNCHANGED <<in, out, vf, master>> /\ in \in Input /\ trunkVars' = trunkVars
      /\ pc = "vlan" /\ VlansKnown
  BY DEF CheckVlan, Quiet, At, KnownOfInput, Known
<1>2. in.vlan \in Int
  BY <1>1, InputFacts
<1>3. CASE in.vlan < 0 \/ in.vlan > MaxVlanId
  <2>1. pc' = "failed"
    BY <1>3 DEF CheckVlan, Fail, Goto
  <2>2. ~GoodVlans
    BY <1>2, <1>3, MaxVlanIdAssumption DEF GoodVlans
  <2> QED
    BY <1>1, <2>1, <2>2, InputSame, TrunkSame, KnownAfterFailure DEF VlansKnown
<1>4. CASE ~(in.vlan < 0 \/ in.vlan > MaxVlanId)
  <2>1. pc' = IF in.trunk # <<>> THEN "trunk" ELSE "mac"
    BY <1>4 DEF CheckVlan, Goto
  <2>2. in.vlan \in 0 .. MaxVlanId
    BY <1>2, <1>4, MaxVlanIdAssumption
  <2>3. VlansKnown'
    BY <1>1, <2>1, <2>2, VlansKnownApart
  <2> QED
    BY <1>1, <2>1, <2>3, KnownSame DEF PastName
<1> QED
  BY <1>3, <1>4

\* splitVlanIds by its own invariant; its error is one of the trunk.
LEMMA KnownAfterSplitVlans ==
  ASSUME KnownOfInput, SplitVlans
  PROVE  KnownOfInput'
<1>1. /\ UNCHANGED <<in, out, vf, master>> /\ pc = "trunk" /\ TrunkNext
      /\ pc' = IF at' = "ok" THEN "mac" ELSE IF at' = "error" THEN "failed" ELSE "trunk"
      /\ VlansKnown
  BY DEF SplitVlans, At, KnownOfInput, Known
<1>2. /\ trunk = in.trunk /\ in.trunk # <<>> /\ in.vlan \in 0 .. MaxVlanId
      /\ TrunkIInv
  BY <1>1 DEF VlansKnown
<1>3. trunk' = trunk
  BY <1>1 DEF TrunkNext, ReadRange, AddRange, ReadId, RejectItem, FinishTrunk
<1>4. TrunkIInv'
  BY <1>1, <1>2, TrunkStep
<1>5. CASE at' = "error"
  <2>1. ~GoodVlans'
    BY <1>1, <1>2, <1>3, <1>4, <1>5 DEF TrunkIInv, TrunkExact, GoodVlans
  <2> QED
    BY <1>1, <1>3, <1>4, <1>5, <2>1, KnownAfterFailure
<1>6. CASE at' # "error"
  <2>1. VlansKnown'
    BY <1>1, <1>2, <1>3, <1>4, <1>6 DEF VlansKnown, PastTrunk
  <2> QED
    BY <1>1, <1>6, <2>1, KnownSame DEF PastName
<1> QED
  BY <1>5, <1>6

\* The MAC of the most specific source.
LEMMA KnownAfterChooseMac ==
  ASSUME KnownOfInput, ChooseMac
  PROVE  KnownOfInput'
<1>1. /\ in' = in /\ in \in Input /\ trunkVars' = trunkVars /\ vf' = vf /\ master' = master
      /\ pc = "mac" /\ TypeOK /\ VlansKnown /\ VfKnown /\ BridgeKnown /\ NameKnown
  BY DEF ChooseMac, Quiet, At, KnownOfInput, Known
<1>2. CASE in.envMac = Malformed
  <2>1. pc' = "failed" /\ out' = out /\ ~GoodArgs
    BY <1>2 DEF ChooseMac, GoodArgs, Fail, Goto
  <2> QED
    BY <1>1, <2>1, InputSame, TrunkSame, KnownAfterFailure DEF VlansKnown
<1>3. CASE in.envMac # Malformed
  <2> DEFINE mac == IF in.runtimeMac # Nil THEN in.runtimeMac
                    ELSE IF in.envMac # Nil THEN in.envMac ELSE in.mac
  <2>1. pc' = "bond" /\ out' = [out EXCEPT !.MAC = mac]
    BY <1>3 DEF ChooseMac, Goto, Sets
  <2>2. DOMAIN out = DOMAIN NoOut
    BY <1>1 DEF TypeOK
  <2>3. /\ DOMAIN out' = DOMAIN NoOut /\ out'.VFID = out.VFID /\ out'.PFName = out.PFName
        /\ out'.ActualBridge = out.ActualBridge /\ out'.MAC = mac
        /\ out'.IsUserspaceDriver = out.IsUserspaceDriver /\ out'.HostIFName = out.HostIFName
    BY <2>1, <2>2 DEF NoOut
  <2>4. TypeOK'
    BY <1>1, <2>1, <2>3, InputSame DEF TypeOK
  <2>5. VfKnown'
    BY <1>1, <2>1, <2>3, InputSame DEF VfKnown, PastVf
  <2>6. BridgeKnown'
    BY <1>1, <2>1, <2>3, InputSame DEF BridgeKnown, PastBridge
  <2>7. NameKnown'
    BY <1>1, <2>1, <2>3, InputSame DEF NameKnown, PastName
  <2>8. VlansKnown'
    BY <1>1, <2>1, VlansKnownApart
  <2>9. MacKnown'
    BY <1>1, <1>3, <2>1, <2>3 DEF MacKnown, HasMacMeant, GoodArgs
  <2> QED
    BY <1>1, <2>1, <2>4, <2>5, <2>6, <2>7, <2>8, <2>9
       DEF KnownOfInput, Known, UplinkKnown, AcceptsExactly
<1> QED
  BY <1>2, <1>3

\* The end: all that had to be in order has been found so.
LEMMA KnownAfterChooseUplink ==
  ASSUME KnownOfInput, ChooseUplink
  PROVE  KnownOfInput'
<1> DEFINE up == IF in.pf \in DOMAIN in.links THEN in.links[in.pf].master ELSE Nil
           uplink == IF up \in DOMAIN in.links /\ in.links[up].kind = "bond" THEN up ELSE in.pf
<1>1. /\ in' = in /\ in \in Input /\ trunkVars' = trunkVars /\ vf' = vf /\ master' = master
      /\ pc = "bond" /\ TypeOK /\ VlansKnown /\ VfKnown /\ BridgeKnown /\ NameKnown /\ MacKnown
      /\ pc' = "done" /\ out' = [out EXCEPT !.Uplink = uplink]
  BY DEF ChooseUplink, Quiet, At, Goto, Sets, KnownOfInput, Known
<1>2. DOMAIN out = DOMAIN NoOut
  BY <1>1 DEF TypeOK
<1> HIDE DEF uplink
<1>3. /\ DOMAIN out' = DOMAIN NoOut /\ out'.VFID = out.VFID /\ out'.PFName = out.PFName
      /\ out'.ActualBridge = out.ActualBridge /\ out'.MAC = out.MAC /\ out'.Uplink = uplink
      /\ out'.IsUserspaceDriver = out.IsUserspaceDriver /\ out'.HostIFName = out.HostIFName
  BY <1>1, <1>2 DEF NoOut
<1>4. TypeOK'
  BY <1>1, <1>3, InputSame DEF TypeOK
<1>5. VfKnown'
  BY <1>1, <1>3, InputSame DEF VfKnown, PastVf
<1>6. BridgeKnown'
  BY <1>1, <1>3, InputSame DEF BridgeKnown, PastBridge
<1>7. NameKnown'
  BY <1>1, <1>3, InputSame DEF NameKnown, PastName
<1>8. VlansKnown'
  BY <1>1, VlansKnownApart
<1>9. MacKnown'
  BY <1>1, <1>3, InputSame DEF MacKnown, HasMacMeant
<1>10. UplinkKnown'
  BY <1>1, <1>3 DEF UplinkKnown, uplink
<1>11. AcceptsExactly'
  <2>1. GoodVf'
    <3>1. in.deviceID # Nil /\ in.pf # Nil /\ VfOfPf
      BY <1>1 DEF VfKnown, PastVf, VfOfPf
    <3> QED
      BY <1>1, <3>1, InputSame DEF GoodVf
  <2>2. GoodBridge' /\ GoodDriver' /\ GoodArgs'
    BY <1>1, <1>6, <1>7, <1>9
       DEF BridgeKnown, NameKnown, MacKnown, PastBridge, PastName
  <2>3. GoodVlans'
    <3>1. /\ TrunkIInv' /\ trunk' = in'.trunk /\ in'.vlan \in 0 .. MaxVlanId
          /\ in'.trunk # <<>> => at' = "ok"
      BY <1>1, <1>8 DEF VlansKnown, PastTrunk
    <3>2. in'.trunk # <<>> => AllInOrder' /\ AllMeant' # {}
      BY <3>1 DEF TrunkIInv, TrunkExact
    <3> QED
      BY <3>1, <3>2, Zenon DEF GoodVlans
  <2> QED
    BY <1>1, <2>1, <2>2, <2>3 DEF AcceptsExactly
<1> QED
  BY <1>1, <1>4, <1>5, <1>6, <1>7, <1>8, <1>9, <1>10, <1>11 DEF KnownOfInput, Known

LEMMA KnownAfterNothing ==
  ASSUME KnownOfInput, UNCHANGED vars
  PROVE  KnownOfInput'
<1>1. /\ in' = in /\ pc' = pc /\ out' = out /\ vf' = vf /\ master' = master
      /\ trunkVars' = trunkVars /\ in \in Input /\ TypeOK /\ VfKnown /\ BridgeKnown /\ NameKnown
      /\ VlansKnown /\ MacKnown /\ UplinkKnown /\ AcceptsExactly
  BY DEF vars, trunkVars, KnownOfInput, Known
<1>2. TypeOK' /\ VfKnown'
  BY <1>1, InputSame DEF TypeOK, VfKnown
<1>3. BridgeKnown' /\ NameKnown'
  BY <1>1, InputSame DEF BridgeKnown, NameKnown
<1>4. VlansKnown'
  BY <1>1, TrunkSame DEF VlansKnown
<1>5. MacKnown' /\ UplinkKnown'
  BY <1>1, InputSame DEF MacKnown, HasMacMeant, UplinkKnown
<1>6. AcceptsExactly'
  BY <1>1, InputSame, TrunkSame DEF AcceptsExactly
<1> QED
  BY <1>1, <1>2, <1>3, <1>4, <1>5, <1>6 DEF KnownOfInput, Known

LEMMA KnownOfInputAlways == Spec => []KnownOfInput
<1>1. KnownOfInput /\ [Next]_vars => KnownOfInput'
  BY KnownAfterGetUplink, KnownAfterGetVfid, KnownAfterHandleBridge, KnownAfterFindBridge,
     KnownAfterGetName, KnownAfterCheckVlan, KnownAfterSplitVlans, KnownAfterChooseMac,
     KnownAfterChooseUplink, KnownAfterNothing
     DEF Next
<1> QED
  BY KnownAtFirst, <1>1, PTL DEF Spec

(***************************************************************************)
(* What follows.                                                           *)
(***************************************************************************)
\* What is known of the input and the output at each call of ParseConf is
\* known at every one of them: the inductive invariant of the theorems below.
THEOREM KnownAlways == Spec => []Known
<1>1. KnownOfInput => Known
  BY DEF KnownOfInput
<1> QED
  BY KnownOfInputAlways, <1>1, PTL

\* Nothing in the output is anything but of the input: the PF, an index, and
\* one of the bridges of the configuration (config.go:31-106).
THEOREM ConfTypes == Spec => []TypeOK
<1>1. KnownOfInput => TypeOK
  BY DEF KnownOfInput, Known
<1> QED
  BY KnownOfInputAlways, <1>1, PTL

\* A configuration is accepted exactly if VF, bridge, driver, VLANs and
\* arguments are in order (config.go:31-106), for any number of VFs, any gaps
\* among their links, any chain of masters and any trunk.
THEOREM AcceptedIffGood == Spec => []AcceptsExactly
<1>1. KnownOfInput => AcceptsExactly
  BY DEF KnownOfInput, Known
<1> QED
  BY KnownOfInputAlways, <1>1, PTL

\* ADD works with this VF's index, device and MAC, an allowed bridge, the
\* uplink's where several are allowed, and the VLANs the trunk means
\* (config.go:31-141, plugin.go:232-235).
THEOREM WorksWithItsOwn == Spec => []WorksWith
<1>1. KnownOfInput => WorksWith
  <2> SUFFICES ASSUME KnownOfInput, pc = "done" PROVE WorksWith
    BY DEF WorksWith
  <2>1. VfKnown /\ BridgeKnown /\ NameKnown /\ VlansKnown /\ MacKnown
    BY DEF KnownOfInput, Known
  <2>2. out.PFName = in.pf /\ in.virtfn[out.VFID] = in.deviceID
    BY <2>1 DEF VfKnown, PastVf
  <2>3. out.ActualBridge \in Allowed
        /\ (Len(AllowedBridges) > 1 => UplinkBridge = {out.ActualBridge})
    BY <2>1 DEF BridgeKnown, PastBridge
  <2>4. (out.IsUserspaceDriver <=> ~HasName) /\ (HasName => out.HostIFName = in.names[1])
    BY <2>1 DEF NameKnown, PastName
  <2>5. vlans = IF in.trunk = <<>> THEN {} ELSE AllMeant
    BY <2>1 DEF VlansKnown, PastTrunk, TrunkIInv, TrunkExact
  <2>6. HasMacMeant
    BY <2>1 DEF MacKnown
  <2> QED
    BY <2>2, <2>3, <2>4, <2>5, <2>6 DEF WorksWith
<1> QED
  BY KnownOfInputAlways, <1>1, PTL

\* splitVlanIds is exact where ParseConf calls it as well (config.go:85-91).
THEOREM TrunkExactInConf == Spec => []TrunkExact
<1>1. KnownOfInput => TrunkExact
  BY DEF KnownOfInput, Known, VlansKnown, TrunkIInv
<1> QED
  BY KnownOfInputAlways, <1>1, PTL

\* No bond is in a bond.  Linux does not rule it out: see UplinkPortOfBridge.
NoNestedBonds ==
  \A i \in Input : \A b \in DOMAIN i.links :
    i.links[b].kind = "bond" /\ i.links[b].master \in DOMAIN i.links =>
      i.links[i.links[b].master].kind # "bond"

\* Where the bridge was chosen among several, the uplink that gets the VLANs
\* is a port of it.  GetParentBridgeForLink climbs over any number of
\* links, GetParentBondForLink looks one up (netlink.go:153-177): they meet
\* because there is at most one bond between PF and bridge.  With a bond in
\* a bond the inner one would be the uplink and the outer one the port.
THEOREM UplinkPortOfBridge ==
  ASSUME NoNestedBonds
  PROVE  Spec => []UplinkIsPort
<1>1. KnownOfInput => UplinkIsPort
  <2> SUFFICES ASSUME KnownOfInput, pc = "done", Len(AllowedBridges) > 1,
                      \A l \in Above(in.pf) \ {in.pf} : in.links[l].kind \in {"bond", "bridge"}
               PROVE  in.links[out.Uplink].master = out.ActualBridge
    BY DEF UplinkIsPort
  <2> DEFINE links == in.links  pf == in.pf  m == links[pf].master
  <2>1. /\ Nil \notin DOMAIN links
        /\ pf \in DOMAIN links => links[pf].kind # "bridge"
        /\ {l \in Above(pf) : links[l].kind = "bridge"} = {out.ActualBridge}
        /\ out.Uplink = IF m \in DOMAIN links /\ links[m].kind = "bond" /\ pf \in DOMAIN links
                        THEN m ELSE pf
    BY InputFacts DEF KnownOfInput, Known, BridgeKnown, UplinkKnown, UplinkBridge, PastBridge
  <2>2. \A b \in DOMAIN links : links[b].kind = "bond" /\ links[b].master \in DOMAIN links =>
          links[links[b].master].kind # "bond"
    BY DEF NoNestedBonds, KnownOfInput
  <2>3. \A l : Above(l) = IF l \in DOMAIN links THEN {l} \cup Above(links[l].master) ELSE {}
    BY AboveUnfolds DEF Above
  <2>4. \A S \in SUBSET DOMAIN links :
          pf \in S /\ (\A k \in S : links[k].master \in S) => Above(pf) \subseteq S
    BY AboveIsLeast DEF Above
  <2>5. \A l \in Above(pf) \ {pf} : links[l].kind \in {"bond", "bridge"}
    OBVIOUS
  <2> HIDE DEF links, pf
  <2>6. /\ pf \in DOMAIN links /\ m \in DOMAIN links /\ m \in Above(pf)
        /\ out.ActualBridge \in Above(pf) /\ links[out.ActualBridge].kind = "bridge"
        /\ out.ActualBridge \in Above(m)
    BY <2>1, <2>3
  <2>7. m # pf
    <3>1. ASSUME m = pf PROVE Above(pf) \subseteq {pf}
      BY <2>4, <2>6, <3>1
    <3> QED
      BY <2>1, <2>6, <3>1
  <2>8. CASE links[m].kind = "bridge"
    BY <2>1, <2>6, <2>8 DEF links
  <2>9. CASE links[m].kind = "bond"
    <3> DEFINE top == links[m].master
    <3>1. out.Uplink = m
      BY <2>1, <2>6, <2>9
    <3>2. top \in DOMAIN links /\ top \in Above(pf)
      BY <2>3, <2>6, <2>9
    <3>3. top # pf
      <4>1. ASSUME top = pf PROVE Above(pf) \subseteq {pf, m}
        BY <2>4, <2>6, <4>1
      <4> QED
        BY <2>1, <2>6, <2>9, <4>1
    <3>4. links[top].kind = "bridge"
      <4>1. links[top].kind # "bond"
        BY <2>2, <2>6, <2>9, <3>2
      <4> QED
        BY <2>5, <3>2, <3>3, <4>1
    <3>5. top = out.ActualBridge
      BY <2>1, <3>2, <3>4
    <3> QED
      BY <3>1, <3>5 DEF links
  <2> QED
    BY <2>5, <2>6, <2>7, <2>8, <2>9
<1> QED
  BY KnownOfInputAlways, <1>1, PTL
=============================================================================
