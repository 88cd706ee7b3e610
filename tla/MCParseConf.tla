----------------------------- MODULE MCParseConf -----------------------------
(***************************************************************************)
(* Inputs for TLC.  The parts of an input are read one after the other and *)
(* independently of each other, so each is varied on its own, the VLANs    *)
(* together with the `trunk' option; ids run up to 4 instead of 4094.      *)
(***************************************************************************)
EXTENDS ParseConf, TLC

CONSTANTS dev, other, pf, bond, lost, br1, br2, cni0, eth, eth2, macA, macB, macC

\* Items around both ends of the range: given or not, reversed, overlapping.
Bounds == {0, 1, 2, 4, 5, Nil}
It(min, max, id) == [minID |-> min, maxID |-> max, id |-> id]
MCItems == {It(min, max, id) : min \in Bounds, max \in Bounds, id \in {Nil, 1, 3, 5}}
MCSecond == {It(2, 3, Nil), It(Nil, Nil, 4), It(3, Nil, Nil), It(Nil, Nil, 0)}
MCTrunks == {<<>>} \cup {<<i>> : i \in MCItems} \cup {<<i, j>> : i \in MCItems, j \in MCSecond}

Link(kind, m) == [kind |-> kind, master |-> m]

\* The PF on br1, on br1 through a bond or a team, on nothing, on a bond on
\* nothing, below a master that cannot be read, and itself gone.
MCLinks ==
  LET bridges == (br1 :> Link("bridge", Nil)) @@ (br2 :> Link("bridge", Nil))
      With(m, b) == bridges @@ (pf :> Link("device", m)) @@ (bond :> Link("bond", b))
  IN  {With(br1, Nil), With(bond, br1), With(Nil, br2), With(bond, Nil),
       With(lost, br1), With(bond, lost), bridges,
       bridges @@ (pf :> Link("device", bond)) @@ (bond :> Link("team", br1))}

Base ==
  [deviceID |-> dev, pf |-> pf, numVfs |-> 2, virtfn |-> (0 :> other) @@ (1 :> dev),
   bridge |-> <<br1>>, links |-> CHOOSE l \in MCLinks : pf \in DOMAIN l /\ l[pf].master = br1,
   names |-> <<eth>>, driver |-> "mlx5_core", vlan |-> 0, trunk |-> <<>>,
   mac |-> macA, envMac |-> Nil, runtimeMac |-> Nil]

MCVfInputs ==
  {[Base EXCEPT !.deviceID = d, !.pf = p, !.numVfs = k, !.virtfn = f] :
     d \in {dev, Nil}, p \in {pf, Nil}, k \in {Nil, 0, 1, 2, 3},
     f \in [0 .. 3 -> {dev, other, Nil}]}

MCBridgeInputs ==
  {[Base EXCEPT !.bridge = b, !.links = l] : l \in MCLinks,
     b \in {<<>>, <<br1>>, <<br2>>, <<br1, br2>>, <<br2, br1>>, <<br2, cni0>>,
            <<br1, Blank>>, <<Blank>>, <<Blank, Blank>>}}

MCNameInputs ==
  {[Base EXCEPT !.names = s, !.driver = d, !.mac = a, !.envMac = b, !.runtimeMac = c] :
     s \in {<<eth>>, <<eth, eth2>>, <<>>, Nil}, d \in {VfioPci, "mlx5_core", Nil},
     a \in {macA, Nil}, b \in {macB, Malformed, Nil}, c \in {macC, Nil}}

MCVlanInputs ==
  {[Base EXCEPT !.vlan = x, !.trunk = t] : x \in {-1, 0, 4, 5}, t \in {<<>>, <<It(1, 4, Nil)>>}}
    \cup {[Base EXCEPT !.trunk = t] : t \in MCTrunks}

MCInput == MCVfInputs \cup MCBridgeInputs \cup MCNameInputs \cup MCVlanInputs
=============================================================================
