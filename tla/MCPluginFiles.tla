---------------------------- MODULE MCPluginFiles ----------------------------
(***************************************************************************)
(* Two interfaces of one sandbox in one network for TLC, the name of one a *)
(* prefix of the other's, with dashes in the names.                        *)
(***************************************************************************)
EXTENDS PluginFiles, TLC

CONSTANTS a1, a2

MCWord == {"net", "x", "c1", "-"}
MCNetworkOf == a1 :> <<"net", "-", "x">> @@ a2 :> <<"net", "-", "x">>
MCContainerOf == a1 :> "c1" @@ a2 :> "c1"
MCIfnameOf == a1 :> <<"x">> @@ a2 :> <<"x", "-", "x">>

File(version, pci, rep) ==
  [version |-> version, pci |-> pci, rep |-> rep, rest |-> "rest"]

MCVersion == {"1.0.0", "1.1.0", "1.2.0"}

MCGiven ==
  {File("1.0.0", TRUE, NoRep), File("1.0.0", TRUE, a1), File("1.2.0", TRUE, "other"),
   File("1.0.0", FALSE, NoRep), File("missing", TRUE, NoRep), NoFile, Torn}
=============================================================================
